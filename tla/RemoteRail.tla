------------------------------- MODULE RemoteRail -------------------------------
(* `maghz remote exec` (admin/remote.py): the tracked working tree is       *)
(* listed, pushed directory by directory, the command is run on it and the  *)
(* workroot pulled back, while somebody edits and commits the local tree.   *)
(* A content is a number, 0 a file that is not there; a commit is what it   *)
(* holds.                                                                   *)
EXTENDS FaultAlgebra, Envelope, FiniteSets

CONSTANTS
  Files,         \* the files of the tree
  Lfs,           \* those with the lfs filter
  Dirs,          \* the directories
  DirOf,         \* the directory of each file
  PushCapacity,  \* directories pushed at once (sftp_push_concurrency)
  SshAttempts,   \* attempts of the HTTP class (5 in the code)
  MaxExecs,      \* bound: invocations, one after another
  MaxEdits       \* bound: edits, deletions and commits of the local tree

ASSUME RemoteAssumption ==
  /\ DirOf \in [Files -> Dirs] /\ Lfs \subseteq Files
  /\ IsFiniteSet(Files)
  /\ {PushCapacity, SshAttempts} \subseteq Nat \ {0}

VARIABLES
  tree, head,      \* the local files, and HEAD
  remote,          \* the files in the workroot
  leg,             \* where the invocation stands
  manifest,        \* the files to push
  commit,          \* HEAD as the prelude read it
  dials,           \* attempts to connect
  dirs,            \* the push unit of each directory
  arrived, failed, \* files put in this invocation, and those an error kept
  pushed, pulled,  \* the receipt's count, and whether anything was pulled
  ran,             \* starts of the command in this invocation
  quiet,           \* the tree was HEAD when listed, and nobody changed it since
  execs, edits     \* counted for the bounds

localVars  == <<tree, head, edits>>
pushVars   == <<dirs, arrived, failed, pushed, remote>>
remoteVars == <<localVars, pushVars, leg, manifest, commit, dials, pulled, ran, quiet, execs>>

RemoteInit ==
  /\ tree = [f \in Files |-> 1] /\ head = tree
  /\ remote = [f \in Files |-> 0]
  /\ leg = "idle"
  /\ manifest = {} /\ commit = head /\ dials = 0
  /\ dirs = [d \in Dirs |-> "queued"]
  /\ arrived = {} /\ failed = {} /\ pushed = 0 /\ pulled = FALSE
  /\ ran = 0 /\ quiet = FALSE
  /\ execs = 0 /\ edits = 0

FilesOf(d) == {f \in manifest : DirOf[f] = d}

-------------------------------------------------------------------------------
(* The local tree changes: a file is rewritten or deleted, or committed.    *)
Change ==
  /\ edits < MaxEdits
  /\ edits' = edits + 1
  /\ \/ \E f \in Files : \E content \in {0, tree[f] + 1} :
          /\ content # tree[f]
          /\ tree' = [tree EXCEPT ![f] = content]
          /\ UNCHANGED head
     \/ tree # head /\ head' = tree /\ UNCHANGED tree
  /\ quiet' = FALSE
  /\ UNCHANGED <<pushVars, leg, manifest, commit, dials, pulled, ran, execs, envelopeVars>>

remote_exec ==
  /\ execs < MaxExecs
  /\ execs > 0 => exit # -1
  /\ execs' = execs + 1
  /\ leg' = "listing"
  /\ manifest' = {} /\ dials' = 0
  /\ dirs' = [d \in Dirs |-> "queued"]
  /\ arrived' = {} /\ failed' = {} /\ pushed' = 0 /\ pulled' = FALSE
  /\ ran' = 0 /\ quiet' = FALSE
  /\ envelope' = "none" /\ exit' = -1
  /\ UNCHANGED <<localVars, commit, remote>>

RemoteFaults ==
  /\ leg' = "done" /\ fault
  /\ UNCHANGED <<localVars, pushVars, manifest, commit, dials, pulled, ran, quiet, execs, exit>>

(* The target, the environment or a git probe is at fault: nothing has been *)
(* opened yet.                                                              *)
PreludeFails == leg \in {"listing", "listed", "attributed"} /\ RemoteFaults

(* git ls-files lists the index, a file deleted in the tree included.       *)
_manifest ==
  /\ leg = "listing"
  /\ manifest' = {f \in Files : head[f] # 0}
  /\ leg' = IF manifest' = {} THEN "attributed" ELSE "listed"
  /\ quiet' = (tree = head)
  /\ UNCHANGED <<localVars, pushVars, commit, dials, pulled, ran, execs, envelopeVars>>

_split ==
  /\ leg = "listed"
  /\ leg' = "attributed"
  /\ manifest' = manifest \ Lfs
  /\ UNCHANGED <<localVars, pushVars, commit, dials, pulled, ran, quiet, execs, envelopeVars>>

_commit ==
  /\ leg = "attributed"
  /\ leg' = "connecting"
  /\ commit' = head
  /\ dials' = 1
  /\ UNCHANGED <<localVars, pushVars, manifest, pulled, ran, quiet, execs, envelopeVars>>

_open ==
  /\ leg = "connecting"
  /\ leg' = "pushing"
  /\ UNCHANGED <<localVars, pushVars, manifest, commit, dials, pulled, ran, quiet, execs, envelopeVars>>

(* The connect alone is repeated, and only on what is transient.            *)
ConnectFails(cause) ==
  /\ leg = "connecting"
  /\ \/ /\ Target("http", cause) /\ dials < SshAttempts
        /\ dials' = dials + 1
        /\ UNCHANGED <<localVars, pushVars, leg, manifest, commit, pulled, ran, quiet, execs, envelopeVars>>
     \/ RemoteFaults

(* The sftp client does not start, or the workroot cannot be made.          *)
WorkrootFails ==
  /\ leg = "pushing"
  /\ \A d \in Dirs : dirs[d] = "queued"
  /\ RemoteFaults

-------------------------------------------------------------------------------
(* push: one unit for each directory, under the lane's limiter.             *)
Busy == {d \in Dirs : dirs[d] = "putting"}

_dir(d) ==
  /\ leg = "pushing" /\ dirs[d] = "queued" /\ FilesOf(d) # {}
  /\ Cardinality(Busy) < PushCapacity
  /\ \E made \in BOOLEAN : dirs' = [dirs EXCEPT ![d] = IF made THEN "putting" ELSE "noted"]
  /\ UNCHANGED <<localVars, remote, arrived, failed, pushed, leg, manifest, commit, dials, pulled, ran,
                 quiet, execs, envelopeVars>>

(* A file is read as it is now; the error handler keeps the one that fails. *)
put(f) ==
  /\ leg = "pushing" /\ f \in manifest \ (arrived \cup failed) /\ dirs[DirOf[f]] = "putting"
  /\ \/ /\ tree[f] # 0
        /\ remote' = [remote EXCEPT ![f] = tree[f]]
        /\ arrived' = arrived \cup {f}
        /\ UNCHANGED failed
     \/ failed' = failed \cup {f} /\ UNCHANGED <<remote, arrived>>
  /\ UNCHANGED <<localVars, dirs, pushed, leg, manifest, commit, dials, pulled, ran, quiet, execs, envelopeVars>>

(* Faulty variant: a directory counts every file it was given.              *)
PutAll(d) ==
  /\ dirs[d] = "putting" /\ FilesOf(d) \subseteq arrived \cup failed
  /\ dirs' = [dirs EXCEPT ![d] = "put"]
  /\ pushed' = pushed + Cardinality(FilesOf(d))
  /\ UNCHANGED <<localVars, remote, arrived, failed, leg, manifest, commit, dials, pulled, ran, quiet,
                 execs, envelopeVars>>

PutEnds(d) ==
  /\ dirs[d] = "putting" /\ FilesOf(d) \subseteq arrived \cup failed
  /\ dirs' = [dirs EXCEPT ![d] = "put"]
  /\ pushed' = pushed + Cardinality(FilesOf(d)) - Cardinality(FilesOf(d) \cap failed)
  /\ UNCHANGED <<localVars, remote, arrived, failed, leg, manifest, commit, dials, pulled, ran, quiet,
                 execs, envelopeVars>>

(* The drain has settled every unit; faults are only notes.                 *)
push ==
  /\ leg = "pushing"
  /\ \A d \in Dirs : FilesOf(d) # {} => dirs[d] \in {"put", "noted"}
  /\ leg' = "running"
  /\ UNCHANGED <<localVars, pushVars, manifest, commit, dials, pulled, ran, quiet, execs, envelopeVars>>

(* Faulty variant: a connection lost under the command is dialled again.    *)
RunRedialled(result) ==
  /\ leg = "running"
  /\ ran' = IF result = "refused" THEN ran ELSE ran + 1
  /\ leg' = CASE result = "zero" -> "pulling" [] result = "lost" /\ ran = 0 -> "connecting" [] OTHER -> "done"
  /\ envelope' = IF leg' = "done" THEN "faulted" ELSE "none"
  /\ UNCHANGED <<localVars, pushVars, manifest, commit, dials, pulled, quiet, execs, exit>>

(* The command is started once: it exits with 0, or with another status and *)
(* raises, or the connection goes before or after it started.               *)
run(result) ==
  /\ leg = "running"
  /\ ran' = IF result = "refused" THEN ran ELSE ran + 1
  /\ IF result = "zero" THEN leg' = "pulling" /\ UNCHANGED envelope
                        ELSE leg' = "done" /\ fault
  /\ UNCHANGED <<localVars, pushVars, manifest, commit, dials, pulled, quiet, execs, exit>>

(* mget: what cannot be pulled is a note; a lost connection is a fault.     *)
Pull ==
  /\ leg = "pulling"
  /\ pulled' \in BOOLEAN
  /\ leg' = "done"
  /\ \E status \in {"ok", "faulted"} : completed(status)
  /\ UNCHANGED <<localVars, pushVars, manifest, commit, dials, ran, quiet, execs, exit>>

RemoteEmit == execs > 0 /\ main /\ UNCHANGED remoteVars

RemoteNext ==
  \/ Change \/ remote_exec
  \/ PreludeFails \/ _manifest \/ _split \/ _commit \/ _open
  \/ \E cause \in {"ConnectionLost", "PermissionDenied", "ConnectionFailed"} : ConnectFails(cause)
  \/ \E d \in Dirs : _dir(d) \/ PutEnds(d)
  \/ \E f \in Files : put(f)
  \/ WorkrootFails \/ push \/ \E result \in {"zero", "nonzero", "lost", "refused"} : run(result)
  \/ Pull \/ RemoteEmit

RemoteSpec == RemoteInit /\ EnvelopeInit /\ [][RemoteNext]_<<remoteVars, envelopeVars>>

-------------------------------------------------------------------------------
(* When the command starts, the receipt's count is the number of files that *)
(* really arrived; and when that is all of them and nobody touched a clean  *)
(* tree since the listing, the command runs on the very files of the commit *)
(* the receipt names, whatever earlier pushes left (remote.py 250-299,      *)
(* 403-413).                                                                *)
ReceiptIsTrue ==
  leg = "running" =>
    /\ pushed = Cardinality(arrived)
    /\ quiet /\ pushed = Cardinality(manifest) =>
         \A f \in manifest : remote[f] = commit[f]

(* One invocation starts the command at most once, whatever is repeated;    *)
(* it pulls and reports ok only after the command exited with 0, and a      *)
(* command never runs while a directory is still being pushed (remote.py    *)
(* 236-248, 438-458).                                              *)
CommandRunsOnce ==
  /\ ran <= 1
  /\ pulled \/ (execs > 0 /\ envelope = "ok") => ran = 1
  /\ ran = 1 => Busy = {}
================================================================================
