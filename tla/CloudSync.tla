------------------------------- MODULE CloudSync -------------------------------
(***************************************************************************)
(* `maghz cloud sync` and `maghz cloud restore` of admin/rails.py.  A sync *)
(* dumps the ledger and, for every remote at once, uploads the dump and    *)
(* bisyncs the content tree.  A restore downloads the dumps of the primary *)
(* remote, replays one of them and resyncs the tree with every remote.     *)
(* Both run under one deadline, which cuts whatever runs.                  *)
(*                                                                         *)
(* Every remote's bisync works on the same local tree: rclone lists both   *)
(* sides, compares them with the baseline its last good run on that pair   *)
(* left, and moves the differences; with --resync it forgets the baseline. *)
(* A file is added once and removed at most once, by a user at some site;  *)
(* what a later edit changes is a later file.  Of the ledger it matters    *)
(* only whether half a restore has torn it.                                *)
(***************************************************************************)
EXTENDS Integers, FiniteSets

CONSTANTS Remotes,      \* Remote
          Primary,      \* the remote that a restore reads
          Local,        \* cfg.cloud.content_root
          Files,        \* files of the content tree
          MaxEdits,     \* bound: files added or removed
          MaxRuns       \* bound: invocations

ASSUME CloudAssumption ==
  /\ IsFiniteSet(Remotes) /\ Primary \in Remotes /\ Local \notin Remotes
  /\ MaxEdits \in Nat /\ MaxRuns \in Nat

Sites == Remotes \cup {Local}

VARIABLES ledger,      \* whole, or torn by half a restore
          tree,        \* files at each site
          removed,     \* files some user has removed
          baseline,    \* what rclone last saw equal on a pair of trees
          primed,      \* pairs that have a baseline
          dumps,       \* dumps on each remote
          op, resync,  \* the operation in hand and its --resync
          stage,       \* where it is
          late,        \* its deadline has passed
          staged,      \* dumps in its temporary directory
          chosen,      \* the dump it uploads or replays
          lane,        \* where the unit of each remote is
          seen,        \* the two listings of its bisync
          began,       \* the local files when the operation began
          verdict,     \* the envelope of the last operation
          edits, runs,
          calm         \* good operations in a row, none disturbed by an edit

run == <<op, resync, stage, late, staged, chosen, lane, seen, began>>
world == <<ledger, tree, removed, baseline, primed, dumps>>
vars == <<world, run, verdict, edits, runs, calm>>

Ledger == {"whole", "torn"}
Dump == [stamp : Nat, ledger : Ledger]
NoDump == [stamp |-> 0, ledger |-> "torn"]
Ops == {"sync", "restore"}
Stages == {"idle", "dumping", "downloading", "choosing", "restoring", "fanned"}
Lanes == {"idle", "copying", "syncing", "moving", "ok", "failed"}
Nothing == [local |-> {}, remote |-> {}]
Verdict == [op : Ops, stamp : Nat, status : {"none", "ok", "failed", "faulted"},
            listed : SUBSET Remotes]

(* Trees that were never synced, or an installation at rest. *)
Init ==
  /\ ledger = "whole"
  /\ \/ primed = {} /\ tree = [s \in Sites |-> {}] /\ baseline = [r \in Remotes |-> {}]
     \/ \E F \in SUBSET Files : /\ primed = Remotes
                               /\ tree = [s \in Sites |-> F]
                               /\ baseline = [r \in Remotes |-> F]
  /\ removed = {} /\ began = {}
  /\ dumps = [r \in Remotes |-> {}]
  /\ op = "sync" /\ resync = FALSE /\ stage = "idle" /\ late = FALSE
  /\ staged = {} /\ chosen = NoDump
  /\ lane = [r \in Remotes |-> "idle"] /\ seen = [r \in Remotes |-> Nothing]
  /\ verdict = [op |-> "sync", stamp |-> 0, status |-> "none", listed |-> {}]
  /\ edits = 0 /\ runs = 0 /\ calm = 0

-------------------------------------------------------------------------------
(* Users, at any time.                                                      *)

Editing == edits < MaxEdits /\ edits' = edits + 1

(* `calm` is below zero while an operation runs that an edit has disturbed. *)
Disturb == calm' = IF stage = "idle" THEN 0 ELSE -1

Add(s, f) ==
  /\ Editing
  /\ \A x \in Sites : f \notin tree[x]
  /\ f \notin removed
  /\ tree' = [tree EXCEPT ![s] = @ \cup {f}]
  /\ Disturb
  /\ UNCHANGED <<ledger, removed, baseline, primed, dumps, run, verdict, runs>>

Remove(s, f) ==
  /\ Editing
  /\ f \in tree[s]
  /\ tree' = [tree EXCEPT ![s] = @ \ {f}]
  /\ removed' = removed \cup {f}
  /\ Disturb
  /\ UNCHANGED <<ledger, baseline, primed, dumps, run, verdict, runs>>

-------------------------------------------------------------------------------
(* The operation.                                                           *)

Start(o, force) ==
  /\ stage = "idle" /\ runs < MaxRuns
  /\ op' = o /\ resync' = (o = "restore" \/ force)
  /\ stage' = IF o = "sync" THEN "dumping" ELSE "downloading"
  /\ began' = tree[Local]
  /\ runs' = runs + 1
  /\ UNCHANGED <<world, late, staged, chosen, lane, seen, verdict, edits, calm>>

(* A resync counts as the first good run: to the other pairs, what it brings *)
(* back is as new as an edit.                                                *)
Settled(status) ==
  IF calm < 0 \/ status # "ok" THEN 0
  ELSE IF resync THEN 1
  ELSE IF calm < 2 THEN calm + 1 ELSE 2

(* Faulty variant: the removal is cancelled with the operation. *)
StagedAfterUnshielded == IF late THEN staged ELSE {}

(* _staging removes its directory in a shield, on every way out. *)
StagedAfter == {}

(* The operation ends with an envelope. *)
Finish(status, listed) ==
  /\ verdict' = [op |-> op, stamp |-> runs, status |-> status, listed |-> listed]
  /\ stage' = "idle" /\ late' = FALSE
  /\ staged' = StagedAfter /\ chosen' = NoDump
  /\ lane' = [r \in Remotes |-> "idle"] /\ seen' = [r \in Remotes |-> Nothing]
  /\ calm' = Settled(status)
  /\ UNCHANGED <<op, resync, began, edits, runs>>

(* What a unit does first. *)
Entry == IF op = "sync" THEN "copying" ELSE "syncing"

FanOut ==
  /\ stage' = "fanned"
  /\ lane' = [r \in Remotes |-> Entry]

(* pg_dump writes one snapshot; its file is named by the time of the run. *)
PgDump ==
  /\ stage = "dumping" /\ ~late
  /\ chosen' = [stamp |-> runs, ledger |-> ledger]
  /\ staged' = {chosen'}
  /\ FanOut
  /\ UNCHANGED <<world, op, resync, late, seen, began, verdict, edits, runs, calm>>

Download ==
  /\ stage = "downloading" /\ ~late
  /\ staged' = dumps[Primary]
  /\ stage' = "choosing"
  /\ UNCHANGED <<world, op, resync, late, chosen, lane, seen, began, verdict, edits, runs, calm>>

(* The first *.dump in the order of the directory, which is any order. *)
FirstDump ==
  /\ stage = "choosing" /\ ~late
  /\ \E d \in staged : chosen' = d
  /\ stage' = "restoring"
  /\ UNCHANGED <<world, op, resync, late, staged, lane, seen, began, verdict, edits, runs, calm>>

PgRestore ==
  /\ stage = "restoring" /\ ~late
  /\ ledger' = chosen.ledger
  /\ FanOut
  /\ UNCHANGED <<tree, removed, baseline, primed, dumps, op, resync, late, staged, chosen,
                 seen, began, verdict, edits, runs, calm>>

(* Faulty variant: a pg_restore that fails is a warning, as it is to pg_restore. *)
FailOnward ==
  IF stage = "restoring"
  THEN FanOut /\ UNCHANGED <<op, resync, late, staged, chosen, seen, began, verdict, edits, runs, calm>>
  ELSE Finish("faulted", {})

(* A tool that exits with an error ends the operation with a fault. *)
FailStep == Finish("faulted", {})

(* pg_restore -c is no transaction: it drops and loads until it fails or is *)
(* cut.  A restore also fails when it has downloaded no dump.               *)
StepFails ==
  /\ \/ stage \in {"dumping", "downloading", "restoring"}
     \/ stage = "choosing" /\ (staged = {} \/ late)
  /\ \/ UNCHANGED ledger
     \/ stage = "restoring" /\ ledger' = "torn"
  /\ UNCHANGED <<tree, removed, baseline, primed, dumps>>
  /\ FailStep

-------------------------------------------------------------------------------
(* The units of the fan-out, one for each remote (LaneDrain's lanes).       *)

Unit(r, phase) == lane' = [lane EXCEPT ![r] = phase]

Copy(r) ==
  /\ lane[r] = "copying" /\ ~late
  /\ dumps' = [dumps EXCEPT ![r] = @ \cup {chosen}]
  /\ Unit(r, "syncing")
  /\ UNCHANGED <<ledger, tree, removed, baseline, primed, op, resync, stage, late, staged,
                 chosen, seen, began, verdict, edits, runs, calm>>

(* Faulty variant: the upload's fault is logged and the bisync goes on. *)
AfterCopyFaultOnward == "syncing"

AfterCopyFault == "failed"

(* The upload may have been complete when it failed or was cut. *)
CopyFails(r) ==
  /\ lane[r] = "copying"
  /\ \/ UNCHANGED dumps
     \/ dumps' = [dumps EXCEPT ![r] = @ \cup {chosen}]
  /\ Unit(r, AfterCopyFault)
  /\ UNCHANGED <<ledger, tree, removed, baseline, primed, op, resync, stage, late, staged,
                 chosen, seen, began, verdict, edits, runs, calm>>

(* rclone lists both sides.  Without a baseline it wants a --resync. *)
List(r) ==
  /\ lane[r] = "syncing" /\ ~late
  /\ resync \/ r \in primed
  /\ seen' = [seen EXCEPT ![r] = [local |-> tree[Local], remote |-> tree[r]]]
  /\ Unit(r, "moving")
  /\ UNCHANGED <<world, op, resync, stage, late, staged, chosen, began, verdict, edits, runs, calm>>

(* A fault before rclone starts can be one that the lane retries: the unit *)
(* starts again, its upload included.                                      *)
Respawn(r) ==
  /\ lane[r] = "syncing" /\ op = "sync" /\ ~late
  /\ Unit(r, "copying")
  /\ UNCHANGED <<world, op, resync, stage, late, staged, chosen, seen, began, verdict,
                 edits, runs, calm>>

Base(r) == IF resync THEN {} ELSE baseline[r]

ToLocal(r) == (seen[r].remote \ Base(r)) \cap tree[r]
ToRemote(r) == (seen[r].local \ Base(r)) \cap tree[Local]
OffLocal(r) == Base(r) \ seen[r].remote
OffRemote(r) == Base(r) \ seen[r].local

(* The differences of the files in X are moved: copies, then deletions. *)
Move(r, X) ==
  tree' = [tree EXCEPT ![Local] = (@ \cup (ToLocal(r) \cap X)) \ (OffLocal(r) \cap X),
                       ![r] = (@ \cup (ToRemote(r) \cap X)) \ (OffRemote(r) \cap X)]

Bisync(r) ==
  /\ lane[r] = "moving" /\ ~late
  /\ Move(r, Files)
  /\ baseline' = [baseline EXCEPT ![r] =
       (Base(r) \ (OffLocal(r) \cup OffRemote(r))) \cup ToLocal(r) \cup ToRemote(r)]
  /\ primed' = primed \cup {r}
  /\ Unit(r, "ok")
  /\ UNCHANGED <<ledger, removed, dumps, op, resync, stage, late, staged, chosen, seen, began,
                 verdict, edits, runs, calm>>

(* --resilient and --recover: a run that fails or is cut leaves the baseline. *)
BisyncFails(r) ==
  /\ lane[r] \in {"syncing", "moving"}
  /\ \E X \in SUBSET Files : IF lane[r] = "moving" THEN Move(r, X) ELSE UNCHANGED tree
  /\ Unit(r, "failed")
  /\ UNCHANGED <<ledger, removed, baseline, primed, dumps, op, resync, stage, late, staged,
                 chosen, seen, began, verdict, edits, runs, calm>>

-------------------------------------------------------------------------------
(* The end of an operation.                                                 *)

Listed == {r \in Remotes : lane[r] = "ok"}
UnitsEnded == \A r \in Remotes : lane[r] \in {"ok", "failed"}

(* Faulty variant: one remote that completed is enough. *)
StatusOfSome == IF Listed = {} THEN "failed" ELSE "ok"

StatusOf == IF Listed = Remotes THEN "ok" ELSE "failed"

Complete ==
  /\ stage = "fanned" /\ ~late
  /\ UnitsEnded
  /\ Finish(StatusOf, Listed)
  /\ UNCHANGED world

(* Faulty variant: the operation has no deadline of its own. *)
NoBudget == FALSE

(* cloud runs its builder under cfg.cloud.op_timeout_s. *)
Budget == TRUE

Deadline ==
  /\ stage # "idle" /\ ~late /\ Budget
  /\ late' = TRUE
  /\ UNCHANGED <<world, op, resync, stage, staged, chosen, lane, seen, began, verdict,
                 edits, runs, calm>>

(* Past the deadline the drain returns no receipt: nothing is listed. *)
CutShort ==
  /\ stage = "fanned" /\ late
  /\ UnitsEnded
  /\ Finish("faulted", {})
  /\ UNCHANGED world

Cut == StepFails \/ (\E r \in Remotes : CopyFails(r) \/ BisyncFails(r)) \/ CutShort

Next ==
  \/ \E s \in Sites, f \in Files : Add(s, f) \/ Remove(s, f)
  \/ \E o \in Ops, force \in BOOLEAN : Start(o, force)
  \/ PgDump \/ Download \/ FirstDump \/ PgRestore \/ StepFails
  \/ \E r \in Remotes : \/ Copy(r) \/ CopyFails(r) \/ Respawn(r)
                        \/ List(r) \/ Bisync(r) \/ BisyncFails(r)
  \/ Complete \/ Deadline \/ CutShort

Spec == Init /\ [][Next]_vars

(* No tool need ever end by itself.  The deadline passes, what it cancels *)
(* stops, and a drain whose units have ended returns.                     *)
Fairness ==
  /\ WF_vars(Deadline)
  /\ WF_vars(late /\ Cut)
  /\ WF_vars(Complete)

FairSpec == Spec /\ Fairness

-------------------------------------------------------------------------------
(* Every variable has its type, and between operations no dump is left in a  *)
(* temporary directory, also when the deadline cut the last (rails.py        *)
(* 219-231).                                                                 *)
TypeOK ==
  /\ ledger \in Ledger
  /\ tree \in [Sites -> SUBSET Files] /\ removed \subseteq Files
  /\ baseline \in [Remotes -> SUBSET Files] /\ primed \subseteq Remotes
  /\ dumps \in [Remotes -> SUBSET Dump]
  /\ op \in Ops /\ resync \in BOOLEAN /\ stage \in Stages /\ late \in BOOLEAN
  /\ staged \subseteq Dump /\ chosen \in Dump
  /\ stage = "idle" => staged = {}
  /\ lane \in [Remotes -> Lanes]
  /\ seen \in [Remotes -> [local : SUBSET Files, remote : SUBSET Files]]
  /\ began \subseteq Files
  /\ verdict \in Verdict
  /\ edits \in 0..MaxEdits /\ runs \in 0..MaxRuns
  /\ calm \in -1..2

(* A remote the envelope lists holds what it claims: the dump of this sync, *)
(* and every file that was in the content tree when the operation began and *)
(* that nobody has removed, whatever the other remote's bisync did to the   *)
(* same tree meanwhile (rails.py 167-177, 282-288).                         *)
ListedIsBackedUp ==
  \A r \in verdict.listed :
    /\ verdict.op = "sync" => \E d \in dumps[r] : d.stamp = verdict.stamp
    /\ stage = "idle" => (began \ removed) \subseteq tree[r]

(* Two good operations in a row with no edit, the second without a resync,  *)
(* bring every remote and the local tree together.  One is not enough: the  *)
(* units share the local tree, and what one of them brings in the other may *)
(* have listed too early to take on (rails.py 182-190).                     *)
TwoGoodRunsConverge ==
  calm = 2 => \A r \in Remotes : tree[r] = tree[Local]

(* The tree is resynced only over a database that pg_restore has replayed;   *)
(* half a restore ends the operation (rails.py 265-270).                     *)
ResyncsFollowReplay ==
  stage = "fanned" /\ op = "restore" => ledger = chosen.ledger

(* An operation ends, though pg_dump, pg_restore and rclone may hang         *)
(* (rails.py 300-305).                                                       *)
OperationsEnd == stage # "idle" ~> stage = "idle"

(* "Restore the ledger from the latest remote dump" (admin/__main__.py 172). *)
(* It is the first the directory yields; see run cloud_restore.              *)
RestoresLatest ==
  stage = "restoring" => \A d \in staged : d.stamp <= chosen.stamp
===============================================================================
