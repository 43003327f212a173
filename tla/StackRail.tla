-------------------------------- MODULE StackRail --------------------------------
(* `maghz stack up | down | status` (admin/infra.py): one Pulumi stack for  *)
(* a stage, driven in a worker thread by an attempt that the PROC class     *)
(* repeats; after `up` the embedding model is pulled.  Pulumi and Docker    *)
(* are external: `recorded` is what the state file lists, `present` what    *)
(* the daemon has.                                                          *)
EXTENDS FaultAlgebra, Envelope, FiniteSets, TLC

CONSTANTS
  Stage,         \* "local" or "prd"
  MaxVerbs,      \* bound: invocations, one after another
  MaxVanished,   \* bound: containers removed behind Pulumi's back
  StackAttempts  \* attempts of a retry class (3 in the code)

ASSUME StackAssumption == Stage \in {"local", "prd"} /\ StackAttempts \in Nat \ {0}

VARIABLES
  verb,      \* the verb of the invocation, "none" before the first
  phase,     \* where it stands
  tries,     \* attempts of the offload, then of the pull
  engine,    \* the diagnostics in the attempt's sink
  emitted,   \* every diagnostic of the invocation, with its attempt
  recorded, present,
  stored,    \* the volumes that hold something; the model is in ollama-models
  verbs, vanished  \* counted for the bounds

stackVars == <<verb, phase, tries, engine, emitted, recorded, present, stored, verbs, vanished>>

(* The resources of _define, and what each one needs: a container its       *)
(* network and volume, the database its image too.                          *)
BaseMounts    == [ollama |-> "ollama-models", db |-> "maghz-data", hook |-> "hook-receipts"]
IngressMounts == [proxy |-> "caddy-data", doppler_mcp |-> "mcp-prefix"]

MountOf == IF Stage = "prd" THEN BaseMounts @@ IngressMounts ELSE BaseMounts

Containers == DOMAIN MountOf
Volumes    == {MountOf[c] : c \in Containers}
Resources  == {"maghz-pg", "maghz"} \cup Volumes \cup Containers

Deps(r) ==
  IF r \in Containers
  THEN {"maghz", MountOf[r]} \cup (IF r = "db" THEN {"maghz-pg"} ELSE {})
  ELSE {}

StackInit ==
  /\ verb = "none" /\ phase = "idle" /\ tries = 0
  /\ engine = {} /\ emitted = {}
  /\ recorded = {} /\ present = {} /\ stored = {}
  /\ verbs = 0 /\ vanished = 0

StackIdle == verb # "none" => exit # -1

stack(op) ==
  /\ StackIdle /\ verbs < MaxVerbs
  /\ verb' = op /\ verbs' = verbs + 1
  /\ phase' = "driving" /\ tries' = 1
  /\ engine' = {} /\ emitted' = {}
  /\ envelope' = "none" /\ exit' = -1
  /\ UNCHANGED <<recorded, present, stored, vanished>>

(* Between invocations the services fill their volumes, and a container can *)
(* be removed by hand.                                                      *)
Serve ==
  /\ StackIdle
  /\ stored' = stored \cup {MountOf[c] : c \in (Containers \cap present) \ {"ollama"}}
  /\ UNCHANGED <<verb, phase, tries, engine, emitted, recorded, present, verbs, vanished, envelopeVars>>

Vanish(c) ==
  /\ StackIdle /\ vanished < MaxVanished
  /\ c \in present
  /\ present' = present \ {c}
  /\ vanished' = vanished + 1
  /\ UNCHANGED <<verb, phase, tries, engine, emitted, recorded, stored, verbs, envelopeVars>>

-------------------------------------------------------------------------------
Collect(severities) ==
  /\ engine' = engine \cup {<<tries, s>> : s \in severities}
  /\ emitted' = emitted \cup {<<tries, s>> : s \in severities}

(* Faulty variant: `up` trusts the state file.                              *)
NoRefresh(severities) ==
  /\ phase = "driving" /\ verb = "up"
  /\ phase' = "refreshed"
  /\ Collect(severities)
  /\ UNCHANGED <<verb, tries, recorded, present, stored, verbs, vanished, envelopeVars>>

(* `up` first brings the state file to what the daemon has.                 *)
refresh(severities) ==
  /\ phase = "driving" /\ verb = "up"
  /\ phase' = "refreshed"
  /\ recorded' = recorded \cap present
  /\ Collect(severities)
  /\ UNCHANGED <<verb, tries, present, stored, verbs, vanished, envelopeVars>>

(* Every resource that is not recorded is created, unless it or one it      *)
(* needs fails; the failed ones emit an error and the others go on.         *)
_up(failing, severities) ==
  LET created == {r \in Resources \ recorded : ({r} \cup Deps(r)) \cap failing = {}}
  IN /\ phase = "refreshed"
     /\ failing \subseteq Resources \ recorded
     /\ failing # {} => "error" \in severities
     /\ phase' = "returned"
     /\ recorded' = recorded \cup created
     /\ present' = present \cup created
     /\ Collect(severities)
     /\ UNCHANGED <<verb, tries, stored, verbs, vanished, envelopeVars>>

(* Every recorded resource is deleted, volumes with what they hold, unless  *)
(* it or one that needs it fails.                                           *)
_down(failing, severities) ==
  LET deleted == {r \in recorded \ failing : \A f \in failing : r \notin Deps(f)}
  IN /\ phase = "driving" /\ verb = "down"
     /\ failing \subseteq recorded
     /\ failing # {} => "error" \in severities
     /\ phase' = "returned"
     /\ recorded' = recorded \ deleted
     /\ present' = present \ deleted
     /\ stored' = stored \ deleted
     /\ Collect(severities)
     /\ UNCHANGED <<verb, tries, verbs, vanished, envelopeVars>>

_preview(severities) ==
  /\ phase = "driving" /\ verb = "status"
  /\ phase' = "returned"
  /\ Collect(severities)
  /\ UNCHANGED <<verb, tries, recorded, present, stored, verbs, vanished, envelopeVars>>

StackFaults ==
  /\ phase' = "done" /\ fault
  /\ UNCHANGED <<verb, tries, engine, emitted, recorded, present, stored, verbs, vanished, exit>>

(* Faulty variant: the attempts share one sink.                             *)
OffloadShared(cause) ==
  /\ phase \in {"driving", "refreshed", "returned"}
  /\ \/ /\ Target("proc", cause) /\ tries < StackAttempts
        /\ tries' = tries + 1 /\ phase' = "driving"
        /\ UNCHANGED <<verb, engine, emitted, recorded, present, stored, verbs, vanished, envelopeVars>>
     \/ StackFaults

(* The attempt ends on an exception: an OSError is repeated with a sink of  *)
(* its own, a CommandError of Pulumi is not, nor is anything once attempts  *)
(* or time run out.                                                         *)
_offload(cause) ==
  /\ phase \in {"driving", "refreshed", "returned"}
  /\ \/ /\ Target("proc", cause) /\ tries < StackAttempts
        /\ tries' = tries + 1 /\ phase' = "driving" /\ engine' = {}
        /\ UNCHANGED <<verb, emitted, recorded, present, stored, verbs, vanished, envelopeVars>>
     \/ StackFaults

graded == IF \E d \in engine : d[2] = "error" THEN "failed" ELSE "ok"

(* The diagnostics are graded; `up` has its model to pull first.            *)
_project ==
  /\ phase = "returned"
  /\ IF verb = "up" THEN phase' = "pull_1" /\ UNCHANGED envelope
                    ELSE phase' = "done" /\ completed(graded)
  /\ UNCHANGED <<verb, tries, engine, emitted, recorded, present, stored, verbs, vanished, exit>>

(* The pull streams its frames to the end; an error frame or status is not  *)
(* repeated, a server that does not answer yet is.                          *)
Pulling == phase \in {"pull_1", "pull_2"}

_pull_embed_model ==
  /\ Pulling /\ "ollama" \in present
  /\ phase' = "done"
  /\ stored' = stored \cup {"ollama-models"}
  /\ completed(graded)
  /\ UNCHANGED <<verb, tries, engine, emitted, recorded, present, verbs, vanished, exit>>

PullFails(cause) ==
  /\ Pulling
  /\ \/ /\ Target("http", cause) /\ phase = "pull_1"
        /\ phase' = "pull_2"
        /\ UNCHANGED <<verb, tries, engine, emitted, recorded, present, stored, verbs, vanished, envelopeVars>>
     \/ StackFaults

StackEmit == verb # "none" /\ main /\ UNCHANGED stackVars

(* One resource fails at a time.                                            *)
Failing == {{}} \cup {{r} : r \in Resources}

StackNext ==
  \/ \E op \in {"up", "down", "status"} : stack(op)
  \/ Serve \/ \E c \in Containers : Vanish(c)
  \/ \E severities \in SUBSET {"warning", "error"} :
       \/ refresh(severities) \/ _preview(severities)
       \/ \E failing \in Failing : _up(failing, severities) \/ _down(failing, severities)
  \/ \E cause \in {"FileNotFoundError", "TerminalError"} : _offload(cause)
  \/ _project \/ _pull_embed_model \/ StackEmit
  \/ \E cause \in {"ConnectError", "HTTPStatusError", "HTTPError"} : PullFails(cause)

StackSpec == StackInit /\ EnvelopeInit /\ [][StackNext]_<<stackVars, envelopeVars>>

-------------------------------------------------------------------------------
(* An `up` that reports ok has left every resource of its stage in the      *)
(* daemon and the model in its volume, whatever was removed by hand, failed *)
(* or was repeated before (infra.py 445-489).                               *)
UpOkMeansConverged ==
  verb = "up" /\ envelope = "ok" /\ exit = -1 =>
    present = Resources /\ "ollama-models" \in stored

(* The grade comes from the attempt that returned: an error in it is never  *)
(* dropped, and one of an earlier attempt never taken over (infra.py        *)
(* 433-442).                                                                *)
DiagnosticsAreOwn ==
  verb # "none" /\ envelope \in {"ok", "failed"} =>
    (envelope = "failed" <=> <<tries, "error">> \in emitted)

(* What __main__.py says of `stack down`: it preserves the named volumes.   *)
VolumesSurviveDown ==
  [][verb = "down" => stored \subseteq stored']_stackVars
================================================================================
