------------------------------ MODULE Automation ------------------------------
(***************************************************************************)
(* One `maghz automation run` of admin/automation.py: the task group of    *)
(* `drive`, in which a schedule or watch lane takes fires one at a time    *)
(* from its source, gates, runs and ledgers them, beside skip tasks that   *)
(* ledger what was gated, and a signal lane that cancels the group; or the *)
(* manual lane, which runs one fire and returns.                           *)
(*                                                                         *)
(* A fire is a scheduled tick or a file change.  Fires are numbered in the *)
(* order they happen; those of the same watch batch share one admission    *)
(* and one ledger line.  What a run does is LaneDrain's and the action's;  *)
(* here it ends ok, with a fault, or at the deadline.                      *)
(***************************************************************************)
EXTENDS Integers, FiniteSets

CONSTANTS Triggers,       \* the triggers of the specs that are driven
          FireBuffer,     \* _FIRE_BUFFER
          MaxFires,       \* bound: fires
          DiskMayFail     \* whether an append to the ledger may raise

ASSUME AutomationAssumption ==
  /\ Triggers \subseteq {"manual", "watch", "schedule"}
  /\ FireBuffer \in Nat \ {0} /\ MaxFires \in Nat
  /\ DiskMayFail \in BOOLEAN

Fires == 1..MaxFires

VARIABLES trigger,    \* the spec's trigger
          fate,       \* what became of each fire
          lines,      \* the ledger: lines that stand for a fire
          lane,       \* where the lane task is
          current,    \* the batch it runs or records
          outcome,    \* the lane's own `outcome`
          skips,      \* batches whose skip task has not ended
          stop,       \* why the task group is being cancelled
          exit        \* how the process ended

vars == <<trigger, fate, lines, lane, current, outcome, skips, stop, exit>>

Ends == {"ran", "failed", "late"}
Fates == {"none", "queued", "dropped", "gated", "missed", "working", "cut"} \cup Ends
Lanes == {"starting", "waiting", "draining", "recording", "skipping", "returned", "stopped"}
Outcomes == {"none", "gate"} \cup Ends
Stops == {"no", "signal", "failure"}
Exits == {"running", "ok", "skip", "faulted", "unbound"}

Init ==
  /\ trigger \in Triggers
  /\ fate = [n \in Fires |-> "none"]
  /\ lines = [n \in Fires |-> 0]
  /\ lane = IF trigger = "watch" THEN "starting" ELSE "waiting"
  /\ current = {} /\ skips = {}
  /\ outcome = "none" /\ stop = "no" /\ exit = "running"

-------------------------------------------------------------------------------
(* The source of fires.                                                     *)

Queued == {n \in Fires : fate[n] = "queued"}
Standing == trigger # "manual"
Alive == lane \notin {"returned", "stopped"}

(* A tick goes into the fire stream, and is dropped when that is full; file *)
(* changes gather in the watcher until the lane asks for the next batch; a  *)
(* manual spec fires once.                                                  *)
Release(n) ==
  /\ Alive /\ fate[n] = "none"
  /\ \A m \in Fires : m < n => fate[m] # "none"
  /\ trigger = "manual" => n = 1
  /\ fate' = [fate EXCEPT ![n] =
                IF trigger = "schedule" /\ Cardinality(Queued) >= FireBuffer
                THEN "dropped" ELSE "queued"]
  /\ UNCHANGED <<trigger, lines, lane, current, outcome, skips, stop, exit>>

(* Faulty variants: the whole backlog at once; the latest fire first. *)
BatchOfAll == Queued
BatchOfLatest ==
  IF trigger = "watch" THEN Queued ELSE {n \in Queued : \A m \in Queued : m <= n}

Batch == IF trigger = "watch" THEN Queued ELSE {n \in Queued : \A m \in Queued : n <= m}

Mark(S, f) == fate' = [n \in Fires |-> IF n \in S THEN f ELSE fate[n]]

(* _watch_lane: every path exists, or the lane returns its fault. *)
CheckPaths ==
  /\ lane = "starting"
  /\ \/ lane' = "waiting" /\ UNCHANGED outcome
     \/ lane' = "returned" /\ outcome' = "failed"
  /\ UNCHANGED <<trigger, fate, lines, current, skips, stop, exit>>

Admit ==
  /\ lane = "waiting" /\ Queued # {} /\ stop = "no"
  /\ lane' = "draining"
  /\ current' = Batch
  /\ Mark(Batch, "working")
  /\ UNCHANGED <<trigger, lines, outcome, skips, stop, exit>>

(* Faulty variant: the gated batch starts no skip task. *)
SkipsUnstarted(b) == skips

SkipsWith(b) == skips \cup {b}

(* Faulty variant: the empty receipt of a gated batch is folded like any other. *)
OutcomeFolded == "late"

(* accepted == 0: continue *)
OutcomeKept == outcome

(* Over a ceiling, or a tick released too late: a standing lane starts a    *)
(* skip task and goes on, the manual lane ledgers the skip itself.          *)
Gate(f) ==
  /\ lane = "waiting" /\ Queued # {} /\ stop = "no"
  /\ f = "missed" => trigger = "schedule"
  /\ Mark(Batch, f)
  /\ IF Standing
     THEN skips' = SkipsWith(Batch) /\ outcome' = OutcomeKept /\ UNCHANGED <<lane, current>>
     ELSE lane' = "skipping" /\ current' = Batch /\ UNCHANGED <<skips, outcome>>
  /\ UNCHANGED <<trigger, lines, stop, exit>>

-------------------------------------------------------------------------------
(* A run and its record.                                                    *)

Line(b) == lines' = [n \in Fires |-> IF n \in b THEN lines[n] + 1 ELSE lines[n]]

AfterRun == IF Standing THEN "waiting" ELSE "returned"

(* Faulty variant: the policy of the lane has no deadline. *)
NoDeadline == FALSE

(* drive gives the policy of the lane a deadline. *)
Deadline == TRUE

(* The drain returns; only a receipt with a value is ledgered. *)
EndDrain(e) ==
  /\ lane = "draining" /\ stop = "no"
  /\ e = "late" => Deadline
  /\ Mark(current, e)
  /\ IF e = "ran"
     THEN lane' = "recording" /\ UNCHANGED <<outcome, current>>
     ELSE lane' = AfterRun /\ outcome' = e /\ current' = {}
  /\ UNCHANGED <<trigger, lines, skips, stop, exit>>

Record ==
  /\ lane = "recording"
  /\ Line(current)
  /\ lane' = AfterRun /\ outcome' = "ran" /\ current' = {}
  /\ UNCHANGED <<trigger, fate, skips, stop, exit>>

(* _manual_lane ledgers its skip and returns the gate. *)
RecordGate ==
  /\ lane = "skipping"
  /\ Line(current)
  /\ lane' = "returned" /\ outcome' = "gate" /\ current' = {}
  /\ UNCHANGED <<trigger, fate, skips, stop, exit>>

(* An append raises: the exception leaves the lane and cancels the group. *)
RecordFails ==
  /\ DiskMayFail
  /\ lane \in {"recording", "skipping"}
  /\ lane' = "stopped" /\ stop' = "failure" /\ current' = {}
  /\ UNCHANGED <<trigger, fate, lines, outcome, skips, exit>>

(* _ledger_skip *)
Skip(b) ==
  /\ b \in skips
  /\ Line(b)
  /\ skips' = skips \ {b}
  /\ UNCHANGED <<trigger, fate, lane, current, outcome, stop, exit>>

SkipFails(b) ==
  /\ DiskMayFail
  /\ b \in skips
  /\ skips' = skips \ {b}
  /\ stop' = "failure"
  /\ UNCHANGED <<trigger, fate, lines, lane, current, outcome, exit>>

-------------------------------------------------------------------------------
(* The end of the task group.                                               *)

(* _signal_lane *)
Signal ==
  /\ Standing /\ Alive /\ stop = "no"
  /\ stop' = "signal"
  /\ UNCHANGED <<trigger, fate, lines, lane, current, outcome, skips, exit>>

(* The cancelled lane stops where it awaits: the action is cut, and an append *)
(* is made, Record, if its thread has started, and left out if not.           *)
CancelLane ==
  /\ stop # "no" /\ Alive
  /\ lane' = "stopped" /\ current' = {}
  /\ IF lane = "draining" THEN Mark(current, "cut") ELSE UNCHANGED fate
  /\ UNCHANGED <<trigger, lines, outcome, skips, stop, exit>>

CancelSkip(b) ==
  /\ stop # "no" /\ b \in skips
  /\ skips' = skips \ {b}
  /\ UNCHANGED <<trigger, fate, lines, lane, current, outcome, stop, exit>>

(* The envelope.  After a cancelled lane `drive` has assigned no outcome, and *)
(* its match raises UnboundLocalError, which `main` turns into a fault.       *)
Envelope ==
  CASE stop = "failure"   -> "faulted"
    [] lane = "stopped"   -> "unbound"
    [] outcome = "ran"    -> "ok"
    [] outcome = "gate"   -> "skip"
    [] OTHER              -> "faulted"

Exit ==
  /\ ~Alive /\ skips = {} /\ exit = "running"
  /\ exit' = Envelope
  /\ UNCHANGED <<trigger, fate, lines, lane, current, outcome, skips, stop>>

Next ==
  \/ \E n \in Fires : Release(n)
  \/ CheckPaths \/ Admit \/ (\E f \in {"gated", "missed"} : Gate(f))
  \/ (\E e \in Ends : EndDrain(e)) \/ Record \/ RecordGate \/ RecordFails
  \/ \E b \in skips : Skip(b) \/ SkipFails(b) \/ CancelSkip(b)
  \/ Signal \/ CancelLane \/ Exit

Spec == Init /\ [][Next]_vars

(* The event loop runs the lane and its tasks, and the deadline passes. The *)
(* action itself need not end.                                              *)
Fairness ==
  /\ WF_vars(CheckPaths)
  /\ WF_vars(Admit \/ \E f \in {"gated", "missed"} : Gate(f))
  /\ WF_vars(EndDrain("late"))
  /\ WF_vars(Record) /\ WF_vars(RecordGate) /\ WF_vars(CancelLane)
  /\ \A b \in SUBSET Fires : WF_vars(Skip(b) \/ CancelSkip(b))
  /\ WF_vars(Exit)

FairSpec == Spec /\ Fairness

-------------------------------------------------------------------------------
(* Every variable has its type, and the lane works on one batch, which has *)
(* more than one fire only for a watch (feed drains a batch before it asks *)
(* for the next, runtime.py 819-823).                                      *)
TypeOK ==
  /\ trigger \in Triggers
  /\ fate \in [Fires -> Fates]
  /\ lines \in [Fires -> {0, 1}]
  /\ lane \in Lanes
  /\ current \subseteq Fires
  /\ trigger # "watch" => Cardinality(current) <= 1
  /\ outcome \in Outcomes
  /\ skips \subseteq SUBSET Fires
  /\ stop \in Stops
  /\ exit \in Exits

(* As long as nothing cancels the group, the ledger has exactly one line    *)
(* for a fire that ran or was skipped, or its one line is on its way, and   *)
(* none for any other fire (automation.py 221, 317-336, 376-378).           *)
LedgerAccounts ==
  \A n \in Fires :
    LET due == (IF lane \in {"recording", "skipping"} /\ n \in current THEN 1 ELSE 0)
               + Cardinality({b \in skips : n \in b})
    IN IF fate[n] \in {"ran", "gated", "missed"}
       THEN lines[n] + due = 1 \/ (stop # "no" /\ lines[n] + due = 0)
       ELSE lines[n] + due = 0

(* What the lane would report is its latest run: a tick that was gated or   *)
(* missed, in between or after, does not disturb it (automation.py 376-379, *)
(* 395-398).                                                                *)
OutcomeIsLatestRun ==
  lane = "waiting" =>
    LET runs == {n \in Fires : fate[n] \in Ends}
    IN IF runs = {} THEN outcome = "none"
       ELSE \E n \in runs : (\A m \in runs : m <= n) /\ outcome = fate[n]

(* Fires are taken in the order they happened: none waits while a later one *)
(* is run or skipped (runtime.py 585-593, 819-823).                         *)
FiresInOrder ==
  \A m, n \in Fires :
    m < n /\ fate[m] = "queued" => fate[n] \in {"none", "queued", "dropped"}

(* Every fire in the buffer is taken, behind however slow an action, unless *)
(* the run ends first (automation.py 427-429).                              *)
FiresSettle ==
  \A n \in Fires : fate[n] = "queued" ~> fate[n] # "queued" \/ exit # "running"

(* "long-running lanes ... ledger accepted work before shutdown"            *)
(* (docs/standards/ops-doctrine.md 153).  They do not: see run              *)
(* automation_shutdown.                                                     *)
AcceptedIsLedgered ==
  exit # "running" /\ stop = "signal" =>
    \A n \in Fires : fate[n] \in {"ran", "cut"} => lines[n] = 1
===============================================================================
