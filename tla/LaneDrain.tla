------------------------------- MODULE LaneDrain -------------------------------
(***************************************************************************)
(* LanePolicy.drain of admin/runtime.py: the one way this program runs     *)
(* work concurrently.  A drain starts one lane per unit; a lane waits for  *)
(* the policy's limiter, runs its work, with the retries of Admit.guarded, *)
(* and sends the result into a stream that is read only after every lane   *)
(* has ended.  A deadline cancels what has not been sent; a cancellation   *)
(* from outside (a signal, the timeout around `cloud`) ends the drain      *)
(* without a receipt.  A limiter belongs to the policy's value, its         *)
(* deadline and key included: drains of equal policies share it, others    *)
(* do not.                                                                  *)
(*                                                                         *)
(* Cancellation is cooperative: once the scope is cancelled a lane may     *)
(* still finish the step it is in, and is stopped where it next awaits.    *)
(***************************************************************************)
EXTENDS Integers, FiniteSets

CONSTANTS Drains,     \* calls of drain
          Policies,   \* the LanePolicy values they are called on
          Slots,      \* positions in the block of units of a drain
          Guarded,    \* slots admitted with a retry class; the others are bare
          Attempts    \* Policy.attempts of the retry class

(* A deadline of 0 stands for Nothing. *)
LanePolicy == [capacity : Nat \ {0}, deadline : Nat, key : STRING]

ASSUME LaneAssumption ==
  /\ IsFiniteSet(Slots) /\ IsFiniteSet(Drains) /\ Guarded \subseteq Slots
  /\ Policies \subseteq LanePolicy
  /\ Attempts \in Nat \ {0}

Units == Drains \X Slots
UnitsOf(d) == {u \in Units : u[1] = d}

VARIABLES policy,     \* the policy of each drain, from the call on
          phase,      \* where each lane is
          rail,       \* the result of its latest attempt
          attempt,    \* attempts started
          spent,      \* the retry class's own timeout has run out
          effects,    \* how often the work took effect outside
          scope,      \* the state of each drain
          receipt     \* its DrainReceipt

vars == <<policy, phase, rail, attempt, spent, effects, scope, receipt>>

Phases == {"unborn", "waiting", "working", "backoff", "ready", "sent", "ended"}
Faults == {"recoverable", "terminal"}
Rails == {"none", "ok"} \cup Faults
Scopes == {"idle", "open", "expired", "interrupted", "closed", "abandoned"}
DrainReceipt == [accepted : Nat, completed : Nat, cancelled : Nat, rejected : Nat]
NoReceipt == [accepted |-> 0, completed |-> 0, cancelled |-> 0, rejected |-> 0]

Timed == {d \in Drains : policy[d].deadline > 0}

Init ==
  /\ policy \in [Drains -> Policies]
  /\ phase = [u \in Units |-> "unborn"]
  /\ rail = [u \in Units |-> "none"]
  /\ attempt = [u \in Units |-> 0]
  /\ spent = [u \in Units |-> FALSE]
  /\ effects = [u \in Units |-> 0]
  /\ scope = [d \in Drains |-> "idle"]
  /\ receipt = [d \in Drains |-> NoReceipt]

-------------------------------------------------------------------------------
(* Faulty variant: a lane that is cancelled never gives its token back. *)
HoldingForGood(u) ==
  \/ phase[u] \in {"working", "backoff", "ready"}
  \/ phase[u] = "ended" /\ attempt[u] > 0

(* A lane holds the limiter from before its work until after its send, its  *)
(* back-offs included.                                                      *)
Holding(u) == phase[u] \in {"working", "backoff", "ready"}

(* _limiter is cached by the policy's value: the holders a unit waits for   *)
(* are the lanes of its own policy, of whichever drain.                     *)
Holders(u) == {v \in Units : Holding(v) /\ policy[v[1]] = policy[u[1]]}
Free(u) == Cardinality(Holders(u)) < policy[u[1]].capacity

Running(d) == scope[d] = "open"
Cancelling(d) == scope[d] \in {"expired", "interrupted"}

(* Faulty variant: the stream of anyio's examples, one item deep. *)
BufferOfOne == 1

Buffer == IF Cardinality(Slots) > 1 THEN Cardinality(Slots) ELSE 1

Stream(d) == {u \in UnitsOf(d) : phase[u] = "sent"}

(* stamina schedules another attempt while the class has attempts and time. *)
RetryLeft(u) == u[2] \in Guarded /\ attempt[u] < Attempts /\ ~spent'[u]

-------------------------------------------------------------------------------
drain(d) ==
  /\ scope[d] = "idle"
  /\ scope' = [scope EXCEPT ![d] = "open"]
  /\ phase' = [u \in Units |-> IF u[1] = d THEN "waiting" ELSE phase[u]]
  /\ UNCHANGED <<rail, attempt, spent, effects, receipt>>

Acquire(u) ==
  /\ phase[u] = "waiting" /\ Running(u[1])
  /\ Free(u)
  /\ phase' = [phase EXCEPT ![u] = "working"]
  /\ attempt' = [attempt EXCEPT ![u] = @ + 1]
  /\ UNCHANGED <<rail, spent, effects, scope, receipt>>

Succeed(u) ==
  /\ phase[u] = "working"
  /\ rail' = [rail EXCEPT ![u] = "ok"]
  /\ effects' = [effects EXCEPT ![u] = @ + 1]
  /\ phase' = [phase EXCEPT ![u] = "ready"]
  /\ UNCHANGED <<attempt, spent, scope, receipt>>

(* _graded: a recoverable fault is raised, for stamina to retry. *)
Graded(u, f) ==
  phase' = [phase EXCEPT ![u] =
              IF f = "recoverable" /\ RetryLeft(u) THEN "backoff" ELSE "ready"]

(* A faulted attempt may have taken effect: the answer can be what is lost. *)
Falter(u, f, took) ==
  /\ phase[u] = "working"
  /\ rail' = [rail EXCEPT ![u] = f]
  /\ effects' = [effects EXCEPT ![u] = @ + took]
  /\ \/ UNCHANGED spent
     \/ f = "recoverable" /\ u[2] \in Guarded /\ spent' = [spent EXCEPT ![u] = TRUE]
  /\ Graded(u, f)
  /\ UNCHANGED <<attempt, scope, receipt>>

(* stamina's timeout bounds the start of attempts, never one in flight. *)
Retry(u) ==
  /\ phase[u] = "backoff" /\ Running(u[1])
  /\ phase' = [phase EXCEPT ![u] = "working"]
  /\ attempt' = [attempt EXCEPT ![u] = @ + 1]
  /\ UNCHANGED <<rail, spent, effects, scope, receipt>>

Send(u) ==
  /\ phase[u] = "ready" /\ Running(u[1])
  /\ Cardinality(Stream(u[1])) < Buffer
  /\ phase' = [phase EXCEPT ![u] = "sent"]
  /\ UNCHANGED <<rail, attempt, spent, effects, scope, receipt>>

Expire(d) ==
  /\ d \in Timed /\ Running(d)
  /\ scope' = [scope EXCEPT ![d] = "expired"]
  /\ UNCHANGED <<phase, rail, attempt, spent, effects, receipt>>

Interrupt(d) ==
  /\ scope[d] \in {"open", "expired"}
  /\ scope' = [scope EXCEPT ![d] = "interrupted"]
  /\ UNCHANGED <<phase, rail, attempt, spent, effects, receipt>>

(* A lane gets its cancellation where it awaits: the limiter, its work, a   *)
(* back-off, or the send of work already done.  Its result is lost with it. *)
Cancel(u, took) ==
  /\ Cancelling(u[1])
  /\ phase[u] = "waiting" \/ Holding(u)
  /\ took = 1 => phase[u] = "working"
  /\ effects' = [effects EXCEPT ![u] = @ + took]
  /\ phase' = [phase EXCEPT ![u] = "ended"]
  /\ rail' = [rail EXCEPT ![u] = "none"]
  /\ UNCHANGED <<attempt, spent, scope, receipt>>

(* Faulty variant: the drain leaves at its deadline and waits for no lane. *)
LanesEndedOrLate(d) ==
  scope[d] = "expired" \/ \A u \in UnitsOf(d) : phase[u] \in {"sent", "ended"}

(* The task group waits for every lane, cancelled or not. *)
LanesEnded(d) == \A u \in UnitsOf(d) : phase[u] \in {"sent", "ended"}

(* Faulty variant: what was not sent counts as rejected as well. *)
ReceiptDoubling(d) ==
  LET values == {u \in Stream(d) : rail[u] = "ok"}
  IN [accepted |-> Cardinality(UnitsOf(d)),
      completed |-> Cardinality(values),
      cancelled |-> Cardinality(UnitsOf(d)) - Cardinality(Stream(d)),
      rejected |-> Cardinality(UnitsOf(d)) - Cardinality(values)]

ReceiptOf(d) ==
  LET values == {u \in Stream(d) : rail[u] = "ok"}
      faults == {u \in Stream(d) : rail[u] \in Faults}
  IN [accepted |-> Cardinality(UnitsOf(d)),
      completed |-> Cardinality(values),
      cancelled |-> Cardinality(UnitsOf(d)) - Cardinality(Stream(d)),
      rejected |-> Cardinality(faults)]

Close(d) ==
  /\ scope[d] \in {"open", "expired"}
  /\ LanesEnded(d)
  /\ scope' = [scope EXCEPT ![d] = "closed"]
  /\ receipt' = [receipt EXCEPT ![d] = ReceiptOf(d)]
  /\ UNCHANGED <<phase, rail, attempt, spent, effects>>

Abandon(d) ==
  /\ scope[d] = "interrupted"
  /\ LanesEnded(d)
  /\ scope' = [scope EXCEPT ![d] = "abandoned"]
  /\ UNCHANGED <<phase, rail, attempt, spent, effects, receipt>>

Finish(u) == Succeed(u) \/ \E f \in Faults, took \in {0, 1} : Falter(u, f, took)

Next ==
  /\ UNCHANGED policy
  /\ \/ \E d \in Drains : drain(d) \/ Expire(d) \/ Interrupt(d) \/ Close(d) \/ Abandon(d)
     \/ \E u \in Units : \/ Acquire(u) \/ Finish(u) \/ Retry(u) \/ Send(u)
                         \/ \E took \in {0, 1} : Cancel(u, took)

Spec == Init /\ [][Next]_vars

(* What the event loop does for a lane, and for a drain, in turn. *)
Advance(u) == Acquire(u) \/ Retry(u) \/ Send(u) \/ \E took \in {0, 1} : Cancel(u, took)
Return(d) == Expire(d) \/ Close(d) \/ Abandon(d)

(* The event loop runs every ready task; a deadline passes.  Work is       *)
(* assumed to end only in the drains that have no deadline to end it.      *)
Fairness ==
  /\ \A u \in Units :
       /\ WF_vars(Advance(u) /\ UNCHANGED policy)
       /\ WF_vars(u[1] \notin Timed /\ Finish(u) /\ UNCHANGED policy)
  /\ \A d \in Drains : WF_vars(Return(d) /\ UNCHANGED policy)

FairSpec == Spec /\ Fairness

-------------------------------------------------------------------------------
(* Every value is one the program can produce.                              *)
TypeOK ==
  /\ policy \in [Drains -> Policies]
  /\ phase \in [Units -> Phases]
  /\ rail \in [Units -> Rails]
  /\ attempt \in [Units -> 0..Attempts]
  /\ spent \in [Units -> BOOLEAN]
  /\ effects \in [Units -> 0..Attempts]
  /\ scope \in [Drains -> Scopes]
  /\ receipt \in [Drains -> DrainReceipt]

StreamHasRoom(d) == Cardinality(Stream(d)) < Buffer

(* A lane that can still take a step of its own. *)
CanGoOn(u) ==
  /\ scope[u[1]] \in {"open", "expired", "interrupted"}
  /\ phase[u] \in {"waiting", "working", "backoff", "ready"}
  /\ phase[u] = "ready" => StreamHasRoom(u[1])

(* No lane blocks another for good: what is ready always finds room in the  *)
(* stream that nobody reads yet, and a lane that waits for the limiter      *)
(* finds it free or held, in its own drain or in another of the same        *)
(* policy, by a lane that can go on: none that was cancelled or is over     *)
(* still holds a token (runtime.py 538, 541, 549).                          *)
NoLaneIsStuck ==
  \A u \in Units :
    /\ phase[u] = "ready" => StreamHasRoom(u[1])
    /\ phase[u] = "waiting" => Free(u) \/ \E v \in Holders(u) : CanGoOn(v)

(* A receipt accounts for every unit exactly once: what it accepted is     *)
(* what completed, was rejected or was cancelled; each unit it counts as   *)
(* completed took effect; and only a drain with a deadline cancels         *)
(* (runtime.py 552-557).                                                   *)
ReceiptsAddUp ==
  \A d \in Drains : scope[d] = "closed" =>
    LET r == receipt[d]
    IN /\ r.accepted = r.completed + r.rejected + r.cancelled
       /\ r.completed <= Cardinality({u \in UnitsOf(d) : effects[u] > 0})
       /\ r.cancelled > 0 => d \in Timed

(* What the caller of a drain hears of a unit.                              *)
Heard(u) ==
  CASE scope[u[1]] = "closed" /\ phase[u] = "sent" -> IF rail[u] = "ok" THEN "done" ELSE "failed"
    [] scope[u[1]] = "closed" /\ phase[u] # "sent" -> "cancelled"
    [] scope[u[1]] = "abandoned" -> "cancelled"
    [] OTHER -> "none"

(* A unit takes effect at most as often as it is attempted, none does once  *)
(* its drain has returned, with a receipt or by cancellation (the task      *)
(* group of runtime.py 549), and one whose value is returned did.           *)
Work == INSTANCE AtLeastOnce
  WITH Things <- Units, Admitted <- Units, Contained <- Units, Limit <- Attempts,
       done <- effects, told <- [u \in Units |-> Heard(u)]

DrainsWorkAtLeastOnce == Work!SafeSpec

(* Every drain that starts returns: no lane waits for a stream that nobody *)
(* reads yet, and a deadline ends work that never ends by itself           *)
(* (runtime.py 538, 548).                                                  *)
DrainsReturn ==
  \A d \in Drains : scope[d] = "open" ~> scope[d] \in {"closed", "abandoned"}
================================================================================
