------------------------------ MODULE LedgerClient ------------------------------
(* The ledger client of admin/db.py: `query` borrows a slot of the lane,    *)
(* dials, runs its statement on a connection of its own and releases both.  *)
(* The retry class repeats the whole unit.  PostgreSQL commits a statement  *)
(* before its answer travels, so an answer can be lost after the commit;    *)
(* and a statement whose client has gone away goes on at the server, which  *)
(* may commit it while the client repeats it or after it has given up.      *)
EXTENDS FaultAlgebra, FiniteSets

CONSTANTS
  Queries,       \* the statements under way in one process
  LaneCapacity,  \* slots of the lane (8 in the code)
  DbAttempts     \* attempts of the retry class (4 in the code)

ASSUME LedgerAssumption == LaneCapacity \in Nat \ {0} /\ DbAttempts \in Nat \ {0}

VARIABLES
  step,     \* where each query stands
  attempt,  \* the attempt it is in
  outcome,  \* its rail: "none", "ok" or a fault tag
  applied,  \* how often its statement was committed
  lost,     \* attempts that sent the statement and never heard of it
  orphans   \* those of them that the server still works on

queryVars == <<step, attempt, outcome, applied, lost, orphans>>

Steps == {"idle", "waiting", "dialing", "open", "committed", "backoff", "done"}

(* Faulty variant: a query waits out its backoff with the slot in hand.     *)
BorrowingBackoff ==
  {q \in Queries : \/ step[q] \in {"dialing", "open", "committed", "backoff"}
                   \/ /\ step[q] = "waiting"
                      /\ attempt[q] > 1}

(* A query holds a slot and a connection from the dial to the release.      *)
Borrowing == {q \in Queries : step[q] \in {"dialing", "open", "committed"}}

(* The SQLSTATEs that occur, with their class; "absent" is an error answer  *)
(* without one.                                                             *)
ClassOf == [s40001 |-> "s40", s40003 |-> "s40", s08006 |-> "s08", s57P03 |-> "s57",
            s57014 |-> "s57", s23505 |-> "s23", absent |-> "none"]
SqlStates == DOMAIN ClassOf

_DB_TRANSIENT == {"s08", "s40001", "s40P01", "s57P01", "s57P03", "s53", "s55P03"}

_transient(state) == state # "absent" /\ {state, ClassOf[state]} \cap _DB_TRANSIENT # {}

_classified(state) == IF _transient(state) THEN "DatabaseError" ELSE "TerminalError"

QueryInit ==
  /\ step = [q \in Queries |-> "idle"]
  /\ attempt = [q \in Queries |-> 0]
  /\ outcome = [q \in Queries |-> "none"]
  /\ applied = [q \in Queries |-> 0]
  /\ lost = [q \in Queries |-> 0]
  /\ orphans = [q \in Queries |-> 0]

query(q) ==
  /\ step[q] = "idle"
  /\ step' = [step EXCEPT ![q] = "waiting"]
  /\ attempt' = [attempt EXCEPT ![q] = 1]
  /\ UNCHANGED <<outcome, applied, lost, orphans>>

Borrow(q) ==
  /\ step[q] = "waiting"
  /\ Cardinality(Borrowing) < LaneCapacity
  /\ step' = [step EXCEPT ![q] = "dialing"]
  /\ UNCHANGED <<attempt, outcome, applied, lost, orphans>>

_connect(q) ==
  /\ step[q] = "dialing"
  /\ step' = [step EXCEPT ![q] = "open"]
  /\ UNCHANGED <<attempt, outcome, applied, lost, orphans>>

(* Faulty variant: the attempts are counted as repetitions.                 *)
RaiseOnceMore(q, cause, timely) ==
  IF Target("db", cause) /\ attempt[q] <= DbAttempts /\ timely
  THEN /\ step' = [step EXCEPT ![q] = "backoff"]
       /\ UNCHANGED outcome
  ELSE /\ step' = [step EXCEPT ![q] = "done"]
       /\ outcome' = [outcome EXCEPT ![q] = of(cause)]

(* The unit ends on an exception: the connection is closed, the slot given  *)
(* back, and the class repeats it while its target, its attempts and its    *)
(* time admit.                                                              *)
Raise(q, cause, timely) ==
  IF Target("db", cause) /\ attempt[q] < DbAttempts /\ timely
  THEN /\ step' = [step EXCEPT ![q] = "backoff"]
       /\ UNCHANGED outcome
  ELSE /\ step' = [step EXCEPT ![q] = "done"]
       /\ outcome' = [outcome EXCEPT ![q] = of(cause)]

(* The dial fails; a rejected login is a DatabaseError of the driver too.   *)
Refuse(q, cause, timely) ==
  /\ step[q] = "dialing"
  /\ Raise(q, cause, timely)
  /\ UNCHANGED <<attempt, applied, lost, orphans>>

(* The server commits the statement its client waits for.                   *)
Execute(q) ==
  /\ step[q] = "open"
  /\ step' = [step EXCEPT ![q] = "committed"]
  /\ applied' = [applied EXCEPT ![q] = @ + 1]
  /\ UNCHANGED <<attempt, outcome, lost, orphans>>

(* The server answers with an error; nothing of the statement is applied.   *)
Reject(q, state, timely) ==
  /\ step[q] = "open"
  /\ Raise(q, _classified(state), timely)
  /\ UNCHANGED <<attempt, applied, lost, orphans>>

(* The connection breaks, or the socket's timeout runs out, before the      *)
(* server is done or after its commit, on the answer's way or at the        *)
(* release.  A server that has the statement goes on with it.               *)
Drop(q, cause, timely) ==
  /\ step[q] \in {"open", "committed"}
  /\ Raise(q, cause, timely)
  /\ lost' = [lost EXCEPT ![q] = @ + 1]
  /\ \/ UNCHANGED orphans
     \/ step[q] = "open" /\ orphans' = [orphans EXCEPT ![q] = @ + 1]
  /\ UNCHANGED <<attempt, applied>>

(* The server finishes a statement nobody waits for any more.               *)
LateEnd(q, commits) ==
  /\ orphans[q] > 0
  /\ orphans' = [orphans EXCEPT ![q] = @ - 1]
  /\ applied' = [applied EXCEPT ![q] = @ + commits]
  /\ UNCHANGED <<step, attempt, outcome, lost>>

(* Faulty variant: a projection that fails is an error of the driver.       *)
MaterializeRetried(q) ==
  /\ step[q] = "committed"
  /\ \/ /\ attempt[q] < DbAttempts
        /\ step' = [step EXCEPT ![q] = "backoff"]
        /\ UNCHANGED outcome
     \/ /\ step' = [step EXCEPT ![q] = "done"]
        /\ outcome' = [outcome EXCEPT ![q] = "ok"]
  /\ UNCHANGED <<attempt, applied, lost, orphans>>

_materialize(q) ==
  /\ step[q] = "committed"
  /\ step' = [step EXCEPT ![q] = "done"]
  /\ outcome' = [outcome EXCEPT ![q] = "ok"]
  /\ UNCHANGED <<attempt, applied, lost, orphans>>

Again(q) ==
  /\ step[q] = "backoff"
  /\ step' = [step EXCEPT ![q] = "waiting"]
  /\ attempt' = [attempt EXCEPT ![q] = @ + 1]
  /\ UNCHANGED <<outcome, applied, lost, orphans>>

QueryStep(q) ==
  \/ Borrow(q) \/ _connect(q) \/ Execute(q) \/ _materialize(q) \/ Again(q)
  \/ \E timely \in BOOLEAN :
       \/ \E cause \in {"InterfaceError", "TimeoutError", "DatabaseError"} : Refuse(q, cause, timely)
       \/ \E state \in SqlStates : Reject(q, state, timely)
       \/ \E cause \in {"InterfaceError", "TimeoutError"} : Drop(q, cause, timely)

Server(q) == \E commits \in {0, 1} : LateEnd(q, commits)

LedgerNext == \E q \in Queries : query(q) \/ QueryStep(q) \/ Server(q)

LedgerSpec == QueryInit /\ [][LedgerNext]_queryVars

-------------------------------------------------------------------------------
(* A statement is committed, now or later, at most once for every answer    *)
(* that was lost and once more for the answer that arrived: a commit that   *)
(* was answered is never repeated, and nothing is committed by an attempt   *)
(* that failed with an answer (db.py 161-200, 237-266).                     *)
CommitsFollowLosses ==
  \A q \in Queries :
    applied[q] + orphans[q] <=
      lost[q] + (IF step[q] = "committed" \/ outcome[q] = "ok" THEN 1 ELSE 0)

(* What `query` returns of a statement, and what its caller may conclude: a *)
(* value means that it was committed; a fault means nothing, not even that  *)
(* it will not be committed yet (db.py 237-266).                            *)
Heard(q) == CASE outcome[q] = "none" -> "none" [] outcome[q] = "ok" -> "done" [] OTHER -> "failed"

Statements == INSTANCE AtLeastOnce
  WITH Things <- Queries, Admitted <- Queries, Contained <- {}, Limit <- DbAttempts,
       done <- applied, told <- [q \in Queries |-> Heard(q)]

StatementsAtLeastOnce == Statements!SafeSpec
================================================================================
