------------------------------- MODULE HookReceiver -------------------------------
(* The webhook receiver (hook/server.py): a thread for each request checks  *)
(* it, appends a receipt to the ledger on the volume and replies.  The      *)
(* sender repeats an event whose reply it did not get, also while the       *)
(* thread of the request it gave up on still runs; the container may stop   *)
(* at any time and comes back with the ledger.                              *)
EXTENDS Integers, FiniteSets

CONSTANTS
  Events,     \* what the sender wants to deliver
  VerdictOf,  \* what the checks of do_POST come to for each event
  MaxSends    \* bound: requests with one event

(* The path, the declared length and the signature, in this order.          *)
Verdicts == {"admitted", "404", "413", "401"}

ASSUME HookAssumption == VerdictOf \in [Events -> Verdicts] /\ MaxSends \in Nat

Requests == Events \X (1 .. MaxSends)
RequestsOf(e) == {r \in Requests : r[1] = e}

VARIABLES
  thread,     \* where the thread of each request stands
  listening,  \* whether the sender still waits for its reply
  receipts,   \* the requests whose receipt is in the ledger
  reply       \* the last reply that reached the sender of each event

hookVars == <<thread, listening, receipts, reply>>

HookInit ==
  /\ thread = [r \in Requests |-> "none"]
  /\ listening = [r \in Requests |-> FALSE]
  /\ receipts = {}
  /\ reply = [e \in Events |-> "none"]

(* The sender waits for one request of an event at a time.                  *)
Send(r) ==
  /\ thread[r] = "none" /\ reply[r[1]] # "204"
  /\ \A s \in RequestsOf(r[1]) : ~listening[s] /\ (s[2] < r[2] => thread[s] # "none")
  /\ thread' = [thread EXCEPT ![r] = "reading"]
  /\ listening' = [listening EXCEPT ![r] = TRUE]
  /\ UNCHANGED <<receipts, reply>>

(* The sender's patience ends, or its connection; the thread goes on.       *)
GiveUp(r) ==
  /\ listening[r]
  /\ listening' = [listening EXCEPT ![r] = FALSE]
  /\ UNCHANGED <<thread, receipts, reply>>

(* A reply reaches a sender that still listens.                             *)
_reply(r, code) ==
  /\ reply' = IF listening[r] THEN [reply EXCEPT ![r[1]] = code] ELSE reply
  /\ listening' = [listening EXCEPT ![r] = FALSE]

Refused(r) ==
  /\ thread[r] = "reading" /\ VerdictOf[r[1]] # "admitted"
  /\ thread' = [thread EXCEPT ![r] = "over"]
  /\ _reply(r, VerdictOf[r[1]])
  /\ UNCHANGED receipts

(* Faulty variant: the reply goes out before the append.                    *)
PostReplyFirst(r) ==
  \/ Refused(r)
  \/ /\ thread[r] = "reading" /\ VerdictOf[r[1]] = "admitted"
     /\ thread' = [thread EXCEPT ![r] = "appended"]
     /\ _reply(r, "204")
     /\ UNCHANGED receipts
  \/ /\ thread[r] = "appended"
     /\ thread' = [thread EXCEPT ![r] = "over"]
     /\ receipts' = receipts \cup {r}
     /\ UNCHANGED <<listening, reply>>

do_POST(r) ==
  \/ Refused(r)
  \/ /\ thread[r] = "reading" /\ VerdictOf[r[1]] = "admitted"
     /\ thread' = [thread EXCEPT ![r] = "appended"]
     /\ receipts' = receipts \cup {r}
     /\ UNCHANGED <<listening, reply>>
  \/ /\ thread[r] = "appended"
     /\ thread' = [thread EXCEPT ![r] = "over"]
     /\ _reply(r, "204")
     /\ UNCHANGED receipts

(* The thread fails: on a body that ends early, on the disk, on its socket. *)
Fail(r) ==
  /\ thread[r] \in {"reading", "appended"}
  /\ thread' = [thread EXCEPT ![r] = "over"]
  /\ listening' = [listening EXCEPT ![r] = FALSE]
  /\ UNCHANGED <<receipts, reply>>

(* A stop of the container ends every thread.                               *)
Stop ==
  /\ \E r \in Requests : thread[r] \in {"reading", "appended"}
  /\ thread' = [r \in Requests |-> IF thread[r] = "none" THEN "none" ELSE "over"]
  /\ listening' = [r \in Requests |-> FALSE]
  /\ UNCHANGED <<receipts, reply>>

HookNext == Stop \/ \E r \in Requests : Send(r) \/ GiveUp(r) \/ do_POST(r) \/ Fail(r)

HookSpec == HookInit /\ [][HookNext]_hookVars

-------------------------------------------------------------------------------
(* A sender that got its 204 can rely on the receipt, through every stop,   *)
(* lost reply and overlap with a request it gave up on; an event is logged  *)
(* at most once for each request, an abandoned one perhaps after the 204 of *)
(* its repetition, and one that the checks reject never is (server.py 1-7,  *)
(* 44-58, 66).                                                              *)
Deliveries == INSTANCE AtLeastOnce
  WITH Things <- Events, Admitted <- {e \in Events : VerdictOf[e] = "admitted"},
       Contained <- {}, Limit <- MaxSends,
       done <- [e \in Events |-> Cardinality(receipts \cap RequestsOf(e))],
       told <- [e \in Events |-> IF reply[e] = "204" THEN "done" ELSE "none"]

DeliveredAtLeastOnce == Deliveries!SafeSpec
================================================================================
