------------------------------- MODULE AtLeastOnce -------------------------------
(***************************************************************************)
(* What the program promises of work it repeats after faults: the work     *)
(* takes effect at most as often as it may be tried; a caller that hears   *)
(* "done" can rely on it, one that hears "failed" or "cancelled" knows     *)
(* nothing.  Work that ends with its caller's wait takes no effect after   *)
(* the caller has heard; work left behind at a server or in a thread of    *)
(* its own may.  Slots, lanes, connections, back-offs and deadlines are    *)
(* the business of LaneDrain, LedgerClient and HookReceiver.               *)
(***************************************************************************)
EXTENDS Integers

CONSTANTS Things,     \* what is to be done
          Admitted,   \* those of them that may take effect at all
          Contained,  \* those whose tries all end before their caller hears
          Limit       \* how often a thing may be tried

VARIABLES done,  \* how often each has taken effect
          told   \* what its caller has heard of it

vars == <<done, told>>

Words == {"done", "failed", "cancelled"}

Init ==
  /\ done = [x \in Things |-> 0]
  /\ told = [x \in Things |-> "none"]

Happen(x) ==
  /\ x \in Admitted /\ done[x] < Limit
  /\ x \in Contained => told[x] = "none"
  /\ done' = [done EXCEPT ![x] = @ + 1]
  /\ UNCHANGED told

(* The callers of some of them hear at once, each for good. *)
Report ==
  /\ told' \in [Things -> Words \cup {"none"}]
  /\ \A x \in Things :
       told'[x] # told[x] => told[x] = "none" /\ (told'[x] = "done" => done[x] > 0)
  /\ UNCHANGED done

Next == Report \/ \E x \in Things : Happen(x)

SafeSpec == Init /\ [][Next]_vars
================================================================================
