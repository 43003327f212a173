-------------------------------- MODULE Envelope --------------------------------
(* The one envelope of an invocation (admin/core.py), the fold of a rail    *)
(* into it (lower, admin/runtime.py) and the process boundary that writes   *)
(* it and exits (main, admin/__main__.py).  The rails extend this module:   *)
(* each ends in completed, with a status, or in fault.                      *)
EXTENDS Integers

VARIABLES
  envelope,  \* the status of the envelope, "none" while the rail runs
  exit       \* the exit code of the process, -1 while it runs

envelopeVars == <<envelope, exit>>

(* The statuses with their severity and their exit code.                    *)
Status == {"ok", "skip", "empty", "unsupported", "failed", "faulted"}

rank == [ok |-> 0, skip |-> 0, empty |-> 0, unsupported |-> 1, failed |-> 2, faulted |-> 3]
code == [ok |-> 0, skip |-> 0, empty |-> 0, unsupported |-> 3, failed |-> 1, faulted |-> 2]

(* The worse of two; on a tie the receiver stays.                           *)
worst(status, other) == IF rank[status] >= rank[other] THEN status ELSE other

(* The stream is reduced from "ok" on: the status that no other displaces,  *)
(* "ok" standing for all of its rank.                                       *)
fold(statuses) ==
  CHOOSE w \in {"ok"} \cup {s \in statuses : rank[s] > 0} :
    \A s \in statuses : worst(w, s) = w

Running == envelope = "none"

completed(status) == envelope' = status
fault             == envelope' = "faulted"

(* main writes the envelope's one line and exits on its code.               *)
main ==
  /\ envelope \in Status
  /\ exit = -1
  /\ exit' = code[envelope]
  /\ UNCHANGED envelope

EnvelopeInit == envelope = "none" /\ exit = -1
================================================================================
