--------------------------------- MODULE MCLane ---------------------------------
(* Two drains of one policy at a time, with a deadline or without one; two   *)
(* units each, one guarded.  An attempt that faults can succeed instead, so  *)
(* the bound takes nothing from the fairness.                                *)
EXTENDS LaneDrain

CONSTANT MaxFaulty  \* bound: units whose latest attempt faulted

MCPolicies == [capacity : {1}, deadline : {0, 1}, key : {"default"}]

MCInit == Init /\ \A d, e \in Drains : policy[d] = policy[e]

WithinFaults == Cardinality({u \in Units : rail[u] \in Faults}) <= MaxFaulty

MCNext == Next /\ WithinFaults'

MCSpec == MCInit /\ [][MCNext]_vars /\ Fairness
================================================================================
