-------------------------------- MODULE MCCloud --------------------------------
(* Two remotes and the local tree; the .cfg files choose the bounds. *)
EXTENDS CloudSync, TLC
===============================================================================
