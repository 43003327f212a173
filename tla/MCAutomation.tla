----------------------------- MODULE MCAutomation -----------------------------
(* One process; the fire stream holds one or two ticks instead of 64. *)
EXTENDS Automation, TLC
===============================================================================
