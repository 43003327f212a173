------------------------------- MODULE FaultBlocks -------------------------------
(* The rails of concurrent units as they settle, folded under each          *)
(* disposition.                                                             *)
EXTENDS FaultAlgebra

CONSTANTS
  Causes,    \* the exceptions that occur
  MaxRails   \* bound: rails of one block

ASSUME BlocksAssumption == Causes \subseteq DOMAIN Hierarchy /\ MaxRails \in Nat

(* A block of rails as it grows, one finished unit at a time.               *)
VARIABLE rails

AlgebraInit == rails = <<>>

Settle(cause) ==
  /\ Len(rails) < MaxRails
  /\ rails' = Append(rails, cause)

AlgebraNext == \E cause \in Causes \cup {"ok"} : Settle(cause)

AlgebraSpec == AlgebraInit /\ [][AlgebraNext]_rails

-------------------------------------------------------------------------------
(* One partition of the ssh faults holds at both retry layers: what the     *)
(* connect retries as transient a lane retries too, and a denied or         *)
(* protocol fault is retried by neither, although each of these is a        *)
(* DisconnectError, which is transient (runtime.py 124-134, 203-216,        *)
(* 427-437).                                                                *)
SshPartition ==
  \A i \in DOMAIN rails :
    LET cause == rails[i]
        Repeated == Target("http", cause)
        Replayed == recoverable(_convert(cause), RAIL_RETRY_TAGS["http"])
    IN cause # "ok" =>
         /\ IsInstance(cause, SSH_TERMINAL) => ~Repeated /\ ~Replayed
         /\ IsInstance(cause, SSH_TRANSIENT) /\ ~IsInstance(cause, SSH_TERMINAL)
              => Repeated /\ Replayed

(* The dispositions agree on a block: it aborts with the first fault        *)
(* exactly when it accumulates one and gives the same values otherwise, the *)
(* accumulated fault names every member in order, and a lane retries it     *)
(* when it would retry any of them (runtime.py 72-92, 182-197).             *)
DispositionsAgree ==
  LET faults == Faults(rails)
      aborted == Aborting(rails)
      accumulated == Accumulating(rails)
  IN /\ aborted.tag = accumulated.tag
     /\ aborted.tag = "ok" <=> faults = <<>>
     /\ aborted.tag = "ok" => aborted = accumulated
     /\ aborted.tag = "error" => aborted.fault = Head(faults)
     /\ accumulated.fault = [i \in DOMAIN faults |-> faults[i][1]]
     /\ \A cls \in RetryClass :
          recoverable(accumulated.fault, RAIL_RETRY_TAGS[cls])
            <=> \E i \in DOMAIN faults : recoverable(faults[i], RAIL_RETRY_TAGS[cls])
================================================================================
