\* Two drains of equal policies, with or without a deadline; a unit that is retried
\* once and a bare one each, one of the four at a time on a fault.  The drains end:
\* no deadlock check.
SPECIFICATION MCSpec
CONSTANTS
  Drains = {one, other}
  Policies <- MCPolicies
  Slots = {guarded, bare}
  Guarded = {guarded}
  Attempts = 2
  MaxFaulty = 1
INVARIANTS NoLaneIsStuck ReceiptsAddUp
PROPERTIES DrainsWorkAtLeastOnce DrainsReturn
CHECK_DEADLOCK FALSE
