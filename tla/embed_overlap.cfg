\* An editor holds its transaction open across a drain.
CONSTANTS
  Concepts = {c1}
  Contents = {a, b}
  Null = null
  Sessions = {"cron_enqueue", "cron_drain"}
  Editors = {e1}
  Batch = 1
  Ttl = 1
  Retention = 1
  MaxWrites = 2
  FaultKinds = {}
  MaxFaults = 0
SPECIFICATION Spec
INVARIANTS
  FreshMeansCurrent
CHECK_DEADLOCK FALSE
