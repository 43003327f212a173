\* The automation rail enqueues beside the cron job.
CONSTANTS
  Concepts = {c1}
  Contents = {a, b}
  Null = null
  Sessions = {"cron_enqueue", "automation"}
  Editors = {}
  Batch = 1
  Ttl = 1
  Retention = 1
  MaxWrites = 2
  FaultKinds = {}
  MaxFaults = 0
SPECIFICATION Spec
INVARIANTS
  OneOpenReceipt
CHECK_DEADLOCK FALSE
