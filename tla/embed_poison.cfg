\* One reply is no JSON text, and there is no outage.
CONSTANTS
  Concepts = {c1, c2}
  Contents = {a, b}
  Null = null
  Sessions = {"cron_enqueue", "cron_drain"}
  Editors = {}
  Batch = 1
  Ttl = 1
  Retention = 1
  MaxWrites = 2
  FaultKinds = {"bad_reply"}
  MaxFaults = 1
SPECIFICATION Spec
PROPERTIES
  RepliesAreDrained
CHECK_DEADLOCK FALSE
