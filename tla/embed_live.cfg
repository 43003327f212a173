\* Two concepts compete for a batch of one under the two cron jobs, with one bad
\* reply and one crash, abort or outage.  The pipeline rests when the writers do.
CONSTANTS
  Concepts = {c1, c2}
  Contents = {a, b}
  Null = null
  Sessions = {"cron_enqueue", "cron_drain"}
  Editors = {}
  Batch = 1
  Ttl = 1
  Retention = 1
  MaxWrites = 2
  FaultKinds = {"bad_reply", "outage"}
  MaxFaults = 1
SPECIFICATION FairSpec
INVARIANTS
  FreshMeansCurrent
  RequestsAnswerReceipts
PROPERTIES
  ImplementsStore
  ReceiptsClose
  LedgerEmpties
CHECK_DEADLOCK FALSE
