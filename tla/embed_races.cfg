\* A concept edited inside and outside longer transactions, while two drains
\* overlap, one of them in the automation rail's enqueue-and-drain transaction.
\* The pipeline rests when the writers do: no deadlock check.
CONSTANTS
  Concepts = {c1}
  Contents = {a, b}
  Null = null
  Sessions = {"cron_drain", "automation"}
  Editors = {e1}
  Batch = 1
  Ttl = 1
  Retention = 0
  MaxWrites = 3
  FaultKinds = {}
  MaxFaults = 0
SPECIFICATION Spec
SYMMETRY Symmetry
INVARIANTS
  TypeOK
  OpenReceiptsAreFew
  RequestsAnswerReceipts
PROPERTIES
  ImplementsStoreSafely
  RepliesAreDrained
CHECK_DEADLOCK FALSE
