\* A signal while a scheduled action runs.
SPECIFICATION Spec
CONSTANTS
  Triggers = {"schedule"}
  FireBuffer = 2
  MaxFires = 2
  DiskMayFail = FALSE
INVARIANTS
  AcceptedIsLedgered
CHECK_DEADLOCK FALSE
