\* All three triggers, a fire stream of two, a signal and a failing ledger disk at
\* any moment.  The run ends: no deadlock check.
SPECIFICATION FairSpec
CONSTANTS
  Triggers = {"manual", "watch", "schedule"}
  FireBuffer = 2
  MaxFires = 4
  DiskMayFail = TRUE
INVARIANTS
  TypeOK
  LedgerAccounts
  OutcomeIsLatestRun
  FiresInOrder
PROPERTIES
  FiresSettle
CHECK_DEADLOCK FALSE
