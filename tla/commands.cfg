\* One behaviour each for the faults of a block, the ledger client, the rails
\* that ask it, `schema apply`, the stack, `remote exec`, the settings, the
\* webhook receiver, the research jobs and the ledger's questions.  Every one
\* of them may come to rest: no deadlock check.
CONSTANTS
  f1 = f1  f2 = f2  f3 = f3  d1 = d1  d2 = d2
  e1 = e1  e2 = e2  j1 = j1  j2 = j2  w1 = w1  s1 = s1  s2 = s2
  Causes = {"TimeoutError", "ConnectionLost", "PermissionDenied", "ProtocolError",
            "ChannelOpenError", "DisconnectError", "ConnectionFailed", "ProcessError",
            "HTTPStatusError", "RemoteProtocolError",
            "DecodeError", "HintViolation"}
  MaxRails = 3
  Queries = {q1, q2}
  Mine = q1
  LaneCapacity = 1
  DbAttempts = 2
  Extension = {"vector", "pgaudit", "pg_cron", "plpgsql", "stray"}
  _CENSUS_IGNORE = {"plpgsql"}
  Catalog <- MCCatalog
  MaxApplies = 2
  Stage = "local"
  MaxVerbs = 3
  MaxVanished = 1
  StackAttempts = 2
  Files = {f1, f2, f3}
  Lfs = {f3}
  Dirs = {d1, d2}
  DirOf <- MCDirOf
  PushCapacity = 1
  SshAttempts = 2
  MaxExecs = 2
  MaxEdits = 2
  Domain <- MCDomain
  MaxPuts = 5
  Events = {e1, e2}
  VerdictOf <- MCVerdictOf
  MaxSends = 3
  Jobs = {j1, j2}
  Workers = {w1}
  Sessions = {s1, s2}
  JobOf <- MCJobOf
  OwnerOf <- MCOwnerOf
  MaxSilence = 1
  MaxClock = 2
  Domains = {d1, d2}
  Concepts = {c1, c2}
  Uris = {u1, u2}
  MaxWrites = 7
SPECIFICATION MCSpec
CHECK_DEADLOCK FALSE
INVARIANTS
  SshPartition DispositionsAgree
  CommitsFollowLosses
  DoctorIsRight
  OkMeansApplied
  UpOkMeansConverged DiagnosticsAreOwn
  ReceiptIsTrue CommandRunsOnce
  ReachedIsAsGiven
  QuestionsAgree
PROPERTIES
  RailsExit StatementsAtLeastOnce DeliveredAtLeastOnce
  EndedStaysEnded SilentJobsSurface
