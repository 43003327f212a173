\* Two remotes, one file, edits at any site at any time, two operations.  The
\* operations are used up in the end: no deadlock check.
SPECIFICATION FairSpec
CONSTANTS
  Remotes = {drive, onedrive}
  Primary = drive
  Local = local
  Files = {f}
  MaxEdits = 2
  MaxRuns = 2
INVARIANTS
  TypeOK
  ListedIsBackedUp
  
  ResyncsFollowReplay
PROPERTIES
  OperationsEnd
CHECK_DEADLOCK FALSE
