\* Two syncs, then a restore.
SPECIFICATION Spec
CONSTANTS
  Remotes = {drive, onedrive}
  Primary = drive
  Local = local
  Files = {f}
  MaxEdits = 0
  MaxRuns = 3
INVARIANTS
  RestoresLatest
CHECK_DEADLOCK FALSE
