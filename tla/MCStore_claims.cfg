SPECIFICATION Spec
CONSTANTS
  Daemon = daemon
  Command = command
  Users = {1, 2, 3}
  Null = null
  OldReleases = {3}
  Alone = TRUE
  MaxExits = 0
  MaxChanges = 3
INVARIANTS UnlistedFollow
PROPERTIES UnmappedIsFlagged
CHECK_DEADLOCK FALSE
