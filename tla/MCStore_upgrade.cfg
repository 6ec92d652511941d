SPECIFICATION Spec
CONSTANTS
  Daemon = daemon
  Command = command
  Users = {1, 2, 3}
  Null = null
  OldReleases = {3}
  Alone = TRUE
  MaxExits = 0
  MaxChanges = 3
PROPERTIES UpgradeKeepsMappings
CHECK_DEADLOCK FALSE
