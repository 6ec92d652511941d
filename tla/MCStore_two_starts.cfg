SPECIFICATION Spec
CONSTANTS
  Daemon = daemon
  Command = command
  Users = {1, 2, 3}
  Null = null
  OldReleases = {3, 9, 10}
  Alone = FALSE
  MaxExits = 0
  MaxChanges = 3
INVARIANTS SecretsReadable
CHECK_DEADLOCK FALSE
