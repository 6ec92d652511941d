SPECIFICATION Spec
CONSTANTS
  Daemon = daemon
  Command = command
  Users = {1, 2, 3}
  Null = null
  OldReleases = {3, 9, 10}
  Alone = TRUE
  MaxExits = 2
  MaxChanges = 3
INVARIANTS SchemaCurrent SecretsReadable OrderAsArranged
PROPERTIES MappingsKept BootsInTheEnd
CHECK_DEADLOCK FALSE
