SPECIFICATION StartupSpec
CONSTANTS
  LastMigration = 2
  Bare = {2}
  MaxConnects = 1
  MaxFailures = 1
INVARIANTS EventsModuleIsRequired
CHECK_DEADLOCK FALSE
