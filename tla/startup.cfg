SPECIFICATION StartupSpec
CONSTANTS
  LastMigration = 3
  Bare = {2, 3}
  MaxConnects = 2
  MaxFailures = 2
INVARIANTS UpMeansWhole
PROPERTIES NodeComesUp
CHECK_DEADLOCK FALSE
