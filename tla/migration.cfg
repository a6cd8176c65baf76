SPECIFICATION FairSpec
CONSTANTS
  Chains = 2
  Listed = 2
  Tokens = 3
  Kinds <- MCKinds
  BatchSize = 2
  DownloadAttempts = 2
  IntegrityAttempts = 2
  ConnectRetries = 2
  MaxErrors = 2
INVARIANTS ProcessedIsCopied MigratedMeansAll
PROPERTIES MigrationEnds
CHECK_DEADLOCK FALSE
