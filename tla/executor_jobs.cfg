SPECIFICATION FairSpec
CONSTANTS
  Chains = {}
  Jobs = {j1}
  Steps = 3
  ListenerRetries = 1
  JobRetries = 1
  MaxCommands = 8
  MaxCrashes = 2
  MaxErrors = 2
INVARIANTS ChildAfterParent CompletedOnce
PROPERTIES StartedJobsEnd
CHECK_DEADLOCK FALSE
