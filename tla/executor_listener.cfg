SPECIFICATION FairSpec
CONSTANTS
  Chains = {b1}
  Jobs = {}
  Steps = 1
  ListenerRetries = 2
  JobRetries = 0
  MaxCommands = 3
  MaxCrashes = 2
  MaxErrors = 2
INVARIANTS OneListenerWithinRetries BlockingRowIsAlive
PROPERTIES ListenersKeepRunning
CHECK_DEADLOCK FALSE
