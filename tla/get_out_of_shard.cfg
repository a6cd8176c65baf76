SPECIFICATION FairSpec
CONSTANTS
  RemoteNodes = 5
  SelfInShard = FALSE
  BatchSize = 2
  MinAcks = 2
  OtherMinAcks = {3, 6}
  Retries = 2
  MaxRequests = 8
INVARIANTS FailedOnlyIfHopeless
PROPERTIES ImplementsOutcome Answers
CHECK_DEADLOCK FALSE
