SPECIFICATION FairSpec
CONSTANTS
  RemoteNodes = 4
  SelfInShard = TRUE
  BatchSize = 3
  MinAcks = 3
  OtherMinAcks = {1, 7}
  Retries = 2
  MaxRequests = 5
  Versions = {FALSE, TRUE}
INVARIANTS CompletedAfterAll AcksReachedNotFailed FailedOnlyIfHopeless
PROPERTIES Answers AcksAreReported
CHECK_DEADLOCK FALSE
