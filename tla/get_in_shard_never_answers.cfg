SPECIFICATION FairSpec
CONSTANTS
  RemoteNodes = 3
  SelfInShard = TRUE
  BatchSize = 2
  MinAcks = 1
  OtherMinAcks = {}
  Retries = 1
  MaxRequests = 3
PROPERTY Answers
CHECK_DEADLOCK FALSE
