SPECIFICATION FairSpec
CONSTANTS
  MaxLogs = 3
  MaxBlock = 3
  BlocksPerRange = 1
  MaxBlocksToSync = 2
  OtherBlocks = {2}
  MaxFailures = 1
INVARIANTS NothingPassedOver ProcessedWasHandled HandledOncePerFault
PROPERTIES HandledInOrder EventsAreHandled
