SPECIFICATION Spec
CONSTANTS
  Nodes = 3
  PageSize = 2
  Concurrency = 1
  Initial = 1
  MaxChanges = 2
  Collections = 3
  Unavailable = {1}
  States = 2
  BatchSize = 2
  Versions = 3
  Wallets = 3
  Tries = 2
  Lifetime = 1
  MaxClock = 3
  Assets = 2
  MaxErrors = 2
INVARIANTS OnlyOwnIdentity CompletedHasData HeldIsServed
PROPERTIES TableConverges PeersAreDialed CollectionsAreSynced LinkedCodeIsKept NodeIsUpdated NodeGetsProfile ResultIsServed
CHECK_DEADLOCK FALSE
