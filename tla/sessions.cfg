SPECIFICATION FairSpec
CONSTANTS
  Requests = 2
  GetIds = {g}
  AskIds = {a}
  FinalityIds = {f}
  a = a
  f = f
  StoreIds = {s}
  StoreRetries = 2
  RateLimit = 2
  SpamLimit = 3
  BlackListTime = 1
  MaxFaults = 2
  s = s
  g = g
INVARIANTS AckMeansHandled SessionsAreRemoved
PROPERTIES RequestsAreAnswered
CHECK_DEADLOCK FALSE
