SPECIFICATION FairSpec
CONSTANTS
  Nodes = {p, r}
  Repeating = {r}
  Rounds = 2
  Assets = 2
  PrivateAt = p
  PrivateAssets = 1
  GraphRetries = 2
  InsertRetries = 2
  MaxErrors = 2
  Publisher = p
  Listening = {{p}, {r}}
  ReadRetries = 2
  p = p
  r = r
INVARIANTS AckMeansStored EndsForAReason
PROPERTIES StoredInTheEnd
CHECK_DEADLOCK FALSE
