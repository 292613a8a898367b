CONSTANTS
  Key <- MCKey
  Value = {v1, v2}
  NotFound = NotFound
  Hash <- MCHash
  HashBits <- MCHashBits
  BucketSize = 1
  NoInsert = NoInsert
SPECIFICATION FairSpec
INVARIANTS
  KeysAreFound
  TableCoherent
PROPERTIES
  RefinesMap
  InsertReturns
