CONSTANTS
  Threads = {1, 2, 3, 4}
  Keys <- MCKeys
  Values <- MCValues
  NoValue <- MCNoValue
  MayCall <- MCMayCall
SPECIFICATION Spec
INVARIANTS
  TrieIntact
PROPERTIES
  RefinesMap
