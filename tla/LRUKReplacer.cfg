SPECIFICATION Spec
CONSTANTS
  Frame = {0, 1, 2, 3, 4}   \* the frames of a pool, one that is accepted all the same, one refused
  replacer_size_ = 3
  k_ = 2
  MaxTimestamp = 6
INVARIANTS
  ListsAndSizesAgree
  NeverStuckWithinSize
PROPERTIES
  EvictionOrder
  RefinesReplacer
CHECK_DEADLOCK FALSE
