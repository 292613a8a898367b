SPECIFICATION Spec
CONSTANTS
  Frame = {0, 1, 2}
  replacer_size_ = 3
  k_ = 2
  MaxTimestamp = 6
PROPERTIES
  EvictsLargestKDistance
