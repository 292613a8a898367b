SPECIFICATION Spec
CONSTANTS
    Trees = {"a", "b"}
    Names = {"a", "b", "x"}
    RootIds = {0, 1, 2, 3}
    Capacity = 3
    Keys = {1, 2}
    Rids = {11, 12}
    leaf_max_size_ = 2
    Tables = 1
INVARIANTS
    PinsReturned
    HeaderAgrees
PROPERTIES
    RefinesDirectory
    EntriesStay
