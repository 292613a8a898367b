\* Fewer frames than pages, and clients that share a page.
SPECIFICATION Spec
CONSTANTS
  Client = {c1, c2}
  NoPin = NoPin
  pool_size_ = 2
  MaxPages = 3
  MaxWrites = 1
INVARIANTS
  PoolAgrees
  CleanPagesOnDisk
  FlushAllComplete
PROPERTIES
  RefinesPageStore
