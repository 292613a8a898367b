\* Pages of 4 bytes and ints of 5 bits: an int counts the bytes of three pages; the
\* sizes of the code, 4096 and 32, leave room for 2^19 - 1.
SPECIFICATION Spec
CONSTANTS
    PageIds = {0, 2}
    Contents = {"a", "b"}
    PAGE_SIZE = 4
    INT_MAX = 15
    Buffers = {"b1", "b2"}
    LogBytes = {"x", "y"}
    MaxChunk = 2
    MaxLog = 3
    MaxErrors = 1
INVARIANTS
    ReadsBack
    LogReadsBack
