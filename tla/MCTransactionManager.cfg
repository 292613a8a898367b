SPECIFICATION Spec
CONSTANTS
    PageSize = 9
    SIZE_TABLE_PAGE_HEADER = 3
    SIZE_TUPLE = 1
    DELETE_MASK = 16
    INVALID_PAGE_ID <- NoPage
    Txns = {t1, t2}
    Workloads <- MCWorkloads
INVARIANTS
    PagesLaidOut
    NeverCrashes
    RowsAsCommitted
    ScanComplete
PROPERTIES
    EveryCallReturns
CHECK_DEADLOCK FALSE
