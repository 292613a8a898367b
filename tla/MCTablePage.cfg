SPECIFICATION Spec
CONSTANTS
    PageSize = 9
    SIZE_TABLE_PAGE_HEADER = 3
    SIZE_TUPLE = 1
    DELETE_MASK = 16
    INVALID_PAGE_ID <- NoPage
    Tuples <- SomeTuples
INVARIANTS WellLaidOut NothingLeaks
PROPERTIES TuplesStay IsATupleStore
