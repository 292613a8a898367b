SPECIFICATION Spec
CONSTANTS
    Bits <- MCBits
    DblMax = 2147483647
    FltMax = 2000000000
    FractionDigits = 1
    Lower <- MCLower
    InternalTables <- MCInternalTables
    MockTables <- MCMockTables
    MaxDepth = 4
    MaxRows = 3
    MaxTexts = 1
    InitialTables <- MCTables
    InitialIndexes <- MCIndexes
    Texts <- MCTexts
    TEST1_SIZE = 100
    TEST7_SIZE = 32
    batch_size = 16
    Draw <- MCDraw
INVARIANTS
    PlanMeansQuery
    RulesPreserveMeaning
    ResultIsMeaning
    CatalogAgrees
CHECK_DEADLOCK FALSE
