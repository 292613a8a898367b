SPECIFICATION Spec
CONSTANTS
    Bits <- MCBits
    DblMax = 2003
    FltMax = 1000
    FractionDigits = 1
    Operands <- MCOperands
    Objs = {1, 2}
    SchemasOf <- MCSchemas
    RowsOf <- MCRowsOf
    KeyAttrs <- MCKeyAttrs
    KeySize = 24
INVARIANTS
    OperationsExact
    ConversionsKeepValues
    OwnedOnce
    ReadsBack
