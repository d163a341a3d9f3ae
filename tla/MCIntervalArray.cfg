CONSTANTS
    UINT_MAX = 7
    MaxValidSize = 3
    Overlap = "move"
SPECIFICATION Spec
INVARIANTS
    TypeOK
    AddIsUnion
    DeleteTakesOnlyItsOwn
    QueriesAgree
