CONSTANTS
    Ints <- MCInts
SPECIFICATION Spec
INVARIANTS
    TypeOK
    ReadsAsDocumented
    ComesBackAsBound
    NullsGoIn
