CONSTANTS
    Numerics <- MCNumerics
    Times <- MCTimes
    MaxMantissa = 79
    MaxScale = 2
    NanosPer3 = 10
    TicksPerDay = 600
SPECIFICATION Spec
INVARIANTS
    TypeOK
    DecimalIsExact
    RefusedHasNoDecimal
    BoundIsNearest
