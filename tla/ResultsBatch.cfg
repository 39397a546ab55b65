CONSTANTS
    MaxItems = 4
SPECIFICATION Spec
INVARIANTS
    BatchReturnsEveryRow
