CONSTANTS
    Buffer = 1
    MaxItems = 4
SPECIFICATION Spec
INVARIANTS
    AgreesWithQuery
