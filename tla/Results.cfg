CONSTANTS
    MaxItems = 7
SPECIFICATION Spec
INVARIANTS
    TypeOK
    DatasetIsResponse
    QueryIsFirstSet
    SingleRowIsCertain
    FailureIsTold
