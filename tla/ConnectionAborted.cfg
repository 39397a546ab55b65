CONSTANTS
    MaxRequests = 3
    Levels = {"rc", "other"}
    UserNames = {}
SPECIFICATION Spec
INVARIANTS
    RollbackAfterAbortSucceeds
