CONSTANTS
    MaxRequests = 2
    Levels = {"rc", "other"}
    UserNames = {}
SPECIFICATION Spec
INVARIANTS
    NoOrphanedTransaction
