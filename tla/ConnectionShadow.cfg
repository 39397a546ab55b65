CONSTANTS
    MaxRequests = 4
    Levels = {"rc", "other"}
    a = a
    UserNames = {a}
SPECIFICATION Spec
INVARIANTS
    RollbackUndoesItsWork
