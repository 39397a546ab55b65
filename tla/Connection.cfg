CONSTANTS
    MaxRequests = 4
    Levels = {"unspecified", "other"}
    a = a
    UserNames = {a}
SPECIFICATION Spec
INVARIANTS
    TypeOK
    IInv
    DiscardedNeverDurable
    KeptIsDurable
    StatesAgree
    RunsAtItsLevel
PROPERTIES
    CommitsOnlyWhenAsked
    ImplementsLedger
