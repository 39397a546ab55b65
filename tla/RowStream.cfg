CONSTANTS
    Buffer = 2
    MaxItems = 6
SPECIFICATION FairSpec
INVARIANTS
    TypeOK
    DeliversInOrder
    NothingTruncated
    ClosedMeansDropped
    ReadAhead
    CleanHandover
PROPERTIES
    LeavingFrees
    EndingArrives
    ImplementsDelivery
