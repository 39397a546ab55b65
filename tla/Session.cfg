CONSTANTS
    MaxRequests = 3
    Levels = {"rc", "other"}
    UserNames = {}
    s1 = s1
    s2 = s2
    s3 = s3
    Servers = {s1, s2, s3}
    Localhost = s1
SPECIFICATION SessionSpec
INVARIANTS
    SessionTypeOK
    ConnectsAsConfigured
    BlockingLeavesNothingOpen
PROPERTIES
    FreedAfterLeaving
    ControlAnswered
    ReleasedAfterDrop
    ConnectEnds
    GoneClientEnds
