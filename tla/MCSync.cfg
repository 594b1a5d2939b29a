CONSTANTS
    p1 = p1
    p2 = p2
    Peer = {p1, p2}
    Top = 3
    BlocksInFlight = 2
    HeaderLimit = 2
    Setting <- Settings
SPECIFICATION Spec
INVARIANTS
    InOrder
PROPERTIES
    SyncCompletes
CHECK_DEADLOCK FALSE
