CONSTANTS
    Block = {"g", "n1", "n2", "x2"}
    Genesis = "g"
    Parent <- MCParent
    Timestamp <- MCTimestamp
    Bad <- MCBad
    Altered <- MCAltered
    Peer = {p1}
    Rpc = rpc
    Maintenance = maintenance
    MaxClock = 1
    MaxFutureTime = 0
    MaxHeld = 1
    OrphanTime = 0
    PrematureTime = 0
    BanThreshold = 100
SPECIFICATION FairSpec
PROPERTIES
    BlamelessPeers
    OrphansWait
    DeferredReturn
