CONSTANTS
    s1 = s1
    s2 = s2
    None = None
    Session = {s1, s2}
    Address = {"a", "b"}
    Hash = {1, 9}
    Target <- MCTarget
    MaxTip = 1
    MaxStamp = 1
    Settings <- MCSettings
    ShareEase = 2
    MaxAuxCandidates = 3
SPECIFICATION PoolSpec
INVARIANTS
    PaidItsOwn
    MinerIsInformed
    BlockShareCounts
PROPERTIES
    JobsFollowTip
CHECK_DEADLOCK FALSE
