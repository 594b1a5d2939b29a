CONSTANTS
    a = a
    b = b
    c = c
    d = d
    s = s
    NoNode = NoNode
    Node = {a, b, c, d, s}
    Stranger = {s}
    Casts <- MCCasts
    Slow = {d}
    Refused = {s}
    MaxLinks = 2
    Seeds <- MCSeeds
    MaxInbound = 1
    MaxOutbound = 1
    ReconnectThreshold = 2
SPECIFICATION Spec
INVARIANTS
    OnlyEarlyPingsViolate
    HandshakeAgreed
PROPERTIES
    HandshakeSettles
CHECK_DEADLOCK FALSE
