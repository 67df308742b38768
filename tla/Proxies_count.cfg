CONSTANTS
    a1 = a1
    a2 = a2
    Addr = {a1, a2}
    MaxEnt = 3
    ChanCap = 1
    UdpSetups <- Exhausted
    v1 = v1
    v2 = v2
    Setups <- MCSetups
    Visitor = {v1, v2}
    Cap = 1
    Pool = 1
SPECIFICATION
    MCSpec
INVARIANT
    LiveCount
CHECK_DEADLOCK FALSE
