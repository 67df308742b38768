CONSTANTS
    Networks <- MCNetworks
    Step = 2
    MaxBurst = 1
    r1 = r1
    r2 = r2
    Req <- Calls
    ManagerSetups <- MCManagerSetups
    MaxTun = 3
    MaxSec = 3
    MaxTick = 2
    Tries = 2
    NatLimit = 2
SPECIFICATION
    MCSpec
INVARIANT
    AgreedPair
    OneTunnel
PROPERTY
    PunchSucceeds
    
CHECK_DEADLOCK FALSE
