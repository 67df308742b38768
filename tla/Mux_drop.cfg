CONSTANTS
    Parts = {"chain"}
    s1 = s1
    s2 = s2
    Senders = {s1, s2}
    Setups <- MCSetups
    Classes = {"high", "mid", "low"}
    LowWater = 3
    HighWater = 4
    maxStarving = 1
    StarvingMod = 4
    p1 = p1
    p2 = p2
    Loads <- MCTwoLoads
    InitSizes = {1}
    SizeLimit = 2
    IndexMod = 4
    Segments = 3
    Deadlines = {"none", "future", "past"}
    AppCloses = TRUE
    Callers = {"i1", "i2", "a1"}
    Initiator = {"i1", "i2"}
    MaxInt = 5
    Margin = 2
    Conns = {"c"}
    Opener <- MCOpener
    MayClose = {"client", "server"}
SPECIFICATION
    MCSpec
INVARIANT
    DroppedIsPermanentlyEmpty
CHECK_DEADLOCK FALSE
