CONSTANTS
    Proc = {p1, p2}
    Ip = {"ip"}
    MaxId = 2
    NonceTTL = 2
    MaxStore = 2
    SweepEvery = 1
    BanTime = 1
    IPBanTime = 2
    UserBanTime = 3
    MaxFail = 2
    TokenTTL = 2
    MaxSkew = 1
    MaxIssue = 2
    MaxLogin = 2
    Setups <- MCSetups
    Attempts <- MCAttempts
SPECIFICATION Spec
INVARIANT
    OneUseEach
    ActsOnOwnClient
    SessionSurvives
SYMMETRY Symmetry
CHECK_DEADLOCK FALSE
