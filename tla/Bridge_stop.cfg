CONSTANTS
    Parts = {"tasks"}
    Task <- MCTask
    ConfTask <- MCConfTask
    SecretTask <- MCSecretTask
    Port <- MCPort
    Requests = 3
    ChanCap = 1
    Setups <- MCStopSetups
    Sessions = {1, 2}
    Uuid <- MCTwo
    retryTimeMax = 1
    PingRetries = 2
    Prompt = TRUE
    BridgeSetups <- MCJoinOrFailover
SPECIFICATION
    MCSpec
INVARIANT
    StoppedIsDown
CHECK_DEADLOCK FALSE
