CONSTANTS
    Parts = {"tasks", "clients"}
    Task <- MCTask
    ConfTask <- MCConfTask
    SecretTask <- MCSecretTask
    Port <- MCPort
    Requests = 3
    ChanCap = 1
    Setups <- MCSetups
    Sessions = {1, 2}
    Uuid <- MCTwo
    retryTimeMax = 1
    PingRetries = 2
    Prompt = TRUE
    BridgeSetups <- MCJoinOrFailover
SPECIFICATION
    MCSpec
INVARIANT
    ListeningRegistered
    SettledAgrees
    NothingOutlivesClient
PROPERTY
    EverythingSettles
    
    NodeReclaimed
CHECK_DEADLOCK FALSE
