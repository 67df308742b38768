CONSTANTS
    Parts = {"clients"}
    Task <- MCTask
    ConfTask <- MCConfTask
    SecretTask <- MCSecretTask
    Port <- MCPort
    Requests = 3
    ChanCap = 1
    Setups <- MCSetups
    Sessions = {1, 2}
    Uuid <- MCSame
    retryTimeMax = 1
    PingRetries = 2
    Prompt = TRUE
    BridgeSetups <- MCReconnect
SPECIFICATION
    MCSpec
PROPERTY
    NewestSurvives
CHECK_DEADLOCK FALSE
