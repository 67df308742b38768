CONSTANTS
    MaxSession = 3
    Setups <- MCSetups
    Pairs <- HandshakeSetups
    Latest = 8
    MinVer = 7
    HealthCheckTarget <- Checks
    Tunnel <- MCTunnel
    Tcp <- MCTunnel
    Visitor <- MCVisitor
    Within <- Same
    MaxMsgs = 1
SPECIFICATION
    MCSpec
INVARIANT
    AcceptedIsVerified
PROPERTY
    Reconnects
    SessionEnds
    
    RotationFollows
CHECK_DEADLOCK FALSE
