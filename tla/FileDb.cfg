CONSTANTS
    Id = {1, 2, 3}
    Key = {1, 2, 3}
    Pass = {1, 2, 3}
    Requests = 2
    MaxTunnelNum = 3
    Setups <- MCSetups
SPECIFICATION Spec
INVARIANTS  IndexesFindRecords 
PROPERTY RequestsAnswered
CHECK_DEADLOCK FALSE
