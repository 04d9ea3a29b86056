SPECIFICATION FairSpec
CONSTANTS
    MaxSend = 2
    MaxConnect = 2
    MaxReceive = 1
    MaxEndpoints = 2
INVARIANTS
    NoStall
    WireOrder
PROPERTIES
    LossReported
    ConnectAnswered
CHECK_DEADLOCK FALSE
