SPECIFICATION Spec
CONSTANTS
    MaxSend = 1
    MaxConnect = 1
    MaxReceive = 0
    MaxEndpoints = 1
INVARIANT WrittenIsQueued
CHECK_DEADLOCK FALSE
