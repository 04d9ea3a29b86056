SPECIFICATION FairSpec
CONSTANTS
    Base = 8
    Vms = {1, 2}
    Home = 1
    Functions = {1, 2, 3, 4, 5, 6}
    Voids = {3}
    Workloads <- MCWorkloads
    MaxQueue = 3
INVARIANTS
    FramesAligned
    CallsAsWritten
    StackBalanced
PROPERTY AllCallsMade
CHECK_DEADLOCK FALSE
