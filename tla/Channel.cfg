SPECIFICATION FairTurnSpec
CONSTANTS
    u1 = u1
    u2 = u2
    w = w
    Users = {u1}
    Worker = w
    Stoppers = {u1, w}
    SigCount = 1
    Slots = {0, 1}
    MaxOps = 3
INVARIANTS
    TypeOK
    StrandOwnsTask
    StopOnce
    SilentAfterStop
    CallerFIFO
    AtMostOnce
    
PROPERTIES
    IsMailbox
    StopCompletes
    Delivery
    IsFairMailbox
CHECK_DEADLOCK FALSE
