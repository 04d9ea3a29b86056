SPECIFICATION Spec
CONSTANTS
    u1 = u1
    u2 = u2
    w = w
    Users = {u1, u2}
    Worker = w
    Stoppers = {u1, u2}
    SigCount = 1
    Slots = {0}
    MaxOps = 1
INVARIANT StopOnce
CHECK_DEADLOCK FALSE
