SPECIFICATION Spec
CONSTANTS
    u1 = u1
    u2 = u2
    w = w
    Users = {u1, u2}
    Worker = w
    Stoppers = {u1}
    SigCount = 1
    Slots = {0}
    MaxOps = 2
INVARIANT ThreadSafeAccess
CHECK_DEADLOCK FALSE
