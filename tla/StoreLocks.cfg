SPECIFICATION FairSpec
CONSTANTS
    t1 = t1
    t2 = t2
    n1 = n1
    n2 = n2
    Threads = {t1, t2}
    Names = {n1, n2}
    Initial = {n1}
    MaxCalls = 2
INVARIANTS
    TypeOK
    WritersAlone
    NoDeadlock
PROPERTIES MapStable CallsReturn
CHECK_DEADLOCK FALSE
