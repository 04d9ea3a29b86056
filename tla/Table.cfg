SPECIFICATION FairSpec
CONSTANTS
    s1 = s1
    s2 = s2
    a = a
    b = b
    NKeys = 2
    NCols = 2
    Values = {a, b}
    Subs = {s1}
    MaxOps = 4
INVARIANTS
    ReplicaFollows
    EventsAscend
PROPERTIES
    NoSilentChange
    CatchesUp
CHECK_DEADLOCK FALSE
