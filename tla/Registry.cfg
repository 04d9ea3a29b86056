SPECIFICATION FairSpec
CONSTANTS
    n1 = n1
    n2 = n2
    MaxTasks = 2
    NameOf <- SameNames
    MaxOps = 1
    MaxShutdowns = 1
INVARIANTS
    TypeOK
    NoStaleEntry
    NoneMissed
    ShutdownStopsListed
PROPERTIES
    EodReached
    EntryRemoved
CHECK_DEADLOCK FALSE
