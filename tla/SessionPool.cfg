SPECIFICATION FairSpec
CONSTANTS
    u1 = u1
    u2 = u2
    Users = {u1, u2}
    Sessions = {1, 2, 3, 4, 5}
    PoolSizes = {2, 3}
    MaxStarts = 2
INVARIANTS
    OneOwner
PROPERTIES
    PoolRecovers
    IdleRenewed
CHECK_DEADLOCK FALSE
