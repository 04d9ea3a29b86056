SPECIFICATION OrderlySpec
CONSTANTS
    u1 = u1
    u2 = u2
    Users = {u1}
    Sessions = {1, 2, 3, 4, 5}
    PoolSizes = {2, 3}
    MaxStarts = 2
INVARIANT PoolBounded
CHECK_DEADLOCK FALSE
