SPECIFICATION PoolSpec
CONSTANTS
    Threads = {a, b}
    Replicas = 1
    MaxMade = 2
    MaxFaults = 1
    MaxRestarts = 1
SYMMETRY ThreadSymmetry
INVARIANTS NoneLost 
CHECK_DEADLOCK FALSE
