SPECIFICATION PoolSpec
CONSTANTS
    Threads = {a, b}
    Replicas = 1
    MaxMade = 3
    MaxFaults = 1
    MaxRestarts = 1
SYMMETRY ThreadSymmetry

PROPERTY ActiveNotStopped
CHECK_DEADLOCK FALSE
