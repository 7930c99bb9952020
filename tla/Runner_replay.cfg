SPECIFICATION Spec
CONSTANTS
    Runs = {r1}
    Waiters = {}
    MaxReplays = 1
    MaxCrashes = 2
    MaxFaults = 0
INVARIANT ReplayBounded
CHECK_DEADLOCK FALSE
