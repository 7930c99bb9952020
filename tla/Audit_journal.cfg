SPECIFICATION Spec
CONSTANTS
    RunIds = {r1}
    Sessions = {s1}
    Spaces = {ns1}
    Keys = {k1}
    None = None
    MaxTime = 1
    Stores = {"none", "redb", "fanout"}
    Calls = {c1}
    Nodes = {n1}
    MaxRows = 2
    Filters <- Interactions
    ReplayLimit = 1
    MaxFaults = 1
INVARIANTS IndexesAgree ReadPathsAgree SettledOnce CaughtUp MirrorFaithful
CHECK_DEADLOCK FALSE
