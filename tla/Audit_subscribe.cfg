SPECIFICATION Spec
CONSTANTS
    RunIds = {r1}
    Sessions = {s1}
    Spaces = {ns1}
    Keys = {}
    None = None
    MaxTime = 0
    Stores = {"redb"}
    Calls = {c1}
    Nodes = {n1}
    MaxRows = 2
    Filters <- Interactions
    ReplayLimit = 2
    MaxFaults = 0
INVARIANT SeesEveryRow
CHECK_DEADLOCK FALSE
