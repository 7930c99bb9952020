SPECIFICATION Spec
CONSTANTS
    Jobs = {j1}
    Workflows = {w1}
    Exprs = {"x"}
    Schedules <- NoEntries
    MinFixedDelay = 1
    MaxFixedDelay = 1
    CronTimes <- CronInstants
    MaxTime = 2
    MaxFaults = 0
PROPERTY CancelStops
CHECK_DEADLOCK FALSE
