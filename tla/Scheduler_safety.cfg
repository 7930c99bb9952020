SPECIFICATION FairSpec
CONSTANTS
    Jobs = {j1, j2}
    Workflows = {w1}
    Exprs = {"x", "y"}
    Schedules <- YamlEntries
    MinFixedDelay = 1
    MaxFixedDelay = 1
    CronTimes <- CronInstants
    MaxTime = 2
    MaxFaults = 1
INVARIANTS TypeOK IndexesAgree NoTimerLost OnceAtMostOnce YamlOnce
PROPERTIES NeverEarly CancelledStaysQuiet DueFires
CHECK_DEADLOCK FALSE
