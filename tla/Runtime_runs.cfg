SPECIFICATION FairSpec
CONSTANTS
    r1 = r1
    r2 = r2
    Runs = {r1, r2}
    Streaming = {r2}
    MaxActive = 1
    MaxCrashes = 1
    MaxFaults = 1
CHECK_DEADLOCK FALSE
INVARIANTS RunningIsWatched ZombieFree CancelledIsStopped
PROPERTIES RunsKeepRecord RunsEnd PlainRunsRecorded
