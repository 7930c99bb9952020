SPECIFICATION FairSpec
CONSTANTS
    Runs = {r1}
    Waiters = {w1}
    MaxReplays = 2
    MaxCrashes = 3
    MaxFaults = 1
INVARIANTS AtLeastOnce NoStuckRun GivesUpLate
PROPERTIES TerminalStands EveryRunSettles ParkedIsWoken
CHECK_DEADLOCK FALSE
