SPECIFICATION LoopFairSpec
CONSTANTS
    a = a
    b = b
    c = c
    d = d
    Nodes = {a, b, c, d}
    Workflows <- Acyclic
    MaxConcurrent = 3
    MaxSteps = 4
    ChannelSize = 1
INVARIANTS ConcurrencyBound DoneIsQuiescent StepBudget JoinOnce NothingForgottenWithRoom
PROPERTIES Terminates CancelEnds
