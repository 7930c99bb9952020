SPECIFICATION Spec
CONSTANTS
    a = a
    b = b
    c = c
    d = d
    Nodes = {a, b, c, d}
    Workflows <- Acyclic
    MaxConcurrent = 1
    MaxSteps = 9
    ChannelSize = 2
INVARIANT NothingForgotten
