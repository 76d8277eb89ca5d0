CONSTANTS
    RootMax = 2
    NodeMax = 3
    InitMax = 16
    MaxBlocks = 100
    LoopBound = 10
    MaxLblk = 4
    Lengths = {1, 4}
    MaxCalls = 4
    Journaled = TRUE
    OnlyHandled = FALSE
    Pool <- MCPool
    Taken0 <- MCFree
    Ops = {"write", "fallocate"}
SPECIFICATION Spec
VIEW MCView
CHECK_DEADLOCK FALSE
PROPERTY UnwrittenSurvives
