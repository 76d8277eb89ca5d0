CONSTANTS
    RootMax = 2
    NodeMax = 3
    InitMax = 16
    MaxBlocks = 100
    LoopBound = 10
    MaxLblk = 8
    Lengths = {2, 8}
    MaxCalls = 4
    Journaled = TRUE
    OnlyHandled = TRUE
    Pool <- MCPool
    Taken0 <- MCTaken
    Ops = {"write", "truncate", "append", "fallocate", "reserve", "punch"}
SPECIFICATION Spec
VIEW MCView
CHECK_DEADLOCK FALSE
INVARIANTS
    Inv
    NoSharing
PROPERTIES
    CallIsExact
    NoLeak
