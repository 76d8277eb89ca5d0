CONSTANTS
    First = 1
    MaxLen = 7
    SeqWrap = 8
    HasCsum = TRUE
    Data <- MCTwoBlocks
    Image <- MCImage
    InitImage <- Ordinary
    Freed <- MCFreed
    Capacity = 2
    FirstSeq = 6
    MaxDepth = 2
    MaxTxns = 2
    MaxCrashes = 2
SPECIFICATION Spec
INVARIANTS
    Inv
PROPERTIES
    StoreImplemented
    ProtocolFollowed
    EngineReturns
CHECK_DEADLOCK FALSE
