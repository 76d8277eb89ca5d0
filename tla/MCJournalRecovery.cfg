CONSTANTS
    First = 1
    MaxLen = 7
    SeqWrap = 16
    HasCsum = TRUE
    Block <- MCBlock
    Orders <- MCOrders
    FirstSeq = 5
    MaxTxns = 2
    MaxCrashes = 2
SPECIFICATION RecoverySpec
INVARIANTS
    RecoveryInv
    ReplayIsExact
    FailsBeforeWriting
PROPERTIES
    RecoveryEnds
CHECK_DEADLOCK FALSE
