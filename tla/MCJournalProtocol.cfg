CONSTANTS
    Block <- MCBlock
    SbBlock = 1
    Value <- MCValue
    Start <- MCStart
    FirstSeq = 1
    None = None
    Torn = Torn
    MaxSeq = 3
SPECIFICATION Spec
INVARIANTS
    Inv
    NoTornBlock
PROPERTIES
    StoreImplemented
CHECK_DEADLOCK FALSE
