CONSTANTS
    BlockSize = 2
    NBlocks = 2
    Byte = {0, 1}
    None = None
    MaxWrite = 3
    MaxDepth = 2
SPECIFICATION Spec
INVARIANTS
    Inv
    ReadsOwnWrites
