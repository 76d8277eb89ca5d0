CONSTANTS
    Inode = {i1, i2}
    Owner = {o1, o2}
    LastByte = 1
SYMMETRY Symmetry
SPECIFICATION LocksSpec
INVARIANTS
    LocksInv
    NoConflict
