CONSTANTS
    InodeGroups = 3
    InodesPerGroup = 4
    TotalInodes = 8
    FirstInode = 2
SPECIFICATION IallocSpec
INVARIANTS
    IallocInv
    InodeBitmapIsExact
    UnusedTailIsUnused
    EnospcIsTrue
