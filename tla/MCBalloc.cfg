CONSTANTS
    BlocksCount = 28
    BlocksPerGroup = 6
    FirstDataBlock = 1
    MetaBlocks = 2
    Word = 4
    Tables <- MCTables
    Preused <- MCPreused
    Uninit <- MCUninit
    Inode = {f1, f2}
    Caller = {"one", "batch"}
    Goal <- MCGoal
    None = None
SPECIFICATION Spec
INVARIANTS
    Inv
    BitmapIsExact
    ShortIsTrue
