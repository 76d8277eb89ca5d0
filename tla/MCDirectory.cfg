CONSTANTS
    Names = {"a", "b", "c", "d", "e"}
    AllNames = {"a", "b", "c", "d", "e", ".", ".."}
    Inodes = {1, 2, 3, 4}
    Self = 1
    Parent = 2
    Children = {3}
    Targets = {4}
    End = 5
    Size <- MCSize
    Need <- MCNeed
    Hash <- MCHash
    RootLimit = 2
    NodeLimit = 3
    LargeDir = FALSE
    MaxBlocks = 7
    Features = {TRUE, FALSE}
    MaxChanges = 2
    Journaled = TRUE
    Listing = "linear"
    ListFrom = 7
SPECIFICATION Spec
CHECK_DEADLOCK FALSE
INVARIANTS
    Inv
    FindIsExact
    ListingIsStable
