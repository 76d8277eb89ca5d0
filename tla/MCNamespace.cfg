CONSTANTS
    Inodes = {2, 3, 4, 5}
    Root = 2
    Names = {"a", "b"}
    Space = 6
    Full = 3
    FileBlocks = 1
    LinkSpan = 65536
    DirIndex = FALSE
    Journaled = TRUE
SPECIFICATION Spec
INVARIANTS
    Inv
    LinksExact
    Rooted
    BlocksConserved
PROPERTIES
    FreedByLastName
