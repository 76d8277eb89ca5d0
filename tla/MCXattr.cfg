CONSTANTS
    Files = {1, 2}
    Top = 1
    Access = "access"
    Default = "default"
    Names <- MCNames
    Values <- MCValues
    EntryLen <- MCEntryLen
    BodyRoom = 48
    BlockRoom = 64
    BlockEntries = 9
    Blocks = {101, 102, 103, 104}
    BlockUnits = 2
    EaInodes = {11, 12}
    EaFeature = TRUE
    Modes <- MCModes
    Umask <- MCUmask
    Owner = 1
    Group = 1
    Ids = {0, 1, 2}
    Journaled = TRUE
SPECIFICATION Spec
INVARIANTS
    Inv
    ReadsCut
    OneOwner
    AccessIsPosix
PROPERTIES
    CreatedWithinMode
    CutsAtTheEnd
