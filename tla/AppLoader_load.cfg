SPECIFICATION LiveSpec
CONSTANTS
    MaxApps = 3
    MaxHazards = 1
    Sections <- ThreeSections
    Images <- MCImages
    FlashTop = 40
INVARIANTS
    LoaderInv
    SectionsDisjoint
    LoadComplete
    RamFreedOnce
    NothingLeaks
    FlashHolds
PROPERTIES
    FlashKept
    LoadReturns
CHECK_DEADLOCK FALSE
