SPECIFICATION Spec
CONSTANTS
    MaxApps = 2
    MaxHazards = 1
    Sections <- ThreeSections
    Images <- MCImages
    FlashTop = 30
INVARIANT
    NoDoubleFree
CHECK_DEADLOCK FALSE
