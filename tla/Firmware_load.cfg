SPECIFICATION LiveSpec
CONSTANTS
    NPages = 6
    PagesPerSector = 2
    Files <- MCFiles
    MaxLoad = 3
    E10 = 6
    MaxSections = 2
    MaxEvents = 3
INVARIANTS
    FirmwareInv
    
    BootloaderKept
    UpMeansUnmarked
PROPERTIES
    MarkedIsStarted
CHECK_DEADLOCK FALSE
