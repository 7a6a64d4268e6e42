SPECIFICATION LiveSpec
CONSTANTS
    MaxChunks = 6
    ChunkLen = 2
    MaxLive = 4
INVARIANTS
    SoundInv
    ReadsLive
    InOrder
PROPERTIES
    CallBackReturns
CHECK_DEADLOCK FALSE
