SPECIFICATION Spec
CONSTANTS
    Keys = {"ctrl", "alt", "del", "one", "num"}
    MaxEvents = 6
    MaxWire = 1
    MaxNoise = 1
    Noise = {20, 224, 240}
    BufferSize = 16
INVARIANTS
    KeyboardInv
    NoStuckModifier
PROPERTIES
    ResetNeedsKeys
    ReadOnce
CHECK_DEADLOCK FALSE
