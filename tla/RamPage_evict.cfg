\* Replacement: three pages compete for two usable frames of one byte each.
CONSTANTS
    PageSize = 1
    NPages = 3
    NFrames = 3
    Byte = {0, 1}
    Widths = {1}
    MaxAddr = 3
SPECIFICATION Spec
INVARIANTS RightFrame
PROPERTIES NoDirtyPageDropped CallReturns
