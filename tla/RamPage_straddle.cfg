\* Words that straddle a page boundary: two pages, one usable frame, so both
\* bytes of a straddling word evict each other; addresses 3 and 4 are out of range
\* for some widths.
CONSTANTS
    PageSize = 2
    NPages = 2
    NFrames = 2
    Byte = {0, 1}
    Widths = {1, 2}
    MaxAddr = 4
SPECIFICATION Spec
INVARIANTS PagerInv
PROPERTIES ImplementsFlatMemory
