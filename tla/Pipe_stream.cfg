\* Two programs joined by a pipe.
CONSTANTS
    Capacity = 2
    Total = 5
    MaxWrite = 3
    MaxRead = 2
SPECIFICATION Spec
CHECK_DEADLOCK FALSE
INVARIANT PipeInv
PROPERTIES ImplementsByteStream WriteReturns
