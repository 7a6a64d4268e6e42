\* A reader that met the end in f_read deletes itself.
CONSTANTS
    Capacity = 2
    Total = 4
    MaxWrite = 3
    MaxRead = 2
SPECIFICATION Spec
CHECK_DEADLOCK FALSE
INVARIANTS NoExitWhileSuspended
