\* Does closing the writer's end end the reader?
CONSTANTS
    Capacity = 2
    Total = 4
    MaxWrite = 3
    MaxRead = 0
SPECIFICATION Spec
CHECK_DEADLOCK FALSE
PROPERTIES ClosingEndsReader
