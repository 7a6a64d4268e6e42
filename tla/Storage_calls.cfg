SPECIFICATION Spec
CONSTANTS
    NSectors = 3
    Data = {d1, d2}
    Torn = torn
    BlockLen = 2
    MaxCount = 2
    MaxFaults = 2
INVARIANTS
    StorageInv
    TransferClosed
PROPERTIES
    CallReturns
    ImplementsBlockDevice
