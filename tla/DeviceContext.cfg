CONSTANTS
    Alignment = 1
    MinChunkSize = 2
    Sizes = {1}
    Callers = {c1, c2}
    MaxTensors = 2
    MaxCommands = 3
SPECIFICATION FairSpec
INVARIANTS
    HeapInv
    SignaledMeansFilled
    ReturnedMeansFilled
PROPERTIES
    CopyReturns
CHECK_DEADLOCK FALSE
