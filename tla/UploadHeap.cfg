CONSTANTS
    Alignment = 2
    MinChunkSize = 5
    Sizes = {1, 3, 6}
    MaxCommands = 5
SPECIFICATION Spec
INVARIANTS
    HeapInv
    StagingIntact
    StagingAlive
CHECK_DEADLOCK FALSE
