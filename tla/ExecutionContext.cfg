CONSTANTS
    Callers = {c1, c2}
    BatchFlushSize = 2
    MaxCommands = 4
SPECIFICATION FairSpec
INVARIANTS
    IInv
    SignaledIffExecuted
    SyncIsBarrier
PROPERTIES
    TakenBatchIsStable
    StreamSpec
    SyncReturnsUnlessStopped
    CommandsExecuteUnlessStopped
CHECK_DEADLOCK FALSE
