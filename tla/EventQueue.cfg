CONSTANTS
    UMax = 7
    MaxFence = 3
    MaxCallbacks = 4
SPECIFICATION QueueFairSpec
INVARIANTS
    QueueInv
    CallbackAfterSignal
    ExactlyOnce
PROPERTIES
    CallbackSpec
    ReachedCallbacksFire
CHECK_DEADLOCK FALSE
