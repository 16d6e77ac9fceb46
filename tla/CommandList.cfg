CONSTANTS
    AllocatorCount = 2
    HeapCapacity = 2
    OpHeaps = {hA, hB}
    MaxRecorded = 2
    MaxLists = 3
SPECIFICATION ListSpec
INVARIANTS
    RingInv
    HeapIsBound
PROPERTIES
    NoResetInUse
    DescriptorsNotReused
CHECK_DEADLOCK FALSE
