CONSTANTS
    AllocatorCount = 2
    HeapCapacity = 2
    OpHeaps = {hA}
    MaxRecorded = 2
    MaxLists = 3
SPECIFICATION ListSpec
PROPERTIES
    HeapsAreRecycled
CHECK_DEADLOCK FALSE
