CONSTANTS
    MinAllocationSize = 2
    NumBins = 4
    InitialRegionSize = 32
    MaxAllocationSize = 14
    MemoryLimit = 1000
    MaxFragmentation = 100
    RegionStride = 16
    Threads = {t1, t2}
    Sizes = {3, 12}
    DescriptorMemory = 22
    MaxHeld = 1
SPECIFICATION FairSpec
PROPERTIES
    AllocationReturns
