CONSTANTS
    DeviceIDLimit = 4
    AllocationIDLimit = 4
    OffsetLimit = 8
    Threads = {t1, t2}
    Devices = {0, 1}
    TiledDevices = {1}
    Memory = {m1, m2, m3, m4, m5}
    Sizes = {0, 1, 5}
    TileSize = 2
    MaxHeapTiles = 2
    NumMaxDevices = 2
SYMMETRY Symmetry
SPECIFICATION Spec
INVARIANTS
    IdInv
    PointersResolve
    DistinctMemory
PROPERTIES
    ExhaustionIsReal
    TableSpec
