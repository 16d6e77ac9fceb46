CONSTANTS
    Threads = {t1, t2}
    Keys = {kA, kB, kN}
    NeverCached = {kN}
    MaxCacheSize = 1
    MaxCalls = 3
SPECIFICATION Spec
SYMMETRY Symmetry
INVARIANTS
    CacheInv
    KernelsOutliveExecution
