CONSTANTS
    Threads = {t1, t2}
    Variables = {v1, v2}
    Trained = {{v1, v2}}
    Accessed = {v1}
    Gathered = {v1}
    MaxOps = 3
    MaxAssignments = 1
SPECIFICATION FairSpec
INVARIANTS
    LockedTensorsAreCurrent
    UpdatesMatchResults
PROPERTIES
    UniqueUpdatesAreKept
    OperationsReturn
CHECK_DEADLOCK FALSE
