CONSTANTS
    Threads = {t1, t2}
    Variables = {v1, v2}
    Trained = {}
    Accessed = {}
    Gathered = {v1, v2}
    MaxOps = 2
    MaxAssignments = 0
SPECIFICATION Spec
INVARIANTS
    KernelsUseTheirVariables
CHECK_DEADLOCK FALSE
