CONSTANTS
    t1 = t1
    t2 = t2
    t3 = t3
    Thread = {t1, t2, t3}
    Key = {1, 2, 3, 4, 5, 6, 7, 8}
    MaxPid = 14
    LeafCap = 2
    IntCap = 2
    StartTrees <- MCTrees
    Jobs <- MCJobs
SPECIFICATION Spec
INVARIANT NoLatchDeadlock

CHECK_DEADLOCK FALSE
