SPECIFICATION Spec
CONSTANT N = 3
\* The system stops when every transaction has ended.
CHECK_DEADLOCK FALSE
INVARIANTS
    NoMissedWakeup
    NoOrphanEntry
PROPERTIES
    WaitsOutTheBlocker
    EveryoneEnds
