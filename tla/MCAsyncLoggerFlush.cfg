SPECIFICATION Spec
CONSTANTS
    Thread = {t1}
    Bound = 1
    MmapSize = 1
    MaxMessages = 1
    MaxInits = 1
    MaxFailures = 0
CHECK_DEADLOCK FALSE
INVARIANT ShutdownFlushes
