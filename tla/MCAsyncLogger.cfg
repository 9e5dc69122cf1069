SPECIFICATION Spec
CONSTANTS
    Thread = {t1, t2}
    Bound = 1
    MmapSize = 1
    MaxMessages = 2
    MaxInits = 2
    MaxFailures = 1
CHECK_DEADLOCK FALSE
INVARIANTS TypeOK InOrderAtMostOnce MappedWhileDraining
PROPERTIES LogReturnsWhileRunning ShutdownReturns
