SPECIFICATION Spec
CONSTANTS
    FirstFd = 2
    MaxFd = 4
    TableSize = 3
    MaxEvents = 2
    Backlog = 1
CHECK_DEADLOCK FALSE
INVARIANTS TypeOK InterestHasCallback BatchIsLive UnseenIsPending
PROPERTIES ArrivalIsDispatched StopReturns
