SPECIFICATION Spec
CONSTANTS
    Price = {0}
    MaxShares = 1
    OrderShares = {1}
    MaxPrice = 1
    Threshold = 0
    Bound = 1
    Backlog = 2
    MaxDatagrams = 1
    MaxCancels = 0
    NoMessage = NoMessage
    Base = 2
    Bytes <- MCBytes
    TokenLen = 1
    StockLen = 1
CHECK_DEADLOCK FALSE
INVARIANT ShutdownIsGraceful
