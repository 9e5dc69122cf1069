SPECIFICATION Spec
CONSTANTS
    Price = {0, 1}
    MaxShares = 3
    OrderShares = {3}
    MaxPrice = 1
    Threshold = 0
    Bound = 1
    Backlog = 2
    MaxDatagrams = 2
    MaxCancels = 2
    NoMessage = NoMessage
    Base = 2
    Bytes <- MCBytes
    TokenLen = 1
    StockLen = 1
CHECK_DEADLOCK FALSE
INVARIANTS TypeOK AppliedInOrder NothingMissing FeedIsDecoded OvertakenOnlyAfterGrowth
PROPERTIES HitsRestingBid PushReturnsWhileRunning StopEnds
