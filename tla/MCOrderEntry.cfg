SPECIFICATION Spec
CONSTANTS
    Thread = {t1, t2}
    Shares = {2, 3}
    Price = {0, 100, 106}
    MaxOrderSize = 2
    MaxPosition = 2
    MaxDeviationPct = 5
    MsgUnits = 2
    Room = 3
    MaxCalls = 3
    MaxResets = 1
    Base = 2
    Bytes <- MCBytes
    TokenLen = 2
    StockLen = 2
CHECK_DEADLOCK FALSE
INVARIANTS TypeOK OvershootIsBounded UnitsInOrder WireIsCounted OrdersAreEncoded
PROPERTY SendOrderReturns
