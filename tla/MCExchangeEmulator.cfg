SPECIFICATION EmulatorSpec
CONSTANTS
    FirstFd = 2
    MaxFd = 5
    TableSize = 3
    MaxEvents = 2
    Backlog = 2
    Client = {c1}
    Base = 2
    Bytes <- MCBytes
    TokenLen = 1
    StockLen = 2
    Timestamp = {5}
    FirstRef = 0
    ClientOrder <- MCClientOrder
    MaxSent = 1
CHECK_DEADLOCK FALSE
PROPERTY OrdersAreRead
