SPECIFICATION MCSpec
CONSTANTS
    MaxOrders = 3
    MaxPrice = 1
    OrderId = {0, 5, 11}
    Price = {0, 1}
    Quantity = {0, 1, 3}
    Modulus = 4
VIEW LiveState
INVARIANTS PoolIsPartitioned ListsAreConsistent VolumeIsSum MapFindsResting
PROPERTY ImplementsPriceTime
