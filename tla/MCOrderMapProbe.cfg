SPECIFICATION Spec
CONSTANTS
    MaxOrders = 2
    MaxPrice = 2
    OrderId = {0, 1, 2, 3, 5}
    Price = {0, 1}
    Quantity = {0, 1}
    Modulus = 2
VIEW LiveState
INVARIANT ProbesEnd
