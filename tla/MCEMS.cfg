SPECIFICATION Spec
CONSTANTS
    MaxOrders = 1
    OrderId = {0, 1, 3}
    Quantity = {0, 1, 3}
    Modulus = 4
INVARIANTS TypeOK KeysAreReachable ProbesEndWhileRoom StateMatchesQuantity
PROPERTIES DeadStaysDead ImplementsTable
