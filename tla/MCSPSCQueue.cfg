CONSTANTS
    Capacity = 4
    Item = {"a", "b", "c"}
    NoItem = "none"
SPECIFICATION Spec
INVARIANTS NoDataRace RingInv
PROPERTIES ImplementsFifo PushReturns
