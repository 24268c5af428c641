SPECIFICATION MCSpec
CONSTANTS
    u1 = u1
    u2 = u2
    i1 = i1
    i2 = i2
    None = None
    Users = {u1}
    Tasks <- TwoRequests
    Items = {i1, i2}
    Owner <- OneLearner
    Orders = {1, 2}
    RepeatableRead = TRUE
INVARIANTS
    OrdersAreSound
PROPERTIES
    ContractBehaviour
CHECK_DEADLOCK FALSE
