SPECIFICATION MCFairSpec
CONSTANTS
    u1 = u1
    u2 = u2
    i1 = i1
    i2 = i2
    None = None
    Users = {u1, u2}
    Tasks <- OneRequest
    Items = {i1, i2}
    Owner <- MCOwner
    Orders = {1, 2}
    RepeatableRead = FALSE
PROPERTIES
    OrdersSettle
CHECK_DEADLOCK FALSE
