SPECIFICATION BookSpec
CONSTANTS
    b1 = b1
    b2 = b2
    b3 = b3
    b4 = b4
    a1 = a1
    alice = alice
    bob = bob
    Orders = {b1, b2, b3, b4, a1}
    Terms <- MCTerms
    FirstOrders <- MCFirstOrders
    Limit = 3
    Scale = 2
    MaxChanges = 2
    MaxFaults = 1
INVARIANTS BookIsReference QuietIsCurrent
CHECK_DEADLOCK FALSE
