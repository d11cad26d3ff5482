SPECIFICATION Spec
CONSTANTS
    c1 = c1
    c2 = c2
    c3 = c3
    MaxConns = 2
    Setups <- AllSetups
    Clients <- ThreeClients
INVARIANTS
    OwnedOnce
    ConnCount
    ConnLimit
    NoAbort
PROPERTIES
    Released
    BacklogDrains
CHECK_DEADLOCK FALSE
