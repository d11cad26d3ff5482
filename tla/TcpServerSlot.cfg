SPECIFICATION Spec
CONSTANTS
    c1 = c1
    c2 = c2
    c3 = c3
    MaxConns = 1
    Setups <- OneWorker
    Clients <- TwoClients
SYMMETRY ClientSymmetry
INVARIANTS
    SlotForEach
CHECK_DEADLOCK FALSE
