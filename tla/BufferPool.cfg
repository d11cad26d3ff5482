SPECIFICATION Spec
CONSTANTS
    t1 = t1
    t2 = t2
    Threads <- TwoThreads
    Caps = {1, 3}
    Preset <- TwoSmall
    MemLimit = 7
    Sizes = {1, 2, 4}
INVARIANTS
    OneOwner
    MemAccounted
    HandsOut
PROPERTIES
    CallsReturn
CHECK_DEADLOCK FALSE
