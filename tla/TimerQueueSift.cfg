SPECIFICATION Spec
CONSTANTS
    MaxTime = 3
    RunAtTimes = {1, 2, 3}
    Delays = {}
    Intervals = {}
    MaxAdds = 6
    MaxDels = 1
INVARIANTS
    HeapOrder
CHECK_DEADLOCK FALSE
