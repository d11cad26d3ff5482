SPECIFICATION Spec
CONSTANTS
    MaxTime = 4
    RunAtTimes = {2, 3}
    Delays = {0}
    Intervals = {1}
    MaxAdds = 4
    MaxDels = 2
INVARIANTS
    HeapOK
    ArmedInTime
PROPERTIES
    ServiceSpec
    EventuallyFires
CHECK_DEADLOCK FALSE
