SPECIFICATION Spec
CONSTANTS
    Lines <- FileLines
    MaxLines = 4
    UInt = 256
INVARIANTS
    LastOneWins
    ItemsAreRuns
CHECK_DEADLOCK FALSE
