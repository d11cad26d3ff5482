SPECIFICATION Spec
CONSTANTS
    HeadLen = 2
    Cap = 6
    Registered = {"echo"}
    ServerMsgs <- Msgs
    SendLens = {1}
    MaxMsgs = 2
    MaxSends = 3
INVARIANTS
    OneAttempt
    InFraming
    OutStream
CHECK_DEADLOCK FALSE
PROPERTIES
    Reconnects
    EventuallyWritten
