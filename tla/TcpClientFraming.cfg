SPECIFICATION Spec
CONSTANTS
    HeadLen = 2
    Cap = 6
    Registered = {"echo"}
    ServerMsgs <- FittingMsgs
    SendLens = {1}
    MaxMsgs = 2
    MaxSends = 0
INVARIANT Framing
CHECK_DEADLOCK FALSE
