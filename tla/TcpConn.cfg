SPECIFICATION Spec
CONSTANTS
    HeadLen = 2
    LengthLimit = 3
    Registered = {"echo"}
    PeerMsgs <- Msgs
    SendLens = {3}
    Caps = {4, 6}
    MaxMsgs = 2
    MaxSends = 3
INVARIANTS
    InFraming
    OutFraming
    EpollOutIffPending
    Buffers
PROPERTIES
    EventuallyWritten
    EveryMessageHandled
CHECK_DEADLOCK FALSE
