SPECIFICATION Spec
CONSTANTS
    Server = server
    Clients = {c1, c2}
    HeadLen = 2
    LengthLimit = 5
    MaxPayload = 4
    Cmds = {"echo"}
    Callbacks = {"f"}
    SendLens = {1, 4}
    Strays <- StrayDatagrams
    RcvBuf = 2
    MaxSends = 3
    MaxDups = 1
INVARIANTS
    WholeDatagrams
    RepliesToSender
PROPERTY Drained
CHECK_DEADLOCK FALSE
