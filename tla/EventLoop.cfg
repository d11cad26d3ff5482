SPECIFICATION Spec
CONSTANTS
    d1 = d1
    d2 = d2
    Fds <- TwoFds
    MaxEvents = 2
    MaxTasks = 2
INVARIANTS
    TablesAgree
    TasksInOrder
    NoCrash
PROPERTIES
    Served
CHECK_DEADLOCK FALSE
