SPECIFICATION Spec
CONSTANTS
    main = main
    user = user
    fd5 = fd5
    f1 = f1
    a1 = a1
    null = null
    NULL <- null
    Main <- main
    Senders <- MCSenders
    Connfds <- MCConnfds
    Funcs <- MCFuncs
    ArgVals <- MCArgVals
    ThreadCnt = 2
    Workloads <- MCWorkloads
INVARIANTS
    TypeOK
    NoLostWakeup
    Balanced
    TasksInOrder
PROPERTIES
    MailboxSpec
    EveryTaskRuns
