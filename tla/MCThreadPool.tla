---------------------------- MODULE MCThreadPool ----------------------------
(* Small instances of ThreadPool: two workers, the accepting thread and    *)
(* one more thread that gives tasks to the pool.  The workloads: tasks     *)
(* only, a connection and a task, and connections enough for the round     *)
(* robin to wrap and go on.                                                *)
EXTENDS ThreadPool

CONSTANTS main, user, fd5, f1, a1, null

MCSenders == {main, user}
MCConnfds == {fd5}
MCFuncs == {f1}
MCArgVals == {a1}
MCWorkloads == {
    [NEW_CONN |-> 0, NEW_TASK |-> 2],
    [NEW_CONN |-> 1, NEW_TASK |-> 1],
    [NEW_CONN |-> 4, NEW_TASK |-> 0]}
=============================================================================
