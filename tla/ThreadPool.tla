----------------------------- MODULE ThreadPool -----------------------------
(***************************************************************************)
(* The worker threads of the multi-threaded TCP server and the queues that *)
(* feed them: thread_queue.h, thread_pool.cc and the parts of              *)
(* event_loop::process_evs that a queue's event goes through.              *)
(*                                                                         *)
(* A sender (the accepting main thread, or any thread that calls           *)
(* thread_pool::run_task) pushes a message on a thread's queue and         *)
(* increments its eventfd, both under the queue's mutex.  The worker waits *)
(* in epoll_wait for the eventfd, takes the whole queue under the mutex,   *)
(* handles the messages, and runs the tasks they carried before it polls   *)
(* again.  Every lock, push, eventfd operation and swap is a step, so      *)
(* that all interleavings of senders and workers are behaviours.           *)
(***************************************************************************)
EXTENDS Naturals, Sequences

CONSTANTS ThreadCnt,   \* number of worker threads (threadNum in the config)
          Senders,     \* threads that call send_msg
          Main,        \* the sender that runs the accepter
          Connfds,     \* connected sockets the accepter hands out
          Funcs,       \* task functions
          ArgVals,     \* task arguments other than NULL
          NULL,        \* the null pointer, and "nobody"
          Workloads    \* bounds on the calls made by the senders: how many
                       \*   connections are handed out and tasks asked for

ASSUME ThreadPoolAssumption ==
    /\ ThreadCnt \in 1..30
    /\ Main \in Senders
    /\ NULL \notin ArgVals
    /\ Workloads \subseteq [{"NEW_CONN", "NEW_TASK"} -> Nat]

Threads == 0..(ThreadCnt - 1)
Workers == {<<"worker", t>> : t \in Threads}

ASSUME HolderAssumption ==
    /\ NULL \notin Senders \cup Workers
    /\ Senders \cap Workers = {}

(* queue_msg: NEW_CONN carries a descriptor, NEW_TASK a function and its   *)
(* argument.  STOP_THD exists in the enum but nothing sends it.            *)
NEW_CONN(fd) == [cmd_type |-> "NEW_CONN", connfd |-> fd]
NEW_TASK(f, a) == [cmd_type |-> "NEW_TASK", task |-> f, args |-> a]

TaskMsgs == {NEW_TASK(f, a) : f \in Funcs, a \in ArgVals \cup {NULL}}
Messages == {NEW_CONN(fd) : fd \in Connfds} \cup TaskMsgs

VARIABLES
    mutex,        \* mutex[t]: who holds queue t's lock, or NULL
    queue,        \* queue[t]: _queue
    evfd,         \* evfd[t]: the eventfd counter
    curr_index,   \* thread_pool::_curr_index
    spc,          \* spc[s]: where sender s is in send_msg
    todo,         \* todo[s]: the send_msg calls sender s still has to make
    left,         \* bound: the calls of each kind that may still be made
    wpc,          \* wpc[t]: where worker t is
    msgs,         \* msgs[t]: the local queue of msg_comming_cb
    pending,      \* pending[t]: _pendingFactors of the worker's loop
    sent,         \* history: messages pushed to thread t
    handled,      \* history: messages msg_comming_cb has handled
    ran,          \* history: tasks worker t has run
    asked,        \* history: tasks asked for, with the argument of the call
    assigned      \* history: connections get_next_thread gave to thread t

queueVars  == <<mutex, queue, evfd>>
senderVars == <<spc, todo, left, curr_index, assigned, asked>>
workerVars == <<wpc, msgs, pending>>
histVars   == <<sent, handled, ran>>
vars == <<queueVars, senderVars, workerVars, histVars>>

(* thread_pool::thread_pool: every queue is empty, its eventfd is 0, and   *)
(* its thread has been created but may not have installed its callback.    *)
Init ==
    /\ mutex = [t \in Threads |-> NULL]
    /\ queue = [t \in Threads |-> << >>]
    /\ evfd = [t \in Threads |-> 0]
    /\ curr_index = 0
    /\ spc = [s \in Senders |-> "idle"]
    /\ todo = [s \in Senders |-> << >>]
    /\ left \in Workloads
    /\ wpc = [t \in Threads |-> "start"]
    /\ msgs = [t \in Threads |-> << >>]
    /\ pending = [t \in Threads |-> << >>]
    /\ sent = [t \in Threads |-> << >>]
    /\ handled = [t \in Threads |-> << >>]
    /\ ran = [t \in Threads |-> << >>]
    /\ asked = {}
    /\ assigned = [t \in Threads |-> 0]

-----------------------------------------------------------------------------
(* Senders.  A call fills todo[s]; send_msg then works it off.             *)

StartCall(s, kind, sends) ==
    /\ spc[s] = "idle"
    /\ left[kind] > 0
    /\ left' = [left EXCEPT ![kind] = @ - 1]
    /\ todo' = [todo EXCEPT ![s] = sends]
    /\ spc' = [spc EXCEPT ![s] = "lock"]
    /\ UNCHANGED <<queueVars, workerVars, histVars>>

(* The thread get_next_thread returns: _curr_index, wrapped to 0 when it   *)
(* has run past the last thread.                                           *)
NextThread == IF curr_index = ThreadCnt THEN 0 ELSE curr_index

(* Mutant: returns the first thread as it wraps, and does not step on.     *)
get_next_thread_WrapStays(fd) ==
    /\ StartCall(Main, "NEW_CONN", << [thd |-> NextThread, msg |-> NEW_CONN(fd)] >>)
    /\ curr_index' = IF curr_index = ThreadCnt THEN 0 ELSE curr_index + 1
    /\ assigned' = [assigned EXCEPT ![NextThread] = @ + 1]
    /\ UNCHANGED asked

(* do_accept hands a new connection to the next thread, round robin.       *)
get_next_thread(fd) ==
    /\ StartCall(Main, "NEW_CONN", << [thd |-> NextThread, msg |-> NEW_CONN(fd)] >>)
    /\ curr_index' = NextThread + 1
    /\ assigned' = [assigned EXCEPT ![NextThread] = @ + 1]
    /\ UNCHANGED asked

(* run_task(thd_index, task, args)                                         *)
run_task_one(s, t, f, a) ==
    /\ StartCall(s, "NEW_TASK", << [thd |-> t, msg |-> NEW_TASK(f, a)] >>)
    /\ asked' = asked \cup {NEW_TASK(f, a)}
    /\ UNCHANGED <<curr_index, assigned>>

(* run_task(task, args): the loop calls run_task(i, task), which leaves    *)
(* the argument at its default, NULL.                                      *)
run_task_all(s, f, a) ==
    /\ StartCall(s, "NEW_TASK",
                 [i \in 1..ThreadCnt |-> [thd |-> i - 1, msg |-> NEW_TASK(f, NULL)]])
    /\ asked' = asked \cup {NEW_TASK(f, a)}
    /\ UNCHANGED <<curr_index, assigned>>

(* send_msg: lock, push, write the eventfd, unlock.                        *)
Target(s) == Head(todo[s]).thd

SenderStep(s, from, to) ==
    /\ spc[s] = from
    /\ spc' = [spc EXCEPT ![s] = to]
    /\ UNCHANGED <<left, curr_index, assigned, asked, workerVars, handled, ran>>

send_lock(s) ==
    /\ SenderStep(s, "lock", "push")
    /\ mutex[Target(s)] = NULL
    /\ mutex' = [mutex EXCEPT ![Target(s)] = s]
    /\ UNCHANGED <<queue, evfd, todo, sent>>

(* Mutant: the eventfd is only written for a worker that is polling.       *)
send_push_NotifiesPollersOnly(s) ==
    /\ SenderStep(s, "push", IF wpc[Target(s)] = "poll" THEN "write" ELSE "unlock")
    /\ queue' = [queue EXCEPT ![Target(s)] = Append(@, Head(todo[s]).msg)]
    /\ sent' = [sent EXCEPT ![Target(s)] = Append(@, Head(todo[s]).msg)]
    /\ UNCHANGED <<mutex, evfd, todo>>

send_push(s) ==
    /\ SenderStep(s, "push", "write")
    /\ queue' = [queue EXCEPT ![Target(s)] = Append(@, Head(todo[s]).msg)]
    /\ sent' = [sent EXCEPT ![Target(s)] = Append(@, Head(todo[s]).msg)]
    /\ UNCHANGED <<mutex, evfd, todo>>

send_write(s) ==
    /\ SenderStep(s, "write", "unlock")
    /\ evfd' = [evfd EXCEPT ![Target(s)] = @ + 1]
    /\ UNCHANGED <<mutex, queue, todo, sent>>

send_unlock(s) ==
    /\ SenderStep(s, "unlock", IF Len(todo[s]) = 1 THEN "idle" ELSE "lock")
    /\ mutex' = [mutex EXCEPT ![Target(s)] = NULL]
    /\ todo' = [todo EXCEPT ![s] = Tail(@)]
    /\ UNCHANGED <<queue, evfd, sent>>

-----------------------------------------------------------------------------
(* Workers.                                                                *)

WorkerStep(t, from, to) ==
    /\ wpc[t] = from
    /\ wpc' = [wpc EXCEPT ![t] = to]
    /\ UNCHANGED <<senderVars, sent>>

(* thread_domain: create the loop, install msg_comming_cb on the eventfd.  *)
thread_domain(t) ==
    /\ WorkerStep(t, "start", "poll")
    /\ UNCHANGED <<queueVars, msgs, pending, handled, ran>>

(* epoll_wait reports the eventfd: level triggered, so while it is not 0.  *)
epoll_wait(t) ==
    /\ WorkerStep(t, "poll", "lock")
    /\ evfd[t] > 0
    /\ UNCHANGED <<queueVars, msgs, pending, handled, ran>>

(* epoll_wait times out (10ms) with nothing to report; run_task follows.   *)
epoll_timeout(t) ==
    /\ WorkerStep(t, "poll", "run_task")
    /\ evfd[t] = 0
    /\ UNCHANGED <<queueVars, msgs, pending, handled, ran>>

(* recv_msg: lock, read the eventfd (which zeroes it), swap, unlock.       *)
recv_lock(t) ==
    /\ WorkerStep(t, "lock", "read")
    /\ mutex[t] = NULL
    /\ mutex' = [mutex EXCEPT ![t] = <<"worker", t>>]
    /\ UNCHANGED <<queue, evfd, msgs, pending, handled, ran>>

recv_read(t) ==
    /\ WorkerStep(t, "read", "swap")
    /\ evfd' = [evfd EXCEPT ![t] = 0]
    /\ UNCHANGED <<mutex, queue, msgs, pending, handled, ran>>

(* Mutant: takes one message and leaves the others, though the eventfd     *)
(* has been zeroed.                                                        *)
recv_swap_TakesOne(t) ==
    /\ WorkerStep(t, "swap", "unlock")
    /\ queue[t] # << >>
    /\ msgs' = [msgs EXCEPT ![t] = <<Head(queue[t])>>]
    /\ queue' = [queue EXCEPT ![t] = Tail(@)]
    /\ UNCHANGED <<mutex, evfd, pending, handled, ran>>

recv_swap(t) ==
    /\ WorkerStep(t, "swap", "unlock")
    /\ msgs' = [msgs EXCEPT ![t] = queue[t]]
    /\ queue' = [queue EXCEPT ![t] = msgs[t]]
    /\ UNCHANGED <<mutex, evfd, pending, handled, ran>>

recv_unlock(t) ==
    /\ WorkerStep(t, "unlock", "handle")
    /\ mutex' = [mutex EXCEPT ![t] = NULL]
    /\ UNCHANGED <<queue, evfd, msgs, pending, handled, ran>>

(* Mutant: does not look at cmd_type.                                      *)
msg_comming_cb_NoTypeCheck(t) ==
    /\ WorkerStep(t, "handle", "handle")
    /\ msgs[t] # << >>
    /\ msgs' = [msgs EXCEPT ![t] = Tail(@)]
    /\ handled' = [handled EXCEPT ![t] = Append(@, Head(msgs[t]))]
    /\ pending' = [pending EXCEPT ![t] = Append(@, Head(msgs[t]))]
    /\ UNCHANGED <<queueVars, ran>>

(* One round of msg_comming_cb's loop: a connection is set up at once, a   *)
(* task joins _pendingFactors (event_loop::add_task).                      *)
msg_comming_cb(t) ==
    /\ WorkerStep(t, "handle", "handle")
    /\ msgs[t] # << >>
    /\ msgs' = [msgs EXCEPT ![t] = Tail(@)]
    /\ handled' = [handled EXCEPT ![t] = Append(@, Head(msgs[t]))]
    /\ pending' = IF Head(msgs[t]) \in TaskMsgs
                  THEN [pending EXCEPT ![t] = Append(@, Head(msgs[t]))]
                  ELSE pending
    /\ UNCHANGED <<queueVars, ran>>

(* The callback has returned: process_evs calls event_loop::run_task.      *)
callback_done(t) ==
    /\ WorkerStep(t, "handle", "run_task")
    /\ msgs[t] = << >>
    /\ UNCHANGED <<queueVars, msgs, pending, handled, ran>>

(* Mutant: runs the newest task first.                                     *)
run_pending_NewestFirst(t) ==
    /\ WorkerStep(t, "run_task", "run_task")
    /\ pending[t] # << >>
    /\ ran' = [ran EXCEPT ![t] = Append(@, pending[t][Len(pending[t])])]
    /\ pending' = [pending EXCEPT ![t] = SubSeq(@, 1, Len(@) - 1)]
    /\ UNCHANGED <<queueVars, msgs, handled>>

(* One round of event_loop::run_task's loop.  The vector is cleared after  *)
(* the loop; here each entry leaves it as it runs.                         *)
run_pending(t) ==
    /\ WorkerStep(t, "run_task", "run_task")
    /\ pending[t] # << >>
    /\ ran' = [ran EXCEPT ![t] = Append(@, Head(pending[t]))]
    /\ pending' = [pending EXCEPT ![t] = Tail(@)]
    /\ UNCHANGED <<queueVars, msgs, handled>>

(* Mutant: _pendingFactors is cleared before all of it has run.            *)
run_task_done_ClearsEarly(t) ==
    /\ WorkerStep(t, "run_task", "poll")
    /\ pending' = [pending EXCEPT ![t] = << >>]
    /\ UNCHANGED <<queueVars, msgs, handled, ran>>

run_task_done(t) ==
    /\ WorkerStep(t, "run_task", "poll")
    /\ pending[t] = << >>
    /\ UNCHANGED <<queueVars, msgs, pending, handled, ran>>

-----------------------------------------------------------------------------
send_msg(s) == send_lock(s) \/ send_push(s) \/ send_write(s) \/ send_unlock(s)

recv_msg(t) == recv_lock(t) \/ recv_read(t) \/ recv_swap(t) \/ recv_unlock(t)

Worker(t) ==
    \/ thread_domain(t)
    \/ epoll_wait(t)
    \/ epoll_timeout(t)
    \/ recv_msg(t)
    \/ msg_comming_cb(t)
    \/ callback_done(t)
    \/ run_pending(t)
    \/ run_task_done(t)

Calls ==
    \/ \E fd \in Connfds : get_next_thread(fd)
    \/ \E s \in Senders, t \in Threads, f \in Funcs, a \in ArgVals \cup {NULL} :
          run_task_one(s, t, f, a)
    \/ \E s \in Senders, f \in Funcs, a \in ArgVals \cup {NULL} : run_task_all(s, f, a)

Next ==
    \/ Calls
    \/ \E s \in Senders : send_msg(s)
    \/ \E t \in Threads : Worker(t)

(* A thread that can run is eventually scheduled; a thread that waits for  *)
(* a mutex gets it if the mutex is free again and again.  Calls are made   *)
(* or not as the application pleases.                                      *)
Fairness ==
    /\ \A s \in Senders : WF_vars(send_msg(s)) /\ SF_vars(send_lock(s))
    /\ \A t \in Threads : WF_vars(Worker(t)) /\ SF_vars(recv_lock(t))

Spec == Init /\ [][Next]_vars /\ Fairness

-----------------------------------------------------------------------------
(* Properties.                                                             *)

Sends == [thd : Threads, msg : Messages]

(* Every variable holds a value of its type; in particular only tasks ever *)
(* reach _pendingFactors, whatever mix of messages a worker receives.      *)
TypeOK ==
    /\ mutex \in [Threads -> Senders \cup Workers \cup {NULL}]
    /\ queue \in [Threads -> Seq(Messages)]
    /\ evfd \in [Threads -> Nat]
    /\ curr_index \in 0..ThreadCnt
    /\ spc \in [Senders -> {"idle", "lock", "push", "write", "unlock"}]
    /\ todo \in [Senders -> Seq(Sends)]
    /\ left \in [{"NEW_CONN", "NEW_TASK"} -> Nat]
    /\ wpc \in [Threads -> {"start", "poll", "lock", "read", "swap", "unlock",
                            "handle", "run_task"}]
    /\ msgs \in [Threads -> Seq(Messages)]
    /\ pending \in [Threads -> Seq(TaskMsgs)]
    /\ sent \in [Threads -> Seq(Messages)]
    /\ handled \in [Threads -> Seq(Messages)]
    /\ ran \in [Threads -> Seq(TaskMsgs)]
    /\ asked \in SUBSET TaskMsgs
    /\ assigned \in [Threads -> Nat]

(* No lost wakeup: whenever a queue's lock is free and the queue holds a   *)
(* message, its eventfd is not 0, so the worker's epoll_wait will return   *)
(* (send_msg writes and recv_msg reads the eventfd under the same lock).   *)
NoLostWakeup ==
    \A t \in Threads : mutex[t] = NULL /\ queue[t] # << >> => evfd[t] > 0

(* get_next_thread deals connections out evenly: no thread is ever more    *)
(* than one connection ahead of another, however often the index wraps.    *)
Balanced ==
    \A t, u \in Threads : assigned[t] <= assigned[u] + 1

IsTask(m) == m.cmd_type = "NEW_TASK"

(* r are the tasks among the messages h: at[i] is the place of the i-th.   *)
TasksAmong(r, h) ==
    \E at \in [1..Len(r) -> 1..Len(h)] :
        /\ \A i, j \in 1..Len(r) : i < j => at[i] < at[j]
        /\ \A k \in 1..Len(h) : IsTask(h[k]) => \E i \in 1..Len(r) : at[i] = k
        /\ \A i \in 1..Len(r) : IsTask(h[at[i]]) /\ r[i] = h[at[i]]

(* The tasks a worker has run, followed by those it holds in               *)
(* _pendingFactors, are the tasks it has received, in order: run_task      *)
(* neither drops, repeats nor reorders one.                                *)
TasksInOrder ==
    \A t \in Threads : TasksAmong(ran[t] \o pending[t], handled[t])

(* The queues implement the mailbox: messages are handled in the order     *)
(* they were pushed, exactly once, and each one eventually.                *)
MailboxInstance == INSTANCE Mailbox
MailboxSpec == MailboxInstance!Spec

(* Every task that reaches a queue is eventually run by that worker.       *)
EveryTaskRuns ==
    \A t \in Threads : \A k \in UNION {1..w.NEW_TASK : w \in Workloads} :
        Len(SelectSeq(sent[t], IsTask)) >= k ~> Len(ran[t]) >= k

-----------------------------------------------------------------------------
(* What the documentation or the source says and the code does not do.  No *)
(* run checks these: README.md gives the behaviours that break them.       *)

(* A task runs with the argument of some run_task call that asked for it   *)
(* (thread_pool.h declares run_task(pendingFunc task, void* args = NULL)   *)
(* for all threads just as for one).                                       *)
TasksRunAsAsked ==
    \A t \in Threads : \A i \in 1..Len(ran[t]) : ran[t][i] \in asked
=============================================================================
