-------------------------- MODULE ThreadPoolProofs --------------------------
(***************************************************************************)
(* Proofs about ThreadPool, for every number of threads, senders,          *)
(* connections and tasks.                                                  *)
(*                                                                         *)
(* TypeOK alone is not inductive: send_msg takes its target from todo[s],  *)
(* so a sender inside send_msg must have something to send (Busy).         *)
(* NoLostWakeup is about states where nobody holds the lock, and what      *)
(* happens while somebody does has to be followed through the critical     *)
(* sections: who holds the lock (Holding), that a worker comes to the swap *)
(* with an empty list (Swapped), and that a queue is without a wakeup only *)
(* while its lock is held by a sender about to write the eventfd or by a   *)
(* worker about to take everything (Wakeup).                               *)
(***************************************************************************)
EXTENDS ThreadPool, SequenceTheorems, TLAPS

Busy == \A s \in Senders : spc[s] # "idle" => todo[s] # << >>

W(t) == <<"worker", t>>
InSend(s) == spc[s] \in {"push", "write", "unlock"}
InRecv(t) == wpc[t] \in {"read", "swap", "unlock"}

Holding ==
    \A t \in Threads :
        /\ \A s \in Senders : mutex[t] = s <=> InSend(s) /\ Target(s) = t
        /\ mutex[t] = W(t) <=> InRecv(t)
        /\ \A u \in Threads : mutex[t] = W(u) => u = t

Swapped ==
    \A t \in Threads : wpc[t] \notin {"unlock", "handle"} => msgs[t] = << >>

Wakeup ==
    \A t \in Threads :
        /\ queue[t] # << >>
        /\ wpc[t] # "swap"
        /\ mutex[t] \in Senders => spc[mutex[t]] # "write"
        => evfd[t] > 0

Locking == Holding /\ Swapped /\ Wakeup

-----------------------------------------------------------------------------
(* The first element of a non-empty sequence, and what is left of it, are  *)
(* of the sequence's type.                                                 *)
LEMMA HeadTail ==
    ASSUME NEW S, NEW q \in Seq(S), q # << >>
    PROVE  Head(q) \in S /\ Tail(q) \in Seq(S) /\ Len(q) \in Nat \ {0}
           /\ (Len(q) # 1 => Tail(q) # << >>)
  <1>1. Head(q) \in S /\ Tail(q) \in Seq(S) /\ Len(q) \in Nat \ {0} /\ Len(Tail(q)) = Len(q) - 1
    OBVIOUS
  <1>2. Len(<< >>) = 0
    OBVIOUS
  <1>3. Len(q) # 1 => Len(Tail(q)) # 0
    BY <1>1
  <1> QED
    BY <1>1, <1>2, <1>3

(* A sender inside send_msg has a target, which is one of the threads, and *)
(* a message.                                                              *)
LEMMA TargetType ==
    ASSUME TypeOK, Busy, NEW s \in Senders, spc[s] # "idle"
    PROVE  /\ todo[s] \in Seq(Sends) /\ todo[s] # << >>
           /\ Head(todo[s]) \in Sends
           /\ Target(s) \in Threads
           /\ Head(todo[s]).msg \in Messages
  <1>1. todo[s] \in Seq(Sends) /\ todo[s] # << >>
    BY DEF TypeOK, Busy
  <1>2. Head(todo[s]) \in Sends
    BY <1>1, HeadTail
  <1> QED
    BY <1>1, <1>2 DEF Sends, Target

-----------------------------------------------------------------------------
(* Type correctness.                                                       *)

(* A call keeps the types and gives the calling sender something to send,  *)
(* provided what it asks to be sent is a non-empty list of sends.          *)
LEMMA StartCallType ==
    ASSUME TypeOK, Busy, NEW s \in Senders, NEW kind \in {"NEW_CONN", "NEW_TASK"},
           NEW sends \in Seq(Sends), sends # << >>,
           StartCall(s, kind, sends),
           curr_index' \in 0..ThreadCnt,
           assigned' \in [Threads -> Nat],
           asked' \in SUBSET TaskMsgs
    PROVE  TypeOK' /\ Busy'
  <1>1. todo' \in [Senders -> Seq(Sends)] /\ spc' \in [Senders -> {"idle", "lock", "push", "write", "unlock"}]
    BY DEF StartCall, TypeOK
  <1>2. Busy'
    BY DEF StartCall, TypeOK, Busy
  <1>3. TypeOK'
    BY <1>1 DEF StartCall, TypeOK, queueVars, workerVars, histVars
  <1> QED
    BY <1>2, <1>3

(* Handing out a connection and the two forms of run_task keep the types.  *)
LEMMA CallType ==
    ASSUME TypeOK, Busy, Calls
    PROVE  TypeOK' /\ Busy'
  <1>1. ASSUME NEW fd \in Connfds, get_next_thread(fd) PROVE TypeOK' /\ Busy'
    <2> DEFINE sends == << [thd |-> NextThread, msg |-> NEW_CONN(fd)] >>
    <2>1. NextThread \in Threads /\ NextThread + 1 \in 0..ThreadCnt
      BY ThreadPoolAssumption DEF NextThread, TypeOK, Threads
    <2>2. [thd |-> NextThread, msg |-> NEW_CONN(fd)] \in Sends
      BY <2>1 DEF Sends, Messages
    <2>3. sends \in Seq(Sends) /\ sends # << >>
      BY <2>2
    <2>4. StartCall(Main, "NEW_CONN", sends) /\ curr_index' \in 0..ThreadCnt
      BY <1>1, <2>1 DEF get_next_thread
    <2>5. assigned' \in [Threads -> Nat] /\ asked' \in SUBSET TaskMsgs
      BY <1>1, <2>1 DEF get_next_thread, TypeOK
    <2>6. Main \in Senders
      BY ThreadPoolAssumption
    <2> HIDE DEF sends
    <2> QED
      BY <2>3, <2>4, <2>5, <2>6, StartCallType
  <1>2. ASSUME NEW s \in Senders, NEW t \in Threads, NEW f \in Funcs,
               NEW a \in ArgVals \cup {NULL}, run_task_one(s, t, f, a)
        PROVE  TypeOK' /\ Busy'
    <2> DEFINE sends == << [thd |-> t, msg |-> NEW_TASK(f, a)] >>
    <2>1. NEW_TASK(f, a) \in TaskMsgs /\ NEW_TASK(f, a) \in Messages
      BY DEF TaskMsgs, Messages
    <2>2. sends \in Seq(Sends) /\ sends # << >>
      BY <2>1 DEF Sends
    <2>3. /\ StartCall(s, "NEW_TASK", sends)
          /\ curr_index' \in 0..ThreadCnt /\ assigned' \in [Threads -> Nat]
          /\ asked' \in SUBSET TaskMsgs
      BY <1>2, <2>1 DEF run_task_one, TypeOK
    <2> HIDE DEF sends
    <2> QED
      BY <2>2, <2>3, StartCallType
  <1>3. ASSUME NEW s \in Senders, NEW f \in Funcs, NEW a \in ArgVals \cup {NULL},
               run_task_all(s, f, a)
        PROVE  TypeOK' /\ Busy'
    <2> DEFINE sends == [i \in 1..ThreadCnt |-> [thd |-> i - 1, msg |-> NEW_TASK(f, NULL)]]
    <2>1. NEW_TASK(f, a) \in TaskMsgs /\ NEW_TASK(f, NULL) \in Messages
      BY DEF TaskMsgs, Messages
    <2>2. \A i \in 1..ThreadCnt : [thd |-> i - 1, msg |-> NEW_TASK(f, NULL)] \in Sends
      BY <2>1, ThreadPoolAssumption DEF Sends, Threads
    <2>3. sends \in Seq(Sends) /\ Len(sends) = ThreadCnt
      BY <2>2, ThreadPoolAssumption
    <2>4. sends # << >>
      BY <2>3, ThreadPoolAssumption
    <2>5. /\ StartCall(s, "NEW_TASK", sends)
          /\ curr_index' \in 0..ThreadCnt /\ assigned' \in [Threads -> Nat]
          /\ asked' \in SUBSET TaskMsgs
      BY <1>3, <2>1 DEF run_task_all, TypeOK
    <2> HIDE DEF sends
    <2> QED
      BY <2>3, <2>4, <2>5, StartCallType
  <1> QED
    BY <1>1, <1>2, <1>3 DEF Calls

(* A step of send_msg keeps the types.                                     *)
LEMMA SendType ==
    ASSUME TypeOK, Busy, NEW s \in Senders, send_msg(s)
    PROVE  TypeOK' /\ Busy'
  <1> USE DEF SenderStep, workerVars
  <1>0. spc[s] # "idle"
    BY DEF send_msg, send_lock, send_push, send_write, send_unlock
  <1>1. /\ todo[s] \in Seq(Sends) /\ todo[s] # << >>
        /\ Target(s) \in Threads
        /\ Head(todo[s]).msg \in Messages
    BY <1>0, TargetType
  <1>2. CASE send_lock(s)
    BY <1>1, <1>2 DEF send_lock, TypeOK, Busy
  <1>3. CASE send_push(s)
    <2>1. /\ Append(queue[Target(s)], Head(todo[s]).msg) \in Seq(Messages)
          /\ Append(sent[Target(s)], Head(todo[s]).msg) \in Seq(Messages)
      BY <1>1 DEF TypeOK
    <2> QED
      BY <1>1, <1>3, <2>1 DEF send_push, TypeOK, Busy
  <1>4. CASE send_write(s)
    BY <1>1, <1>4 DEF send_write, TypeOK, Busy
  <1>5. CASE send_unlock(s)
    <2>1. Tail(todo[s]) \in Seq(Sends) /\ (Len(todo[s]) # 1 => Tail(todo[s]) # << >>)
      <3> DEFINE q == todo[s]
      <3>1. q \in Seq(Sends) /\ q # << >>
        BY <1>1
      <3> HIDE DEF q
      <3>2. Tail(q) \in Seq(Sends) /\ (Len(q) # 1 => Tail(q) # << >>)
        BY <3>1, HeadTail
      <3> QED
        BY <3>2 DEF q
    <2> QED
      BY <1>1, <1>5, <2>1 DEF send_unlock, TypeOK, Busy
  <1> QED
    BY <1>2, <1>3, <1>4, <1>5 DEF send_msg

(* A step of a worker keeps the types: what it handles are messages, and   *)
(* only those that carry a task become pending.                            *)
LEMMA WorkerType ==
    ASSUME TypeOK, Busy, NEW t \in Threads, Worker(t)
    PROVE  TypeOK' /\ Busy'
  <1> USE DEF WorkerStep, senderVars, queueVars
  <1>1. CASE thread_domain(t) \/ epoll_wait(t) \/ epoll_timeout(t)
    BY <1>1 DEF thread_domain, epoll_wait, epoll_timeout, TypeOK, Busy
  <1>2. CASE recv_lock(t)
    <2>1. W(t) \in Workers
      BY DEF Workers, W
    <2>2. mutex' \in [Threads -> Senders \cup Workers \cup {NULL}]
      BY <1>2, <2>1 DEF recv_lock, TypeOK, W
    <2> QED
      BY <1>2, <2>2 DEF recv_lock, TypeOK, Busy
  <1>7. CASE recv_read(t)
    BY <1>7 DEF recv_read, TypeOK, Busy
  <1>8. CASE recv_unlock(t)
    BY <1>8 DEF recv_unlock, TypeOK, Busy
  <1>3. CASE recv_swap(t)
    BY <1>3 DEF recv_swap, TypeOK, Busy
  <1>4. CASE msg_comming_cb(t)
    <2>1. /\ Head(msgs[t]) \in Messages /\ Tail(msgs[t]) \in Seq(Messages)
          /\ Append(handled[t], Head(msgs[t])) \in Seq(Messages)
      BY <1>4, HeadTail DEF msg_comming_cb, TypeOK
    <2>2. Head(msgs[t]) \in TaskMsgs => Append(pending[t], Head(msgs[t])) \in Seq(TaskMsgs)
      BY DEF TypeOK
    <2> QED
      BY <1>4, <2>1, <2>2 DEF msg_comming_cb, TypeOK, Busy
  <1>5. CASE callback_done(t) \/ run_task_done(t)
    BY <1>5 DEF callback_done, run_task_done, TypeOK, Busy
  <1>6. CASE run_pending(t)
    <2>1. /\ Tail(pending[t]) \in Seq(TaskMsgs)
          /\ Append(ran[t], Head(pending[t])) \in Seq(TaskMsgs)
      BY <1>6, HeadTail DEF run_pending, TypeOK
    <2> QED
      BY <1>6, <2>1 DEF run_pending, TypeOK, Busy
  <1> QED
    BY <1>1, <1>2, <1>3, <1>4, <1>5, <1>6, <1>7, <1>8 DEF Worker, recv_msg

(* What thread_pool::thread_pool sets up has the right types.              *)
LEMMA InitType == ASSUME Init PROVE TypeOK /\ Busy
  BY ThreadPoolAssumption DEF Init, TypeOK, Busy, Threads

(* Every step of the pool keeps the types.                                 *)
LEMMA StepType == ASSUME TypeOK, Busy, [Next]_vars PROVE TypeOK' /\ Busy'
  <1>1. CASE UNCHANGED vars
    BY <1>1 DEF vars, queueVars, senderVars, workerVars, histVars, TypeOK, Busy
  <1> QED
    BY <1>1, CallType, SendType, WorkerType DEF Next

(* Every variable of the pool always has its type, whatever the threads    *)
(* and their senders do.                                                   *)
THEOREM TypeCorrect == Spec => []TypeOK
  <1>1. Init => TypeOK /\ Busy
    BY InitType
  <1>2. TypeOK /\ Busy /\ [Next]_vars => (TypeOK /\ Busy)'
    BY StepType
  <1> QED
    BY <1>1, <1>2, PTL DEF Spec

-----------------------------------------------------------------------------
(* The lock and the wakeup.                                                *)

(* Holders are senders or workers, never both, and NULL is neither.        *)
LEMMA Holders ==
    /\ NULL \notin Senders
    /\ \A t \in Threads : W(t) \in Workers /\ W(t) \notin Senders /\ W(t) # NULL
    /\ \A t, u \in Threads : W(t) = W(u) => t = u
  BY HolderAssumption DEF Workers, W

(* A call changes nothing but the caller's list, and the caller is outside *)
(* send_msg when it does.                                                  *)
LEMMA CallLocking ==
    ASSUME TypeOK, Busy, Locking, Calls
    PROVE  Locking'
  <1> SUFFICES ASSUME NEW s \in Senders, NEW kind, NEW sends, StartCall(s, kind, sends)
               PROVE  Locking'
    BY ThreadPoolAssumption DEF Calls, get_next_thread, run_task_one, run_task_all
  <1>1. UNCHANGED <<mutex, queue, evfd, wpc, msgs>>
    BY DEF StartCall, queueVars, workerVars
  <1>2. \A r \in Senders : r # s => spc'[r] = spc[r] /\ todo'[r] = todo[r]
    BY DEF StartCall, TypeOK
  <1>3. spc[s] = "idle" /\ spc'[s] = "lock"
    BY DEF StartCall, TypeOK
  <1>4. \A r \in Senders, t \in Threads :
           (InSend(r) /\ Target(r) = t)' <=> InSend(r) /\ Target(r) = t
    BY <1>2, <1>3 DEF InSend, Target
  <1>5. Holding'
    BY <1>1, <1>4 DEF Locking, Holding, InRecv
  <1>6. Swapped'
    BY <1>1 DEF Locking, Swapped
  <1>7. \A r \in Senders : spc'[r] = "write" <=> spc[r] = "write"
    BY <1>2, <1>3
  <1>8. Wakeup'
    BY <1>1, <1>7 DEF Locking, Wakeup
  <1> QED
    BY <1>5, <1>6, <1>8 DEF Locking

(* A step of send_msg: the sender takes the lock, fills the queue while it *)
(* holds it, and has written the eventfd when it gives it back.            *)
LEMMA SendLocking ==
    ASSUME TypeOK, Busy, Locking, NEW s \in Senders, send_msg(s)
    PROVE  Locking'
  <1>0. spc[s] # "idle"
    BY DEF send_msg, send_lock, send_push, send_write, send_unlock, SenderStep
  <1>1. Target(s) \in Threads
    BY <1>0, TargetType
  <1>2. /\ UNCHANGED <<wpc, msgs>>
        /\ \A r \in Senders : r # s => spc'[r] = spc[r] /\ todo'[r] = todo[r]
    BY DEF send_msg, send_lock, send_push, send_write, send_unlock, SenderStep, workerVars, TypeOK
  <1>3. Swapped'
    BY <1>2 DEF Locking, Swapped
  <1>4. CASE send_lock(s)
    <2>1. /\ spc[s] = "lock" /\ spc'[s] = "push" /\ mutex[Target(s)] = NULL
          /\ mutex'[Target(s)] = s /\ todo' = todo
          /\ \A t \in Threads : t # Target(s) => mutex'[t] = mutex[t]
          /\ UNCHANGED <<queue, evfd>>
      BY <1>1, <1>4 DEF send_lock, SenderStep, TypeOK
    <2>2. Holding'
      <3>1. \A r \in Senders : (InSend(r)' <=> InSend(r) \/ r = s) /\ Target(r)' = Target(r)
        BY <1>2, <2>1 DEF InSend, Target
      <3>2. \A u \in Threads : mutex[u] # s
        BY <2>1 DEF Locking, Holding, InSend
      <3>3. \A u \in Threads, r \in Senders : mutex'[u] = r <=> (InSend(r) /\ Target(r) = u)'
        BY <1>1, <2>1, <3>1, <3>2, Holders DEF Locking, Holding
      <3>4. \A u \in Threads : mutex'[u] = W(u) <=> InRecv(u)'
        BY <1>1, <1>2, <2>1, Holders DEF Locking, Holding, InRecv
      <3>5. \A u, v \in Threads : mutex'[u] = W(v) => v = u
        BY <1>1, <2>1, Holders DEF Locking, Holding
      <3> QED
        BY <3>3, <3>4, <3>5 DEF Holding
    <2>3. Wakeup'
      BY <1>1, <1>2, <2>1, Holders DEF Locking, Wakeup
    <2> QED
      BY <1>3, <2>2, <2>3 DEF Locking
  <1>5. CASE send_push(s)
    <2>1. /\ spc[s] = "push" /\ spc'[s] = "write" /\ UNCHANGED <<mutex, todo, evfd>>
          /\ \A t \in Threads : t # Target(s) => queue'[t] = queue[t]
      BY <1>1, <1>5 DEF send_push, SenderStep, TypeOK
    <2>2. Holding'
      BY <1>2, <2>1 DEF Locking, Holding, InSend, InRecv, Target
    <2>3. mutex[Target(s)] = s
      BY <1>1, <2>1 DEF Locking, Holding, InSend
    <2>4. Wakeup'
      BY <1>2, <2>1, <2>3 DEF Locking, Wakeup
    <2> QED
      BY <1>3, <2>2, <2>4 DEF Locking
  <1>6. CASE send_write(s)
    <2>1. /\ spc[s] = "write" /\ spc'[s] = "unlock" /\ UNCHANGED <<mutex, todo, queue>>
          /\ \A t \in Threads : t # Target(s) => evfd'[t] = evfd[t]
          /\ evfd'[Target(s)] > 0
      BY <1>1, <1>6 DEF send_write, SenderStep, TypeOK
    <2>2. Holding'
      BY <1>2, <2>1 DEF Locking, Holding, InSend, InRecv, Target
    <2>3. \A t \in Threads : mutex[t] = s => t = Target(s)
      BY DEF Locking, Holding
    <2>4. Wakeup'
      BY <1>2, <2>1, <2>3 DEF Locking, Wakeup
    <2> QED
      BY <1>3, <2>2, <2>4 DEF Locking
  <1>7. CASE send_unlock(s)
    <2>1. /\ spc[s] = "unlock" /\ spc'[s] \in {"idle", "lock"} /\ UNCHANGED <<queue, evfd>>
          /\ \A t \in Threads : t # Target(s) => mutex'[t] = mutex[t]
          /\ mutex'[Target(s)] = NULL
      BY <1>1, <1>7 DEF send_unlock, SenderStep, TypeOK
    <2>2. mutex[Target(s)] = s /\ \A t \in Threads : mutex[t] = s => t = Target(s)
      BY <1>1, <2>1 DEF Locking, Holding, InSend
    <2>3. Holding'
      <3>1. ~InSend(s)' /\ \A r \in Senders \ {s} : (InSend(r)' <=> InSend(r)) /\ Target(r)' = Target(r)
        BY <1>2, <2>1 DEF InSend, Target
      <3>2. \A u \in Threads, r \in Senders : mutex'[u] = r <=> (InSend(r) /\ Target(r) = u)'
        BY <1>1, <2>1, <2>2, <3>1, Holders DEF Locking, Holding
      <3>3. \A u \in Threads : mutex'[u] = W(u) <=> InRecv(u)'
        BY <1>1, <1>2, <2>1, <2>2, Holders DEF Locking, Holding, InRecv
      <3>4. \A u, v \in Threads : mutex'[u] = W(v) => v = u
        BY <1>1, <2>1, Holders DEF Locking, Holding
      <3> QED
        BY <3>2, <3>3, <3>4 DEF Holding
    <2>4. Wakeup'
      BY <1>1, <1>2, <2>1, <2>2 DEF Locking, Wakeup
    <2> QED
      BY <1>3, <2>3, <2>4 DEF Locking
  <1> QED
    BY <1>4, <1>5, <1>6, <1>7 DEF send_msg

(* A step of a worker: between the read that zeroes the eventfd and the    *)
(* swap that empties the queue it holds the lock.                          *)
LEMMA WorkerLocking ==
    ASSUME TypeOK, Busy, Locking, NEW t \in Threads, Worker(t)
    PROVE  Locking'
  <1>1. /\ UNCHANGED <<spc, todo>>
        /\ \A u \in Threads : u # t =>
              UNCHANGED <<wpc[u], msgs[u], mutex[u], queue[u], evfd[u]>>
    BY DEF Worker, recv_msg, thread_domain, epoll_wait, epoll_timeout, recv_lock, recv_read,
           recv_swap, recv_unlock, msg_comming_cb, callback_done, run_pending, run_task_done,
           WorkerStep, senderVars, queueVars, TypeOK
  <1>2. CASE recv_lock(t)
    <2>1. /\ wpc[t] = "lock" /\ wpc'[t] = "read" /\ mutex[t] = NULL
          /\ mutex'[t] = W(t) /\ UNCHANGED <<queue, evfd, msgs>>
      BY <1>2 DEF recv_lock, WorkerStep, TypeOK, W
    <2>2. \A u \in Threads, r \in Senders : mutex'[u] = r <=> (InSend(r) /\ Target(r) = u)'
      BY <1>1, <2>1, Holders DEF Locking, Holding, InSend, Target
    <2>3. \A u \in Threads : mutex'[u] = W(u) <=> InRecv(u)'
      BY <1>1, <2>1 DEF Locking, Holding, InRecv
    <2>4. \A u, v \in Threads : mutex'[u] = W(v) => v = u
      BY <1>1, <2>1, Holders DEF Locking, Holding
    <2>5. Holding'
      BY <2>2, <2>3, <2>4 DEF Holding
    <2>6. Swapped' /\ Wakeup'
      BY <1>1, <2>1, Holders DEF Locking, Swapped, Wakeup
    <2> QED
      BY <2>5, <2>6 DEF Locking
  <1>3. CASE recv_read(t)
    <2>1. /\ wpc[t] = "read" /\ wpc'[t] = "swap" /\ UNCHANGED <<mutex, queue, msgs>>
      BY <1>3 DEF recv_read, WorkerStep, TypeOK
    <2> QED
      BY <1>1, <2>1 DEF Locking, Holding, Swapped, Wakeup, InSend, InRecv, Target
  <1>4. CASE recv_swap(t)
    <2>1. /\ wpc[t] = "swap" /\ wpc'[t] = "unlock" /\ UNCHANGED <<mutex, evfd>>
          /\ queue'[t] = msgs[t] /\ msgs[t] = << >>
      BY <1>4 DEF recv_swap, WorkerStep, TypeOK, Locking, Swapped
    <2> QED
      BY <1>1, <2>1 DEF Locking, Holding, Swapped, Wakeup, InSend, InRecv, Target
  <1>5. CASE recv_unlock(t)
    <2>1. /\ wpc[t] = "unlock" /\ wpc'[t] = "handle" /\ UNCHANGED <<queue, evfd, msgs>>
          /\ mutex'[t] = NULL
      BY <1>5 DEF recv_unlock, WorkerStep, TypeOK
    <2>2. mutex[t] = W(t)
      BY <2>1 DEF Locking, Holding, InRecv
    <2>3. \A u \in Threads, r \in Senders : mutex'[u] = r <=> (InSend(r) /\ Target(r) = u)'
      BY <1>1, <2>1, <2>2, Holders DEF Locking, Holding, InSend, Target
    <2>4. \A u \in Threads : mutex'[u] = W(u) <=> InRecv(u)'
      BY <1>1, <2>1, Holders DEF Locking, Holding, InRecv
    <2>5. \A u, v \in Threads : mutex'[u] = W(v) => v = u
      BY <1>1, <2>1, Holders DEF Locking, Holding
    <2>6. Holding'
      BY <2>3, <2>4, <2>5 DEF Holding
    <2>7. Swapped' /\ Wakeup'
      BY <1>1, <2>1, <2>2, Holders DEF Locking, Swapped, Wakeup
    <2> QED
      BY <2>6, <2>7 DEF Locking
  <1>6. ASSUME UNCHANGED <<mutex, queue, evfd>>, wpc[t] # "swap", wpc'[t] # "swap",
               ~InRecv(t), ~InRecv(t)',
               wpc'[t] # "handle" => msgs'[t] = << >>
        PROVE  Locking'
    BY <1>1, <1>6 DEF Locking, Holding, Swapped, Wakeup, InSend, InRecv, Target
  <1>7. CASE thread_domain(t) \/ epoll_wait(t) \/ epoll_timeout(t)
             \/ run_pending(t) \/ run_task_done(t)
    <2>1. /\ UNCHANGED <<mutex, queue, evfd, msgs>>
          /\ wpc[t] \in {"start", "poll", "run_task"}
          /\ wpc'[t] \in {"start", "poll", "lock", "run_task"}
      BY <1>7 DEF thread_domain, epoll_wait, epoll_timeout, run_pending, run_task_done,
                  WorkerStep, queueVars, TypeOK
    <2>2. msgs[t] = << >>
      BY <2>1 DEF Locking, Swapped
    <2> QED
      BY <1>6, <2>1, <2>2 DEF InRecv
  <1>8. CASE msg_comming_cb(t) \/ callback_done(t)
    <2>1. /\ UNCHANGED <<mutex, queue, evfd>>
          /\ wpc[t] = "handle" /\ wpc'[t] \in {"handle", "run_task"}
          /\ wpc'[t] # "handle" => msgs'[t] = << >>
      BY <1>8 DEF msg_comming_cb, callback_done, WorkerStep, queueVars, TypeOK
    <2> QED
      BY <1>6, <2>1 DEF InRecv
  <1> QED
    BY <1>2, <1>3, <1>4, <1>5, <1>7, <1>8 DEF Worker, recv_msg

(* At the start no lock is held and every queue is empty.                  *)
LEMMA InitLocking == ASSUME Init PROVE Locking
  BY Holders DEF Init, Locking, Holding, Swapped, Wakeup, InSend, InRecv

(* Every step of the pool keeps the locking discipline.                    *)
LEMMA StepLocking == ASSUME TypeOK, Busy, Locking, [Next]_vars PROVE Locking'
  <1>1. CASE UNCHANGED vars
    <2>1. UNCHANGED <<mutex, queue, evfd, wpc, msgs, spc, todo>>
      BY <1>1 DEF vars, queueVars, senderVars, workerVars
    <2> QED
      BY <2>1 DEF Locking, Holding, Swapped, Wakeup, InSend, InRecv, Target
  <1> QED
    BY <1>1, CallLocking, SendLocking, WorkerLocking DEF Next

(* No wakeup is ever lost, for any number of threads and senders: a queue  *)
(* that holds a message and is not locked has a non-zero eventfd.          *)
THEOREM WakeupNeverLost == Spec => []NoLostWakeup
  <1>1. Init => TypeOK /\ Busy /\ Locking
    BY InitType, InitLocking
  <1>2. (TypeOK /\ Busy /\ Locking) /\ [Next]_vars => (TypeOK /\ Busy /\ Locking)'
    BY StepType, StepLocking
  <1>3. TypeOK /\ Busy /\ Locking => NoLostWakeup
    <2> SUFFICES ASSUME TypeOK, Locking, NEW t \in Threads, mutex[t] = NULL, queue[t] # << >>
                 PROVE  evfd[t] > 0
      BY DEF NoLostWakeup
    <2>1. wpc[t] # "swap" /\ mutex[t] \notin Senders
      BY Holders DEF Locking, Holding, InRecv
    <2> QED
      BY <2>1 DEF Locking, Wakeup
  <1> QED
    BY <1>1, <1>2, <1>3, PTL DEF Spec

-----------------------------------------------------------------------------
(* Round robin.                                                            *)

(* Every thread has been given as many connections as the last one, and    *)
(* one more if its turn in the current round has come.                     *)
Dealt ==
    \A t \in Threads :
        assigned[t] = IF curr_index # ThreadCnt /\ t < curr_index
                      THEN assigned[ThreadCnt - 1] + 1 ELSE assigned[ThreadCnt - 1]

(* Only get_next_thread deals, and it deals to the thread whose turn it is. *)
LEMMA StepDealt == ASSUME TypeOK, Dealt, [Next]_vars PROVE Dealt'
  <1> USE ThreadPoolAssumption
  <1>1. ASSUME NEW fd \in Connfds, get_next_thread(fd) PROVE Dealt'
    <2>1. /\ curr_index' = NextThread + 1
          /\ assigned' = [assigned EXCEPT ![NextThread] = @ + 1]
          /\ curr_index \in 0..ThreadCnt /\ assigned \in [Threads -> Nat]
      BY <1>1 DEF get_next_thread, TypeOK
    <2>2. CASE curr_index = ThreadCnt
      BY <2>1, <2>2 DEF Dealt, NextThread, Threads
    <2>3. CASE curr_index = ThreadCnt - 1
      BY <2>1, <2>3 DEF Dealt, NextThread, Threads
    <2>4. CASE curr_index < ThreadCnt - 1
      BY <2>1, <2>4 DEF Dealt, NextThread, Threads
    <2> QED
      BY <2>1, <2>2, <2>3, <2>4
  <1>2. CASE UNCHANGED <<assigned, curr_index>>
    BY <1>2 DEF Dealt
  <1>3. ASSUME NEW s \in Senders, send_msg(s) PROVE UNCHANGED <<assigned, curr_index>>
    BY <1>3 DEF send_msg, send_lock, send_push, send_write, send_unlock, SenderStep
  <1>4. ASSUME NEW t \in Threads, Worker(t) PROVE UNCHANGED <<assigned, curr_index>>
    BY <1>4 DEF Worker, recv_msg, thread_domain, epoll_wait, epoll_timeout, recv_lock, recv_read,
                recv_swap, recv_unlock, msg_comming_cb, callback_done, run_pending, run_task_done,
                WorkerStep, senderVars
  <1>5. CASE Calls
    BY <1>1, <1>2, <1>5 DEF Calls, run_task_one, run_task_all
  <1>6. CASE UNCHANGED vars
    BY <1>2, <1>6 DEF vars, senderVars
  <1> QED
    BY <1>2, <1>3, <1>4, <1>5, <1>6 DEF Next

(* Connections are dealt out evenly to any number of threads, whatever     *)
(* else the senders do in between.                                         *)
THEOREM RoundRobin == Spec => []Balanced
  <1>1. Init => TypeOK /\ Busy /\ Dealt
    BY InitType, ThreadPoolAssumption DEF Init, Dealt, Threads
  <1>2. (TypeOK /\ Busy /\ Dealt) /\ [Next]_vars => (TypeOK /\ Busy /\ Dealt)'
    BY StepType, StepDealt
  <1>3. TypeOK /\ Busy /\ Dealt => Balanced
    <2> SUFFICES ASSUME TypeOK, Dealt, NEW t \in Threads, NEW u \in Threads
                 PROVE  assigned[t] <= assigned[u] + 1
      BY DEF Balanced
    <2>1. ThreadCnt - 1 \in Threads
      BY ThreadPoolAssumption DEF Threads
    <2>2. assigned \in [Threads -> Nat]
      BY DEF TypeOK
    <2>3. assigned[ThreadCnt - 1] \in Nat
      BY <2>1, <2>2
    <2> QED
      BY <2>3 DEF Dealt
  <1> QED
    BY <1>1, <1>2, <1>3, PTL DEF Spec

-----------------------------------------------------------------------------
(* The queues implement the mailbox.                                       *)

(* recv_msg's swap with an empty local queue only moves messages over.     *)
LEMMA MoveOver ==
    ASSUME NEW S, NEW h \in Seq(S), NEW q \in Seq(S)
    PROVE  h \o << >> \o q = h \o q \o << >>
  OBVIOUS

(* Handling the first of the messages taken moves it to the end of those   *)
(* handled.                                                                *)
LEMMA TakeFirst ==
    ASSUME NEW S, NEW h \in Seq(S), NEW m \in Seq(S), NEW q \in Seq(S), m # << >>
    PROVE  /\ Append(h, Head(m)) \o Tail(m) \o q = h \o m \o q
           /\ Len(h) < Len(h \o m \o q)
           /\ (h \o m \o q)[Len(h) + 1] = Head(m)
  OBVIOUS

(* What has been sent to a thread is what it has handled, what it has      *)
(* taken from the queue, and what is still in the queue, in this order.    *)
Fifo == \A t \in Threads : sent[t] = handled[t] \o msgs[t] \o queue[t]

MailStep == [MailboxInstance!Next]_<<sent, handled>>

(* A sender's step: a push is the mailbox's Send, the others are nothing   *)
(* to it.                                                                  *)
LEMMA SendMail ==
    ASSUME TypeOK, Busy, Fifo, NEW s \in Senders, send_msg(s)
    PROVE  Fifo' /\ MailStep
  <1>0. spc[s] # "idle"
    BY DEF send_msg, send_lock, send_push, send_write, send_unlock, SenderStep
  <1>1. Target(s) \in Threads /\ Head(todo[s]).msg \in Messages
    BY <1>0, TargetType
  <1>2. CASE send_push(s)
    <2> DEFINE u == Target(s)
               x == Head(todo[s]).msg
    <2>1. /\ UNCHANGED <<handled, msgs>>
          /\ queue' = [queue EXCEPT ![u] = Append(@, x)]
          /\ sent' = [sent EXCEPT ![u] = Append(@, x)]
      BY <1>2 DEF send_push, SenderStep, workerVars
    <2>2. u \in Threads /\ x \in Messages
      BY <1>1
    <2> HIDE DEF u, x
    <2>3. handled[u] \in Seq(Messages) /\ msgs[u] \in Seq(Messages) /\ queue[u] \in Seq(Messages)
      BY <2>2 DEF TypeOK
    <2>4. Append(handled[u] \o msgs[u] \o queue[u], x) = handled[u] \o msgs[u] \o Append(queue[u], x)
      <3> DEFINE h == handled[u]
                 m == msgs[u]
                 q == queue[u]
      <3>1. h \in Seq(Messages) /\ m \in Seq(Messages) /\ q \in Seq(Messages) /\ x \in Messages
        BY <2>2, <2>3
      <3> HIDE DEF h, m, q
      <3>2. h \o m \in Seq(Messages) /\ h \o m \o q \in Seq(Messages) /\ <<x>> \in Seq(Messages)
        BY <3>1
      <3>3. Append(h \o m \o q, x) = ((h \o m) \o q) \o <<x>>
        BY <3>1, <3>2, AppendIsConcat
      <3>4. ((h \o m) \o q) \o <<x>> = (h \o m) \o (q \o <<x>>)
        BY <3>1, <3>2, ConcatAssociative, SMTT(30)
      <3>5. Append(h \o m \o q, x) = h \o m \o Append(q, x)
        BY <3>1, <3>3, <3>4, AppendIsConcat
      <3> QED
        BY <3>5 DEF h, m, q
    <2>5. sent'[u] = handled'[u] \o msgs'[u] \o queue'[u]
      BY <2>1, <2>2, <2>4 DEF Fifo, TypeOK
    <2>6. \A v \in Threads : v # u => sent'[v] = handled'[v] \o msgs'[v] \o queue'[v]
      BY <2>1, <2>2 DEF Fifo, TypeOK
    <2>7. MailboxInstance!Send(u, x)
      BY <2>1 DEF MailboxInstance!Send
    <2> QED
      BY <2>2, <2>5, <2>6, <2>7 DEF Fifo, MailStep, MailboxInstance!Next
  <1>3. CASE send_lock(s) \/ send_write(s) \/ send_unlock(s)
    <2>1. UNCHANGED <<sent, handled, msgs, queue>>
      BY <1>3 DEF send_lock, send_write, send_unlock, SenderStep, workerVars
    <2> QED
      BY <2>1 DEF Fifo, MailStep
  <1> QED
    BY <1>2, <1>3 DEF send_msg

(* A worker's step: the swap only moves messages over, and a round of      *)
(* msg_comming_cb is the mailbox's Handle.                                 *)
LEMMA WorkerMail ==
    ASSUME TypeOK, Locking, Fifo, NEW t \in Threads, Worker(t)
    PROVE  Fifo' /\ MailStep
  <1>1. /\ handled[t] \in Seq(Messages) /\ msgs[t] \in Seq(Messages)
        /\ queue[t] \in Seq(Messages)
        /\ sent[t] = handled[t] \o msgs[t] \o queue[t]
    BY DEF TypeOK, Fifo
  <1>2. CASE recv_swap(t)
    <2>1. /\ UNCHANGED <<sent, handled>>
          /\ msgs[t] = << >> /\ msgs'[t] = queue[t] /\ queue'[t] = << >>
          /\ \A u \in Threads : u # t => msgs'[u] = msgs[u] /\ queue'[u] = queue[u]
      BY <1>2 DEF recv_swap, WorkerStep, Locking, Swapped, TypeOK
    <2>2. handled[t] \o << >> \o queue[t] = handled[t] \o queue[t] \o << >>
      BY <1>1, MoveOver
    <2> QED
      BY <1>1, <2>1, <2>2 DEF Fifo, MailStep
  <1>3. CASE msg_comming_cb(t)
    <2>1. /\ UNCHANGED <<sent, queue>>
          /\ msgs[t] # << >> /\ msgs' = [msgs EXCEPT ![t] = Tail(@)]
          /\ handled' = [handled EXCEPT ![t] = Append(@, Head(msgs[t]))]
      BY <1>3 DEF msg_comming_cb, WorkerStep, queueVars
    <2>2. /\ Append(handled[t], Head(msgs[t])) \o Tail(msgs[t]) \o queue[t] = sent[t]
          /\ Len(handled[t]) < Len(sent[t])
          /\ sent[t][Len(handled[t]) + 1] = Head(msgs[t])
      <3> DEFINE h == handled[t]
                 m == msgs[t]
                 q == queue[t]
      <3>1. h \in Seq(Messages) /\ m \in Seq(Messages) /\ q \in Seq(Messages) /\ m # << >>
        BY <1>1, <2>1
      <3>2. sent[t] = h \o m \o q
        BY <1>1
      <3> HIDE DEF h, m, q
      <3>3. /\ Append(h, Head(m)) \o Tail(m) \o q = h \o m \o q
            /\ Len(h) < Len(h \o m \o q)
            /\ (h \o m \o q)[Len(h) + 1] = Head(m)
        BY <3>1, TakeFirst, Zenon
      <3>4. /\ Append(h, Head(m)) \o Tail(m) \o q = sent[t]
            /\ Len(h) < Len(sent[t])
            /\ sent[t][Len(h) + 1] = Head(m)
        BY <3>2, <3>3, Zenon
      <3> QED
        BY <3>4 DEF h, m, q
    <2>3. /\ handled'[t] = Append(handled[t], Head(msgs[t])) /\ msgs'[t] = Tail(msgs[t])
          /\ \A u \in Threads : u # t => msgs'[u] = msgs[u] /\ handled'[u] = handled[u]
      BY <2>1 DEF TypeOK
    <2>4. Fifo'
      BY <2>1, <2>2, <2>3 DEF Fifo
    <2>5. MailboxInstance!Handle(t)
      BY <2>1, <2>2 DEF MailboxInstance!Handle
    <2> QED
      BY <2>4, <2>5 DEF MailStep, MailboxInstance!Next
  <1>4. CASE UNCHANGED <<sent, handled, msgs, queue>>
    BY <1>4 DEF Fifo, MailStep
  <1> QED
    BY <1>2, <1>3, <1>4
       DEF Worker, recv_msg, thread_domain, epoll_wait, epoll_timeout, recv_lock, recv_read,
           recv_unlock, callback_done, run_pending, run_task_done, WorkerStep, queueVars

(* Every step of the pool is a step of the mailbox, or nothing to it.      *)
LEMMA StepMail ==
    ASSUME TypeOK, Busy, Locking, Fifo, [Next]_vars
    PROVE  Fifo' /\ MailStep
  <1>1. CASE Calls \/ UNCHANGED vars
    <2>1. UNCHANGED <<sent, handled, msgs, queue>>
      BY <1>1 DEF Calls, get_next_thread, run_task_one, run_task_all, StartCall, vars,
                  queueVars, workerVars, histVars
    <2> QED
      BY <2>1 DEF Fifo, MailStep
  <1> QED
    BY <1>1, SendMail, WorkerMail DEF Next

(* The locked queues with their eventfds, and the workers that empty them, *)
(* implement the mailbox: every thread handles exactly the messages sent   *)
(* to it, in the order they were sent.  (That it handles them eventually   *)
(* is checked by TLC.)                                                     *)
THEOREM ImplementsMailbox == Spec => MailboxInstance!Safety
  <1>1. Init => TypeOK /\ Busy /\ Locking /\ Fifo
    BY InitType, InitLocking DEF Init, Fifo
  <1>2. (TypeOK /\ Busy /\ Locking /\ Fifo) /\ [Next]_vars
        => (TypeOK /\ Busy /\ Locking /\ Fifo)' /\ MailStep
    BY StepType, StepLocking, StepMail
  <1>3. Init => MailboxInstance!Init
    BY DEF Init, MailboxInstance!Init
  <1> QED
    BY <1>1, <1>2, <1>3, PTL DEF Spec, MailStep, MailboxInstance!Safety, MailboxInstance!mailVars

-----------------------------------------------------------------------------
(* The tasks.                                                              *)

(* A message is of type NEW_TASK exactly if it is one of the task messages. *)
LEMMA TaskType == \A m \in Messages : IsTask(m) <=> m \in TaskMsgs
  BY DEF Messages, TaskMsgs, NEW_CONN, NEW_TASK, IsTask

(* Another task at the end of both.                                        *)
LEMMA TakeTask ==
    ASSUME NEW r \in Seq(Messages), NEW h \in Seq(Messages), NEW x \in Messages, IsTask(x),
           TasksAmong(r, h)
    PROVE  TasksAmong(Append(r, x), Append(h, x))
  <1> DEFINE n == Len(r)
             m == Len(h)
             r1 == Append(r, x)
             h1 == Append(h, x)
  <1>1. n \in Nat /\ m \in Nat
    BY LenProperties
  <1>2. /\ Len(r1) = n + 1 /\ r1[n + 1] = x /\ \A i \in 1..n : r1[i] = r[i]
        /\ Len(h1) = m + 1 /\ h1[m + 1] = x /\ \A i \in 1..m : h1[i] = h[i]
    BY AppendProperties
  <1>3. PICK at \in [1..n -> 1..m] :
             /\ \A i, j \in 1..n : i < j => at[i] < at[j]
             /\ \A k \in 1..m : IsTask(h[k]) => \E i \in 1..n : at[i] = k
             /\ \A i \in 1..n : IsTask(h[at[i]]) /\ r[i] = h[at[i]]
    BY DEF TasksAmong
  <1> DEFINE bt == [i \in 1..(n + 1) |-> IF i = n + 1 THEN m + 1 ELSE at[i]]
  <1> HIDE DEF n, m, r1, h1
  <1>4. /\ \A i \in 1..(n + 1) : i = n + 1 \/ i \in 1..n
        /\ \A i \in 1..n : i \in 1..(n + 1) /\ i # n + 1
        /\ \A k \in 1..(m + 1) : k = m + 1 \/ k \in 1..m
        /\ \A k \in 1..m : k \in 1..(m + 1) /\ k < m + 1
        /\ n + 1 \in 1..(n + 1) /\ m + 1 \in 1..(m + 1)
    BY <1>1
  <1>5. /\ bt[n + 1] = m + 1
        /\ \A i \in 1..n : bt[i] = at[i] /\ at[i] \in 1..m
    BY <1>4
  <1>6. bt \in [1..(n + 1) -> 1..(m + 1)]
    BY <1>4, <1>5
  <1> HIDE DEF bt
  <1>7. ASSUME NEW i \in 1..(n + 1), NEW j \in 1..(n + 1), i < j PROVE bt[i] < bt[j]
    <2>1. i \in 1..n
      BY <1>1, <1>7
    <2>2. CASE j = n + 1
      BY <1>4, <1>5, <2>1, <2>2
    <2>3. CASE j \in 1..n
      BY <1>3, <1>5, <1>7, <2>1, <2>3
    <2> QED
      BY <1>4, <2>2, <2>3
  <1>8. ASSUME NEW k \in 1..(m + 1), IsTask(h1[k]) PROVE \E i \in 1..(n + 1) : bt[i] = k
    <2>1. CASE k = m + 1
      BY <1>4, <1>5, <2>1
    <2>2. CASE k \in 1..m
      <3>1. h1[k] = h[k]
        BY <1>2, <2>2
      <3>2. PICK i \in 1..n : at[i] = k
        BY <1>3, <1>8, <2>2, <3>1
      <3> QED
        BY <1>4, <1>5, <3>2
    <2> QED
      BY <1>4, <2>1, <2>2
  <1>9. ASSUME NEW i \in 1..(n + 1) PROVE IsTask(h1[bt[i]]) /\ r1[i] = h1[bt[i]]
    <2>1. CASE i = n + 1
      BY <1>2, <1>5, <2>1
    <2>2. CASE i \in 1..n
      <3>1. h1[bt[i]] = h[at[i]] /\ r1[i] = r[i]
        BY <1>2, <1>5, <2>2
      <3> QED
        BY <1>3, <2>2, <3>1
    <2> QED
      BY <1>4, <2>1, <2>2
  <1>10. TasksAmong(r1, h1)
    <2>1. Len(r1) = n + 1 /\ Len(h1) = m + 1
      BY <1>2
    <2>2. bt \in [1..Len(r1) -> 1..Len(h1)]
      BY <1>6, <2>1
    <2>3. \A i, j \in 1..Len(r1) : i < j => bt[i] < bt[j]
      BY <1>7, <2>1
    <2>4. \A k \in 1..Len(h1) : IsTask(h1[k]) => \E i \in 1..Len(r1) : bt[i] = k
      BY <1>8, <2>1
    <2>5. \A i \in 1..Len(r1) : IsTask(h1[bt[i]]) /\ r1[i] = h1[bt[i]]
      BY <1>9, <2>1
    <2> QED
      BY <2>2, <2>3, <2>4, <2>5, Zenon DEF TasksAmong
  <1> QED
    BY <1>10 DEF r1, h1

(* Another message that is no task.                                        *)
LEMMA PassOther ==
    ASSUME NEW r \in Seq(Messages), NEW h \in Seq(Messages), NEW x \in Messages, ~IsTask(x),
           TasksAmong(r, h)
    PROVE  TasksAmong(r, Append(h, x))
  <1> DEFINE n == Len(r)
             m == Len(h)
             h1 == Append(h, x)
  <1>1. n \in Nat /\ m \in Nat
    BY LenProperties
  <1>2. Len(h1) = m + 1 /\ h1[m + 1] = x /\ \A i \in 1..m : h1[i] = h[i]
    BY AppendProperties
  <1>3. PICK at \in [1..n -> 1..m] :
             /\ \A i, j \in 1..n : i < j => at[i] < at[j]
             /\ \A k \in 1..m : IsTask(h[k]) => \E i \in 1..n : at[i] = k
             /\ \A i \in 1..n : IsTask(h[at[i]]) /\ r[i] = h[at[i]]
    BY DEF TasksAmong
  <1> HIDE DEF n, m, h1
  <1>4. /\ \A k \in 1..(m + 1) : k = m + 1 \/ k \in 1..m
        /\ \A k \in 1..m : k \in 1..(m + 1)
    BY <1>1
  <1>5. at \in [1..n -> 1..(m + 1)]
    BY <1>4
  <1>6. \A k \in 1..(m + 1) : IsTask(h1[k]) => \E i \in 1..n : at[i] = k
    BY <1>2, <1>3, <1>4
  <1>7. \A i \in 1..n : IsTask(h1[at[i]]) /\ r[i] = h1[at[i]]
    BY <1>2, <1>3
  <1>8. TasksAmong(r, h1)
    <2>1. Len(r) = n /\ Len(h1) = m + 1
      BY <1>2 DEF n
    <2> QED
      BY <1>3, <1>5, <1>6, <1>7, <2>1 DEF TasksAmong
  <1> QED
    BY <1>8 DEF h1

(* Moving the first of the pending tasks to the end of those run.          *)
LEMMA RunFirst ==
    ASSUME NEW S, NEW r \in Seq(S), NEW p \in Seq(S), p # << >>
    PROVE  Append(r, Head(p)) \o Tail(p) = r \o p
  OBVIOUS

(* Putting a task at the end of those pending.                             *)
LEMMA PendLast ==
    ASSUME NEW S, NEW r \in Seq(S), NEW p \in Seq(S), NEW x \in S
    PROVE  r \o Append(p, x) = Append(r \o p, x)
  OBVIOUS

(* Only msg_comming_cb and run_task move tasks.                            *)
LEMMA StepTasks ==
    ASSUME TypeOK, TasksInOrder, [Next]_vars
    PROVE  TasksInOrder'
  <1>1. ASSUME UNCHANGED <<ran, pending, handled>> PROVE TasksInOrder'
    BY <1>1 DEF TasksInOrder
  <1>2. ASSUME NEW t \in Threads, msg_comming_cb(t) PROVE TasksInOrder'
    <2>1. /\ ran' = ran /\ msgs[t] # << >>
          /\ handled' = [handled EXCEPT ![t] = Append(@, Head(msgs[t]))]
          /\ pending' = IF Head(msgs[t]) \in TaskMsgs
                        THEN [pending EXCEPT ![t] = Append(@, Head(msgs[t]))]
                        ELSE pending
      BY <1>2 DEF msg_comming_cb
    <2>2. PICK x \in Messages : x = Head(msgs[t])
      BY <2>1, HeadTail DEF TypeOK
    <2>3. PICK r \in Seq(TaskMsgs), p \in Seq(TaskMsgs), h \in Seq(Messages) :
             r = ran[t] /\ p = pending[t] /\ h = handled[t]
      BY DEF TypeOK
    <2>4. TaskMsgs \subseteq Messages
      BY DEF Messages
    <2>5. r \in Seq(Messages) /\ p \in Seq(Messages) /\ r \o p \in Seq(Messages)
      <3>1. r \in Seq(Messages) /\ p \in Seq(Messages)
        BY <2>4
      <3> QED
        BY <3>1
    <2>6. TasksAmong(r \o p, h)
      BY <2>3 DEF TasksInOrder
    <2>7. \A u \in Threads : u # t => ran'[u] = ran[u] /\ pending'[u] = pending[u] /\ handled'[u] = handled[u]
      BY <2>1 DEF TypeOK
    <2>8. ran'[t] = r /\ handled'[t] = Append(h, x)
      BY <2>1, <2>2, <2>3 DEF TypeOK
    <2>9. CASE x \in TaskMsgs
      <3>1. pending'[t] = Append(p, x)
        BY <2>1, <2>2, <2>3, <2>9 DEF TypeOK
      <3>2. r \o Append(p, x) = Append(r \o p, x)
        BY <2>5, PendLast
      <3>3. TasksAmong(Append(r \o p, x), Append(h, x))
        <4>1. PICK q \in Seq(Messages) : q = r \o p
          BY <2>5
        <4>2. IsTask(x)
          BY <2>9, TaskType
        <4>3. TasksAmong(Append(q, x), Append(h, x))
          BY <2>6, <4>1, <4>2, TakeTask
        <4> QED
          BY <4>1, <4>3
      <3>4. TasksAmong(ran'[t] \o pending'[t], handled'[t])
        BY <2>8, <3>1, <3>2, <3>3
      <3> QED
        BY <2>7, <3>4 DEF TasksInOrder
    <2>10. CASE x \notin TaskMsgs
      <3>1. pending'[t] = p
        BY <2>1, <2>2, <2>3, <2>10
      <3>2. TasksAmong(r \o p, Append(h, x))
        <4>1. PICK q \in Seq(Messages) : q = r \o p
          BY <2>5
        <4>2. ~IsTask(x)
          BY <2>10, TaskType
        <4>3. TasksAmong(q, Append(h, x))
          BY <2>6, <4>1, <4>2, PassOther
        <4> QED
          BY <4>1, <4>3
      <3>3. TasksAmong(ran'[t] \o pending'[t], handled'[t])
        BY <2>8, <3>1, <3>2
      <3> QED
        BY <2>7, <3>3 DEF TasksInOrder
    <2> QED
      BY <2>9, <2>10
  <1>3. ASSUME NEW t \in Threads, run_pending(t) PROVE TasksInOrder'
    <2>1. /\ handled' = handled /\ pending[t] # << >>
          /\ ran' = [ran EXCEPT ![t] = Append(@, Head(pending[t]))]
          /\ pending' = [pending EXCEPT ![t] = Tail(@)]
      BY <1>3 DEF run_pending
    <2>2. /\ ran'[t] = Append(ran[t], Head(pending[t])) /\ pending'[t] = Tail(pending[t])
          /\ \A u \in Threads : u # t => ran'[u] = ran[u] /\ pending'[u] = pending[u]
      BY <2>1 DEF TypeOK
    <2>3. Append(ran[t], Head(pending[t])) \o Tail(pending[t]) = ran[t] \o pending[t]
      <3>1. PICK r \in Seq(TaskMsgs), p \in Seq(TaskMsgs) : r = ran[t] /\ p = pending[t]
        BY DEF TypeOK
      <3>2. Append(r, Head(p)) \o Tail(p) = r \o p
        BY <2>1, <3>1, RunFirst
      <3> QED
        BY <3>1, <3>2
    <2>4. ran'[t] \o pending'[t] = ran[t] \o pending[t]
      BY <2>2, <2>3
    <2> QED
      BY <2>1, <2>2, <2>4 DEF TasksInOrder
  <1>4. ASSUME NEW t \in Threads, Worker(t), ~msg_comming_cb(t), ~run_pending(t)
        PROVE  UNCHANGED <<ran, pending, handled>>
    BY <1>4 DEF Worker, recv_msg, thread_domain, epoll_wait, epoll_timeout, recv_lock, recv_read,
                recv_swap, recv_unlock, callback_done, run_task_done
  <1>5. ASSUME NEW s \in Senders, send_msg(s) PROVE UNCHANGED <<ran, pending, handled>>
    BY <1>5 DEF send_msg, send_lock, send_push, send_write, send_unlock, SenderStep, workerVars
  <1>6. CASE Calls \/ UNCHANGED vars
    <2>1. UNCHANGED <<ran, pending, handled>>
      BY <1>6 DEF Calls, get_next_thread, run_task_one, run_task_all, StartCall, vars,
                  workerVars, histVars
    <2> QED
      BY <1>1, <2>1
  <1> QED
    BY <1>1, <1>2, <1>3, <1>4, <1>5, <1>6 DEF Next

(* For any number of threads, senders and messages, a worker's loop runs   *)
(* exactly the tasks msg_comming_cb has taken from its queue, in that      *)
(* order: add_task and event_loop::run_task drop, repeat and reorder none. *)
THEOREM TasksRunInOrder == Spec => []TasksInOrder
  <1>1. Init => TypeOK /\ Busy /\ TasksInOrder
    <2> SUFFICES ASSUME Init, NEW t \in Threads
                 PROVE  TasksAmong(ran[t] \o pending[t], handled[t])
      BY InitType DEF TasksInOrder
    <2>1. ran[t] \o pending[t] = << >> /\ handled[t] = << >>
      BY DEF Init
    <2>2. TasksAmong(<< >>, << >>)
      <3>1. Len(<< >>) = 0 /\ 1..0 = {}
        OBVIOUS
      <3>2. [i \in 1..0 |-> 0] \in [1..0 -> 1..0]
        BY <3>1
      <3> QED
        BY <3>1, <3>2 DEF TasksAmong
    <2> QED
      BY <2>1, <2>2
  <1>2. (TypeOK /\ Busy /\ TasksInOrder) /\ [Next]_vars => (TypeOK /\ Busy /\ TasksInOrder)'
    BY StepType, StepTasks
  <1> QED
    BY <1>1, <1>2, PTL DEF Spec
=============================================================================
