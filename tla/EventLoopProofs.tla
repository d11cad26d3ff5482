-------------------------- MODULE EventLoopProofs --------------------------
(***************************************************************************)
(* Proofs about EventLoop, for any descriptors, any size of a batch, any   *)
(* number of tasks, and callbacks and tasks that make any calls.           *)
(*                                                                         *)
(* TablesAgree is inductive once the types are there.  NoCrash speaks of   *)
(* the moment of the failure; the invariant behind it speaks of the events *)
(* that still wait in the batch (BatchOK): one whose descriptor was not    *)
(* unregistered in the meantime is in the table, with the callbacks its    *)
(* events call for, because a callback, once set, stays set as long as the *)
(* event does, and an event is watched only for what it has callbacks for  *)
(* (CallbacksSet).  For the tasks, the vector holds all that were added    *)
(* and the iterator separates those that have run (TasksOK).               *)
(***************************************************************************)
EXTENDS EventLoop, FiniteSetTheorems, TLAPS

Ev == [mask : SUBSET Events, read_cb : BOOLEAN, write_cb : BOOLEAN]
Reports == [fd : Fds, events : SUBSET (Events \cup {"HUP"})]
Upto(n) == [k \in 1..n |-> k]

Typed ==
    /\ Registered \subseteq Fds
    /\ io_evs \in [Registered -> Ev]
    /\ epoll \in [DOMAIN epoll -> SUBSET Events]
    /\ ready \in [Fds -> SUBSET (Events \cup {"HUP"})]
    /\ fired \in Seq(Reports)
    /\ pc \in {"setup", "poll", "batch", "callback", "run_task", "task", "aborted", "crashed"}

CallbacksSet ==
    \A f \in Registered :
        /\ "IN" \in io_evs[f].mask => io_evs[f].read_cb
        /\ "OUT" \in io_evs[f].mask => io_evs[f].write_cb

(* An event of the batch, if its descriptor was not unregistered since.    *)
InTable(r) ==
    r.fd \notin meddled =>
        /\ r.fd \in Registered
        /\ "IN" \in r.events => io_evs[r.fd].read_cb
        /\ "OUT" \in r.events => io_evs[r.fd].write_cb

BatchOK == \A i \in 1..Len(fired) : InTable(fired[i])

TasksOK ==
    /\ added \in Nat /\ it \in 0..added
    /\ pending = Upto(added) /\ ran = Upto(it)
    /\ pc \notin {"run_task", "task", "crashed"} => it = 0

Inv == Typed /\ TablesAgree /\ CallbacksSet /\ BatchOK /\ NoCrash /\ TasksOK

-----------------------------------------------------------------------------
(* Operators.                                                              *)

(* The numbers up to n: their length, one more, and where they are cut.    *)
LEMMA Counting ==
    ASSUME NEW n \in Nat
    PROVE  /\ Upto(n) \in Seq(Nat) /\ Len(Upto(n)) = n
           /\ Append(Upto(n), n + 1) = Upto(n + 1)
           /\ Upto(0) = << >>
           /\ \A i \in 0..n : Upto(i) \o SubSeq(Upto(n), i + 1, n) = Upto(n)
  BY DEF Upto

-----------------------------------------------------------------------------
(* The table.                                                              *)

Tables == Typed /\ TablesAgree /\ CallbacksSet

(* What a call of add_ioev or del_ioev leaves alone of the entries: those  *)
(* of other descriptors, and callbacks that were set.                      *)
Grown(f) ==
    \A g \in Registered :
        \/ g = f /\ g \notin Registered'
        \/ /\ g \in Registered'
           /\ io_evs[g].read_cb => io_evs'[g].read_cb
           /\ io_evs[g].write_cb => io_evs'[g].write_cb

TablesOK ==
    /\ Registered' \subseteq Fds
    /\ io_evs' \in [Registered' -> Ev]
    /\ epoll' \in [DOMAIN epoll' -> SUBSET Events]
    /\ TablesAgree' /\ CallbacksSet'

(* add_ioev.                                                               *)
LEMMA AddIoev ==
    ASSUME Tables, NEW f \in Fds, NEW e \in Events, add_ioev(f, e)
    PROVE  TablesOK /\ Grown(f)
  <1> USE DEF Tables
  <1> DEFINE known == f \in Registered
             old == IF known THEN io_evs[f]
                    ELSE [mask |-> {}, read_cb |-> FALSE, write_cb |-> FALSE]
             ev == [mask |-> old.mask \cup {e}, read_cb |-> old.read_cb \/ e = "IN",
                    write_cb |-> old.write_cb \/ e = "OUT"]
  <1>1. old \in Ev /\ ("IN" \in old.mask => old.read_cb) /\ ("OUT" \in old.mask => old.write_cb)
    BY DEF Typed, CallbacksSet, Ev
  <1>2. ev \in Ev /\ ev.mask # {} /\ ("IN" \in ev.mask => ev.read_cb)
        /\ ("OUT" \in ev.mask => ev.write_cb)
        /\ (old.read_cb => ev.read_cb) /\ (old.write_cb => ev.write_cb)
    BY <1>1 DEF Ev, Events
  <1>3. io_evs' = Put(io_evs, f, ev) /\ epoll' = Put(epoll, f, ev.mask)
        /\ listening' = listening \cup {f}
    BY DEF add_ioev, epoll_ctl, TablesAgree
  <1>4. old = io_evs[f] \/ f \notin Registered
    OBVIOUS
  <1> HIDE DEF ev, old
  <1>5. /\ DOMAIN io_evs' = DOMAIN io_evs \cup {f} /\ io_evs'[f] = ev
        /\ \A g \in DOMAIN io_evs : g # f => io_evs'[g] = io_evs[g]
        /\ io_evs' = [g \in DOMAIN io_evs' |-> io_evs'[g]]
    BY <1>3 DEF Put
  <1>6. /\ DOMAIN epoll' = DOMAIN epoll \cup {f} /\ epoll'[f] = ev.mask
        /\ \A g \in DOMAIN epoll : g # f => epoll'[g] = epoll[g]
        /\ epoll' = [g \in DOMAIN epoll' |-> epoll'[g]]
    BY <1>3 DEF Put
  <1>7. ev.mask \in SUBSET Events
    BY <1>2 DEF Ev
  <1>8. Registered' \subseteq Fds /\ io_evs' \in [Registered' -> Ev]
    BY <1>2, <1>5 DEF Typed, Registered
  <1>9. epoll' \in [DOMAIN epoll' -> SUBSET Events]
    BY <1>6, <1>7 DEF Typed
  <1>10. TablesAgree'
    BY <1>2, <1>3, <1>5, <1>6 DEF TablesAgree, Registered
  <1>11. CallbacksSet'
    BY <1>2, <1>5 DEF CallbacksSet, Registered
  <1>12. Grown(f)
    BY <1>2, <1>4, <1>5 DEF Grown, Registered
  <1> QED
    BY <1>8, <1>9, <1>10, <1>11, <1>12 DEF TablesOK

(* del_ioev of a descriptor.                                               *)
LEMMA DelIoev ==
    ASSUME Tables, NEW f \in Fds, del_ioev(f)
    PROVE  TablesOK /\ Grown(f)
  <1> USE DEF Tables
  <1>1. io_evs' = Drop(io_evs, f) /\ epoll' = Drop(epoll, f) /\ listening' = listening \ {f}
    BY DEF del_ioev, epoll_ctl, Unlisted
  <1>2. /\ DOMAIN io_evs' = DOMAIN io_evs \ {f}
        /\ \A g \in DOMAIN io_evs : g # f => io_evs'[g] = io_evs[g]
        /\ io_evs' = [g \in DOMAIN io_evs' |-> io_evs'[g]]
    BY <1>1 DEF Drop, Restrict
  <1>3. /\ DOMAIN epoll' = DOMAIN epoll \ {f}
        /\ \A g \in DOMAIN epoll : g # f => epoll'[g] = epoll[g]
        /\ epoll' = [g \in DOMAIN epoll' |-> epoll'[g]]
    BY <1>1 DEF Drop, Restrict
  <1>4. Registered' \subseteq Fds /\ io_evs' \in [Registered' -> Ev]
    BY <1>2 DEF Typed, Registered
  <1>5. epoll' \in [DOMAIN epoll' -> SUBSET Events]
    BY <1>3 DEF Typed
  <1>6. TablesAgree'
    BY <1>1, <1>2, <1>3 DEF TablesAgree, Registered
  <1>7. CallbacksSet'
    BY <1>2 DEF CallbacksSet, Registered
  <1>8. Grown(f)
    BY <1>2 DEF Grown, Registered
  <1> QED
    BY <1>4, <1>5, <1>6, <1>7, <1>8 DEF TablesOK

(* del_ioev of some of its events: the last one takes the entry with it.   *)
LEMMA DelIoevMask ==
    ASSUME Tables, NEW f \in Fds, NEW e \in Events, del_ioev_mask(f, e)
    PROVE  TablesOK /\ Grown(f)
  <1> USE DEF Tables
  <1> DEFINE mask == io_evs[f].mask \ {e}
  <1>1. CASE f \notin Registered
    BY <1>1 DEF del_ioev_mask, evVars, TablesOK, Grown, Typed, TablesAgree, CallbacksSet, Registered
  <1>2. CASE f \in Registered /\ mask = {}
    <2>1. del_ioev(f)
      BY <1>2 DEF del_ioev_mask, del_ioev
    <2> QED
      BY <2>1, DelIoev
  <1>3. CASE f \in Registered /\ mask # {}
    <2>1. io_evs' = [io_evs EXCEPT ![f].mask = mask] /\ listening' = listening
          /\ epoll' = Put(epoll, f, mask)
      BY <1>3 DEF del_ioev_mask, epoll_ctl, TablesAgree
    <2>2. io_evs[f] \in Ev /\ mask \in SUBSET Events
      BY <1>3 DEF Typed, Ev
    <2>3. /\ DOMAIN io_evs' = DOMAIN io_evs
          /\ io_evs'[f] \in Ev /\ io_evs'[f].mask = mask
          /\ io_evs'[f].read_cb = io_evs[f].read_cb /\ io_evs'[f].write_cb = io_evs[f].write_cb
          /\ \A g \in DOMAIN io_evs : g # f => io_evs'[g] = io_evs[g]
      BY <1>3, <2>1, <2>2 DEF Ev, Registered
    <2>4. /\ DOMAIN epoll' = DOMAIN epoll /\ epoll'[f] = mask
          /\ \A g \in DOMAIN epoll : g # f => epoll'[g] = epoll[g]
          /\ epoll' = [g \in DOMAIN epoll' |-> epoll'[g]]
      BY <1>3, <2>1 DEF Put, TablesAgree
    <2>5. io_evs' \in [Registered' -> Ev] /\ Registered' \subseteq Fds
      BY <2>1, <2>3 DEF Typed, Registered
    <2>6. epoll' \in [DOMAIN epoll' -> SUBSET Events]
      BY <2>2, <2>4 DEF Typed
    <2>7. TablesAgree'
      BY <1>3, <2>1, <2>3, <2>4 DEF TablesAgree, Registered
    <2>8. CallbacksSet'
      BY <2>3 DEF CallbacksSet, Registered
    <2>9. Grown(f)
      BY <2>3 DEF Grown, Registered
    <2> QED
      BY <2>5, <2>6, <2>7, <2>8, <2>9 DEF TablesOK
  <1> QED
    BY <1>1, <1>2, <1>3

-----------------------------------------------------------------------------
(* The steps.                                                              *)

(* Calls of the application keep the tables in agreement; a descriptor of  *)
(* the batch that they unregister is recorded.                             *)
LEMMA AppEventsInv == ASSUME Inv, NEW f \in Fds, app_events(f) PROVE Inv'
  <1>1. TablesOK /\ Grown(f)
    BY AddIoev, DelIoev, DelIoevMask DEF app_events, Inv, Tables
  <1>2. Typed'
    BY <1>1 DEF TablesOK, Inv, Typed, app_events
  <1>3. BatchOK'
    <2>1. SUFFICES ASSUME NEW i \in 1..Len(fired) PROVE InTable(fired[i])'
      BY DEF BatchOK, app_events
    <2>2. InTable(fired[i]) /\ fired[i].fd = f => InBatch(f)
      BY <2>1 DEF Inv, BatchOK, InBatch
    <2>3. InTable(fired[i])
      BY DEF Inv, BatchOK
    <2>4. CASE fired[i].fd \in meddled
      BY <2>4 DEF InTable, app_events
    <2>5. CASE fired[i].fd \notin meddled
      <3>1. fired[i].fd \in Registered
        BY <2>3, <2>5 DEF InTable
      <3>2. CASE fired[i].fd \in Registered'
        <4>1. /\ io_evs[fired[i].fd].read_cb => io_evs'[fired[i].fd].read_cb
              /\ io_evs[fired[i].fd].write_cb => io_evs'[fired[i].fd].write_cb
          BY <1>1, <3>1, <3>2 DEF Grown
        <4> QED
          BY <2>3, <2>5, <3>2, <4>1 DEF InTable, app_events
      <3>3. CASE fired[i].fd \notin Registered'
        <4>1. fired[i].fd = f
          BY <1>1, <3>1, <3>3 DEF Grown
        <4>2. f \in meddled'
          BY <2>2, <2>3, <3>3, <4>1 DEF app_events, Registered
        <4> QED
          BY <4>1, <4>2 DEF InTable, app_events
      <3> QED
        BY <3>2, <3>3
    <2> QED
      BY <2>4, <2>5
  <1>4. NoCrash'
    BY DEF app_events, AppRuns, NoCrash
  <1>5. TasksOK'
    BY DEF app_events, taskVars, Inv, TasksOK
  <1> QED
    BY <1>1, <1>2, <1>3, <1>4, <1>5 DEF TablesOK, Inv

(* add_task appends the next number.                                       *)
LEMMA AddTaskInv == ASSUME Inv, add_task PROVE Inv'
  <1>1. Typed' /\ TablesAgree' /\ CallbacksSet' /\ BatchOK'
    BY DEF add_task, evVars, Inv, Typed, TablesAgree, CallbacksSet, BatchOK, InTable, Registered
  <1>2. TasksOK'
    <2>1. pending' = Append(Upto(added), added + 1)
      BY DEF add_task, Inv, TasksOK
    <2>2. pending' = Upto(added')
      BY <2>1, Counting DEF add_task, Inv, TasksOK
    <2> QED
      BY <2>2 DEF add_task, Inv, TasksOK
  <1>3. NoCrash'
    BY DEF add_task, AppRuns, NoCrash
  <1> QED
    BY <1>1, <1>2, <1>3 DEF Inv

(* epoll_wait reports events of registered descriptors only, and only      *)
(* those there are callbacks for.                                          *)
LEMMA EpollWaitInv ==
    ASSUME Inv, NEW batch \in Batches, epoll_wait(batch)
    PROVE  Inv'
  <1>1. IsFiniteSet(Pollable)
    BY EventLoopAssumption, FS_Subset DEF Pollable, Inv, TablesAgree, Typed
  <1>2. PICK n \in Nat : batch \in [1..n -> Pollable]
    BY <1>1, FS_CardinalityType, EventLoopAssumption DEF Batches, AtMost
  <1>3. ASSUME NEW f \in Pollable
        PROVE  /\ f \in Registered /\ f \in Fds
               /\ Reported(f) \in SUBSET (Events \cup {"HUP"})
               /\ "IN" \in Reported(f) => io_evs[f].read_cb
               /\ "OUT" \in Reported(f) => io_evs[f].write_cb
    BY DEF Pollable, Reported, Inv, TablesAgree, CallbacksSet, Typed
  <1>4. fired' = [i \in 1..n |-> [fd |-> batch[i], events |-> Reported(batch[i])]]
    BY <1>2 DEF epoll_wait
  <1>5. \A i \in 1..n : batch[i] \in Pollable
    BY <1>2
  <1>6. fired' \in Seq(Reports) /\ Len(fired') = n
    <2>1. \A i \in 1..n : [fd |-> batch[i], events |-> Reported(batch[i])] \in Reports
      BY <1>3, <1>5 DEF Reports
    <2> QED
      BY <1>4, <2>1
  <1>7. BatchOK'
    <2>1. ASSUME NEW i \in 1..n PROVE InTable(fired[i])'
      <3>1. fired'[i].fd = batch[i] /\ fired'[i].events = Reported(batch[i])
        BY <1>4
      <3> QED
        BY <1>3, <1>5, <3>1 DEF InTable, epoll_wait, evVars, Registered
    <2> QED
      BY <1>6, <2>1 DEF BatchOK
  <1>8. Typed' /\ TablesAgree' /\ CallbacksSet'
    BY <1>6 DEF epoll_wait, evVars, Inv, Typed, TablesAgree, CallbacksSet, Registered
  <1>9. TasksOK' /\ NoCrash'
    BY DEF epoll_wait, taskVars, Inv, TasksOK, NoCrash
  <1> QED
    BY <1>7, <1>8, <1>9 DEF Inv

(* The first event of the batch and the rest.                              *)
LEMMA FirstOfBatch ==
    ASSUME Inv, fired # << >>
    PROVE  /\ Head(fired) \in Reports /\ InTable(Head(fired))
           /\ Tail(fired) \in Seq(Reports) /\ Len(Tail(fired)) = Len(fired) - 1
           /\ \A i \in 1..Len(Tail(fired)) : InTable(Tail(fired)[i])
  <1>1. fired \in Seq(Reports) /\ Len(fired) \in Nat /\ Len(fired) > 0
    BY DEF Inv, Typed
  <1>2. Head(fired) = fired[1] /\ Head(fired) \in Reports /\ Tail(fired) \in Seq(Reports)
        /\ Len(Tail(fired)) = Len(fired) - 1
        /\ \A i \in 1..Len(Tail(fired)) : Tail(fired)[i] = fired[i + 1]
    BY <1>1
  <1> QED
    BY <1>1, <1>2 DEF Inv, BatchOK

(* process_evs calls the callback of an event: it is set, or the           *)
(* descriptor was unregistered in this batch.  The branch that deletes an  *)
(* event without callbacks is never taken.                                 *)
LEMMA DispatchInv == ASSUME Inv, dispatch PROVE Inv'
  <1> DEFINE r == Head(fired)
             chosen == Chosen(io_evs[r.fd], r.events)
  <1>0. fired # << >> /\ r.fd \in Registered
    BY DEF dispatch
  <1>1. /\ r \in Reports /\ InTable(r) /\ Tail(fired) \in Seq(Reports)
        /\ \A i \in 1..Len(Tail(fired)) : InTable(Tail(fired)[i])
    BY <1>0, FirstOfBatch
  <1>2. io_evs[r.fd] \in Ev
    BY <1>0 DEF Inv, Typed
  <1>3. io_evs[r.fd].read_cb \/ io_evs[r.fd].write_cb
    BY <1>0, <1>2 DEF Inv, TablesAgree, CallbacksSet, Ev, Events
  <1>4. chosen \in {"run", "null"}
    BY <1>3 DEF Chosen
  <1>5. chosen = "null" => r.fd \in meddled
    BY <1>1 DEF Chosen, InTable
  <1>6. /\ UNCHANGED <<evVars, meddled, ready, taskVars>> /\ fired' = Tail(fired)
        /\ pc = "batch" /\ cur' = {r.fd}
        /\ pc' = IF chosen = "run" THEN "callback" ELSE "crashed"
    BY <1>4 DEF dispatch, Rest
  <1> HIDE DEF r, chosen
  <1>7. BatchOK'
    BY <1>1, <1>6 DEF BatchOK, InTable, evVars, Registered
  <1>8. Typed' /\ TablesAgree' /\ CallbacksSet'
    BY <1>1, <1>4, <1>6 DEF evVars, Inv, Typed, TablesAgree, CallbacksSet, Registered
  <1>9. NoCrash'
    BY <1>4, <1>5, <1>6 DEF NoCrash
  <1>10. TasksOK'
    BY <1>6 DEF taskVars, Inv, TasksOK
  <1> QED
    BY <1>7, <1>8, <1>9, <1>10 DEF Inv

(* The assert on _io_evs.find fails for an unregistered descriptor only.   *)
LEMMA AbortInv == ASSUME Inv, dispatch_abort PROVE Inv'
  <1>1. InTable(Head(fired))
    BY FirstOfBatch DEF dispatch_abort
  <1>2. NoCrash'
    BY <1>1 DEF dispatch_abort, InTable, NoCrash
  <1>3. Typed' /\ TablesAgree' /\ CallbacksSet' /\ BatchOK'
    BY DEF dispatch_abort, evVars, Inv, Typed, TablesAgree, CallbacksSet, BatchOK, InTable, Registered
  <1>4. TasksOK'
    BY DEF dispatch_abort, taskVars, Inv, TasksOK
  <1> QED
    BY <1>2, <1>3, <1>4 DEF Inv

(* run_task moves the iterator over one task at a time and clears the      *)
(* vector behind the last one.                                             *)
LEMMA RunTaskInv ==
    ASSUME Inv, run_next \/ run_task_done
    PROVE  Inv'
  <1>1. Typed' /\ TablesAgree' /\ CallbacksSet' /\ BatchOK' /\ NoCrash'
    BY DEF run_next, run_task_done, evVars, Inv, Typed, TablesAgree, CallbacksSet,
           BatchOK, InTable, Registered, NoCrash
  <1>2. Len(pending) = added
    BY Counting DEF Inv, TasksOK
  <1>3. CASE run_next
    <2>1. it \in Nat /\ it < added /\ pending[it + 1] = it + 1
      BY <1>2, <1>3 DEF run_next, Inv, TasksOK, Upto
    <2>2. ran' = Upto(it')
      BY <1>3, <2>1, Counting DEF run_next, Inv, TasksOK
    <2> QED
      BY <1>1, <1>3, <2>1, <2>2 DEF run_next, Inv, TasksOK
  <1>4. CASE run_task_done
    BY <1>1, <1>4, Counting DEF run_task_done, Cleared, Inv, TasksOK
  <1> QED
    BY <1>3, <1>4

(* The remaining steps of the loop, and of the kernel, change the position *)
(* or the readiness of descriptors.                                        *)
LEMMA OtherInv ==
    ASSUME Inv,
           \/ process_evs \/ callback_returns \/ batch_done \/ run_dangling \/ task_returns
           \/ \E f \in Fds : ready_changes(f)
           \/ UNCHANGED vars
    PROVE  Inv'
  <1>1. Typed'
    BY DEF process_evs, callback_returns, batch_done, run_dangling, task_returns, ready_changes,
           vars, evVars, Inv, Typed, Registered
  <1>2. TablesAgree' /\ CallbacksSet'
    BY DEF process_evs, callback_returns, batch_done, run_dangling, task_returns, ready_changes,
           vars, evVars, Inv, TablesAgree, CallbacksSet, Registered
  <1>3. BatchOK'
    <2>1. CASE batch_done
      BY <2>1 DEF batch_done, BatchOK
    <2>2. CASE ~batch_done
      BY <2>2 DEF process_evs, callback_returns, run_dangling, task_returns, ready_changes,
                  vars, evVars, Inv, BatchOK, InTable, Registered
    <2> QED
      BY <2>1, <2>2
  <1>4. NoCrash'
    BY DEF process_evs, callback_returns, batch_done, run_dangling, task_returns, ready_changes,
           vars, taskVars, Inv, NoCrash
  <1>5. TasksOK'
    BY DEF process_evs, callback_returns, batch_done, run_dangling, task_returns, ready_changes,
           vars, taskVars, Inv, TasksOK
  <1> QED
    BY <1>1, <1>2, <1>3, <1>4, <1>5 DEF Inv

(* The state the constructor leaves behind.                                *)
LEMMA InitInv == ASSUME Init PROVE Inv
  <1>1. io_evs = << >> /\ epoll = << >> /\ DOMAIN io_evs = {} /\ DOMAIN epoll = {}
    BY DEF Init
  <1>2. Typed /\ TablesAgree /\ CallbacksSet
    BY <1>1 DEF Init, Typed, TablesAgree, CallbacksSet, Registered
  <1>3. TasksOK
    BY Counting DEF Init, TasksOK
  <1> QED
    BY <1>2, <1>3 DEF Init, Inv, BatchOK, NoCrash

(* The invariant always holds.                                             *)
LEMMA Invariant == Spec => []Inv
  <1>1. Init => Inv
    BY InitInv
  <1>2. Inv /\ [Next]_vars => Inv'
    BY AppEventsInv, AddTaskInv, EpollWaitInv, DispatchInv, AbortInv, RunTaskInv, OtherInv
       DEF Next, App, Loop
  <1> QED
    BY <1>1, <1>2, PTL DEF Spec

-----------------------------------------------------------------------------
(* The loop's table of events, the set of listened descriptors and the     *)
(* kernel's epoll set agree after any sequence of add_ioev and del_ioev.   *)
THEOREM TablesNeverDisagree == Spec => []TablesAgree
  <1>1. Inv => TablesAgree
    BY DEF Inv
  <1> QED
    BY <1>1, Invariant, PTL

(* process_evs fails its assert or calls a callback that was never set     *)
(* only for a descriptor that was unregistered while it waited in the      *)
(* batch, and run_task leaves its storage only after a task has added one. *)
THEOREM LoopTripsOnlyOverMeddling == Spec => []NoCrash
  <1>1. Inv => NoCrash
    BY DEF Inv
  <1> QED
    BY <1>1, Invariant, PTL

(* Tasks given to add_task run once each and in order, whenever they and   *)
(* the callbacks add others.                                               *)
THEOREM TasksRunInOrder == Spec => []TasksInOrder
  <1>1. ASSUME Inv PROVE TasksInOrder
    <2>1. added \in Nat /\ it \in 0..added /\ pending = Upto(added) /\ ran = Upto(it)
      BY <1>1 DEF Inv, TasksOK
    <2>2. Len(pending) = added
      BY <2>1, Counting
    <2> QED
      BY <2>1, <2>2, Counting DEF TasksInOrder, Upto
  <1> QED
    BY <1>1, Invariant, PTL
=============================================================================
