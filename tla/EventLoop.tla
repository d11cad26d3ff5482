----------------------------- MODULE EventLoop -----------------------------
(***************************************************************************)
(* event_loop: the table of registered I/O events and its copy in the      *)
(* kernel's epoll instance, the dispatch of one batch of events after the  *)
(* other, and the tasks that run between two batches.                      *)
(*                                                                         *)
(* What a callback does is up to the application: while one runs, any      *)
(* number of calls of add_ioev, del_ioev and add_task are made, for any    *)
(* descriptor.  Timers are in TimerQueue.                                  *)
(***************************************************************************)
EXTENDS Naturals, Sequences, FiniteSets, Functions

CONSTANTS Fds,             \* descriptors
          MaxEvents,       \* MAXEVENTS
          MaxTasks         \* bound on calls of add_task between two polls

ASSUME EventLoopAssumption ==
    /\ MaxEvents \in Nat \ {0}
    /\ IsFiniteSet(Fds)
    /\ MaxTasks \in Nat

VARIABLES
    io_evs,     \* _io_evs: a function from some of Fds to [mask, read_cb, write_cb]
    listening,  \* listening
    epoll,      \* kernel: the events each registered descriptor is watched for
    ready,      \* kernel: what each descriptor is ready for
    fired,      \* what is left of _fired_evs
    cur,        \* the descriptor whose callback runs, or none
    pc,         \* where process_evs is
    pending,    \* _pendingFactors
    capacity,   \* its capacity
    it,         \* run_task's iterator: the number of entries it has passed
    valid,      \* entries the iterator may reach: all, or those before a reallocation
    added,      \* history: number of tasks added since run_task last finished
    ran,        \* history: those of them that have run
    meddled     \* history: descriptors unregistered while they wait in the batch

evVars   == <<io_evs, listening, epoll>>
taskVars == <<pending, capacity, it, valid, added, ran>>
vars == <<meddled, evVars, ready, fired, cur, pc, taskVars>>

Events == {"IN", "OUT"}
All == MaxTasks + 1

(* event_loop::event_loop.  The timerfd is one of the descriptors.         *)
Init ==
    /\ io_evs = << >> /\ epoll = << >> /\ listening = {}
    /\ ready = [f \in Fds |-> {}]
    /\ fired = << >>
    /\ cur = {}
    /\ pc = "setup"
    /\ pending = << >> /\ capacity = 0
    /\ it = 0 /\ valid = All
    /\ added = 0 /\ ran = << >>
    /\ meddled = {}

Registered == DOMAIN io_evs
Put(f, d, v) == [e \in DOMAIN f \cup {d} |-> IF e = d THEN v ELSE f[e]]
Drop(f, d) == Restrict(f, DOMAIN f \ {d})

-----------------------------------------------------------------------------
(* The kernel (external).                                                  *)

(* Data or room for data comes and goes, and a peer may hang up for good.  *)
(* Only epoll_wait looks, so a change while a callback or a task runs is   *)
(* taken to happen when the loop polls next.                               *)
ready_changes(f) ==
    /\ pc = "poll"
    /\ \/ \E e \in Events : ready' = [ready EXCEPT ![f] = IF e \in @ THEN @ \ {e} ELSE @ \cup {e}]
       \/ "HUP" \notin ready[f] /\ ready' = [ready EXCEPT ![f] = @ \cup {"HUP"}]
    /\ UNCHANGED <<meddled, evVars, fired, cur, pc, taskVars>>

(* EPOLLHUP and EPOLLERR are reported whatever the mask.                   *)
Reported(f) == ready[f] \cap (epoll[f] \cup {"HUP"})
Pollable == {f \in DOMAIN epoll : Reported(f) # {}}
AtMost(n) == IF n < MaxEvents THEN n ELSE MaxEvents

(* The batches epoll_wait may return: as many of the ready descriptors as  *)
(* there is space for, each once, in any order.                            *)
Batches ==
    {s \in [1..AtMost(Cardinality(Pollable)) -> Pollable] : IsInjective(s)}

-----------------------------------------------------------------------------
(* add_ioev and del_ioev.                                                  *)

(* epoll_ctl ADD and MOD both leave the descriptor with the mask, provided *)
(* the operation fits what is registered; otherwise they fail.             *)
epoll_ctl(op, f, mask) ==
    epoll' = CASE op = "ADD" /\ f \notin DOMAIN epoll -> Put(epoll, f, mask)
               [] op = "MOD" /\ f \in DOMAIN epoll -> Put(epoll, f, mask)
               [] op = "DEL" -> Drop(epoll, f)
               [] OTHER -> epoll

(* The mask of a call holds one of EPOLLIN and EPOLLOUT, not both.         *)
add_ioev(f, e) ==
    LET known == f \in Registered
        old == IF known THEN io_evs[f] ELSE [mask |-> {}, read_cb |-> FALSE, write_cb |-> FALSE]
        mask == old.mask \cup {e}
    IN  /\ io_evs' = Put(io_evs, f, [mask |-> mask,
                                     read_cb |-> old.read_cb \/ e = "IN",
                                     write_cb |-> old.write_cb \/ e = "OUT"])
        /\ epoll_ctl(IF known THEN "MOD" ELSE "ADD", f, mask)
        /\ listening' = listening \cup {f}

(* Mutant: an event whose mask has become empty stays in the table.        *)
Unlisted_Kept(f) ==
    IF f \in Registered THEN [io_evs EXCEPT ![f].mask = {}] ELSE io_evs

(* The table without the entry of f.                                       *)
Unlisted(f) == Drop(io_evs, f)

(* del_ioev(fd, mask)                                                      *)
del_ioev_mask(f, e) ==
    LET mask == io_evs[f].mask \ {e}
    IN  IF f \notin Registered THEN UNCHANGED evVars
        ELSE IF mask = {}
        THEN /\ io_evs' = Unlisted(f)
             /\ epoll_ctl("DEL", f, {})
             /\ listening' = listening \ {f}
        ELSE /\ io_evs' = [io_evs EXCEPT ![f].mask = mask]
             /\ epoll_ctl("MOD", f, mask)
             /\ UNCHANGED listening

(* del_ioev(fd)                                                            *)
del_ioev(f) ==
    /\ io_evs' = Unlisted(f)
    /\ listening' = listening \ {f}
    /\ epoll_ctl("DEL", f, {})

-----------------------------------------------------------------------------
(* The application: a callback or a task that is running, or set-up code   *)
(* before the loop polls.                                                  *)

InBatch(f) == \E i \in 1..Len(fired) : fired[i].fd = f
AppRuns == pc \in {"setup", "callback", "task"}

app_events(f) ==
    /\ AppRuns
    /\ \/ \E e \in Events : add_ioev(f, e) \/ del_ioev_mask(f, e)
       \/ del_ioev(f)
    /\ meddled' = IF InBatch(f) /\ f \notin DOMAIN io_evs' THEN meddled \cup {f} ELSE meddled
    /\ UNCHANGED <<ready, fired, cur, pc, taskVars>>

(* add_task.  push_back on a full vector moves the entries to new storage, *)
(* after which run_task's iterator, if it is running, refers to the old.   *)
add_task ==
    /\ AppRuns
    /\ added < MaxTasks
    /\ added' = added + 1
    /\ pending' = Append(pending, added + 1)
    /\ IF Len(pending) < capacity THEN UNCHANGED <<capacity, valid>>
       ELSE /\ capacity' = IF capacity = 0 THEN 1 ELSE 2 * capacity
            /\ valid' = IF pc = "task" /\ valid = All THEN Len(pending) ELSE valid
    /\ UNCHANGED <<meddled, evVars, ready, fired, cur, pc, it, ran>>

-----------------------------------------------------------------------------
(* process_evs.                                                            *)

process_evs ==
    /\ pc = "setup"
    /\ pc' = "poll"
    /\ UNCHANGED <<meddled, evVars, ready, fired, cur, taskVars>>

epoll_wait(batch) ==
    /\ pc = "poll"
    /\ fired' = [i \in DOMAIN batch |-> [fd |-> batch[i], events |-> Reported(batch[i])]]
    /\ pc' = "batch"
    /\ UNCHANGED <<meddled, evVars, ready, cur, taskVars>>

(* Mutant: the error branch comes first and always calls read_cb.          *)
Chosen_ErrorFirst(ev, events) ==
    CASE "HUP" \in events -> IF ev.read_cb THEN "run" ELSE "null"
      [] "IN" \in events -> IF ev.read_cb THEN "run" ELSE "null"
      [] OTHER -> IF ev.write_cb THEN "run" ELSE "null"

(* The callback the event gets: EPOLLIN first, EPOLLOUT only without it,   *)
(* an error or hang-up alone goes to whichever there is.  "null": the one  *)
(* that is called has not been set.                                        *)
Chosen(ev, events) ==
    CASE "IN" \in events -> IF ev.read_cb THEN "run" ELSE "null"
      [] "IN" \notin events /\ "OUT" \in events -> IF ev.write_cb THEN "run" ELSE "null"
      [] OTHER -> IF ev.read_cb \/ ev.write_cb THEN "run" ELSE "delete"

(* The assert on _io_evs.find fails.                                       *)
dispatch_abort ==
    /\ pc = "batch" /\ fired # << >>
    /\ Head(fired).fd \notin Registered
    /\ pc' = "aborted"
    /\ UNCHANGED <<meddled, evVars, ready, fired, cur, taskVars>>

(* Mutant: what is left of the batch is dropped.                           *)
Rest_Dropped == << >>

(* The events of the batch that come after the one being dispatched.       *)
Rest == Tail(fired)

dispatch ==
    /\ pc = "batch" /\ fired # << >>
    /\ Head(fired).fd \in Registered
    /\ LET f == Head(fired).fd
           chosen == Chosen(io_evs[f], Head(fired).events)
       IN  /\ pc' = CASE chosen = "run" -> "callback"
                      [] chosen = "null" -> "crashed"
                      [] chosen = "delete" -> "batch"
           /\ cur' = IF chosen = "delete" THEN {} ELSE {f}
           /\ IF chosen = "delete" THEN del_ioev(f) ELSE UNCHANGED evVars
    /\ fired' = Rest
    /\ UNCHANGED <<meddled, ready, taskVars>>

callback_returns ==
    /\ pc = "callback"
    /\ pc' = "batch"
    /\ cur' = {}
    /\ UNCHANGED <<meddled, evVars, ready, fired, taskVars>>

(* The batch is done: run_task starts.                                     *)
batch_done ==
    /\ pc = "batch" /\ fired = << >>
    /\ pc' = "run_task"
    /\ it' = 0 /\ valid' = All
    /\ meddled' = {}
    /\ UNCHANGED <<evVars, ready, fired, cur, pending, capacity, added, ran>>

(* The next task starts.  Past a reallocation the iterator goes on over    *)
(* the old storage, whose entries may still be there.                      *)
run_next ==
    /\ pc = "run_task"
    /\ it < Len(pending) /\ it < valid
    /\ ran' = Append(ran, pending[it + 1])
    /\ it' = it + 1
    /\ pc' = "task"
    /\ UNCHANGED <<meddled, evVars, ready, fired, cur, pending, capacity, valid, added>>

(* A dangling iterator never meets end(): sooner or later the loop reads   *)
(* what is not there.                                                      *)
run_dangling ==
    /\ pc = "run_task"
    /\ valid # All
    /\ pc' = "crashed"
    /\ UNCHANGED <<meddled, evVars, ready, fired, cur, taskVars>>

task_returns ==
    /\ pc = "task"
    /\ pc' = "run_task"
    /\ UNCHANGED <<meddled, evVars, ready, fired, cur, taskVars>>

(* Mutant: the vector is not cleared.                                      *)
Cleared_Not == pending

(* _pendingFactors.clear().                                                *)
Cleared == << >>

(* Every task has run: clear, which keeps the storage.                     *)
run_task_done ==
    /\ pc = "run_task"
    /\ it = Len(pending) /\ valid = All
    /\ pending' = Cleared
    /\ it' = 0
    /\ pc' = "poll"
    /\ added' = 0 /\ ran' = << >>
    /\ UNCHANGED <<meddled, evVars, ready, fired, cur, capacity, valid>>

-----------------------------------------------------------------------------
App == (\E f \in Fds : app_events(f)) \/ add_task

Loop ==
    \/ process_evs
    \/ \E batch \in Batches : epoll_wait(batch)
    \/ dispatch \/ dispatch_abort \/ callback_returns \/ batch_done
    \/ run_next \/ run_dangling \/ task_returns \/ run_task_done

Next == (\E f \in Fds : ready_changes(f)) \/ App \/ Loop

(* The program calls process_evs, the loop's thread runs and callbacks     *)
(* return.  epoll moves what it has reported to the end of its ready list, *)
(* so no descriptor is left out of the batches for ever.                   *)
Fairness ==
    /\ WF_vars(process_evs \/ dispatch \/ dispatch_abort \/ callback_returns \/ batch_done
               \/ run_next \/ run_dangling \/ task_returns \/ run_task_done)
    /\ WF_vars(\E batch \in Batches : epoll_wait(batch))
    /\ \A f \in Fds :
          SF_vars(\E batch \in Batches : f \in Range(batch) /\ epoll_wait(batch))

Spec == Init /\ [][Next]_vars /\ Fairness

-----------------------------------------------------------------------------
(* Properties.                                                             *)

(* The loop's table, the kernel's and the set nlistenings reports never    *)
(* disagree, over any sequence of additions and deletions: an event that   *)
(* is in the table is watched with its mask, and only such events are.     *)
TablesAgree ==
    /\ listening = Registered
    /\ DOMAIN epoll = Registered
    /\ \A f \in Registered : epoll[f] = io_evs[f].mask /\ io_evs[f].mask # {}

(* The loop trips over nothing but two things an application can do to it. *)
(* The assert on _io_evs.find fails, or a callback that was not set is     *)
(* called, only for a descriptor that was unregistered while it waited in  *)
(* the batch (not when its events merely changed, nor after any earlier    *)
(* history); and run_task follows its iterator into storage that is gone   *)
(* only after a task has added one to a full vector.                       *)
NoCrash ==
    /\ pc = "aborted" => Head(fired).fd \in meddled
    /\ pc = "crashed" => valid # All \/ (cur # {} /\ cur \subseteq meddled)

(* Tasks run once each, in the order they were added: those that have run  *)
(* and those that are left are together all that were added.               *)
TasksInOrder ==
    ran \o SubSeq(pending, it + 1, Len(pending)) = [k \in 1..added |-> k]

(* A descriptor that stays registered and ready gets a callback.           *)
Served ==
    \A f \in Fds :
        f \in Pollable ~> f \in cur \/ f \notin Pollable \/ pc \in {"aborted", "crashed"}
=============================================================================
