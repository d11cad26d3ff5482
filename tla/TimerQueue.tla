----------------------------- MODULE TimerQueue -----------------------------
(***************************************************************************)
(* timer_queue.cc and its use by event_loop: timers in a binary heap with  *)
(* an index from identifiers to positions, one timerfd armed for _pioneer, *)
(* and timerqueue_cb, which the loop calls when epoll reports the timerfd. *)
(*                                                                         *)
(* Everything happens in one thread, but the clock runs on between any two *)
(* steps, and callbacks may add and delete timers at three points: outside *)
(* a batch of events (tasks), after epoll_wait has reported the timerfd    *)
(* and before timerqueue_cb is called (callbacks of other descriptors in   *)
(* the same batch), and between the timer callbacks of one get_timo.       *)
(*                                                                         *)
(* The vector _event_lst is a sequence: position p of the code is index    *)
(* p + 1.  Time is in the code's unit, the millisecond.                    *)
(***************************************************************************)
EXTENDS Integers, Sequences, FiniteSets, Functions

CONSTANTS MaxTime,         \* bound on the clock
          RunAtTimes,      \* times given to run_at
          Delays,          \* delays given to run_after
          Intervals,       \* intervals given to run_every
          MaxAdds,         \* bound on the timers the application adds
          MaxDels          \* bound on its calls of del_timer

ASSUME TimerQueueAssumption ==
    /\ MaxTime \in Nat
    /\ RunAtTimes \subseteq 0..MaxTime
    /\ Delays \subseteq Nat
    /\ Intervals \subseteq Nat
    /\ MaxAdds \in Nat /\ MaxDels \in Nat

VARIABLES
    now,            \* the clock
    event_lst,      \* _event_lst: [id, ts, interval, h]; h is the first id
    position,       \* _position
    next_timer_id,  \* _next_timer_id
    pioneer,        \* _pioneer
    timerfd,        \* kernel: the time it is armed for, 0 if disarmed
    pc,             \* "poll"; "batch": epoll reported the timerfd; "callbacks"
    fired_evs,      \* timers whose callbacks are still to run
    adds, dels,     \* calls made so far
    deleted,        \* history: handles del_timer was called with
    touched         \* history: the queue was changed after epoll_wait reported
                    \*   the timerfd and before timerqueue_cb

queueVars == <<event_lst, position, next_timer_id, pioneer, timerfd>>
appVars == <<adds, dels, deleted, touched>>
vars == <<now, queueVars, pc, fired_evs, appVars>>

(* (uint64_t)-1, which is larger than every time.                          *)
NoPioneer == -1
Before(t, p) == p = NoPioneer \/ t < p

Init ==
    /\ now = 1
    /\ event_lst = << >>
    /\ position = << >>
    /\ next_timer_id = 0
    /\ pioneer = NoPioneer
    /\ timerfd = 0
    /\ pc = "poll"
    /\ fired_evs = << >>
    /\ adds = 0 /\ dels = 0
    /\ deleted = {} /\ touched = FALSE

-----------------------------------------------------------------------------
(* The heap.  A heap is a record of the vector and the position index; an  *)
(* operation maps one heap to the next.                                    *)

(* Step(e); the set makes TLC evaluate e once, however often Step uses it. *)
Once(Step(_), e) == CHOOSE y \in {Step(z) : z \in {e}} : TRUE

(* n rounds of a loop that starts with x.  Step is one round, and leaves   *)
(* its argument alone once the loop's condition is false.                  *)
Rounds(Step(_), x, n) ==
    LET after[k \in Nat] == IF k = 0 THEN x ELSE Once(Step, after[k - 1])
    IN  after[n]

Heap == [lst |-> event_lst, pos |-> position]
count(hp) == Len(hp.lst)
ts(hp, p) == hp.lst[p + 1].ts

Erase(pos, id) == Restrict(pos, DOMAIN pos \ {id})
Put(pos, id, p) == [i \in DOMAIN pos \cup {id} |-> IF i = id THEN p ELSE pos[i]]

(* Exchange the timers at positions p and q and their index entries.       *)
Swap(hp, p, q) ==
    [lst |-> [hp.lst EXCEPT ![p + 1] = hp.lst[q + 1], ![q + 1] = hp.lst[p + 1]],
     pos |-> [hp.pos EXCEPT ![hp.lst[p + 1].id] = q, ![hp.lst[q + 1].id] = p]]

Parent(p) == IF p = 0 THEN 0 ELSE (p - 1) \div 2

(* A timer rises past later parents.  at is curr_pos.                      *)
SiftUp(s) ==
    LET up == Parent(s.at)
    IN  IF ts(s.hp, s.at) < ts(s.hp, up) THEN [hp |-> Swap(s.hp, s.at, up), at |-> up] ELSE s

heap_add(hp, te) ==
    LET added == [lst |-> Append(hp.lst, te), pos |-> Put(hp.pos, te.id, count(hp))]
    IN  Rounds(SiftUp, [hp |-> added, at |-> count(hp)], count(hp)).hp

(* Mutant: forgets the right child.                                        *)
MinPos_LeftOnly(hp, p) ==
    IF 2 * p + 1 < count(hp) /\ ts(hp, p) > ts(hp, 2 * p + 1) THEN 2 * p + 1 ELSE p

(* The position of the smallest of p and its children.                     *)
MinPos(hp, p) ==
    LET left == 2 * p + 1
        right == 2 * p + 2
        m == IF left < count(hp) /\ ts(hp, p) > ts(hp, left) THEN left ELSE p
    IN  IF right < count(hp) /\ ts(hp, m) > ts(hp, right) THEN right ELSE m

(* One call of the recursive heap_hold(at).                                *)
SiftDown(s) ==
    LET m == MinPos(s.hp, s.at)
    IN  IF m = s.at THEN s ELSE [hp |-> Swap(s.hp, m, s.at), at |-> m]

heap_hold(hp, p) == Rounds(SiftDown, [hp |-> hp, at |-> p], count(hp)).hp

(* The last timer takes the place of the deleted one and sinks; it never   *)
(* rises.                                                                  *)
heap_del(hp, p) ==
    LET rear == hp.lst[count(hp)]
        lst == SubSeq([hp.lst EXCEPT ![p + 1] = rear], 1, count(hp) - 1)
    IN  heap_hold([lst |-> lst, pos |-> Erase(Put(hp.pos, rear.id, p), hp.lst[p + 1].id)], p)

heap_pop(hp) ==
    LET rear == hp.lst[count(hp)]
        pos == Erase(hp.pos, hp.lst[1].id)
    IN  IF count(hp) = 1
        THEN [lst |-> << >>, pos |-> pos]
        ELSE heap_hold([lst |-> SubSeq([hp.lst EXCEPT ![1] = rear], 1, count(hp) - 1),
                        pos |-> Put(pos, rear.id, 0)], 0)

-----------------------------------------------------------------------------
(* A queue is a heap with _pioneer, _next_timer_id and the timerfd.        *)

Queue == [hp |-> Heap, pioneer |-> pioneer, next |-> next_timer_id, fd |-> timerfd]

SetQueue(new) ==
    \E q \in {new} :
        /\ event_lst' = q.hp.lst
        /\ position' = q.hp.pos
        /\ pioneer' = q.pioneer
        /\ next_timer_id' = q.next
        /\ timerfd' = q.fd

(* Arm the timerfd for _pioneer.  NoPioneer disarms it, and so does 0.     *)
reset_timo(q, to) ==
    [hp |-> q.hp, pioneer |-> to, next |-> q.next,
     fd |-> IF to = NoPioneer THEN 0 ELSE to]

(* te has no identifier yet; a timer's handle is its first identifier.     *)
Numbered(te, id) == [id |-> id, ts |-> te.ts, interval |-> te.interval, h |-> te.h]

add_timer(q, te) ==
    LET hp == heap_add(q.hp, Numbered(te, q.next))
        added == [hp |-> hp, pioneer |-> q.pioneer, next |-> q.next + 1, fd |-> q.fd]
    IN  IF Before(ts(hp, 0), q.pioneer) THEN reset_timo(added, ts(hp, 0)) ELSE added

(* Mutant: the timerfd is disarmed and _pioneer left alone.                *)
Emptied_KeepsPioneer(q) == [q EXCEPT !.fd = 0]

(* The last timer has gone.                                                *)
Emptied(q) == reset_timo(q, NoPioneer)

del_timer(q, id) ==
    IF id \notin DOMAIN q.hp.pos THEN q
    ELSE LET hp == heap_del(q.hp, q.hp.pos[id])
             left == [q EXCEPT !.hp = hp]
         IN  IF count(hp) = 0 THEN Emptied(left)
             ELSE IF Before(ts(hp, 0), q.pioneer) THEN reset_timo(left, ts(hp, 0))
             ELSE left

(* get_timo's first loop: take the timers that _pioneer stands for.        *)
TakeTop(s) ==
    IF count(s.q.hp) # 0 /\ s.q.pioneer = ts(s.q.hp, 0)
    THEN [q |-> [s.q EXCEPT !.hp = heap_pop(@)], taken |-> Append(s.taken, s.q.hp.lst[1])]
    ELSE s
TakeFired(q) == Rounds(TakeTop, [q |-> q, taken |-> << >>], count(q.hp))

(* Mutant: a periodic timer's next time is reckoned from the clock.        *)
NextPeriod_FromNow(te) == [h |-> te.h, ts |-> now + te.interval, interval |-> te.interval]

NextPeriod(te) == [h |-> te.h, ts |-> te.ts + te.interval, interval |-> te.interval]

(* Its second loop: the periodic ones are added again, with new ids.       *)
ReaddNext(s) ==
    IF s.taken = << >> THEN s
    ELSE LET te == Head(s.taken)
         IN  [q |-> IF te.interval > 0 THEN add_timer(s.q, NextPeriod(te)) ELSE s.q,
              taken |-> Tail(s.taken)]
Readd(r) == Rounds(ReaddNext, r, Len(r.taken)).q

(* Mutant: forgets to move to the next timer.                              *)
NextPioneer_Stays(q) == IF count(q.hp) = 0 THEN NoPioneer ELSE q.pioneer

NextPioneer(q) == IF count(q.hp) = 0 THEN NoPioneer ELSE ts(q.hp, 0)

get_timo ==
    \E r \in {TakeFired(Queue)} : \E left \in {Readd(r)} :
        SetQueue(reset_timo(left, NextPioneer(left))) /\ fired_evs' = r.taken

-----------------------------------------------------------------------------
(* The application calls these from a task or a callback.                  *)
AppAdds(t, i) ==
    /\ adds < MaxAdds
    /\ adds' = adds + 1
    /\ SetQueue(add_timer(Queue, [h |-> next_timer_id, ts |-> t, interval |-> i]))
    /\ touched' = (pc = "batch")
    /\ UNCHANGED <<now, pc, fired_evs, dels, deleted>>

run_at(t) == AppAdds(t, 0)
run_after(d) == AppAdds(now + d, 0)
run_every(i) == AppAdds(now + i, i)

(* del_timer with a handle an earlier call returned.                       *)
AppDeletes(id) ==
    /\ dels < MaxDels
    /\ dels' = dels + 1
    /\ deleted' = deleted \cup {id}
    /\ SetQueue(del_timer(Queue, id))
    /\ touched' = (pc = "batch")
    /\ UNCHANGED <<now, pc, fired_evs, adds>>

(* Handles of timers that have been added and may still be around.         *)
Handles == {event_lst[i].h : i \in 1..Len(event_lst)}
           \cup {fired_evs[i].h : i \in 1..Len(fired_evs)}

tick ==
    /\ now < MaxTime
    /\ now' = now + 1
    /\ UNCHANGED <<queueVars, pc, fired_evs, appVars>>

(* epoll_wait reports the timerfd, which has expired and stays readable    *)
(* until it is set again: nothing reads it.                                *)
epoll_wait ==
    /\ pc = "poll"
    /\ timerfd # 0 /\ timerfd <= now
    /\ pc' = "batch"
    /\ UNCHANGED <<now, queueVars, fired_evs, appVars>>

(* timerqueue_cb: get_timo, then the callbacks one by one.                 *)
timerqueue_cb ==
    /\ pc = "batch"
    /\ get_timo
    /\ pc' = "callbacks"
    /\ touched' = FALSE
    /\ UNCHANGED <<now, adds, dels, deleted>>

run_callback ==
    /\ pc = "callbacks"
    /\ fired_evs # << >>
    /\ fired_evs' = Tail(fired_evs)
    /\ UNCHANGED <<now, queueVars, pc, appVars>>

callbacks_done ==
    /\ pc = "callbacks"
    /\ fired_evs = << >>
    /\ pc' = "poll"
    /\ UNCHANGED <<now, queueVars, fired_evs, appVars>>

Loop == epoll_wait \/ timerqueue_cb \/ run_callback \/ callbacks_done

App ==
    \/ \E t \in RunAtTimes : run_at(t)
    \/ \E d \in Delays : run_after(d)
    \/ \E i \in Intervals : run_every(i)
    \/ \E id \in Handles : AppDeletes(id)

Next == tick \/ Loop \/ App

Fairness == WF_vars(tick) /\ WF_vars(Loop)

Spec == Init /\ [][Next]_vars /\ Fairness

-----------------------------------------------------------------------------
(* Properties.                                                             *)

(* _position is exactly the index of _event_lst: every timer in the heap   *)
(* is found under its identifier, and nothing else is.  del_timer deletes  *)
(* whatever the index says.                                                *)
PositionMap ==
    /\ DOMAIN position = {event_lst[i].id : i \in 1..Len(event_lst)}
    /\ \A i \in 1..Len(event_lst) : position[event_lst[i].id] = i - 1

(* _event_lst is a min-heap by time ("以最小堆管理Timers").                *)
HeapOrder ==
    \A p \in 1..(Len(event_lst) - 1) : ts(Heap, Parent(p)) <= ts(Heap, p)

HeapOK == PositionMap /\ HeapOrder

(* Whenever the loop polls, the timerfd is armed no later than the         *)
(* earliest timer, so that no timer is late by more than the loop's own    *)
(* delay.                                                                  *)
ArmedInTime ==
    pc = "poll" => \A i \in 1..Len(event_lst) :
        timerfd # 0 /\ timerfd <= event_lst[i].ts

(* The queue implements the timer service.                                 *)
Service == INSTANCE TimerService WITH
    pending <- {event_lst[i] : i \in 1..Len(event_lst)}, due <- fired_evs,
    cancelled <- deleted, disturbed <- touched
ServiceSpec == Service!Spec

Overdue == \E i \in 1..Len(event_lst) : event_lst[i].ts <= now

(* The loop catches up: whenever a timer is due, a time comes when every   *)
(* timer that was is taken or deleted.                                     *)
EventuallyFires == Overdue ~> ~Overdue

-----------------------------------------------------------------------------
(* What the documentation or the source says and the code does not do.  No *)
(* run checks these: README.md gives the behaviours that break them.       *)

(* "timerfd所设置的时间总是最小堆的堆顶Timer的发生时间": the timerfd is    *)
(* always set to the time of the timer on top of the heap.                 *)
ArmedForTop ==
    event_lst # << >> => timerfd = event_lst[1].ts

(* No timer's callback runs before its time.                               *)
NeverEarly == \A i \in 1..Len(fired_evs) : fired_evs[i].ts <= now

(* A timer that del_timer has been called for, with the handle run_every   *)
(* or run_at returned, is not pending any more.                            *)
DeletedIsGone ==
    \A i \in 1..Len(event_lst) : event_lst[i].h \notin deleted
=============================================================================
