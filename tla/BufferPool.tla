----------------------------- MODULE BufferPool -----------------------------
(***************************************************************************)
(* buffer_pool of io_buffer.cc: the process-wide store of I/O buffers from *)
(* which the connections of all threads take their read and write buffers, *)
(* and to which they give them back.                                       *)
(*                                                                         *)
(* There is one list of free buffers for each capacity, linked through     *)
(* io_buffer::next, and one mutex for all of them.  A buffer is named      *)
(* <<c, i>>, the i-th that was made with capacity c; capacities and memory *)
(* are in the unit of _total_mem, the kilobyte.                            *)
(***************************************************************************)
EXTENDS Naturals, Sequences, FiniteSets, FiniteSetsExt

CONSTANTS Threads,   \* the threads that run event loops
          Caps,      \* the capacities, MEM_CAP
          Preset,    \* Preset[c]: buffers of capacity c made by the constructor
          MemLimit,  \* EXTRA_MEM_LIMIT
          Sizes      \* sizes that callers ask alloc for

Sum(f) == MapThenSumSet(LAMBDA c : c * f[c], DOMAIN f)

ASSUME BufferPoolAssumption ==
    /\ Caps \subseteq Nat \ {0} /\ IsFiniteSet(Caps)
    /\ MemLimit \in Nat
    /\ Preset \in [Caps -> 1..MemLimit]
    /\ Sum(Preset) < MemLimit
    /\ Sizes \subseteq Nat

Bufs == Caps \X (1..MemLimit)
NULL == <<0, 0>>

VARIABLES
    mutex,      \* _mutex: {}, or the thread that holds it
    pool,       \* pool[c]: _pool[c], the first free buffer of capacity c
    next,       \* next[b]: io_buffer::next
    dirty,      \* buffers whose length or head is not 0
    total_mem,  \* _total_mem
    exited,     \* the process has ended
    pc,         \* where each thread is in alloc or revert
    asked,      \* alloc's N
    buf,        \* alloc's target or new_buf, revert's buffer
    held,       \* held[t]: buffers of the connections of thread t
    made,       \* history: number of buffers made of each capacity
    free        \* history: the free buffers of each capacity, in list order

poolVars == <<pool, next, total_mem>>
ghosts == <<made, free>>
vars == <<mutex, poolVars, dirty, exited, pc, asked, buf, held, ghosts>>

(* buffer_pool::buffer_pool.                                               *)
Init ==
    /\ mutex = {}
    /\ pool = [c \in Caps |-> <<c, 1>>]
    /\ next = [b \in Bufs |-> IF b[2] < Preset[b[1]] THEN <<b[1], b[2] + 1>> ELSE NULL]
    /\ dirty = {}
    /\ total_mem = Sum(Preset)
    /\ exited = FALSE
    /\ pc = [t \in Threads |-> "idle"]
    /\ asked = [t \in Threads |-> 0]
    /\ buf = [t \in Threads |-> NULL]
    /\ held = [t \in Threads |-> {}]
    /\ made = Preset
    /\ free = [c \in Caps |-> [i \in 1..Preset[c] |-> <<c, i>>]]

Step(t, from, to) ==
    /\ ~exited
    /\ pc[t] = from
    /\ pc' = [pc EXCEPT ![t] = to]

-----------------------------------------------------------------------------
(* alloc.                                                                  *)

Fits(n) == \E c \in Caps : n <= c

(* Mutant: a size that is exactly a capacity goes to the next class.       *)
SizeClass_Strict(n) ==
    IF \E c \in Caps : n < c
    THEN CHOOSE c \in Caps : n < c /\ \A d \in Caps : n < d => c <= d
    ELSE CHOOSE c \in Caps : n <= c

(* The ladder of comparisons: the smallest capacity that holds n bytes.    *)
SizeClass(n) == CHOOSE c \in Caps : n <= c /\ \A d \in Caps : n <= d => c <= d

(* A size above the largest capacity is answered with NULL at once.        *)
alloc_call(t, n) ==
    /\ Step(t, "idle", IF Fits(n) THEN "alloc_lock" ELSE "idle")
    /\ asked' = [asked EXCEPT ![t] = n]
    /\ UNCHANGED <<mutex, poolVars, dirty, exited, buf, held, ghosts>>

(* Mutant: nobody waits for the lock.                                      *)
Unlocked_Always == TRUE

(* pthread_mutex_lock would not block.                                     *)
Unlocked == mutex = {}

alloc_lock(t) ==
    /\ Step(t, "alloc_lock", "alloc_look")
    /\ Unlocked
    /\ mutex' = {t}
    /\ UNCHANGED <<poolVars, dirty, exited, asked, buf, held, ghosts>>

(* The list is not empty: target is its first buffer.                      *)
alloc_found(t) ==
    LET index == SizeClass(asked[t])
    IN  /\ Step(t, "alloc_look", "alloc_relink")
        /\ pool[index] # NULL
        /\ buf' = [buf EXCEPT ![t] = pool[index]]
        /\ UNCHANGED <<mutex, poolVars, dirty, exited, asked, held, ghosts>>

(* It is empty, and another buffer would reach the limit: exit.            *)
alloc_exit(t) ==
    LET index == SizeClass(asked[t])
    IN  /\ Step(t, "alloc_look", "alloc_look")
        /\ pool[index] = NULL
        /\ total_mem + index >= MemLimit
        /\ exited' = TRUE
        /\ UNCHANGED <<mutex, poolVars, dirty, asked, buf, held, ghosts>>

(* Mutant: the new buffer is not counted.                                  *)
Counted_Not(index) == total_mem

(* _total_mem with one more buffer of capacity index.                      *)
Counted(index) == total_mem + index

(* Mutant: this path forgets to unlock.                                    *)
Made_KeepsLock == "alloc_next"

(* What follows the making of a buffer: the lock is given back.            *)
Made == "alloc_unlock"

(* It is empty: make a buffer.                                             *)
alloc_new(t) ==
    LET index == SizeClass(asked[t])
    IN  /\ Step(t, "alloc_look", Made)
        /\ pool[index] = NULL
        /\ total_mem + index < MemLimit
        /\ total_mem' = Counted(index)
        /\ made' = [made EXCEPT ![index] = @ + 1]
        /\ buf' = [buf EXCEPT ![t] = <<index, made[index] + 1>>]
        /\ UNCHANGED <<mutex, pool, next, dirty, exited, asked, held, free>>

(* _pool[index] = target->next                                             *)
alloc_relink(t) ==
    LET index == SizeClass(asked[t])
    IN  /\ Step(t, "alloc_relink", "alloc_unlock")
        /\ pool' = [pool EXCEPT ![index] = next[buf[t]]]
        /\ free' = [free EXCEPT ![index] = Tail(@)]
        /\ UNCHANGED <<mutex, next, total_mem, dirty, exited, asked, buf, held, made>>

alloc_unlock(t) ==
    /\ Step(t, "alloc_unlock", "alloc_next")
    /\ mutex' = {}
    /\ UNCHANGED <<poolVars, dirty, exited, asked, buf, held, ghosts>>

(* target->next = NULL, after the unlock; the caller gets the buffer.      *)
alloc_return(t) ==
    /\ Step(t, "alloc_next", "idle")
    /\ next' = [next EXCEPT ![buf[t]] = NULL]
    /\ held' = [held EXCEPT ![t] = @ \cup {buf[t]}]
    /\ asked' = [asked EXCEPT ![t] = 0]
    /\ buf' = [buf EXCEPT ![t] = NULL]
    /\ UNCHANGED <<mutex, pool, total_mem, dirty, exited, ghosts>>

-----------------------------------------------------------------------------
(* The holder puts data into a buffer, and later gives it back.            *)

fill(t, b) ==
    /\ Step(t, "idle", "idle")
    /\ b \in held[t] \ dirty
    /\ dirty' = dirty \cup {b}
    /\ UNCHANGED <<mutex, poolVars, exited, asked, buf, held, ghosts>>

(* revert: length = head = 0, before the lock.                             *)
revert_call(t, b) ==
    /\ Step(t, "idle", "revert_lock")
    /\ b \in held[t]
    /\ held' = [held EXCEPT ![t] = @ \ {b}]
    /\ buf' = [buf EXCEPT ![t] = b]
    /\ dirty' = dirty \ {b}
    /\ UNCHANGED <<mutex, poolVars, exited, asked, ghosts>>

revert_lock(t) ==
    /\ Step(t, "revert_lock", "revert_link")
    /\ Unlocked
    /\ mutex' = {t}
    /\ UNCHANGED <<poolVars, dirty, exited, asked, buf, held, ghosts>>

(* buffer->next = _pool[index]                                             *)
revert_link(t) ==
    /\ Step(t, "revert_link", "revert_first")
    /\ next' = [next EXCEPT ![buf[t]] = pool[buf[t][1]]]
    /\ UNCHANGED <<mutex, pool, total_mem, dirty, exited, asked, buf, held, ghosts>>

(* _pool[index] = buffer                                                   *)
revert_first(t) ==
    LET index == buf[t][1]
    IN  /\ Step(t, "revert_first", "revert_unlock")
        /\ pool' = [pool EXCEPT ![index] = buf[t]]
        /\ free' = [free EXCEPT ![index] = <<buf[t]>> \o @]
        /\ UNCHANGED <<mutex, next, total_mem, dirty, exited, asked, buf, held, made>>

revert_unlock(t) ==
    /\ Step(t, "revert_unlock", "idle")
    /\ mutex' = {}
    /\ buf' = [buf EXCEPT ![t] = NULL]
    /\ UNCHANGED <<poolVars, dirty, exited, asked, held, ghosts>>

-----------------------------------------------------------------------------
alloc(t) ==
    \/ alloc_lock(t) \/ alloc_found(t) \/ alloc_exit(t) \/ alloc_new(t)
    \/ alloc_relink(t) \/ alloc_unlock(t) \/ alloc_return(t)

revert(t) ==
    revert_lock(t) \/ revert_link(t) \/ revert_first(t) \/ revert_unlock(t)

(* What the connections do with buffers: see TcpConn.                      *)
Calls(t) ==
    \/ \E n \in Sizes : alloc_call(t, n)
    \/ \E b \in held[t] : fill(t, b) \/ revert_call(t, b)

Next == \E t \in Threads : Calls(t) \/ alloc(t) \/ revert(t)

(* Threads are scheduled, and a free mutex is not withheld from one of     *)
(* them for ever.  Whether and when a connection needs a buffer is open.   *)
Fairness ==
    \A t \in Threads :
        /\ WF_vars(alloc(t) \/ revert(t))
        /\ SF_vars(alloc_lock(t)) /\ SF_vars(revert_lock(t))

Spec == Init /\ [][Next]_vars /\ Fairness

-----------------------------------------------------------------------------
(* Properties.                                                             *)

(* The buffers in a thread's hands: those of its connections, and the one  *)
(* that alloc has taken off a list or revert has not yet put on one.       *)
Hands(t) ==
    held[t] \cup (IF pc[t] \in {"alloc_unlock", "alloc_next", "revert_lock", "revert_link",
                                "revert_first"}
                  THEN {buf[t]} ELSE {})

Places(b) ==
    Cardinality({t \in Threads : b \in Hands(t)})
    + Cardinality({i \in 1..Len(free[b[1]]) : free[b[1]][i] = b})

(* Following io_buffer::next from _pool[c] gives the free buffers of       *)
(* capacity c and ends there, at every step of alloc and revert.           *)
Linked(c) ==
    /\ pool[c] = IF free[c] = << >> THEN NULL ELSE free[c][1]
    /\ \A i \in 1..Len(free[c]) :
          next[free[c][i]] = IF i = Len(free[c]) THEN NULL ELSE free[c][i + 1]

(* Every buffer that was made is in exactly one place, one thread's hands  *)
(* or once on the free list of its capacity, and the links through the     *)
(* buffers make up exactly these lists: no two connections ever share a    *)
(* buffer, none is lost, and none is on a list twice.                      *)
OneOwner ==
    /\ \A b \in Bufs : b[2] <= made[b[1]] => Places(b) = 1
    /\ \A c \in Caps : Linked(c)

(* _total_mem is the memory of all buffers there are, in use or free, and  *)
(* stays below the limit.                                                  *)
MemAccounted == total_mem = Sum(made) /\ total_mem < MemLimit

(* What alloc hands out is what the buffer classes rely on: empty, large   *)
(* enough, and no larger than the smallest capacity that would do.         *)
HandsOut ==
    \A t \in Threads : pc[t] = "alloc_next" =>
        /\ buf[t] \notin dirty
        /\ asked[t] <= buf[t][1]
        /\ \A c \in Caps : asked[t] <= c => buf[t][1] <= c

(* A call of alloc or revert returns, unless the process ends: the one     *)
(* mutex of all threads is given back on every path.                       *)
CallsReturn == \A t \in Threads : pc[t] # "idle" ~> pc[t] = "idle" \/ exited
=============================================================================
