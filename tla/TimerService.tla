---------------------------- MODULE TimerService ----------------------------
(***************************************************************************)
(* What a timer queue promises its event loop: a timer is taken only when  *)
(* it is due, and then once; a cancellation removes the pending timer with *)
(* that identifier and no other; a periodic timer is taken again and       *)
(* again, an interval apart and under a new identifier each time.  Only    *)
(* when the queue was disturbed, that is changed between the report of an  *)
(* expiry and its handling, timers may be taken early.  How the pending    *)
(* timers are kept, and how the next one is found, is not its concern.     *)
(***************************************************************************)
EXTENDS Integers, Sequences, FiniteSets

VARIABLES now,        \* the clock
          pending,    \* timers that have been added, not cancelled, not taken
          due,        \* timers taken whose callbacks have yet to run, in order
          cancelled,  \* identifiers a cancellation has been asked for
          disturbed   \* an expiry has been reported, and the queue changed since

svars == <<now, pending, due, cancelled, disturbed>>

Init == now = 1 /\ pending = {} /\ due = << >> /\ cancelled = {} /\ ~disturbed

Tick == now' = now + 1 /\ UNCHANGED <<pending, due, cancelled, disturbed>>

(* pending' is the old set and one new timer, with an identifier of its    *)
(* own.                                                                    *)
Add ==
    /\ pending \subseteq pending'
    /\ \E t \in pending' \ pending :
          pending' = pending \cup {t} /\ \A u \in pending : u.id # t.id
    /\ UNCHANGED <<now, due, cancelled>>

Cancel ==
    /\ \E id \in cancelled' :
          /\ cancelled' = cancelled \cup {id}
          /\ pending' = {t \in pending : t.id # id}
    /\ UNCHANGED <<now, due>>

Period(t) == [h |-> t.h, ts |-> t.ts + t.interval, interval |-> t.interval]
Body(t) == [h |-> t.h, ts |-> t.ts, interval |-> t.interval]

(* Some of the timers that are due are taken; the periodic ones among them *)
(* come back under new identifiers, one interval later.                    *)
Take ==
    LET gone == pending \ pending'
        back == pending' \ pending
    IN  /\ due = << >>
        /\ disturbed \/ \A t \in gone : t.ts <= now
        /\ {due'[i] : i \in 1..Len(due')} = gone
        /\ Len(due') = Cardinality(gone)
        /\ \A t \in gone : t.interval > 0 =>
              Cardinality({u \in back : Body(u) = Period(t)})
              = Cardinality({u \in gone : Period(u) = Period(t) /\ u.interval > 0})
        /\ \A u \in back : \E t \in gone : t.interval > 0 /\ Body(u) = Period(t)
        /\ ~disturbed'
        /\ UNCHANGED <<now, cancelled>>

Run ==
    /\ due # << >>
    /\ due' = Tail(due)
    /\ UNCHANGED <<now, pending, cancelled, disturbed>>

Next == Tick \/ Add \/ Cancel \/ Take \/ Run

Spec == Init /\ [][Next]_svars
=============================================================================
