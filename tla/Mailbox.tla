------------------------------ MODULE Mailbox ------------------------------
(***************************************************************************)
(* What a pool of worker threads promises to whoever sends it messages:    *)
(* each thread handles the messages sent to it in the order they were      *)
(* sent, each exactly once, and every message is eventually handled.       *)
(*                                                                         *)
(* This is the abstract specification that the eventfd-notified queues of  *)
(* thread_queue.h and the loop of thread_pool.cc implement; see ThreadPool.*)
(***************************************************************************)
EXTENDS Naturals, Sequences

CONSTANTS Threads,   \* the worker threads
          Messages   \* the messages that can be sent to one

VARIABLES sent,      \* sent[t]: every message ever sent to thread t, in order
          handled    \* handled[t]: those thread t has handled, in order

mailVars == <<sent, handled>>

Init ==
    /\ sent = [t \in Threads |-> << >>]
    /\ handled = [t \in Threads |-> << >>]

Send(t, m) ==
    /\ sent' = [sent EXCEPT ![t] = Append(@, m)]
    /\ UNCHANGED handled

Handle(t) ==
    /\ Len(handled[t]) < Len(sent[t])
    /\ handled' = [handled EXCEPT ![t] = Append(@, sent[t][Len(handled[t]) + 1])]
    /\ UNCHANGED sent

Next == \E t \in Threads : (\E m \in Messages : Send(t, m)) \/ Handle(t)

Safety == Init /\ [][Next]_mailVars

Spec == Safety /\ \A t \in Threads : WF_mailVars(Handle(t))
============================================================================
