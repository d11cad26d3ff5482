------------------------------ MODULE TcpServer ------------------------------
(***************************************************************************)
(* The life of a connection in the TCP server: tcp_server::do_accept takes *)
(* it from the kernel, an event loop (the main one, or a worker of the     *)
(* thread pool) sets up the tcp_conn object of its descriptor and closes   *)
(* it again, and the object waits for the next connection with the same    *)
(* descriptor.                                                             *)
(*                                                                         *)
(* What matters here is who holds which descriptor: the kernel always      *)
(* returns the lowest free number, closed numbers come back at once, and   *)
(* the number is also the index into tcp_server::conns.  The bytes on a    *)
(* connection are left to TcpConn, the queues between threads to           *)
(* ThreadPool: here a message is sent and received in one step, which      *)
(* ThreadPool shows to be all a sender can tell (it implements Mailbox).   *)
(*                                                                         *)
(* Descriptor 0 of the model is _reservfd as opened by the constructor;    *)
(* all lower numbers are in use for good.  1 is next_fd, the number that   *)
(* dup(1) returned.                                                        *)
(***************************************************************************)
EXTENDS Integers, Sequences, FiniteSets

CONSTANTS MaxConns,   \* maxConns of the configuration
          Setups,     \* how a server may be started: records of
                      \*   threads: worker threads; 0: the main loop serves
                      \*   limit: highest descriptor RLIMIT_NOFILE allows
                      \*   late: worker descriptors opened after dup(1)
          Clients     \* connections that peers may open, each once

ASSUME TcpServerAssumption ==
    /\ MaxConns \in Nat
    /\ Setups # {} /\ IsFiniteSet(Setups)
    /\ \A s \in Setups :
          /\ s \in [threads : Nat, limit : Nat, late : Nat]
          /\ s.late <= s.limit
          /\ s.threads = 0 => s.late = 0
    /\ Clients \cap {"free", "reserve", "other"} = {}

Most(S) == CHOOSE m \in S : \A k \in S : k <= m
FdMax == Most({s.limit : s \in Setups})
Fd == 0..FdMax
next_fd == 1

(* Mutant: one slot to spare.                                              *)
conns_size_OneMore == MaxConns + next_fd + 1

(* The size of tcp_server::conns: maxConns descriptors from next_fd on.    *)
conns_size == MaxConns + next_fd
Slots == 0..(conns_size - 1)
NULL == -1
Unallocated == -2

(* The main loop and those of the worker threads.  Loops the setup does    *)
(* not have are never given a connection.                                  *)
MainLoop == 0
Loops == 0..Most({s.threads : s \in Setups})

VARIABLES
    setup,       \* how this server was started
    fdtab,       \* kernel: what each descriptor number refers to
    backlog,     \* kernel: connections waiting to be accepted
    cstate,      \* peers: "new", "up", "fin" (has closed), "bad" (sent a bad head)
    apc,         \* where the main thread is in do_accept
    connfd,      \* do_accept's connfd
    conn_full,   \* do_accept's conn_full
    reservfd,    \* tcp_server::_reservfd
    curr_conns,  \* tcp_server::_curr_conns
    curr_index,  \* thread_pool::_curr_index
    inbox,       \* inbox[l]: NEW_CONN messages on their way to loop l
    conns,       \* conns[i]: the tcp_conn's _loop, if it has been allocated
    io_evs,      \* io_evs[l]: descriptors loop l has an io_event for
    epset,       \* kernel: descriptors registered with loop l's epoll
    lpc,         \* where loop l is in closing a connection
    lfd,         \* the descriptor it is closing
    stolen       \* history: close(_reservfd) has closed a connection

acceptVars == <<apc, connfd, conn_full, reservfd>>
loopVars   == <<conns, io_evs, epset, lpc, lfd>>
vars == <<setup, stolen, fdtab, backlog, cstate, acceptVars, curr_conns, curr_index, inbox, loopVars>>

(* The state tcp_server::tcp_server leaves behind.  The worker threads     *)
(* open their epoll and timer descriptors concurrently with the call of    *)
(* dup(1), so some of these may have got numbers above next_fd.  Numbers   *)
(* beyond the limit are never free.                                        *)
Init ==
    /\ setup \in Setups
    /\ fdtab = [f \in Fd |-> IF f = 0 THEN "reserve"
                             ELSE IF f <= setup.late \/ f > setup.limit THEN "other"
                             ELSE "free"]
    /\ stolen = FALSE
    /\ backlog = {}
    /\ cstate = [c \in Clients |-> "new"]
    /\ apc = "poll"
    /\ connfd = -1
    /\ conn_full = FALSE
    /\ reservfd = 0
    /\ curr_conns = 0
    /\ curr_index = 0
    /\ inbox = [l \in Loops |-> << >>]
    /\ conns = [i \in Slots |-> Unallocated]
    /\ io_evs = [l \in Loops |-> {}]
    /\ epset = [l \in Loops |-> {}]
    /\ lpc = [l \in Loops |-> "idle"]
    /\ lfd = [l \in Loops |-> -1]

Alive == apc \notin {"exited", "aborted"}

-----------------------------------------------------------------------------
(* The kernel's descriptor table (external).                               *)

FreeFds == {f \in Fd : fdtab[f] = "free"}
LowestFree == CHOOSE f \in FreeFds : \A g \in FreeFds : f <= g

(* A closed descriptor leaves every epoll set.  Closing a number that is   *)
(* not open does nothing.                                                  *)
close(f) ==
    /\ fdtab' = [g \in Fd |-> IF g = f THEN "free" ELSE fdtab[g]]
    /\ epset' = [l \in Loops |-> epset[l] \ {f}]

(* Peers (external): connect, then close or send a malformed head.         *)
connect(c) ==
    /\ cstate[c] = "new"
    /\ cstate' = [cstate EXCEPT ![c] = "up"]
    /\ backlog' = backlog \cup {c}
    /\ UNCHANGED <<setup, stolen, fdtab, acceptVars, curr_conns, curr_index, inbox, loopVars>>

peer_ends(c, how) ==
    /\ cstate[c] = "up"
    /\ cstate' = [cstate EXCEPT ![c] = how]
    /\ UNCHANGED <<setup, stolen, fdtab, backlog, acceptVars, curr_conns, curr_index, inbox, loopVars>>

-----------------------------------------------------------------------------
(* tcp_conn                                                                *)

(* Mutant: inc_conn only when the tcp_conn object is first allocated.      *)
inc_conn_Objects(f) == curr_conns + (IF conns[f] = Unallocated THEN 1 ELSE 0)

(* inc_conn, called when the connection with descriptor f is set up.       *)
inc_conn(f) == curr_conns + 1

(* tcp_conn::init on loop l, with event_loop::add_ioev and inc_conn.  If   *)
(* the loop still has an io_event for the number, add_ioev asks epoll to   *)
(* modify a registration; otherwise to add one, which fails if the number  *)
(* is not open.                                                            *)
init_conn(l, f) ==
    /\ conns' = [conns EXCEPT ![f] = l]
    /\ io_evs' = [io_evs EXCEPT ![l] = @ \cup {f}]
    /\ epset' = IF f \in io_evs[l] \/ fdtab[f] = "free"
                THEN epset ELSE [epset EXCEPT ![l] = @ \cup {f}]
    /\ curr_conns' = inc_conn(f)

(* The loop is between two callbacks; the main loop also runs do_accept.   *)
LoopIdle(l) ==
    /\ Alive
    /\ lpc[l] = "idle"
    /\ l = MainLoop => apc = "poll"

(* Mutant: a malformed head is logged, its connection kept.                *)
Ended_Fin == {"fin"}

(* What handle_read closes a connection for.                               *)
Ended == {"fin", "bad"}

(* handle_read finds the peer gone or its data malformed and calls         *)
(* clean_conn, whose first step is dec_conn.                               *)
handle_read(l, f) ==
    /\ LoopIdle(l)
    /\ f \in epset[l]
    /\ fdtab[f] \in Clients
    /\ cstate[fdtab[f]] \in Ended
    /\ curr_conns' = curr_conns - 1
    /\ lpc' = [lpc EXCEPT ![l] = IF cstate[fdtab[f]] = "bad" THEN "clean_bad" ELSE "clean_fin"]
    /\ lfd' = [lfd EXCEPT ![l] = f]
    /\ UNCHANGED <<setup, stolen, fdtab, backlog, cstate, acceptVars, curr_index, inbox, conns, io_evs, epset>>

(* Mutant: the descriptor is closed but the loop keeps its io_event.       *)
del_ioev_Kept(l, f) == io_evs

(* event_loop::del_ioev as called by clean_conn: on the object's loop.     *)
del_ioev(l, f) == [io_evs EXCEPT ![l] = @ \ {f}]

(* The rest of clean_conn: del_ioev on the connection's loop, buffers      *)
(* back to the pool, _loop = NULL, close(fd).                              *)
clean_conn(l) ==
    /\ Alive
    /\ lpc[l] \in {"clean_fin", "clean_bad"}
    /\ io_evs' = del_ioev(conns[lfd[l]], lfd[l])
    /\ conns' = [conns EXCEPT ![lfd[l]] = NULL]
    /\ close(lfd[l])
    /\ lpc' = [lpc EXCEPT ![l] = IF lpc[l] = "clean_bad" THEN "adjust" ELSE "idle"]
    /\ UNCHANGED <<setup, stolen, backlog, cstate, acceptVars, curr_conns, curr_index, inbox, lfd>>

(* After a malformed head handle_read breaks out of its loop and calls     *)
(* ibuf.adjust() on the object it has just closed.                         *)
adjust(l) ==
    /\ Alive
    /\ lpc[l] = "adjust"
    /\ lpc' = [lpc EXCEPT ![l] = "idle"]
    /\ UNCHANGED <<setup, stolen, fdtab, backlog, cstate, acceptVars, curr_conns, curr_index, inbox,
                   conns, io_evs, epset, lfd>>

(* msg_comming_cb: a worker takes over a connection.                       *)
new_conn(l) ==
    /\ LoopIdle(l)
    /\ inbox[l] # << >>
    /\ init_conn(l, Head(inbox[l]))
    /\ inbox' = [inbox EXCEPT ![l] = Tail(@)]
    /\ UNCHANGED <<setup, stolen, fdtab, backlog, cstate, acceptVars, curr_index, lpc, lfd>>

-----------------------------------------------------------------------------
(* tcp_server::do_accept, one action per outcome of each call it makes.    *)

AcceptStep(from, to) ==
    /\ apc = from
    /\ apc' = to
    /\ from # "close_reserv" => UNCHANGED stolen
    /\ UNCHANGED <<setup, cstate, curr_index, inbox, lpc, lfd>>

(* epoll reports the listening socket: accepter_cb calls do_accept.        *)
accepter_cb ==
    /\ AcceptStep("poll", "accept")
    /\ backlog # {}
    /\ lpc[MainLoop] = "idle"
    /\ conn_full' = FALSE
    /\ UNCHANGED <<fdtab, backlog, connfd, reservfd, curr_conns, conns, io_evs, epset>>

accept_ok(c) ==
    /\ AcceptStep("accept", IF conn_full THEN "close_new" ELSE "check")
    /\ c \in backlog
    /\ FreeFds # {}
    /\ connfd' = LowestFree
    /\ fdtab' = [fdtab EXCEPT ![LowestFree] = c]
    /\ backlog' = backlog \ {c}
    /\ UNCHANGED <<conn_full, reservfd, curr_conns, conns, io_evs, epset>>

(* EMFILE: Linux looks for a free descriptor before it looks at the        *)
(* backlog, so a full table gives EMFILE even when nobody is waiting.      *)
accept_emfile ==
    /\ AcceptStep("accept", "close_reserv")
    /\ FreeFds = {}
    /\ conn_full' = TRUE
    /\ UNCHANGED <<fdtab, backlog, connfd, reservfd, curr_conns, conns, io_evs, epset>>

accept_eagain ==
    /\ AcceptStep("accept", "poll")
    /\ FreeFds # {} /\ backlog = {}
    /\ UNCHANGED <<fdtab, backlog, connfd, conn_full, reservfd, curr_conns, conns, io_evs, epset>>

(* Any other error, for instance ECONNABORTED: exit_log ends the process.  *)
accept_error ==
    /\ AcceptStep("accept", "exited")
    /\ FreeFds # {} /\ backlog # {}
    /\ UNCHANGED <<fdtab, backlog, connfd, conn_full, reservfd, curr_conns, conns, io_evs, epset>>

(* Mutant: EMFILE is noted but the placeholder is not given up.            *)
GivenUp_Nothing == NULL

(* What do_accept closes to make room for one more descriptor.             *)
GivenUp == reservfd

(* EMFILE: close(_reservfd), whatever that number refers to by now.        *)
close_reserv ==
    /\ AcceptStep("close_reserv", "accept")
    /\ close(GivenUp)
    /\ stolen' = (stolen \/ \E f \in Fd : f = GivenUp /\ fdtab[f] \in Clients)
    /\ UNCHANGED <<backlog, connfd, conn_full, reservfd, curr_conns, conns, io_evs>>

(* With conn_full set: close the new connection, open the placeholder.     *)
close_new ==
    /\ AcceptStep("close_new", "open_reserv")
    /\ close(connfd)
    /\ UNCHANGED <<backlog, connfd, conn_full, reservfd, curr_conns, conns, io_evs>>

open_reserv ==
    /\ AcceptStep("open_reserv", "accept")
    /\ IF FreeFds = {}
       THEN reservfd' = -1 /\ UNCHANGED fdtab
       ELSE reservfd' = LowestFree /\ fdtab' = [fdtab EXCEPT ![LowestFree] = "reserve"]
    /\ UNCHANGED <<backlog, connfd, conn_full, curr_conns, conns, io_evs, epset>>

(* Mutant: an off-by-one in the comparison with _max_conns.                *)
Full_OneTooMany == curr_conns > MaxConns

(* get_conn_num's count has reached _max_conns.                            *)
Full == curr_conns >= MaxConns

(* get_conn_num says the server is full: the connection is closed.         *)
reject_conn ==
    /\ AcceptStep("check", "accept")
    /\ Full
    /\ close(connfd)
    /\ UNCHANGED <<backlog, connfd, conn_full, reservfd, curr_conns, conns, io_evs>>

(* It is not full: assert(connfd < _conns_size), then the hand-over.       *)
admit_conn ==
    /\ AcceptStep("check", IF connfd < conns_size THEN "dispatch" ELSE "aborted")
    /\ ~Full
    /\ UNCHANGED <<fdtab, backlog, connfd, conn_full, reservfd, curr_conns, conns, io_evs, epset>>

(* Single-threaded: the connection is set up in this thread.               *)
dispatch_self ==
    /\ AcceptStep("dispatch", "accept")
    /\ setup.threads = 0
    /\ init_conn(MainLoop, connfd)
    /\ UNCHANGED <<fdtab, backlog, connfd, conn_full, reservfd>>

(* Multi-threaded: get_next_thread and send_msg.                           *)
NextThread == IF curr_index = setup.threads THEN 0 ELSE curr_index

dispatch_thread ==
    /\ apc = "dispatch"
    /\ setup.threads > 0
    /\ apc' = "accept"
    /\ curr_index' = NextThread + 1
    /\ inbox' = [inbox EXCEPT ![NextThread + 1] = Append(@, connfd)]
    /\ UNCHANGED <<setup, stolen, fdtab, backlog, cstate, connfd, conn_full, reservfd, curr_conns, loopVars>>

do_accept ==
    \/ \E c \in Clients : accept_ok(c)
    \/ accept_emfile \/ accept_eagain \/ accept_error
    \/ close_reserv \/ close_new \/ open_reserv
    \/ reject_conn \/ admit_conn \/ dispatch_self \/ dispatch_thread

Loop(l) ==
    \/ new_conn(l)
    \/ \E f \in Fd : handle_read(l, f)
    \/ clean_conn(l)
    \/ adjust(l)

Peer(c) == connect(c) \/ \E how \in {"fin", "bad"} : peer_ends(c, how)

Next ==
    \/ \E c \in Clients : Peer(c)
    \/ accepter_cb \/ do_accept
    \/ \E l \in Loops : Loop(l)

(* Every thread that can run is eventually scheduled, and epoll is level   *)
(* triggered.  Peers do what they like.                                    *)
Fairness ==
    /\ WF_vars(accepter_cb \/ do_accept)
    /\ \A l \in Loops : WF_vars(Loop(l))

Spec == Init /\ [][Next]_vars /\ Fairness

-----------------------------------------------------------------------------
(* Properties.                                                             *)

Accepting(f) == connfd = f /\ apc \in {"check", "dispatch", "close_new", "aborted"}
Queued(f) == {m \in UNION {{l} \X DOMAIN inbox[l] : l \in Loops} : inbox[m[1]][m[2]] = f}
Serving(f) == {l \in Loops : f \in epset[l]}

(* An open connection is in exactly one pair of hands: do_accept's, one    *)
(* message on its way to one worker, or one loop, which is then the _loop  *)
(* of its tcp_conn; and a loop's table of events agrees with what is       *)
(* registered with its epoll, so that add_ioev chooses rightly between     *)
(* adding and modifying.  Numbers that come back while other threads are   *)
(* still cleaning up never mix two connections, as long as _reservfd has   *)
(* not gone stale and closed one of them.                                  *)
OwnedOnce ==
    ~stolen =>
        /\ \A f \in Fd : fdtab[f] \in Clients =>
              /\ Cardinality(Queued(f)) + Cardinality(Serving(f))
                   + (IF Accepting(f) THEN 1 ELSE 0) = 1
              /\ \A l \in Serving(f) : conns[f] = l
        /\ io_evs = epset

Cleaning == {l \in Loops : lpc[l] \in {"clean_fin", "clean_bad"}}

(* _curr_conns counts the registered connections, less those whose         *)
(* clean_conn has begun: inc_conn and dec_conn stay paired over every      *)
(* reuse of an object.                                                     *)
ConnCount ==
    ~stolen =>
        curr_conns = Cardinality({lf \in Loops \X Fd : lf[2] \in io_evs[lf[1]]})
                     - Cardinality(Cleaning)

(* The server never serves more than maxConns connections, although the    *)
(* count do_accept compares is behind by the connections still queued: the *)
(* table has maxConns slots from next_fd on.  A server with workers can    *)
(* serve one more, once EMFILE has cost it its placeholder, whose number   *)
(* lies below.                                                             *)
ConnLimit ==
    LET served == UNION {epset[l] : l \in Loops}
    IN  Cardinality(served)
          <= MaxConns + (IF setup.threads > 0 /\ 0 \in served THEN 1 ELSE 0)

(* assert(connfd < _conns_size) fails only in a server with workers: while *)
(* the count is behind (a connection is queued, or uncounted but not yet   *)
(* closed), when a lower number came free between accept and get_conn_num, *)
(* or when workers opened descriptors after the table was sized.  A        *)
(* single-threaded server with fewer than maxConns connections always gets *)
(* a descriptor that has a slot, whatever the descriptor limit.            *)
NoAbort ==
    apc = "aborted" =>
        /\ setup.threads > 0
        /\ \/ setup.late > 0
           \/ Cleaning # {}
           \/ \E l \in Loops : inbox[l] # << >>
           \/ \E f \in FreeFds : f < connfd

Held(c) == c \in backlog \/ \E f \in Fd : fdtab[f] = c

(* While the server runs, every peer that has gone away, or has sent       *)
(* garbage, is eventually off its hands: accepted if need be and closed.   *)
(* (After a stale close(_reservfd) the loop keeps the io_event of the      *)
(* connection that was closed, and the next one with its number is never   *)
(* registered.)                                                            *)
Released ==
    \A c \in Clients :
        cstate[c] \in {"fin", "bad"} ~> ~Held(c) \/ ~Alive \/ stolen

(* No connection waits in the backlog for ever, even with the descriptor   *)
(* table full: giving up the placeholder lets do_accept take and close it. *)
BacklogDrains ==
    \A c \in Clients : c \in backlog ~> c \notin backlog \/ ~Alive

-----------------------------------------------------------------------------
(* What the documentation or the source says and the code does not do.  No *)
(* run checks these: README.md gives the behaviours that break them.       *)

(* assert(connfd < _conns_size) never fails (server_slot checks this one). *)
SlotForEach == apc # "aborted"

(* On EMFILE the descriptor do_accept gives up is the placeholder it       *)
(* opened for that purpose.                                                *)
ReserveIsOurs ==
    apc = "close_reserv" => reservfd \in Fd /\ fdtab[reservfd] = "reserve"

(* The server holds one placeholder at most.                               *)
NoReserveLeak == Cardinality({f \in Fd : fdtab[f] = "reserve"}) <= 1

(* An object on which a loop is still working inside handle_read belongs   *)
(* to no other loop.                                                       *)
ExclusiveConn ==
    \A l \in Loops : lpc[l] # "idle" => conns[lfd[l]] \in {l, NULL}
=============================================================================
