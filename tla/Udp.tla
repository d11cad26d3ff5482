-------------------------------- MODULE Udp --------------------------------
(***************************************************************************)
(* A udp_server and udp_clients on a network that loses, duplicates and    *)
(* reorders datagrams, each node with its msg_dispatcher: udp_server.cc,   *)
(* udp_client.cc and msg_dispatcher.h.                                     *)
(*                                                                         *)
(* A datagram carries the head its sender wrote, [cmdid, length], and its  *)
(* size; datagrams that no send_data made, with any size, come in too.     *)
(* Every node is a process with one loop; the nodes run concurrently.      *)
(***************************************************************************)
EXTENDS Integers, Sequences

CONSTANTS Server, Clients,  \* the nodes
          HeadLen,          \* COMMU_HEAD_LENGTH
          LengthLimit,      \* MSG_LENGTH_LIMIT, also the size of _rbuf and _wbuf
          MaxPayload,       \* the largest datagram sendto takes
          Cmds,             \* message types
          Callbacks,        \* what the application may register for them
          SendLens,         \* body lengths the application sends
          Strays,           \* [cmdid, length, size] of datagrams from elsewhere
          RcvBuf,           \* datagrams a socket can hold
          MaxSends,         \* bound on datagrams sent, strays included
          MaxDups           \* bound on duplications

Nodes == Clients \cup {Server}
None == "none"

ASSUME UdpAssumption ==
    /\ Server \notin Clients
    /\ HeadLen \in Nat \ {0}
    /\ LengthLimit \in Nat /\ MaxPayload \in 0..LengthLimit
    /\ SendLens \subseteq 0..LengthLimit
    /\ \A s \in Strays : s.length \in Int /\ s.size \in 0..MaxPayload
    /\ RcvBuf \in Nat /\ MaxSends \in Nat /\ MaxDups \in Nat
    /\ None \notin Nodes \cup Callbacks

VARIABLES
    pc,       \* per node: "setup", "poll", "recv" (in handle_read's loop),
              \*   "callback", "aborted"
    cbs,      \* per node: the dispatcher, from types to callbacks
    cur,      \* per node: the callback in course, its arguments and the
              \*   datagram d in _rbuf
    srcaddr,  \* the server's _srcaddr
    net,      \* datagrams on their way
    sock,     \* per node: datagrams in its socket
    soerr,    \* a client in whose socket the error of an earlier send waits
    nsent, ndups

nodeVars == <<pc, cbs, cur, srcaddr>>
netVars == <<net, sock, soerr, nsent, ndups>>
vars == <<nodeVars, netVars>>

NoDatagram == [from |-> None, to |-> None, re |-> None,
               cmdid |-> None, length |-> 0, size |-> 0, made |-> FALSE]
NoCall == [cmdid |-> None, cb |-> None, len |-> 0, d |-> NoDatagram]

Init ==
    /\ pc = [n \in Nodes |-> "setup"]
    /\ cbs = [n \in Nodes |-> [c \in Cmds |-> None]]
    /\ cur = [n \in Nodes |-> NoCall]
    /\ srcaddr = None
    /\ net = {}
    /\ sock = [n \in Nodes |-> << >>]
    /\ soerr = None
    /\ nsent = 0 /\ ndups = 0

-----------------------------------------------------------------------------
(* The network (external).                                                 *)

Env == UNCHANGED <<nodeVars, nsent>>

(* A datagram arrives, or finds the socket full; a copy may stay behind.   *)
deliver(d, copy) ==
    /\ d \in net
    /\ IF copy THEN ndups < MaxDups /\ ndups' = ndups + 1 /\ UNCHANGED net
               ELSE net' = net \ {d} /\ UNCHANGED ndups
    /\ sock' = IF Len(sock[d.to]) < RcvBuf
               THEN [sock EXCEPT ![d.to] = Append(@, d)] ELSE sock
    /\ Env /\ UNCHANGED soerr

lose(d) ==
    /\ net' = net \ {d}
    /\ Env /\ UNCHANGED <<sock, soerr, ndups>>

(* A client's datagram meets a closed port: its connected socket is told.  *)
icmp_error(d) ==
    /\ d.from \in Clients /\ d.made /\ soerr = None
    /\ soerr' = d.from
    /\ net' = net \ {d}
    /\ Env /\ UNCHANGED <<sock, ndups>>

(* A datagram that is none of the library's reaches the server.            *)
stray(c, s) ==
    /\ nsent < MaxSends /\ pc[Server] # "setup"
    /\ nsent' = nsent + 1
    /\ net' = net \cup {[from |-> c, to |-> Server, re |-> None, cmdid |-> s.cmdid,
                         length |-> s.length, size |-> s.size, made |-> FALSE]}
    /\ UNCHANGED <<nodeVars, sock, soerr, ndups>>

-----------------------------------------------------------------------------
(* msg_dispatcher.  The first registration of a type stays.                *)

exist(n, c) == c \in Cmds /\ cbs[n][c] # None

add_msg_cb(n, c, f) ==
    /\ pc[n] = "setup"
    /\ ~exist(n, c)
    /\ cbs' = [cbs EXCEPT ![n][c] = f]
    /\ UNCHANGED <<pc, cur, srcaddr, netVars>>

(* The loops start.                                                        *)
process_evs ==
    /\ \A n \in Nodes : pc[n] = "setup"
    /\ pc' = [n \in Nodes |-> "poll"]
    /\ UNCHANGED <<cbs, cur, srcaddr, netVars>>

-----------------------------------------------------------------------------
(* handle_read.                                                            *)

(* Mutant: the server's constructor forgets add_ioev.                      *)
Listening_ClientsOnly == Clients

(* The nodes whose constructor has registered the socket for EPOLLIN.      *)
Listening == Nodes

handle_read(n) ==
    /\ pc[n] = "poll" /\ n \in Listening
    /\ sock[n] # << >> \/ soerr = n
    /\ pc' = [pc EXCEPT ![n] = "recv"]
    /\ UNCHANGED <<cbs, cur, srcaddr, netVars>>

(* EAGAIN, or the socket's error: back to epoll_wait.                      *)
recv_none(n) ==
    /\ pc[n] = "recv"
    /\ sock[n] = << >> \/ soerr = n
    /\ soerr' = IF soerr = n THEN None ELSE soerr
    /\ pc' = [pc EXCEPT ![n] = "poll"]
    /\ UNCHANGED <<cbs, cur, srcaddr, net, sock, nsent, ndups>>

(* The heads that memcpy may find in _rbuf after datagram d: d's own; or,  *)
(* if d is shorter than a head, whatever d and older bytes make up.        *)
HeadsOf(d) ==
    IF d.size >= HeadLen THEN {[cmdid |-> d.cmdid, length |-> d.length]}
    ELSE [cmdid : Cmds \cup {None}, length : -1..LengthLimit]

(* Mutant: the head may say less than there is.                            *)
Fits_AtMost(h, pkg_len) == h.length \in 0..LengthLimit /\ h.length + HeadLen <= pkg_len

Fits(h, pkg_len) == h.length \in 0..LengthLimit /\ h.length + HeadLen = pkg_len

(* recvfrom takes the next datagram and the checks pass or not; if they    *)
(* do, dispatcher.cb asserts that its type is known and calls it.          *)
recv(n) ==
    /\ pc[n] = "recv" /\ soerr # n /\ sock[n] # << >>
    /\ LET d == Head(sock[n]) IN \E h \in HeadsOf(d) :
           /\ pc' = [pc EXCEPT ![n] = IF ~Fits(h, d.size) THEN "recv"
                                      ELSE IF exist(n, h.cmdid) THEN "callback"
                                      ELSE "aborted"]
           /\ cur' = IF pc'[n] # "callback" THEN cur
                     ELSE [cur EXCEPT ![n] = [cmdid |-> h.cmdid, cb |-> cbs[n][h.cmdid],
                                              len |-> h.length, d |-> d]]
    /\ sock' = [sock EXCEPT ![n] = Tail(@)]
    /\ UNCHANGED <<cbs, net, soerr, nsent, ndups>>

(* Mutant: the address is kept from the first datagram.                    *)
SourceOf_First(d) == IF srcaddr = None THEN d.from ELSE srcaddr

SourceOf(d) == d.from

(* The server's recvfrom also stores the source, of bad datagrams too.     *)
server_recv == recv(Server) /\ srcaddr' = SourceOf(Head(sock[Server]))
client_recv(c) == recv(c) /\ UNCHANGED srcaddr

callback_returns(n) ==
    /\ pc[n] = "callback"
    /\ pc' = [pc EXCEPT ![n] = "recv"]
    /\ cur' = [cur EXCEPT ![n] = NoCall]
    /\ UNCHANGED <<cbs, srcaddr, netVars>>

-----------------------------------------------------------------------------
(* send_data, by a callback, or by a timer or task of the node's loop.  A  *)
(* body longer than LengthLimit is refused, without effect.                *)

(* Bytes copied to _wbuf.  The check of len does not count the head, so    *)
(* that they may be more than _wbuf holds: the copy then runs over the     *)
(* member _loop that follows, which nothing here reads again.              *)
Copied(len) == HeadLen + len

(* sendto refuses what is too long for a datagram, or returns the socket's *)
(* error.                                                                  *)
send_data(n, to, c, len) ==
    /\ pc[n] \in {"poll", "callback"}
    /\ nsent < MaxSends /\ len <= LengthLimit
    /\ nsent' = nsent + 1
    /\ soerr' = IF soerr = n THEN None ELSE soerr
    /\ net' = IF soerr = n \/ Copied(len) > MaxPayload \/ to = None THEN net
              ELSE net \cup {[from |-> n, to |-> to, re |-> cur[n].d.from, cmdid |-> c,
                              length |-> len, size |-> Copied(len), made |-> TRUE]}
    /\ UNCHANGED <<pc, cbs, cur, srcaddr, sock, ndups>>

server_send(c, len) == send_data(Server, srcaddr, c, len)
client_send(n, c, len) == send_data(n, Server, c, len)

-----------------------------------------------------------------------------
Loop(n) ==
    \/ handle_read(n) \/ recv_none(n) \/ callback_returns(n)
    \/ IF n = Server THEN server_recv ELSE client_recv(n)

Network ==
    \/ \E d \in net : deliver(d, FALSE) \/ deliver(d, TRUE) \/ lose(d) \/ icmp_error(d)
    \/ \E c \in Clients, s \in Strays : stray(c, s)

App ==
    \/ \E n \in Nodes, c \in Cmds, f \in Callbacks : add_msg_cb(n, c, f)
    \/ \E c \in Cmds, len \in SendLens :
           server_send(c, len) \/ \E n \in Clients : client_send(n, c, len)

Next == process_evs \/ (\E n \in Nodes : Loop(n)) \/ Network \/ App

(* Every node's loop runs; the network promises nothing.                   *)
Spec == Init /\ [][Next]_vars /\ \A n \in Nodes : WF_vars(Loop(n))

-----------------------------------------------------------------------------
(* Properties.                                                             *)

(* A callback gets the whole body of one datagram, with the type and the   *)
(* length its sender gave: datagrams shorter than a head, whose head would *)
(* come from older bytes of _rbuf, and heads that lie never get there.     *)
WholeDatagrams ==
    \A n \in Nodes : pc[n] = "callback" =>
        /\ cur[n].d.size = HeadLen + cur[n].len
        /\ cur[n].d.cmdid = cur[n].cmdid
        /\ cur[n].d.length = cur[n].len

(* What the server sends from a callback goes to the client whose datagram *)
(* the callback is for, whatever came in between; so the clients get no    *)
(* other's replies.                                                        *)
RepliesToSender ==
    /\ \A d \in net : d.re \in Clients => d.to = d.re
    /\ \A c \in Clients : pc[c] = "callback" => cur[c].d.re \in {c, None}

(* Every datagram in a socket is taken out of it, also when an error came  *)
(* first and the loop of handle_read was left; or the node has aborted.    *)
Drained ==
    \A n \in Nodes : Len(sock[n]) > 0 ~> Len(sock[n]) = 0 \/ pc[n] = "aborted"

-----------------------------------------------------------------------------
(* What one would expect and the code does not do; README.md gives the     *)
(* behaviours.  No run checks these.                                       *)

(* No datagram ends the server.                                            *)
NoAbort == pc[Server] # "aborted"

(* send_data stays within _wbuf.                                           *)
WbufInBounds == \A len \in 0..LengthLimit : Copied(len) <= LengthLimit

(* A datagram that the checks reject does not change where the server's    *)
(* next answer, from a timer or a task, goes.                              *)
RejectedLeavesSource ==
    [][srcaddr' # srcaddr => pc'[Server] \in {"callback", "aborted"}]_vars
=============================================================================
