------------------------------ MODULE UdpProofs ------------------------------
(***************************************************************************)
(* Proofs about Udp, for any clients, message types, callbacks, datagrams  *)
(* from elsewhere and lengths, and any number of losses, duplications and  *)
(* sends.                                                                  *)
(*                                                                         *)
(* What reaches a callback was on the network before, so the invariant     *)
(* says of every datagram, on its way or in a socket, whom it can be from  *)
(* and whom it answers (Travelling), that a socket only holds datagrams    *)
(* for its node, and what a callback in course has to do with the datagram *)
(* in _rbuf and with _srcaddr (Serving).                                   *)
(***************************************************************************)
EXTENDS Udp, TLAPS

Ids == Cmds \cup {None} \cup {s.cmdid : s \in Strays}

(* Clients send to the server, the server to clients; what the server      *)
(* sends in answer to a client goes to that client.                        *)
Travelling ==
    {d \in [from : Nodes, to : Nodes, re : Nodes \cup {None}, cmdid : Ids,
            length : Int, size : Nat, made : BOOLEAN] :
        IF d.to = Server THEN d.from \in Clients /\ d.re \notin Clients
        ELSE d.from = Server /\ d.re \in {d.to, None}}

For(n) == {d \in Travelling : d.to = n}

Typed ==
    /\ pc \in [Nodes -> {"setup", "poll", "recv", "callback", "aborted"}]
    /\ cbs \in [Nodes -> [Cmds -> Callbacks \cup {None}]]
    /\ srcaddr \in Clients \cup {None}
    /\ net \subseteq Travelling
    /\ DOMAIN sock = Nodes /\ \A n \in Nodes : sock[n] \in Seq(For(n))
    /\ DOMAIN cur = Nodes

(* Outside callbacks there is no call.  A call is for a datagram to its    *)
(* node, whose head it was made from; in the server, _srcaddr is where     *)
(* that datagram came from.                                                *)
Serving ==
    \A n \in Nodes :
        IF pc[n] = "callback"
        THEN /\ cur[n].d \in For(n)
             /\ cur[n].d.size = HeadLen + cur[n].len
             /\ cur[n].d.cmdid = cur[n].cmdid
             /\ cur[n].d.length = cur[n].len
             /\ n = Server => srcaddr = cur[n].d.from
        ELSE cur[n] = NoCall

Inv == Typed /\ Serving

-----------------------------------------------------------------------------
(* The constants, in the form the proofs use.                              *)
LEMMA Constants ==
    /\ Server \in Nodes /\ Clients \subseteq Nodes /\ Server \notin Clients
    /\ \A n \in Nodes : n # Server => n \in Clients
    /\ None \notin Nodes /\ HeadLen \in Nat /\ LengthLimit \in Nat
  BY UdpAssumption DEF Nodes

(* The first datagram of a socket is for its node, and so are the others.  *)
LEMMA FirstOf ==
    ASSUME NEW S, NEW q \in Seq(S), q # << >>
    PROVE  Head(q) \in S /\ Tail(q) \in Seq(S)
  OBVIOUS

(* The fields of a datagram on its way.                                    *)
LEMMA Fields ==
    ASSUME NEW d \in Travelling
    PROVE  /\ d.from \in Nodes /\ d.to \in Nodes /\ d.re \in Nodes \cup {None}
           /\ d.cmdid \in Ids /\ d.length \in Int /\ d.size \in Nat
           /\ d.to = Server => d.from \in Clients /\ d.re \notin Clients
           /\ d.to # Server => d.from = Server /\ d.re \in {d.to, None}
  BY DEF Travelling

(* The invariant holds when the sockets have been opened.                  *)
LEMMA InitInv == ASSUME Init PROVE Inv
  BY Constants DEF Init, Inv, Typed, Serving

(* The network: whatever it loses, duplicates, reorders or brings in.      *)
LEMMA NetworkInv == ASSUME Inv, Network PROVE Inv'
  <1> USE DEF Inv, Env, nodeVars
  <1>1. ASSUME NEW d \in net, NEW copy \in BOOLEAN, deliver(d, copy) PROVE Inv'
    <2>1. d \in Travelling /\ d.to \in Nodes /\ d \in For(d.to)
      BY Fields DEF Typed, For
    <2>2. Append(sock[d.to], d) \in Seq(For(d.to))
      BY <2>1 DEF Typed
    <2>3. DOMAIN sock' = Nodes /\ \A n \in Nodes : sock'[n] \in Seq(For(n))
      BY <1>1, <2>1, <2>2 DEF deliver, Typed
    <2>4. net' \subseteq Travelling
      BY <1>1 DEF deliver, Typed
    <2> QED
      BY <1>1, <2>3, <2>4 DEF deliver, Typed, Serving
  <1>2. ASSUME NEW d \in net, lose(d) \/ icmp_error(d) PROVE Inv'
    BY <1>2 DEF lose, icmp_error, Typed, Serving
  <1>3. ASSUME NEW c \in Clients, NEW s \in Strays, stray(c, s) PROVE Inv'
    <2> DEFINE d == [from |-> c, to |-> Server, re |-> None, cmdid |-> s.cmdid,
                     length |-> s.length, size |-> s.size, made |-> FALSE]
    <2>1. s.length \in Int /\ s.size \in Nat /\ s.cmdid \in Ids
      BY UdpAssumption DEF Ids
    <2>2. d \in Travelling
      BY <2>1, Constants DEF Travelling
    <2>3. net' \subseteq Travelling
      BY <1>3, <2>2 DEF stray, Typed
    <2> QED
      BY <1>3, <2>3 DEF stray, Typed, Serving
  <1> QED
    BY <1>1, <1>2, <1>3 DEF Network

(* A datagram that passes the checks of handle_read is not shorter than a  *)
(* head, so that the head is its own.                                      *)
LEMMA OwnHead ==
    ASSUME NEW d \in Travelling, NEW h \in HeadsOf(d), Fits(h, d.size)
    PROVE  h.cmdid = d.cmdid /\ h.length = d.length /\ d.size = HeadLen + h.length
  <1>1. h.length \in Nat /\ h.length + HeadLen = d.size
    BY Constants DEF Fits
  <1>2. d.size >= HeadLen
    BY <1>1, Constants, Fields
  <1> QED
    BY <1>1, <1>2, Constants, Fields DEF HeadsOf

(* handle_read takes a datagram: in the server its source is stored.       *)
LEMMA RecvInv ==
    ASSUME Inv, NEW n \in Nodes, recv(n),
           IF n = Server THEN srcaddr' = SourceOf(Head(sock[n])) ELSE srcaddr' = srcaddr
    PROVE  Inv'
  <1> USE DEF Inv
  <1> DEFINE d == Head(sock[n])
  <1>1. d \in For(n) /\ Tail(sock[n]) \in Seq(For(n))
    BY FirstOf DEF recv, Typed
  <1>2. d \in Travelling /\ d.to = n /\ (n = Server => d.from \in Clients)
    BY <1>1, Fields DEF For
  <1>3. PICK h \in HeadsOf(d) :
           /\ pc' = [pc EXCEPT ![n] = IF ~Fits(h, d.size) THEN "recv"
                                      ELSE IF exist(n, h.cmdid) THEN "callback"
                                      ELSE "aborted"]
           /\ cur' = IF pc'[n] # "callback" THEN cur
                     ELSE [cur EXCEPT ![n] = [cmdid |-> h.cmdid, cb |-> cbs[n][h.cmdid],
                                              len |-> h.length, d |-> d]]
    BY DEF recv
  <1>4. Fits(h, d.size) => h.cmdid = d.cmdid /\ h.length = d.length /\ d.size = HeadLen + h.length
    BY <1>2, OwnHead
  <1>5. srcaddr' \in Clients \cup {None} /\ (n = Server => srcaddr' = d.from)
        /\ (n # Server => srcaddr' = srcaddr)
    BY <1>2 DEF SourceOf, Typed
  <1>6. DOMAIN sock' = Nodes /\ \A m \in Nodes : sock'[m] \in Seq(For(m))
    BY <1>1 DEF recv, Typed
  <1> HIDE DEF d
  <1>7. Typed'
    BY <1>3, <1>5, <1>6 DEF recv, Typed
  <1>8. ASSUME NEW m \in Nodes, m # n PROVE pc'[m] = pc[m] /\ cur'[m] = cur[m]
    BY <1>3, <1>8 DEF Typed
  <1>9. pc[n] = "recv" /\ cur[n] = NoCall
    BY DEF recv, Serving
  <1>10. IF pc'[n] = "callback"
         THEN /\ Fits(h, d.size)
              /\ cur'[n] = [cmdid |-> h.cmdid, cb |-> cbs[n][h.cmdid], len |-> h.length, d |-> d]
         ELSE cur'[n] = NoCall
    BY <1>3, <1>9 DEF Typed
  <1>11. Serving'
    BY <1>1, <1>4, <1>5, <1>8, <1>10 DEF Serving
  <1> QED
    BY <1>7, <1>11

(* The loops.                                                              *)
LEMMA LoopInv == ASSUME Inv, NEW n \in Nodes, Loop(n) PROVE Inv'
  <1>1. CASE handle_read(n) \/ recv_none(n)
    BY <1>1 DEF Inv, handle_read, recv_none, netVars, Typed, Serving
  <1>2. CASE callback_returns(n)
    BY <1>2 DEF Inv, callback_returns, netVars, Typed, Serving
  <1>3. CASE IF n = Server THEN server_recv ELSE client_recv(n)
    BY <1>3, RecvInv DEF server_recv, client_recv
  <1> QED
    BY <1>1, <1>2, <1>3 DEF Loop

(* What send_data puts on the network: from the server's callback, to the  *)
(* client whose datagram is in _rbuf.                                      *)
LEMMA SendInv ==
    ASSUME Inv, NEW n \in Nodes, NEW to, NEW c \in Cmds, NEW len \in SendLens,
           send_data(n, to, c, len),
           to = IF n = Server THEN srcaddr ELSE Server
    PROVE  Inv'
  <1> USE DEF Inv
  <1> DEFINE d == [from |-> n, to |-> to, re |-> cur[n].d.from, cmdid |-> c,
                   length |-> len, size |-> Copied(len), made |-> TRUE]
  <1>1. len \in Nat /\ Copied(len) \in Nat /\ c \in Ids
    BY UdpAssumption, Constants DEF Copied, Ids
  <1>2. cur[n].d.from = None \/ (pc[n] = "callback" /\ cur[n].d \in For(n))
    BY DEF Serving, NoCall, NoDatagram
  <1>3. cur[n].d.from = None \/ (IF n = Server THEN cur[n].d.from \in Clients
                                                    /\ cur[n].d.from = srcaddr
                                 ELSE cur[n].d.from = Server)
    BY <1>2, Fields DEF For, Serving
  <1>4. to # None => d \in Travelling
    <2> SUFFICES ASSUME to # None PROVE d \in Travelling
      OBVIOUS
    <2>1. CASE n = Server
      BY <1>1, <1>3, <2>1, Constants DEF Travelling, Typed
    <2>2. CASE n # Server
      BY <1>1, <1>3, <2>2, Constants DEF Travelling
    <2> QED
      BY <2>1, <2>2
  <1>5. net' \subseteq Travelling
    BY <1>4 DEF send_data, Typed
  <1> QED
    BY <1>5 DEF send_data, Typed, Serving

(* The application: registrations and sends.                               *)
LEMMA AppInv == ASSUME Inv, App PROVE Inv'
  <1>1. ASSUME NEW n \in Nodes, NEW c \in Cmds, NEW f \in Callbacks, add_msg_cb(n, c, f)
        PROVE  Inv'
    BY <1>1 DEF Inv, add_msg_cb, netVars, Typed, Serving
  <1>2. ASSUME NEW c \in Cmds, NEW len \in SendLens, server_send(c, len) PROVE Inv'
    BY <1>2, SendInv, Constants DEF server_send
  <1>3. ASSUME NEW n \in Clients, NEW c \in Cmds, NEW len \in SendLens, client_send(n, c, len)
        PROVE  Inv'
    BY <1>3, SendInv, Constants DEF client_send
  <1> QED
    BY <1>1, <1>2, <1>3 DEF App

(* Every step keeps the invariant.                                         *)
LEMMA StepInv == ASSUME Inv, [Next]_vars PROVE Inv'
  <1>1. CASE process_evs
    BY <1>1 DEF Inv, process_evs, netVars, Typed, Serving
  <1>2. CASE UNCHANGED vars
    BY <1>2 DEF Inv, vars, nodeVars, netVars, Typed, Serving
  <1> QED
    BY <1>1, <1>2, NetworkInv, LoopInv, AppInv DEF Next

(* The invariant always holds.                                             *)
LEMMA Invariant == Spec => []Inv
  <1>1. Init => Inv
    BY InitInv
  <1>2. Inv /\ [Next]_vars => Inv'
    BY StepInv
  <1> QED
    BY <1>1, <1>2, PTL DEF Spec

-----------------------------------------------------------------------------
(* handle_read calls a callback only with a whole datagram, and with the   *)
(* type and the length its sender gave, whatever older bytes are in _rbuf  *)
(* and whatever datagrams come from elsewhere.                             *)
THEOREM CallbacksGetWholeDatagrams == Spec => []WholeDatagrams
  <1>1. Inv => WholeDatagrams
    BY DEF Inv, Serving, WholeDatagrams
  <1> QED
    BY <1>1, Invariant, PTL

(* What the server's callbacks send goes to the client whose datagram they *)
(* were called for, although there is one _srcaddr for all; no client ever *)
(* handles the answer to another.                                          *)
THEOREM AnswersReachTheirClient == Spec => []RepliesToSender
  <1>1. ASSUME Inv PROVE RepliesToSender
    <2>1. \A d \in net : d.re \in Clients => d.to = d.re
      BY <1>1, Constants, Fields DEF Inv, Typed
    <2>2. ASSUME NEW c \in Clients, pc[c] = "callback" PROVE cur[c].d.re \in {c, None}
      BY <1>1, <2>2, Constants, Fields DEF Inv, Serving, For
    <2> QED
      BY <2>1, <2>2 DEF RepliesToSender
  <1> QED
    BY <1>1, Invariant, PTL
=============================================================================
