----------------------------- MODULE TcpClient -----------------------------
(***************************************************************************)
(* One tcp_client: connecting with its asynchronous result, the retry      *)
(* timer, reconnection after a loss, and the two buffers that live as long *)
(* as the client and not as one connection.  tcp_client.cc, the io_buffer  *)
(* struct, and what add_ioev, del_ioev and process_evs do for its one      *)
(* descriptor.                                                             *)
(*                                                                         *)
(* A byte is <<message, offset>>; messages are numbered over all           *)
(* connections, so that a byte of an earlier connection can be told.  The  *)
(* loop's thread runs alone; server, network and the rest of the process   *)
(* act between its system calls.                                           *)
(***************************************************************************)
EXTENDS Integers, Sequences

CONSTANTS HeadLen,     \* COMMU_HEAD_LENGTH
          Cap,         \* capacity of ibuf and of obuf
          Registered,  \* cmdids the dispatcher has a callback for
          ServerMsgs,  \* heads the server may send: [cmdid, length]
          SendLens,    \* body lengths the application sends
          MaxMsgs,     \* bound on the server's messages, over all connections
          MaxSends     \* bound on the messages sent, over all connections

ASSUME TcpClientAssumption ==
    /\ HeadLen \in Nat \ {0} /\ Cap \in Nat \ {0}
    /\ \A m \in ServerMsgs : m.length \in Nat
    /\ SendLens \subseteq Nat
    /\ MaxMsgs \in Nat /\ MaxSends \in Nat

VARIABLES
    pc,        \* where the loop is: "poll" in epoll_wait
    net_ok,
    sock,      \* what the number in _sockfd stands for: "none" (it is -1),
               \*   "own", "free" (closed), "other" (opened again by others)
    evs,       \* registered events: "CONN" is EPOLLOUT with connection_cb,
               \*   "IN" and "OUT" come with read_cb and write_cb
    timer,     \* reconn_cb waits in the timer queue
    ibuf, obuf,
    cur,       \* number of the message whose callback runs, and what it got
    accepted,  \* bytes of all messages for which send_data returned 0
    wire,      \* bytes written, over all connections
    link,      \* the connection: "none", "connecting", "refused", "up",
               \*   "fin" (server has closed), "rst" (reset)
    server,    \* messages the server has sent
    instream,  \* bytes of this connection that have not been read
    tidy       \* history: each read so far was one message into an empty ibuf

bufVars == <<ibuf, obuf, cur, accepted, wire, tidy>>
netVars == <<link, server, instream>>
vars == <<pc, net_ok, sock, evs, timer, bufVars, netVars>>

NoMsg == [msg |-> 0, data |-> << >>]

Init ==
    /\ pc = "do_connect"
    /\ net_ok = FALSE
    /\ sock = "none"
    /\ evs = {}
    /\ timer = FALSE
    /\ ibuf = [head |-> 0, data |-> << >>] /\ obuf = ibuf
    /\ cur = NoMsg
    /\ accepted = << >> /\ wire = << >>
    /\ link = "none" /\ server = << >> /\ instream = << >>
    /\ tidy = TRUE

-----------------------------------------------------------------------------
(* Bytes, and the io_buffer struct: its head and the bytes from head on.   *)

Frame(k, n) == [o \in 1..(HeadLen + n) |-> <<k, o>>]
Body(k) == [o \in 1..server[k].length |-> <<k, HeadLen + o>>]
Junk == <<0, 0>>

length(b) == Len(b.data)

(* Bytes put at data + length, the place handle_read and send_data use     *)
(* whatever head is: with head # 0 they land on bytes still to be read,    *)
(* and what lies beyond them is junk.                                      *)
put(b, bytes) ==
    LET At(p) == IF p > length(b) /\ p <= length(b) + Len(bytes)
                 THEN bytes[p - length(b)]
                 ELSE IF p \in (b.head + 1)..(b.head + length(b))
                 THEN b.data[p - b.head] ELSE Junk
    IN  [b EXCEPT !.data = [i \in 1..(length(b) + Len(bytes)) |-> At(b.head + i)]]

pop(b, n) == [head |-> b.head + n, data |-> SubSeq(b.data, n + 1, length(b))]
adjust(b) == [b EXCEPT !.head = 0]

(* The message whose head is found at the front of ibuf; 0 if the bytes    *)
(* there are not a head.                                                   *)
HeadMsg ==
    LET h == SubSeq(ibuf.data, 1, HeadLen)
    IN  IF \E k \in 1..Len(server) : h = Frame(k, 0) THEN h[1][1] ELSE 0

-----------------------------------------------------------------------------
(* The server, the network and the rest of the process (external).         *)

Env == UNCHANGED <<pc, net_ok, evs, timer, bufVars>>

connect_result(r) ==
    /\ link = "connecting" /\ r \in {"up", "refused"}
    /\ link' = r
    /\ Env /\ UNCHANGED <<sock, server, instream>>

server_send(m) ==
    /\ link = "up" /\ Len(server) < MaxMsgs
    /\ server' = Append(server, m)
    /\ instream' = instream \o Frame(Len(server) + 1, m.length)
    /\ Env /\ UNCHANGED <<sock, link>>

server_close ==
    /\ link = "up"
    /\ link' = "fin"
    /\ Env /\ UNCHANGED <<sock, server, instream>>

(* A reset drops what has not been read.                                   *)
server_reset ==
    /\ link \in {"up", "fin"}
    /\ link' = "rst" /\ instream' = << >>
    /\ Env /\ UNCHANGED <<sock, server>>

(* The user's onclose callback, or another thread, opens a file and gets   *)
(* the number that clean_conn has just closed.                             *)
number_reused ==
    /\ pc = "onclose" /\ sock = "free"
    /\ sock' = "other"
    /\ Env /\ UNCHANGED netVars

-----------------------------------------------------------------------------
(* Mutant: the deletion takes away EPOLLOUT only.                          *)
del_ioev_OutOnly == evs \ {"CONN", "OUT"}

(* loop->del_ioev(fd) forgets all the descriptor's events.                 *)
del_ioev == {}

(* clean_conn up to the user's onclose callback; do_connect follows.       *)
clean_conn ==
    /\ evs' = del_ioev
    /\ sock' = "free"
    /\ link' = "none" /\ instream' = << >>
    /\ net_ok' = FALSE
    /\ pc' = "onclose"
    /\ UNCHANGED <<timer, server>>

(* The process ends, and the kernel drops its connection.                  *)
end(how) ==
    /\ pc' = how
    /\ link' = "none" /\ instream' = << >>
    /\ UNCHANGED <<net_ok, sock, evs, timer, ibuf, obuf, cur, accepted, wire, server>>

(* do_connect, by the constructor, by reconn_cb and at the end of          *)
(* clean_conn: closes _sockfd if it is not -1, and takes a new socket.     *)

connect_with(l) ==
    /\ pc \in {"do_connect", "onclose"}
    /\ sock' = "own" /\ link' = l /\ instream' = << >>
    /\ UNCHANGED <<timer, bufVars, server>>

(* EINPROGRESS.                                                            *)
connect_started ==
    /\ connect_with("connecting")
    /\ evs' = evs \cup {"CONN"}
    /\ pc' = "poll"
    /\ UNCHANGED net_ok

(* connect returned 0: the client is connected and nothing is registered.  *)
connect_at_once ==
    /\ connect_with("up")
    /\ net_ok' = TRUE
    /\ pc' = "onconnect_now"
    /\ UNCHANGED evs

(* Any other error, of socket or of connect.                               *)
connect_exit ==
    /\ pc \in {"do_connect", "onclose"}
    /\ end("exited") /\ UNCHANGED tidy

(* connection_cb: epoll reports the result of connect, SO_ERROR tells it.  *)
connected ==
    /\ pc = "poll" /\ "CONN" \in evs
    /\ link \in {"up", "fin"}
    /\ evs' = del_ioev
    /\ net_ok' = TRUE
    /\ pc' = "onconnect"
    /\ UNCHANGED <<sock, timer, bufVars, netVars>>

(* Mutant: no retry after a failure.                                       *)
run_after_Forgotten == timer

(* loop->run_after(reconn_cb, 2 s).                                        *)
run_after == TRUE

not_connected ==
    /\ pc = "poll" /\ "CONN" \in evs
    /\ link \in {"refused", "rst"}
    /\ evs' = del_ioev
    /\ timer' = run_after
    /\ UNCHANGED <<pc, net_ok, sock, bufVars, netVars>>

(* reconn_cb, two seconds later.                                           *)
reconn_cb ==
    /\ pc = "poll" /\ timer
    /\ timer' = FALSE
    /\ pc' = "do_connect"
    /\ UNCHANGED <<net_ok, sock, evs, bufVars, netVars>>

(* Mutant: what an earlier connection left in obuf is forgotten.           *)
Wanted_InOnly == {"IN"}

(* What connection_cb registers when the user's onconnect callback is over.*)
Wanted == {"IN"} \cup IF length(obuf) > 0 THEN {"OUT"} ELSE {}

onconnect_returns ==
    /\ pc = "onconnect"
    /\ evs' = evs \cup Wanted
    /\ pc' = "poll"
    /\ UNCHANGED <<net_ok, sock, timer, bufVars, netVars>>

onconnect_now_returns ==
    /\ pc = "onconnect_now"
    /\ pc' = "poll"
    /\ UNCHANGED <<net_ok, sock, evs, timer, bufVars, netVars>>

-----------------------------------------------------------------------------
(* handle_read.                                                            *)

Readable == instream # << >> \/ link \in {"fin", "rst"}
Arrived == IF instream = << >> THEN {0} ELSE 1..Len(instream)

(* The n bytes are one message, and ibuf is empty.                         *)
OneMessage(n) ==
    /\ ibuf = [head |-> 0, data |-> << >>]
    /\ LET k == instream[1][1]
       IN  SubSeq(instream, 1, n) = Frame(k, server[k].length)

(* epoll reports the descriptor readable, FIONREAD says n, and n bytes are *)
(* read; or there is no room for them and the assert fails; or it is the   *)
(* end of the connection.                                                  *)
read_bytes(n) ==
    /\ pc = "poll" /\ "IN" \in evs /\ n \in Arrived \ {0}
    /\ n <= Cap - length(ibuf)
    /\ ibuf' = put(ibuf, SubSeq(instream, 1, n))
    /\ instream' = SubSeq(instream, n + 1, Len(instream))
    /\ tidy' = (tidy /\ OneMessage(n))
    /\ pc' = "parse"
    /\ UNCHANGED <<net_ok, sock, evs, timer, obuf, cur, accepted, wire, link, server>>

read_abort(n) ==
    /\ pc = "poll" /\ "IN" \in evs /\ n \in Arrived \ {0}
    /\ n > Cap - length(ibuf)
    /\ tidy' = (tidy /\ OneMessage(n))
    /\ end("aborted_read")

read_end ==
    /\ pc = "poll" /\ "IN" \in evs
    /\ Readable /\ instream = << >>
    /\ clean_conn /\ UNCHANGED bufVars

(* The test the source calls "sub-package": it holds when more than the    *)
(* message is there, and not when less is.                                 *)
SubPackage(k) == server[k].length + HeadLen < length(ibuf)

(* Mutant: the callback's data is taken before the head is popped.         *)
CallbackData_WithHead(k) == SubSeq(ibuf.data, 1, server[k].length)

(* What lies at data + head once the head is popped; junk follows if the   *)
(* message has not arrived in full.                                        *)
CallbackData(k) ==
    LET b == pop(ibuf, HeadLen)
    IN  [o \in 1..server[k].length |-> IF o <= length(b) THEN b.data[o] ELSE Junk]

HaveHead == pc = "parse" /\ length(ibuf) >= HeadLen

parse_rest ==
    /\ pc = "parse"
    /\ HaveHead => HeadMsg # 0 /\ SubPackage(HeadMsg)
    /\ ibuf' = adjust(ibuf)
    /\ pc' = "poll"
    /\ UNCHANGED <<net_ok, sock, evs, timer, obuf, cur, accepted, wire, tidy, netVars>>

(* The head is not one the server sent: from here on anything can happen,  *)
(* and the model ends.                                                     *)
parse_corrupt == HaveHead /\ HeadMsg = 0 /\ end("corrupt") /\ UNCHANGED tidy

(* No callback for it: the connection is closed with the head popped.      *)
parse_reject ==
    /\ HaveHead /\ HeadMsg # 0 /\ ~SubPackage(HeadMsg)
    /\ server[HeadMsg].cmdid \notin Registered
    /\ ibuf' = pop(ibuf, HeadLen)
    /\ clean_conn /\ UNCHANGED <<obuf, cur, accepted, wire, tidy>>

dispatch ==
    /\ HaveHead /\ HeadMsg # 0 /\ ~SubPackage(HeadMsg)
    /\ server[HeadMsg].cmdid \in Registered
    /\ cur' = [msg |-> HeadMsg, data |-> CallbackData(HeadMsg)]
    /\ ibuf' = pop(ibuf, HeadLen)
    /\ pc' = "callback"
    /\ UNCHANGED <<net_ok, sock, evs, timer, obuf, accepted, wire, tidy, netVars>>

callback_returns ==
    /\ pc = "callback" /\ server[cur.msg].length <= length(ibuf)
    /\ ibuf' = pop(ibuf, server[cur.msg].length)
    /\ cur' = NoMsg
    /\ pc' = "parse"
    /\ UNCHANGED <<net_ok, sock, evs, timer, obuf, accepted, wire, tidy, netVars>>

(* More is popped than there is: length is negative, the loop ends and     *)
(* adjust calls memmove with a negative size.                              *)
callback_crash ==
    /\ pc = "callback" /\ server[cur.msg].length > length(ibuf)
    /\ end("crashed") /\ UNCHANGED tidy

-----------------------------------------------------------------------------
(* send_data, by any callback, timer or task.  Without a connection or     *)
(* without room it returns -1 and changes nothing.                         *)

NumSent == IF accepted = << >> THEN 0 ELSE accepted[Len(accepted)][1]

send_data(n) ==
    /\ pc \in {"poll", "callback", "onconnect", "onconnect_now"}
    /\ net_ok /\ NumSent < MaxSends
    /\ n + HeadLen <= Cap - length(obuf)
    /\ obuf' = put(obuf, Frame(NumSent + 1, n))
    /\ accepted' = accepted \o Frame(NumSent + 1, n)
    /\ evs' = IF length(obuf) = 0 THEN evs \cup {"OUT"} ELSE evs
    /\ UNCHANGED <<pc, net_ok, sock, timer, ibuf, cur, wire, tidy, netVars>>

-----------------------------------------------------------------------------
(* handle_write: called when epoll reports the descriptor writable and not *)
(* readable.                                                               *)

(* Mutant: a partial write is taken for a complete one.                    *)
Written_All(b, n) == adjust(pop(b, length(b)))

Written(b, n) == adjust(pop(b, n))

handle_write ==
    /\ pc = "poll" /\ "OUT" \in evs
    /\ "IN" \in evs => ~Readable
    /\ pc' = IF obuf.head = 0 /\ length(obuf) > 0 THEN "write" ELSE "aborted_write"
    /\ UNCHANGED <<net_ok, sock, evs, timer, bufVars, netVars>>

write_some(n) ==
    /\ pc = "write" /\ link # "rst"
    /\ n \in 1..length(obuf)
    /\ wire' = wire \o SubSeq(obuf.data, 1, n)
    /\ obuf' = Written(obuf, n)
    /\ UNCHANGED <<pc, net_ok, sock, evs, timer, ibuf, cur, accepted, tidy, netVars>>

write_eagain ==
    /\ pc = "write" /\ link # "rst" /\ length(obuf) > 0
    /\ pc' = "poll"
    /\ UNCHANGED <<net_ok, sock, evs, timer, bufVars, netVars>>

write_error ==
    /\ pc = "write" /\ link = "rst" /\ length(obuf) > 0
    /\ clean_conn /\ UNCHANGED bufVars

write_done ==
    /\ pc = "write" /\ length(obuf) = 0
    /\ evs' = evs \ {"OUT"}
    /\ pc' = "poll"
    /\ UNCHANGED <<net_ok, sock, timer, bufVars, netVars>>

-----------------------------------------------------------------------------
Connect ==
    \/ connect_started \/ connect_at_once \/ connect_exit
    \/ connected \/ not_connected \/ reconn_cb
    \/ onconnect_returns \/ onconnect_now_returns
Read ==
    \/ (\E n \in Arrived : read_bytes(n) \/ read_abort(n)) \/ read_end
    \/ parse_rest \/ parse_corrupt \/ parse_reject
    \/ dispatch \/ callback_returns \/ callback_crash
WriteSome == \E n \in 1..length(obuf) : write_some(n)
Write == handle_write \/ WriteSome \/ write_eagain \/ write_error \/ write_done
Environment ==
    \/ \E r \in {"up", "refused"} : connect_result(r)
    \/ \E m \in ServerMsgs : server_send(m)
    \/ server_close \/ server_reset \/ number_reused

Next == Connect \/ Read \/ Write \/ Environment \/ \E n \in SendLens : send_data(n)

(* The loop runs.  The server is not down for ever and does not reset      *)
(* every connection before the client has seen it; it takes what is sent.  *)
Fairness ==
    /\ WF_vars(Connect \/ Read \/ Write)
    /\ SF_vars(connect_result("up"))
    /\ SF_vars(connected)
    /\ SF_vars(WriteSome)

Spec == Init /\ [][Next]_vars /\ Fairness

-----------------------------------------------------------------------------
(* Properties.                                                             *)

Ended == pc \in {"exited", "aborted_read", "aborted_write", "crashed", "corrupt"}

(* connect returned at once, and the descriptor was registered for nothing *)
(* but what the onconnect callback sent.                                   *)
Deaf == pc = "poll" /\ net_ok /\ "IN" \notin evs

(* Between events the client has exactly one thing going: an attempt to    *)
(* connect that epoll watches, a retry timer, or a connection; and its     *)
(* socket is its own and open.  No sequence of refusals, resets and        *)
(* reconnections makes it give up, or try twice at once.                   *)
OneAttempt ==
    pc = "poll" =>
        /\ sock = "own"
        /\ \/ evs = {"CONN"} /\ ~timer /\ ~net_ok
           \/ evs = {} /\ timer /\ ~net_ok
           \/ "CONN" \notin evs /\ ~timer /\ net_ok

(* The callback in course has the whole body of the message it is for, and *)
(* nothing in the input has ended the process                              *)
(* ("将一条 完整的消息 发给对应的回调函数").                               *)
Framing ==
    /\ pc = "callback" => cur.data = Body(cur.msg)
    /\ pc \notin {"crashed", "corrupt", "aborted_read"}

(* No message is larger than ibuf: the client does not look at             *)
(* MSG_LENGTH_LIMIT, and a tcp_conn sends whatever its pool has room for.  *)
AllFit == \A k \in 1..Len(server) : HeadLen + server[k].length <= Cap

(* Framing, as long as every read returned exactly one message: the        *)
(* regime of a request and its reply that the examples use.  It covers     *)
(* reconnections in the middle of everything else.                         *)
InFraming == tidy /\ AllFit => Framing

(* What was written over all connections and what still waits are together *)
(* exactly the messages for which send_data returned 0, in order: nothing  *)
(* is sent twice after a reconnection, and handle_write's assert holds.    *)
OutStream ==
    /\ wire \o obuf.data = accepted
    /\ pc # "aborted_write"

(* A client that is not connected connects, whatever becomes of its        *)
(* attempts, or its process has ended.                                     *)
Reconnects == ~net_ok ~> net_ok \/ Ended

(* What waits on a connection is written, or the connection ends.          *)
EventuallyWritten ==
    net_ok /\ length(obuf) > 0 ~> length(obuf) = 0 \/ ~net_ok \/ Deaf \/ Ended

-----------------------------------------------------------------------------
(* What one would expect and the code does not do; README.md gives the     *)
(* behaviours.  No run checks these.                                       *)

(* A new connection starts with the head of a message.                     *)
StartsAtHead ==
    pc = "onconnect" /\ length(obuf) > 0 => obuf.data[1][2] = 1

(* do_connect closes no descriptor but the client's own.                   *)
ClosesOwn == [][pc = "onclose" /\ pc' # "onclose" => sock # "other"]_vars

(* A connected client listens.                                             *)
Listens == ~Deaf
=============================================================================
