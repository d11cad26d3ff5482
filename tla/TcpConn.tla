------------------------------ MODULE TcpConn ------------------------------
(***************************************************************************)
(* One tcp_conn object: how it cuts the incoming byte stream into          *)
(* messages and calls their callbacks, how it queues and writes replies,   *)
(* what it does with its two buffers, and how it is closed and used again  *)
(* for the next connection.  tcp_conn.cc, the tcp_buffer classes of        *)
(* io_buffer.cc and, as far as they concern one descriptor, add_ioev,      *)
(* del_ioev and the dispatch of process_evs.                               *)
(*                                                                         *)
(* A byte is named <<message, offset>>, with messages numbered over all    *)
(* connections, so that a byte that is lost, repeated, out of place or     *)
(* left over from an earlier connection can be told from the one that      *)
(* should be there.  A message is a head of HeadLen bytes and a body.  The *)
(* loop's thread runs alone; the peer, the network and the kernel's send   *)
(* buffer act between any two of its system calls.                         *)
(***************************************************************************)
EXTENDS Integers, Sequences

CONSTANTS HeadLen,      \* COMMU_HEAD_LENGTH
          LengthLimit,  \* MSG_LENGTH_LIMIT
          Registered,   \* cmdids the dispatcher has a callback for
          PeerMsgs,     \* heads a peer may send: [cmdid, length]
          SendLens,     \* body lengths the application sends
          Caps,         \* capacities of pool buffers
          MaxMsgs,      \* bound on messages from peers, over all connections
          MaxSends      \* bound on send_data calls, over all connections

ASSUME TcpConnAssumption ==
    /\ HeadLen \in Nat \ {0}
    /\ LengthLimit \in Nat
    /\ Caps \subseteq Nat \ {0} /\ Caps # {}
    /\ \E c \in Caps : c >= HeadLen
    /\ \A m \in PeerMsgs : m.length \in Int
    /\ SendLens \subseteq Nat
    /\ MaxMsgs \in Nat /\ MaxSends \in Nat

VARIABLES
    pc,        \* where the loop is: "closed" before init and after clean_conn
    rn,        \* read_data's rn
    cur,       \* handle_read's head, while the callback runs
    ibuf,      \* the input buffer
    obuf,      \* the output buffer
    epmask,    \* events the descriptor is registered for
    ncb,       \* number of the last message handled, or lost with its connection
    cbdata,    \* the bytes handed to the last callback
    nsends,    \* send_data calls
    accepted,  \* bytes of the messages for which send_data returned 0, and
    wire,      \*   bytes written to the socket, on this connection
    peer,      \* messages that peers have sent
    pstate,    \* "closed", "open", "fin" (peer has closed), "rst" (connection reset)
    instream   \* bytes the peer has sent that have not been read

connVars == <<ibuf, obuf, epmask>>
readVars == <<rn, cur, ncb, cbdata>>
sendVars == <<nsends, accepted>>
netVars  == <<peer, pstate, instream, wire>>
vars == <<pc, connVars, readVars, sendVars, netVars>>

(* An io_buffer: capacity, head, and the bytes from head on; capacity 0    *)
(* stands for the null pointer.                                            *)
NoBuf == [cap |-> 0, head |-> 0, data |-> << >>]
NoHead == [cmdid |-> "none", length |-> 0]

Init ==
    /\ pc = "closed"
    /\ rn = 0
    /\ cur = NoHead
    /\ ibuf = NoBuf /\ obuf = NoBuf
    /\ epmask = {}
    /\ ncb = 0
    /\ cbdata = << >>
    /\ nsends = 0
    /\ accepted = << >>
    /\ peer = << >>
    /\ pstate = "closed"
    /\ instream = << >>
    /\ wire = << >>

-----------------------------------------------------------------------------
(* Messages as bytes.                                                      *)

BodyLen(m) == IF m.length \in 0..LengthLimit THEN m.length ELSE 0
Frame(k, n) == [o \in 1..(HeadLen + n) |-> <<k, o>>]
Body(k, n) == [o \in 1..n |-> <<k, HeadLen + o>>]

(* The head found at the start of some bytes: that of message k if they    *)
(* start where message k does, nonsense otherwise.                         *)
HeadAt(bytes) ==
    IF bytes[1][2] = 1 THEN peer[bytes[1][1]] ELSE [cmdid |-> "none", length |-> -1]

-----------------------------------------------------------------------------
(* buffer_pool::alloc, as its callers see it, and the buffer operations.   *)

length(b) == Len(b.data)

(* The smallest capacity that fits, or NULL.  The pool's own lists and its *)
(* memory limit are not part of this module.                               *)
alloc(n) ==
    IF \E c \in Caps : c >= n
    THEN [NoBuf EXCEPT !.cap = CHOOSE c \in Caps : c >= n /\ \A d \in Caps : d >= n => c <= d]
    ELSE NoBuf

Left(b) == b.cap - length(b)

(* b, or a larger buffer with its data, with room for n more bytes; NULL   *)
(* if the pool has none (the caller then leaves b as it was).              *)
Room(b, n) ==
    IF b = NoBuf THEN alloc(n)
    ELSE IF Left(b) >= n THEN b
    ELSE LET new == alloc(n + length(b))
         IN  IF new = NoBuf THEN NoBuf ELSE [new EXCEPT !.data = b.data]

(* tcp_buffer::pop, which returns an emptied buffer to the pool.           *)
PopAsserts(b, n) == b # NoBuf /\ n <= length(b)
pop(b, n) ==
    IF n = length(b) THEN NoBuf
    ELSE [b EXCEPT !.head = @ + n, !.data = SubSeq(@, n + 1, Len(@))]

adjust(b) == [b EXCEPT !.head = 0]

(* Mutant: a buffer is kept for the next connection.                       *)
clear_Keeps(b) == b

(* tcp_buffer::clear: the buffer goes back to the pool.                    *)
clear(b) == NoBuf

-----------------------------------------------------------------------------
(* The peer (external).                                                    *)

Connected == pc \notin {"closed", "aborted"}

peer_send(m) ==
    /\ Connected /\ pstate = "open"
    /\ Len(peer) < MaxMsgs
    /\ peer' = Append(peer, m)
    /\ instream' = instream \o Frame(Len(peer) + 1, BodyLen(m))
    /\ UNCHANGED <<pc, connVars, readVars, sendVars, pstate, wire>>

peer_close ==
    /\ Connected /\ pstate = "open"
    /\ pstate' = "fin"
    /\ UNCHANGED <<pc, connVars, readVars, sendVars, peer, instream, wire>>

(* A reset drops what has not been read.                                   *)
peer_reset ==
    /\ Connected /\ pstate # "rst"
    /\ pstate' = "rst"
    /\ instream' = << >>
    /\ UNCHANGED <<pc, connVars, readVars, sendVars, peer, wire>>

-----------------------------------------------------------------------------
(* Opening and closing.                                                    *)

(* tcp_conn::init, by the constructor or for a new connection on an old    *)
(* object: it registers for reading and does not touch the buffers.        *)
init ==
    /\ pc = "closed"
    /\ pc' = "poll"
    /\ epmask' = {"IN"}
    /\ pstate' = "open"
    /\ UNCHANGED <<ibuf, obuf, readVars, sendVars, peer, instream, wire>>

(* clean_conn: del_ioev, both buffers back to the pool, close.  What       *)
(* handle_read still does afterwards, ibuf.adjust(), finds no buffer.  The *)
(* connection's history is forgotten.                                      *)
clean_conn ==
    /\ pc' = "closed"
    /\ epmask' = {}
    /\ ibuf' = clear(ibuf) /\ obuf' = clear(obuf)
    /\ ncb' = Len(peer) /\ rn' = 0 /\ cur' = NoHead /\ cbdata' = << >>
    /\ accepted' = << >> /\ wire' = << >> /\ instream' = << >> /\ pstate' = "closed"
    /\ UNCHANGED <<nsends, peer>>

(* A failed assert ends the process.                                       *)
abort ==
    /\ pc' = "aborted"
    /\ UNCHANGED <<connVars, readVars, sendVars, netVars>>

-----------------------------------------------------------------------------
(* handle_read.                                                            *)

Readable == instream # << >> \/ pstate # "open"

(* What FIONREAD may say: any part of the stream can have arrived, and     *)
(* 0 only when the peer has closed or reset and all before it was read.    *)
Arrived == IF instream = << >> THEN {0} ELSE 1..Len(instream)

(* epoll reports the descriptor readable; read_data asks how much there is *)
(* and sees that ibuf has room for it.                                     *)
read_ioctl(n) ==
    /\ pc = "poll" /\ "IN" \in epmask /\ Readable
    /\ n \in Arrived
    /\ IF ibuf.head # 0 THEN abort
       ELSE IF Room(ibuf, n) = NoBuf THEN clean_conn
       ELSE /\ rn' = n
            /\ ibuf' = Room(ibuf, n)
            /\ pc' = "read"
            /\ UNCHANGED <<obuf, epmask, cur, ncb, cbdata, sendVars, netVars>>

(* The read itself: rn bytes, or the end of the stream, or an error.       *)
read_bytes ==
    /\ pc = "read"
    /\ rn > 0 /\ pstate # "rst"
    /\ ibuf' = [ibuf EXCEPT !.data = @ \o SubSeq(instream, 1, rn)]
    /\ instream' = SubSeq(instream, rn + 1, Len(instream))
    /\ rn' = 0
    /\ pc' = "parse"
    /\ UNCHANGED <<obuf, epmask, cur, ncb, cbdata, sendVars, peer, pstate, wire>>

read_end ==
    /\ pc = "read"
    /\ rn = 0 \/ pstate = "rst"
    /\ clean_conn

(* The message loop.                                                       *)
NextHead == HeadAt(ibuf.data)
HaveHead == pc = "parse" /\ length(ibuf) >= HeadLen
BadLength(h) == h.length > LengthLimit \/ h.length < 0

(* Mutant: a message that ends the buffer is taken for incomplete.         *)
Complete_Strict(h) == length(ibuf) > HeadLen + h.length

Complete(h) == length(ibuf) >= HeadLen + h.length

(* Malformed, or no callback for it: close the connection.                 *)
parse_reject ==
    /\ HaveHead
    /\ \/ BadLength(NextHead)
       \/ Complete(NextHead) /\ NextHead.cmdid \notin Registered
    /\ clean_conn

(* Less than a message is left: keep it at the front of the buffer.        *)
parse_rest ==
    /\ pc = "parse"
    /\ ~(HaveHead /\ (BadLength(NextHead) \/ Complete(NextHead)))
    /\ ibuf' = adjust(ibuf)
    /\ pc' = "poll"
    /\ UNCHANGED <<obuf, epmask, readVars, sendVars, netVars>>

(* Mutant: the callback's data is taken before the head is popped.         *)
CallbackData_WithHead(h) == SubSeq(ibuf.data, 1, h.length)

CallbackData(h) == SubSeq(pop(ibuf, HeadLen).data, 1, h.length)

(* A message: pop its head, call its callback.                             *)
dispatch ==
    /\ HaveHead
    /\ ~BadLength(NextHead) /\ Complete(NextHead)
    /\ NextHead.cmdid \in Registered
    /\ cur' = NextHead
    /\ ncb' = ncb + 1
    /\ cbdata' = CallbackData(NextHead)
    /\ ibuf' = pop(ibuf, HeadLen)
    /\ pc' = "callback"
    /\ UNCHANGED <<obuf, epmask, rn, sendVars, netVars>>

(* The callback returns: pop the body.                                     *)
callback_returns ==
    /\ pc = "callback"
    /\ IF ~PopAsserts(ibuf, cur.length) THEN abort
       ELSE /\ ibuf' = pop(ibuf, cur.length)
            /\ pc' = "parse"
            /\ cur' = NoHead /\ cbdata' = << >>
            /\ UNCHANGED <<obuf, epmask, rn, ncb, sendVars, netVars>>

-----------------------------------------------------------------------------
(* send_data, called by a message callback or by a timer or task of the    *)
(* same loop.                                                              *)

AppRuns == pc \in {"callback", "poll"}
WithHead == LET b == Room(obuf, HeadLen)
            IN  [b EXCEPT !.data = @ \o SubSeq(Frame(nsends + 1, 0), 1, HeadLen)]

send_call ==
    /\ AppRuns /\ nsends < MaxSends
    /\ nsends' = nsends + 1
    /\ UNCHANGED <<ibuf, readVars, netVars>>

(* Mutant: listens for EPOLLOUT only if there was something to send.       *)
Need_Pending == length(obuf) > 0

(* Nothing waits: EPOLLOUT has to be registered.                           *)
Need == length(obuf) = 0

(* Head and body both fit; EPOLLOUT is wanted if nothing was waiting.      *)
send_ok(n) ==
    /\ send_call
    /\ obuf.head = 0
    /\ Room(obuf, HeadLen) # NoBuf /\ Room(WithHead, n) # NoBuf
    /\ obuf' = [Room(WithHead, n) EXCEPT !.data = @ \o Body(nsends + 1, n)]
    /\ accepted' = accepted \o Frame(nsends + 1, n)
    /\ epmask' = IF Need THEN epmask \cup {"OUT"} ELSE epmask
    /\ UNCHANGED pc

(* No room even for the head: send_data returns -1.                        *)
send_fail_head ==
    /\ send_call
    /\ obuf.head = 0
    /\ Room(obuf, HeadLen) = NoBuf
    /\ UNCHANGED <<pc, obuf, epmask, accepted>>

(* No room for the body: the head is popped, and -1 returned.              *)
send_fail_body(n) ==
    /\ send_call
    /\ obuf.head = 0
    /\ Room(obuf, HeadLen) # NoBuf /\ Room(WithHead, n) = NoBuf
    /\ obuf' = pop(WithHead, HeadLen)
    /\ UNCHANGED <<pc, epmask, accepted>>

(* The assert on head in output_buffer::send_data.                         *)
send_abort ==
    /\ send_call
    /\ obuf.head # 0
    /\ pc' = "aborted"
    /\ UNCHANGED <<obuf, epmask, accepted>>

-----------------------------------------------------------------------------
(* handle_write.                                                           *)

Keep == UNCHANGED <<ibuf, readVars, sendVars, peer, pstate, instream>>

(* epoll reports the descriptor writable, and not readable: process_evs    *)
(* calls the write callback only then.                                     *)
handle_write ==
    /\ pc = "poll" /\ "OUT" \in epmask
    /\ "IN" \in epmask => ~Readable
    /\ pc' = "write"
    /\ Keep /\ UNCHANGED <<obuf, epmask, wire>>

(* Mutant: a partial write is taken for a complete one.                    *)
Written_All(b, n) == [b EXCEPT !.data = << >>]

(* What is left after n bytes moves to the front; the buffer is kept.      *)
Written(b, n) == [b EXCEPT !.data = SubSeq(@, n + 1, Len(@))]

write_some(n) ==
    /\ pc = "write" /\ length(obuf) > 0
    /\ obuf.head = 0 /\ pstate # "rst"
    /\ n \in 1..length(obuf)
    /\ wire' = wire \o SubSeq(obuf.data, 1, n)
    /\ obuf' = Written(obuf, n)
    /\ Keep /\ UNCHANGED <<pc, epmask>>

(* EAGAIN: the rest stays for the next EPOLLOUT.                           *)
write_eagain ==
    /\ pc = "write" /\ length(obuf) > 0
    /\ obuf.head = 0 /\ pstate # "rst"
    /\ pc' = "poll"
    /\ Keep /\ UNCHANGED <<obuf, epmask, wire>>

write_error ==
    /\ pc = "write" /\ length(obuf) > 0
    /\ obuf.head = 0 /\ pstate = "rst"
    /\ clean_conn

(* The assert in write_fd.                                                 *)
write_abort ==
    /\ pc = "write" /\ length(obuf) > 0
    /\ obuf.head # 0
    /\ abort

(* Mutant: EPOLLOUT stays registered.                                      *)
NotListening_Kept == epmask

NotListening == epmask \ {"OUT"}

write_done ==
    /\ pc = "write" /\ length(obuf) = 0
    /\ epmask' = NotListening
    /\ pc' = "poll"
    /\ Keep /\ UNCHANGED <<obuf, wire>>

-----------------------------------------------------------------------------
Read == (\E n \in Arrived : read_ioctl(n)) \/ read_bytes \/ read_end
Parse == parse_reject \/ parse_rest \/ dispatch \/ callback_returns
Write ==
    \/ handle_write \/ (\E n \in 1..length(obuf) : write_some(n))
    \/ write_eagain \/ write_error \/ write_abort \/ write_done

App ==
    \/ \E n \in SendLens : send_ok(n) \/ send_fail_body(n)
    \/ send_fail_head
    \/ send_abort

Peer == (\E m \in PeerMsgs : peer_send(m)) \/ peer_close \/ peer_reset

Next == init \/ Peer \/ Read \/ Parse \/ Write \/ App

(* The loop runs; the peer takes what is sent, so that a write which is    *)
(* tried again and again succeeds.                                         *)
Fairness ==
    /\ WF_vars(Read \/ Parse \/ Write)
    /\ SF_vars(\E n \in 1..length(obuf) : write_some(n))

Spec == Init /\ [][Next]_vars /\ Fairness

-----------------------------------------------------------------------------
(* Properties.                                                             *)

(* Every callback gets the body of the next message of this connection,    *)
(* all of it and nothing else, however the stream was cut into reads and   *)
(* whatever connections the object served before.  The asserts fail only   *)
(* after a failed send, or for a message without a body: pop has then      *)
(* given the buffer back with its head (ibuf.pop(0) in handle_read).       *)
InFraming ==
    /\ pc = "aborted" =>
        \/ obuf.head # 0
        \/ ncb \in 1..Len(peer) /\ cur = peer[ncb] /\ cur.length = 0 /\ ibuf = NoBuf
    /\ pc = "callback" =>
        /\ ncb <= Len(peer)
        /\ cur = peer[ncb]
        /\ cbdata = Body(ncb, peer[ncb].length)

(* What has been written and what waits in obuf are together exactly the   *)
(* messages for which send_data returned 0, in order.  obuf.head is 0      *)
(* except after a failed send, and then an assert stops the next write.    *)
OutFraming ==
    Connected /\ obuf.head = 0 => wire \o obuf.data = accepted

(* Between callbacks, the connection listens for EPOLLOUT if and only if   *)
(* something waits to be sent: no reply is stuck, and no busy loop.        *)
EpollOutIffPending ==
    pc = "poll" => ("OUT" \in epmask <=> length(obuf) > 0)

(* No buffer is filled beyond its capacity; between events the connection  *)
(* holds a read buffer only for an incomplete message, and a closed        *)
(* connection holds none ("当业务回调处理后发现缓冲区没更多数据了，归还").   *)
Buffers ==
    /\ \A b \in {ibuf, obuf} : b.head + length(b) <= b.cap
    /\ pc \in {"poll", "closed"} /\ ibuf # NoBuf =>
        pc = "poll" /\ length(ibuf) > 0 /\ (length(ibuf) < HeadLen \/ ~Complete(NextHead))

(* Whatever waits to be sent is sent, unless the connection ends.          *)
EventuallyWritten ==
    length(obuf) > 0 ~> length(obuf) = 0 \/ pc = "aborted"

(* Every message the peer sends reaches its callback, unless the           *)
(* connection ends first.                                                  *)
EveryMessageHandled ==
    \A k \in 1..MaxMsgs : Len(peer) >= k ~> ncb >= k \/ ~Connected

-----------------------------------------------------------------------------
(* What the documentation or the source says and the code does not do.  No *)
(* run checks these: README.md gives the behaviours that break them.       *)

(* A message without a body is a message ("如果包完整，则会根据消息类型ID，  *)
(* 将一条完整的消息发给对应的回调函数去处理"): it does not end the process. *)
EmptyBodyHandled ==
    pc = "aborted" => obuf.head # 0

(* A send that fails takes back the head it has written and leaves the     *)
(* messages before it as they were ("只好取消写入的消息头").               *)
FailedSendLeavesNoTrace ==
    Connected => wire \o obuf.data = accepted

(* The write buffer goes back to the pool once all of it has been sent     *)
(* ("如果发送完成，则归还缓冲区").                                         *)
WriteBufferReturned ==
    pc = "poll" /\ length(obuf) = 0 => obuf = NoBuf
=============================================================================
