--------------------------- MODULE TcpClientProofs ---------------------------
(***************************************************************************)
(* Proofs about TcpClient, for any set of messages, any capacity of the    *)
(* buffers, and any number of connections, messages and sends.             *)
(*                                                                         *)
(* The invariant has a part for each of the three things that interact:    *)
(* Attempt is about the connection and its timer and registration, Out     *)
(* about the output buffer, In about the input.  Out needs that EPOLLOUT   *)
(* is registered only while something waits, because handle_write asserts  *)
(* it; that in turn rests on the order in which send_data, the connection  *)
(* callback and the write callback register and unregister.  In says       *)
(* nothing about ibuf between events: a tidy read starts from an empty     *)
(* buffer by definition, so that only the states from the read to the end  *)
(* of the callback have to be described.  The proof of read_abort shows    *)
(* what the client does not check: a message larger than ibuf ends the     *)
(* process however tidily it arrives (AllFit).                             *)
(***************************************************************************)
EXTENDS TcpClient, SequenceTheorems, TLAPS

(* A byte: the number of its message and its place in it.                  *)
Byte == Nat \X Nat
(* The ends of the process.                                                *)
Over == {"exited", "aborted_read", "aborted_write", "crashed", "corrupt"}
Pcs == {"do_connect", "onclose", "poll", "onconnect", "onconnect_now", "parse", "callback",
        "write"} \cup Over

(* The type invariant; every byte on the way comes from a message the      *)
(* server has sent.                                                        *)
Typed ==
    /\ pc \in Pcs
    /\ net_ok \in BOOLEAN /\ timer \in BOOLEAN /\ tidy \in BOOLEAN
    /\ evs \subseteq {"CONN", "IN", "OUT"}
    /\ accepted \in Seq(Byte) /\ wire \in Seq(Byte)
    /\ server \in Seq(ServerMsgs)
    /\ instream \in Seq(Byte)
    /\ \A i \in 1..Len(instream) : instream[i][1] \in 1..Len(server)

(* Where the client is in connecting, reading and writing: OneAttempt      *)
(* needs that nothing is registered while do_connect runs, and that the    *)
(* handlers run on a connection of the client's own.                       *)
Attempt ==
    /\ OneAttempt
    /\ pc \in {"do_connect", "onclose"} => evs = {} /\ ~timer /\ ~net_ok
    /\ pc \in {"onconnect", "onconnect_now", "parse", "callback", "write"} =>
          sock = "own" /\ "CONN" \notin evs /\ ~timer /\ net_ok

(* The output buffer never has its head moved, and EPOLLOUT is registered  *)
(* only while something waits: so handle_write's assert holds.             *)
Out ==
    /\ obuf = [head |-> 0, data |-> obuf.data] /\ obuf.data \in Seq(Byte)
    /\ "OUT" \in evs /\ pc # "write" => obuf.data # << >>
    /\ OutStream

(* As long as every read returned one message: what ibuf holds while it is *)
(* parsed and while the callback runs, and that nothing but a message      *)
(* larger than ibuf ends the process.                                      *)
In ==
    tidy =>
        /\ pc = "parse" => \/ ibuf.data = << >>
                           \/ \E k \in 1..Len(server) : ibuf.data = Frame(k, server[k].length)
        /\ pc = "callback" => /\ cur.msg \in 1..Len(server)
                              /\ cur.data = Body(cur.msg)
                              /\ ibuf.data = Body(cur.msg)
        /\ pc \notin {"crashed", "corrupt"}
        /\ pc = "aborted_read" => ~AllFit

Inv == Typed /\ Attempt /\ Out /\ In

-----------------------------------------------------------------------------
(* A function on 1..n is a sequence of length n.                           *)
LEMMA FunctionIsSeq ==
    ASSUME NEW S, NEW n \in Nat, NEW f \in [1..n -> S]
    PROVE  f \in Seq(S) /\ Len(f) = n
<1>1. f \in Seq(S)
  BY SeqDef
<1>2. Len(f) \in Nat /\ DOMAIN f = 1..Len(f)
  BY <1>1, LenProperties
<1>3. 1..Len(f) = 1..n
  BY <1>2
<1>4. Len(f) = n
  BY <1>2, <1>3
<1> QED
  BY <1>1, <1>4

(* The bytes of a message, as a sequence.                                  *)
LEMMA FrameIsSeq ==
    ASSUME NEW k \in Nat, NEW n \in Nat
    PROVE  Frame(k, n) \in Seq(Byte) /\ Len(Frame(k, n)) = HeadLen + n
<1>1. HeadLen + n \in Nat
  BY TcpClientAssumption
<1>2. Frame(k, n) \in [1..(HeadLen + n) -> Byte]
  BY <1>1 DEF Frame, Byte
<1> QED
  BY <1>1, <1>2, FunctionIsSeq

(* Cutting a message into head and body.                                   *)
LEMMA FrameParts ==
    ASSUME NEW k \in Nat, NEW n \in Nat
    PROVE  /\ SubSeq(Frame(k, n), 1, HeadLen) = Frame(k, 0)
           /\ Frame(k, 0)[1][1] = k
           /\ SubSeq(Frame(k, n), HeadLen + 1, HeadLen + n) = [o \in 1..n |-> <<k, HeadLen + o>>]
           /\ [o \in 1..n |-> <<k, HeadLen + o>>] \in Seq(Byte)
           /\ Len([o \in 1..n |-> <<k, HeadLen + o>>]) = n
<1>0. HeadLen \in Nat /\ HeadLen >= 1 /\ 0 \in Nat
  BY TcpClientAssumption
<1> DEFINE f == Frame(k, n)
           b == [o \in 1..n |-> <<k, HeadLen + o>>]
<1>1. f \in Seq(Byte) /\ Len(f) = HeadLen + n /\ \A i \in 1..(HeadLen + n) : f[i] = <<k, i>>
  BY FrameIsSeq DEF Frame
<1>2. /\ Frame(k, 0) \in Seq(Byte) /\ Len(Frame(k, 0)) = HeadLen
      /\ \A i \in 1..HeadLen : Frame(k, 0)[i] = <<k, i>>
  BY <1>0, FrameIsSeq DEF Frame
<1>3. b \in Seq(Byte) /\ Len(b) = n /\ \A i \in 1..n : b[i] = <<k, HeadLen + i>>
  <2>0. \A o \in 1..n : <<k, HeadLen + o>> \in Byte
    BY <1>0 DEF Byte
  <2>1. b \in [1..n -> Byte]
    BY <2>0
  <2> QED BY <2>1, FunctionIsSeq
<1> HIDE DEF f, b
<1>4. SubSeq(f, 1, HeadLen) = Frame(k, 0)
  <2>1. \A i \in 1..HeadLen : f[i] \in Byte
    BY <1>0, <1>1, ElementOfSeq
  <2>2. /\ SubSeq(f, 1, HeadLen) \in Seq(Byte) /\ Len(SubSeq(f, 1, HeadLen)) = HeadLen
        /\ \A i \in 1..HeadLen : SubSeq(f, 1, HeadLen)[i] = f[i]
    BY <1>0, <2>1, SubSeqProperties
  <2>a. \A i \in 1..HeadLen : i \in 1..(HeadLen + n)
    BY <1>0
  <2>3. \A i \in 1..HeadLen : f[i] = Frame(k, 0)[i]
    BY <1>1, <1>2, <2>a
  <2> QED BY <1>2, <2>2, <2>3, SeqEqual
<1>5. SubSeq(f, HeadLen + 1, HeadLen + n) = b
  <2> DEFINE s == SubSeq(f, HeadLen + 1, HeadLen + n)
  <2>1. \A i \in (HeadLen + 1)..(HeadLen + n) : f[i] \in Byte
    BY <1>0, <1>1, ElementOfSeq
  <2>2. /\ s \in Seq(Byte) /\ Len(s) = n
        /\ \A i \in 1..n : s[i] = f[HeadLen + i]
    BY <1>0, <2>1, SubSeqProperties
  <2>a. \A i \in 1..n : HeadLen + i \in 1..(HeadLen + n)
    BY <1>0
  <2>3. \A i \in 1..n : f[HeadLen + i] = b[i]
    BY <1>1, <1>3, <2>a
  <2> HIDE DEF s
  <2>4. s = b
    BY <1>3, <2>2, <2>3, SeqEqual
  <2> QED BY <2>4 DEF s
<1>6. Frame(k, 0)[1] = <<k, 1>>
  <2>1. 1 \in 1..HeadLen
    BY <1>0
  <2> QED BY <1>2, <2>1
<1>7. Frame(k, 0)[1][1] = k
  BY <1>6
<1> QED
  BY <1>3, <1>4, <1>5, <1>7 DEF f, b

(* Copying bytes behind the data of a buffer whose head is 0 appends them. *)
LEMMA PutAppends ==
    ASSUME NEW d \in Seq(Byte), NEW w \in Seq(Byte)
    PROVE  put([head |-> 0, data |-> d], w) = [head |-> 0, data |-> d \o w]
<1> DEFINE b == [head |-> 0, data |-> d]
           At(p) == IF p > Len(d) /\ p <= Len(d) + Len(w) THEN w[p - Len(d)]
                    ELSE IF p \in (0 + 1)..(0 + Len(d)) THEN d[p - 0] ELSE Junk
           e == [i \in 1..(Len(d) + Len(w)) |-> At(0 + i)]
           Of(p) == IF p > Len(b.data) /\ p <= Len(b.data) + Len(w) THEN w[p - Len(b.data)]
                    ELSE IF p \in (b.head + 1)..(b.head + Len(b.data))
                    THEN b.data[p - b.head] ELSE Junk
<1>1. put(b, w) = [head |-> 0, data |-> e]
  <2>1. put(b, w) = [b EXCEPT !.data = [i \in 1..(Len(b.data) + Len(w)) |-> Of(b.head + i)]]
    BY DEF put, length
  <2>2. b.head = 0 /\ b.data = d
    OBVIOUS
  <2>3. [i \in 1..(Len(b.data) + Len(w)) |-> Of(b.head + i)] = e
    BY <2>2
  <2> HIDE DEF e, Of
  <2> QED BY <2>1, <2>3
<1>2. Len(d) \in Nat /\ Len(w) \in Nat
  BY LenProperties
<1>3. /\ d \o w \in Seq(Byte) /\ Len(d \o w) = Len(d) + Len(w)
      /\ \A i \in 1..(Len(d) + Len(w)) : (d \o w)[i] = IF i <= Len(d) THEN d[i] ELSE w[i - Len(d)]
  BY ConcatProperties
<1>4. \A i \in 1..(Len(d) + Len(w)) : e[i] = (d \o w)[i] /\ e[i] \in Byte
  <2>1. ASSUME NEW i \in 1..(Len(d) + Len(w))
        PROVE  e[i] = IF i <= Len(d) THEN d[i] ELSE w[i - Len(d)]
    BY <1>2
  <2>2. \A i \in 1..(Len(d) + Len(w)) : (d \o w)[i] \in Byte
    BY <1>3, ElementOfSeq
  <2> QED BY <1>3, <2>1, <2>2
<1>5. e \in [1..(Len(d) + Len(w)) -> Byte]
  BY <1>4
<1> HIDE DEF e
<1>6. e \in Seq(Byte) /\ Len(e) = Len(d) + Len(w)
  BY <1>2, <1>5, FunctionIsSeq
<1>7. e = d \o w
  BY <1>3, <1>4, <1>6, SeqEqual
<1> QED
  BY <1>1, <1>7

(* Moving the first n bytes of d to the end of w loses and repeats         *)
(* nothing.                                                                *)
LEMMA SplitStream ==
    ASSUME NEW w \in Seq(Byte), NEW d \in Seq(Byte), NEW n \in 1..Len(d)
    PROVE  /\ (w \o SubSeq(d, 1, n)) \o SubSeq(d, n + 1, Len(d)) = w \o d
           /\ w \o SubSeq(d, 1, n) \in Seq(Byte)
           /\ SubSeq(d, n + 1, Len(d)) \in Seq(Byte)
           /\ SubSeq(d, 1, n) \in Seq(Byte) /\ Len(SubSeq(d, 1, n)) = n
<1>1. Len(d) \in Nat /\ n \in Nat /\ n <= Len(d) /\ 1 <= n
  BY LenProperties
<1>2. \A i \in 1..Len(d) : d[i] \in Byte
  BY ElementOfSeq
<1>3. SubSeq(d, 1, n) \in Seq(Byte) /\ Len(SubSeq(d, 1, n)) = n
  BY <1>1, <1>2, SubSeqProperties
<1>4. SubSeq(d, n + 1, Len(d)) \in Seq(Byte)
  <2>1. \A i \in (n + 1)..Len(d) : d[i] \in Byte
    BY <1>1, <1>2
  <2> QED BY <1>1, <2>1, SubSeqProperties
<1>5. SubSeq(d, 1, n) \o SubSeq(d, n + 1, Len(d)) = d
  <2>1. 1 \in 1..(Len(d) + 1) /\ n \in (1 - 1)..Len(d) /\ Len(d) \in n..Len(d)
    BY <1>1
  <2>2. SubSeq(d, 1, n) \o SubSeq(d, n + 1, Len(d)) = SubSeq(d, 1, Len(d))
    BY <2>1, ConcatAdjacentSubSeq
  <2> QED BY <2>2, SubSeqFull
<1>6. (w \o SubSeq(d, 1, n)) \o SubSeq(d, n + 1, Len(d))
        = w \o (SubSeq(d, 1, n) \o SubSeq(d, n + 1, Len(d)))
  <2> DEFINE u == SubSeq(d, 1, n)
             v == SubSeq(d, n + 1, Len(d))
  <2> HIDE DEF u, v
  <2>1. u \in Seq(Byte) /\ v \in Seq(Byte)
    BY <1>3, <1>4 DEF u, v
  <2>2. \A x, y, z \in Seq(Byte) : (x \o y) \o z = x \o (y \o z)
    BY ConcatAssociative, SMTT(30)
  <2>3. (w \o u) \o v = w \o (u \o v)
    BY <2>1, <2>2
  <2> QED BY <2>3 DEF u, v
<1>7. w \o SubSeq(d, 1, n) \in Seq(Byte)
  BY <1>3, ConcatProperties
<1> QED
  BY <1>3, <1>4, <1>5, <1>6, <1>7

-----------------------------------------------------------------------------
(* One attempt at a time.                                                  *)

(* Every step keeps the client to one attempt, timer or connection: one    *)
(* case for each operation.                                                *)
LEMMA AttemptStep ==
    ASSUME Inv, Next
    PROVE  Attempt'
<1> USE DEF Attempt, OneAttempt
<1>0. Attempt /\ Typed
  BY DEF Inv
<1>1. CASE Connect
  <2>1. CASE connect_started
    BY <1>0, <2>1 DEF connect_started, connect_with
  <2>2. CASE connect_at_once
    BY <1>0, <2>2 DEF connect_at_once, connect_with
  <2>3. CASE connect_exit
    BY <1>0, <2>3 DEF connect_exit, end
  <2>4. CASE connected
    BY <1>0, <2>4 DEF connected, del_ioev
  <2>5. CASE not_connected
    BY <1>0, <2>5 DEF not_connected, del_ioev, run_after
  <2>6. CASE reconn_cb
    BY <1>0, <2>6 DEF reconn_cb
  <2>7. CASE onconnect_returns
    BY <1>0, <2>7 DEF onconnect_returns, Wanted
  <2>8. CASE onconnect_now_returns
    BY <1>0, <2>8 DEF onconnect_now_returns
  <2> QED BY <1>1, <2>1, <2>2, <2>3, <2>4, <2>5, <2>6, <2>7, <2>8 DEF Connect
<1>2. CASE Read
  <2>1. ASSUME NEW n \in Arrived, read_bytes(n) \/ read_abort(n) PROVE Attempt'
    BY <1>0, <2>1 DEF read_bytes, read_abort, end
  <2>2. CASE read_end \/ parse_reject
    BY <1>0, <2>2 DEF read_end, parse_reject, HaveHead, clean_conn, del_ioev
  <2>3. CASE parse_rest \/ dispatch \/ callback_returns
    BY <1>0, <2>3 DEF parse_rest, dispatch, HaveHead, callback_returns
  <2>4. CASE parse_corrupt \/ callback_crash
    BY <1>0, <2>4 DEF parse_corrupt, callback_crash, end
  <2> QED BY <1>2, <2>1, <2>2, <2>3, <2>4 DEF Read
<1>3. CASE Write
  <2>1. CASE handle_write
    BY <1>0, <2>1 DEF handle_write
  <2>2. CASE WriteSome
    BY <1>0, <2>2 DEF WriteSome, write_some
  <2>3. CASE write_eagain
    BY <1>0, <2>3 DEF write_eagain
  <2>4. CASE write_error
    BY <1>0, <2>4 DEF write_error, clean_conn, del_ioev
  <2>5. CASE write_done
    BY <1>0, <2>5 DEF write_done
  <2> QED BY <1>3, <2>1, <2>2, <2>3, <2>4, <2>5 DEF Write
<1>4. CASE Environment
  BY <1>0, <1>4 DEF Environment, connect_result, server_send, server_close, server_reset,
                    number_reused, Env
<1>5. ASSUME NEW n \in SendLens, send_data(n) PROVE Attempt'
  BY <1>0, <1>5 DEF send_data
<1> QED
  BY <1>1, <1>2, <1>3, <1>4, <1>5 DEF Next

-----------------------------------------------------------------------------
(* What was sent.                                                          *)

(* A step that leaves the output alone.                                    *)
LEMMA SameOut ==
    ASSUME Inv, UNCHANGED <<obuf, wire, accepted>>, pc' # "aborted_write",
           "OUT" \in evs' /\ pc' # "write" => obuf.data # << >>
    PROVE  Out'
BY DEF Inv, Out, OutStream

(* send_data appends one whole message to the buffer and to what was       *)
(* accepted.                                                               *)
LEMMA SendData ==
    ASSUME Inv, NEW n \in SendLens, send_data(n)
    PROVE  Out' /\ accepted' \in Seq(Byte)
<1> DEFINE d == obuf.data
           k == NumSent + 1
           w == Frame(k, n)
<1>1. /\ obuf = [head |-> 0, data |-> d] /\ d \in Seq(Byte) /\ wire \in Seq(Byte)
      /\ accepted \in Seq(Byte) /\ wire \o d = accepted
  BY DEF Inv, Typed, Out, OutStream
<1>2. k \in Nat /\ n \in Nat
  <2>1. ASSUME accepted # << >> PROVE NumSent \in Nat
    <3>1. Len(accepted) \in 1..Len(accepted)
      BY <1>1, <2>1, EmptySeq
    <3>2. accepted[Len(accepted)] \in Byte
      BY <1>1, <3>1, ElementOfSeq
    <3> QED BY <2>1, <3>2 DEF NumSent, Byte
  <2>2. NumSent \in Nat
    BY <2>1 DEF NumSent
  <2> QED BY <2>2, TcpClientAssumption
<1>3. w \in Seq(Byte) /\ Len(w) = HeadLen + n
  BY <1>2, FrameIsSeq
<1>4. obuf' = put(obuf, w) /\ accepted' = accepted \o w /\ wire' = wire /\ pc' = pc
  BY DEF send_data
<1> HIDE DEF d, w
<1>5. obuf' = [head |-> 0, data |-> d \o w]
  BY <1>1, <1>3, <1>4, PutAppends
<1>6. d \o w \in Seq(Byte) /\ accepted \o w \in Seq(Byte) /\ Len(d \o w) = Len(d) + Len(w)
  BY <1>1, <1>3, ConcatProperties
<1>7. d \o w # << >>
  <2>1. Len(d) \in Nat /\ Len(w) \in Nat /\ Len(w) >= 1
    BY <1>1, <1>2, <1>3, LenProperties, TcpClientAssumption
  <2>2. Len(d \o w) # 0
    BY <1>6, <2>1
  <2> QED BY <2>2, EmptySeq
<1>8. (wire \o d) \o w = wire \o (d \o w)
  <2>1. \A x, y, z \in Seq(Byte) : (x \o y) \o z = x \o (y \o z)
    BY ConcatAssociative, SMTT(30)
  <2>2. wire \in Seq(Byte) /\ d \in Seq(Byte) /\ w \in Seq(Byte)
    BY <1>1, <1>3
  <2> QED BY <2>1, <2>2
<1>9. obuf'.data = d \o w
  BY <1>5
<1>10. wire' \o obuf'.data = accepted'
  BY <1>1, <1>4, <1>8, <1>9
<1>11. pc' # "aborted_write"
  BY <1>4 DEF Inv, Out, OutStream
<1> QED
  BY <1>4, <1>5, <1>6, <1>7, <1>9, <1>10, <1>11 DEF Out, OutStream

(* A write moves the front of the buffer to the wire.                      *)
LEMMA WriteSomeOut ==
    ASSUME Inv, NEW n \in 1..length(obuf), write_some(n)
    PROVE  Out' /\ wire' \in Seq(Byte)
<1> DEFINE d == obuf.data
           u == SubSeq(d, 1, n)
           v == SubSeq(d, n + 1, Len(d))
<1>1. /\ obuf = [head |-> 0, data |-> d] /\ d \in Seq(Byte) /\ wire \in Seq(Byte)
      /\ wire \o d = accepted
  BY DEF Inv, Typed, Out, OutStream
<1>2. n \in 1..Len(d)
  BY DEF length
<1>3. (wire \o u) \o v = wire \o d /\ wire \o u \in Seq(Byte) /\ v \in Seq(Byte)
  BY <1>1, <1>2, SplitStream
<1>4. wire' = wire \o u /\ accepted' = accepted /\ pc = "write" /\ pc' = pc /\ evs' = evs
  BY DEF write_some
<1>5. obuf' = [head |-> 0, data |-> v]
  BY <1>1 DEF write_some, Written, pop, adjust, length
<1> HIDE DEF d, u, v
<1>6. obuf'.data = v
  BY <1>5
<1>7. wire' \o obuf'.data = accepted'
  BY <1>1, <1>3, <1>4, <1>6
<1> QED
  BY <1>3, <1>4, <1>5, <1>6, <1>7 DEF Out, OutStream

(* Length zero means no data.                                              *)
LEMMA EmptyData ==
    ASSUME Inv
    PROVE  (Len(obuf.data) > 0 <=> obuf.data # << >>) /\ (Len(obuf.data) = 0 <=> obuf.data = << >>)
<1>1. obuf.data \in Seq(Byte)
  BY DEF Inv, Out
<1> QED
  BY <1>1, EmptySeq, LenProperties

(* Every step keeps the output stream; only send_data and the write move   *)
(* bytes.                                                                  *)
LEMMA OutStep ==
    ASSUME Inv, Next
    PROVE  Out'
<1>0. /\ pc # "aborted_write" /\ obuf.head = 0
      /\ "OUT" \in evs /\ pc # "write" => obuf.data # << >>
  <2>1. obuf = [head |-> 0, data |-> obuf.data]
    BY DEF Inv, Out
  <2>2. obuf.head = 0
    BY <2>1
  <2> QED BY <2>2 DEF Inv, Out, OutStream
<1>1. CASE Connect
  <2>1. CASE connect_started \/ connect_at_once
    BY <1>0, <2>1, SameOut DEF connect_started, connect_at_once, connect_with, bufVars
  <2>2. CASE connect_exit
    BY <1>0, <2>2, SameOut DEF connect_exit, end
  <2>3. CASE connected \/ not_connected \/ reconn_cb
    BY <1>0, <2>3, SameOut DEF connected, not_connected, reconn_cb, del_ioev, bufVars
  <2>4. CASE onconnect_returns
    BY <1>0, <2>4, SameOut, EmptyData DEF onconnect_returns, Wanted, length, bufVars
  <2>5. CASE onconnect_now_returns
    BY <1>0, <2>5, SameOut DEF onconnect_now_returns, bufVars
  <2> QED BY <1>1, <2>1, <2>2, <2>3, <2>4, <2>5 DEF Connect
<1>2. CASE Read
  <2>1. ASSUME NEW n \in Arrived, read_bytes(n) \/ read_abort(n) PROVE Out'
    BY <1>0, <2>1, SameOut DEF read_bytes, read_abort, end
  <2>2. CASE read_end \/ parse_reject
    BY <1>0, <2>2, SameOut DEF read_end, parse_reject, clean_conn, del_ioev, bufVars
  <2>3. CASE parse_rest \/ dispatch \/ callback_returns
    BY <1>0, <2>3, SameOut DEF parse_rest, dispatch, HaveHead, callback_returns
  <2>4. CASE parse_corrupt \/ callback_crash
    BY <1>0, <2>4, SameOut DEF parse_corrupt, HaveHead, callback_crash, end
  <2> QED BY <1>2, <2>1, <2>2, <2>3, <2>4 DEF Read
<1>3. CASE Write
  <2>1. CASE handle_write
    <3>1. obuf.head = 0 /\ length(obuf) > 0
      BY <1>0, <2>1, EmptyData DEF handle_write, length
    <3> QED BY <1>0, <2>1, <3>1, SameOut DEF handle_write, bufVars
  <2>2. CASE WriteSome
    BY <2>2, WriteSomeOut DEF WriteSome
  <2>3. CASE write_eagain
    BY <1>0, <2>3, SameOut, EmptyData DEF write_eagain, length, bufVars
  <2>4. CASE write_error
    BY <1>0, <2>4, SameOut DEF write_error, clean_conn, del_ioev, bufVars
  <2>5. CASE write_done
    BY <1>0, <2>5, SameOut DEF write_done, bufVars
  <2> QED BY <1>3, <2>1, <2>2, <2>3, <2>4, <2>5 DEF Write
<1>4. CASE Environment
  BY <1>0, <1>4, SameOut DEF Environment, connect_result, server_send, server_close,
                             server_reset, number_reused, Env, bufVars
<1>5. ASSUME NEW n \in SendLens, send_data(n) PROVE Out'
  BY <1>5, SendData
<1> QED
  BY <1>1, <1>2, <1>3, <1>4, <1>5 DEF Next

-----------------------------------------------------------------------------
(* What was received.                                                      *)

(* What is known of a message the server has sent.                         *)
LEMMA ServerMsg ==
    ASSUME Inv, NEW k \in 1..Len(server)
    PROVE  /\ k \in Nat /\ k # 0 /\ server[k] \in ServerMsgs
           /\ server[k].length \in Nat
<1>1. server \in Seq(ServerMsgs) /\ Len(server) \in Nat
  BY LenProperties DEF Inv, Typed
<1>2. server[k] \in ServerMsgs
  BY <1>1, ElementOfSeq
<1> QED
  BY <1>1, <1>2, TcpClientAssumption

(* A message sent by the server: the bytes before it keep their meaning.   *)
LEMMA ServerSend ==
    ASSUME Inv, NEW m \in ServerMsgs, server_send(m)
    PROVE  Typed' /\ In'
<1> DEFINE k == Len(server) + 1
           w == Frame(k, m.length)
<1>1. server' = Append(server, m) /\ instream' = instream \o w
  BY DEF server_send
<1>2. /\ server \in Seq(ServerMsgs) /\ instream \in Seq(Byte) /\ Len(server) \in Nat
      /\ Len(instream) \in Nat
  BY LenProperties DEF Inv, Typed
<1>3. /\ server' \in Seq(ServerMsgs) /\ Len(server') = k
      /\ \A i \in 1..Len(server) : server'[i] = server[i]
  BY <1>1, <1>2, AppendProperties
<1>4. k \in Nat /\ m.length \in Nat /\ HeadLen \in Nat
  BY <1>2, TcpClientAssumption
<1>5. /\ w \in Seq(Byte) /\ Len(w) = HeadLen + m.length
      /\ \A i \in 1..(HeadLen + m.length) : w[i] = <<k, i>>
  BY <1>4, FrameIsSeq DEF Frame
<1> HIDE DEF w
<1>6. /\ instream' \in Seq(Byte) /\ Len(instream') = Len(instream) + Len(w)
      /\ \A i \in 1..(Len(instream) + Len(w)) :
            instream'[i] = IF i <= Len(instream) THEN instream[i] ELSE w[i - Len(instream)]
  BY <1>1, <1>2, <1>5, ConcatProperties
<1>7. \A i \in 1..Len(instream') : instream'[i][1] \in 1..Len(server')
  <2> SUFFICES ASSUME NEW i \in 1..Len(instream') PROVE instream'[i][1] \in 1..Len(server')
    OBVIOUS
  <2>1. CASE i <= Len(instream)
    <3>1. i \in 1..Len(instream) /\ instream'[i] = instream[i]
      BY <1>2, <1>6, <2>1
    <3>2. instream[i][1] \in 1..Len(server)
      BY <3>1 DEF Inv, Typed
    <3>3. \A j \in 1..Len(server) : j \in 1..k
      BY <1>2
    <3> QED BY <1>3, <3>1, <3>2, <3>3
  <2>2. CASE ~(i <= Len(instream))
    <3>1. i - Len(instream) \in 1..(HeadLen + m.length) /\ i \in 1..(Len(instream) + Len(w))
      BY <1>2, <1>4, <1>5, <1>6, <2>2
    <3>2. instream'[i] = w[i - Len(instream)]
      BY <1>6, <2>2, <3>1
    <3>3. instream'[i][1] = k /\ k \in 1..k
      BY <1>4, <1>5, <3>1, <3>2
    <3> QED BY <1>3, <3>3
  <2> QED BY <2>1, <2>2
<1>8. Typed'
  BY <1>3, <1>6, <1>7 DEF server_send, Env, bufVars, Inv, Typed
<1>9. In'
  <2>1. UNCHANGED <<pc, tidy, ibuf, cur>>
    BY DEF server_send, Env, bufVars
  <2>2. \A j \in 1..Len(server) : j \in 1..Len(server') /\ server'[j] = server[j]
    BY <1>2, <1>3
  <2>3. \A j \in 1..Len(server) : Body(j)' = Body(j)
    BY <2>2 DEF Body
  <2>4. AllFit' => AllFit
    BY <2>2 DEF AllFit
  <2> QED BY <2>1, <2>2, <2>3, <2>4 DEF Inv, In
<1> QED
  BY <1>8, <1>9

(* A read that takes exactly one message into an empty ibuf leaves that    *)
(* message in ibuf.                                                        *)
LEMMA ReadBytes ==
    ASSUME Inv, NEW n \in Arrived, read_bytes(n)
    PROVE  Typed' /\ In'
<1> DEFINE w == SubSeq(instream, 1, n)
<1>1. /\ instream \in Seq(Byte) /\ Len(instream) \in Nat /\ n \in 1..Len(instream)
      /\ 1 \in 1..Len(instream)
  BY LenProperties DEF read_bytes, Arrived, Inv, Typed
<1>2. w \in Seq(Byte) /\ Len(w) = n /\ SubSeq(instream, n + 1, Len(instream)) \in Seq(Byte)
  <2>1. << >> \in Seq(Byte)
    BY EmptySeq
  <2> QED BY <1>1, <2>1, SplitStream
<1>3. /\ pc' = "parse" /\ instream' = SubSeq(instream, n + 1, Len(instream))
      /\ ibuf' = put(ibuf, w) /\ (tidy' = (tidy /\ OneMessage(n)))
      /\ UNCHANGED <<net_ok, timer, evs, accepted, wire, server>>
  BY DEF read_bytes
<1>4. \A i \in 1..Len(instream') : instream'[i][1] \in 1..Len(server)
  <2>1. n \in Nat /\ \A i \in (n + 1)..Len(instream) : instream[i] \in Byte
    <3>1. \A i \in (n + 1)..Len(instream) : i \in 1..Len(instream)
      BY <1>1
    <3> QED BY <1>1, <3>1, ElementOfSeq
  <2>2. /\ Len(instream') = IF n + 1 <= Len(instream) THEN Len(instream) - (n + 1) + 1 ELSE 0
        /\ \A i \in 1..(Len(instream) - (n + 1) + 1) : instream'[i] = instream[n + 1 + i - 1]
    BY <1>1, <1>3, <2>1, SubSeqProperties
  <2>3. ASSUME NEW i \in 1..Len(instream') PROVE instream'[i][1] \in 1..Len(server)
    <3>1. i \in 1..(Len(instream) - (n + 1) + 1) /\ n + 1 + i - 1 \in 1..Len(instream)
      BY <1>1, <2>1, <2>2
    <3> QED BY <2>2, <3>1 DEF Inv, Typed
  <2> QED BY <2>3
<1>5. Typed'
  <2>1. tidy' \in BOOLEAN
    BY <1>3
  <2> QED BY <1>2, <1>3, <1>4, <2>1 DEF Inv, Typed, Pcs
<1>6. In'
  <2> SUFFICES ASSUME tidy' PROVE In'
    BY DEF In
  <2>1. ibuf = [head |-> 0, data |-> << >>]
    BY <1>3 DEF OneMessage
  <2>2. PICK k \in 1..Len(server) : w = Frame(k, server[k].length)
    <3>1. instream[1][1] \in 1..Len(server)
      BY <1>1 DEF Inv, Typed
    <3> QED BY <1>3, <3>1 DEF OneMessage
  <2>3. ibuf'.data = << >> \o w
    <3>1. ibuf' = [head |-> 0, data |-> << >> \o w]
      BY <1>2, <1>3, <2>1, PutAppends, EmptySeq
    <3> QED BY <3>1
  <2>4. << >> \o w = w
    BY <1>2, ConcatEmptySeq
  <2> HIDE DEF w
  <2>5. ibuf'.data = Frame(k, server'[k].length) /\ k \in 1..Len(server')
    BY <1>3, <2>2, <2>3, <2>4
  <2> QED BY <1>3, <2>5 DEF In, Frame
<1> QED
  BY <1>5, <1>6

(* The assert on ibuf's room cannot fail for one message into an empty     *)
(* ibuf, unless the message is larger than ibuf.                           *)
LEMMA ReadAbort ==
    ASSUME Inv, NEW n \in Arrived, read_abort(n)
    PROVE  ~tidy' \/ ~AllFit
<1> SUFFICES ASSUME tidy', AllFit PROVE FALSE
  OBVIOUS
<1>1. /\ instream \in Seq(Byte) /\ Len(instream) \in Nat /\ n \in 1..Len(instream)
      /\ 1 \in 1..Len(instream)
  BY LenProperties DEF read_abort, Arrived, Inv, Typed
<1>2. OneMessage(n) /\ n > Cap - Len(ibuf.data)
  BY DEF read_abort, length
<1>3. Len(ibuf.data) = 0
  <2>1. ibuf = [head |-> 0, data |-> << >>]
    BY <1>2 DEF OneMessage
  <2>2. ibuf.data = << >>
    BY <2>1
  <2> QED BY <2>2, EmptySeq
<1>4. PICK k \in 1..Len(server) : SubSeq(instream, 1, n) = Frame(k, server[k].length)
  <2>1. instream[1][1] \in 1..Len(server)
    BY <1>1 DEF Inv, Typed
  <2> QED BY <1>2, <2>1 DEF OneMessage
<1>5. k \in Nat /\ server[k].length \in Nat /\ HeadLen + server[k].length <= Cap
  BY ServerMsg DEF AllFit
<1>6. Len(Frame(k, server[k].length)) = HeadLen + server[k].length
  BY <1>5, FrameIsSeq
<1>7. Len(SubSeq(instream, 1, n)) = n
  <2>1. << >> \in Seq(Byte)
    BY EmptySeq
  <2> QED BY <1>1, <2>1, SplitStream
<1> QED
  BY <1>1, <1>2, <1>3, <1>4, <1>5, <1>6, <1>7, TcpClientAssumption

(* In a tidy parse, the buffer holds one whole message or nothing.         *)
LEMMA TidyParse ==
    ASSUME Inv, tidy, HaveHead
    PROVE  /\ HeadMsg \in 1..Len(server) /\ HeadMsg # 0
           /\ CallbackData(HeadMsg) = Body(HeadMsg)
           /\ pop(ibuf, HeadLen).data = Body(HeadMsg)
<1>0. HeadLen \in Nat /\ HeadLen >= 1
  BY TcpClientAssumption
<1>1. PICK k \in 1..Len(server) : ibuf.data = Frame(k, server[k].length)
  <2>1. ibuf.data # << >>
    BY <1>0, EmptySeq DEF HaveHead, length
  <2> QED BY <2>1 DEF Inv, In, HaveHead
<1> DEFINE n == server[k].length
<1>2. k \in Nat /\ k # 0 /\ n \in Nat
  BY ServerMsg
<1>3. /\ SubSeq(Frame(k, n), 1, HeadLen) = Frame(k, 0)
      /\ Frame(k, 0)[1][1] = k
      /\ SubSeq(Frame(k, n), HeadLen + 1, HeadLen + n) = [o \in 1..n |-> <<k, HeadLen + o>>]
      /\ Len([o \in 1..n |-> <<k, HeadLen + o>>]) = n
  BY <1>2, FrameParts
<1>4. Len(ibuf.data) = HeadLen + n
  BY <1>1, <1>2, FrameIsSeq
<1>5. HeadMsg = k
  <2>1. SubSeq(ibuf.data, 1, HeadLen) = Frame(k, 0)
    BY <1>1, <1>3
  <2> QED BY <1>3, <2>1 DEF HeadMsg
<1>6. pop(ibuf, HeadLen).data = Body(k)
  <2>1. pop(ibuf, HeadLen).data = SubSeq(ibuf.data, HeadLen + 1, Len(ibuf.data))
    BY DEF pop, length
  <2>2. Body(k) = [o \in 1..n |-> <<k, HeadLen + o>>]
    BY DEF Body
  <2> HIDE DEF n
  <2> QED BY <1>1, <1>3, <1>4, <2>1, <2>2 DEF n
<1>7. Len(Body(k)) = n
  BY <1>3 DEF Body
<1>8. CallbackData(k) = Body(k)
  <2> DEFINE b == pop(ibuf, HeadLen)
  <2>1. b.data = Body(k) /\ Len(b.data) = n
    BY <1>6, <1>7
  <2>2. CallbackData(k) = [o \in 1..n |-> IF o <= Len(b.data) THEN b.data[o] ELSE Junk]
    BY DEF CallbackData, length
  <2> HIDE DEF b
  <2>3. \A o \in 1..n : o <= Len(b.data)
    BY <1>2, <2>1
  <2>4. CallbackData(k) = [o \in 1..n |-> Body(k)[o]]
    BY <2>1, <2>2, <2>3
  <2> QED BY <2>4 DEF Body
<1> QED
  BY <1>2, <1>5, <1>6, <1>8

(* Steps that leave the server's messages alone and read nothing.          *)
LEMMA SameTyped ==
    ASSUME Inv, pc' \in Pcs, net_ok' \in BOOLEAN, timer' \in BOOLEAN, tidy' \in BOOLEAN,
           evs' \subseteq {"CONN", "IN", "OUT"}, accepted' \in Seq(Byte), wire' \in Seq(Byte),
           UNCHANGED server, instream' = << >> \/ instream' = instream
    PROVE  Typed'
<1>1. << >> \in Seq(Byte) /\ Len(<< >>) = 0
  BY EmptySeq
<1>2. CASE instream' = << >>
  BY <1>1, <1>2 DEF Inv, Typed
<1>3. CASE instream' = instream
  BY <1>3 DEF Inv, Typed
<1> QED
  BY <1>2, <1>3

(* A step that leaves the input alone.                                     *)
LEMMA SameIn ==
    ASSUME Inv, UNCHANGED <<ibuf, cur, server, tidy>>,
           pc' = pc \/ pc' \notin {"parse", "callback", "crashed", "corrupt", "aborted_read"}
    PROVE  In'
<1>1. \A k : Body(k)' = Body(k)
  BY DEF Body
<1>2. \A k, n : Frame(k, n)' = Frame(k, n)
  BY DEF Frame
<1>3. AllFit' = AllFit
  BY DEF AllFit
<1> QED
  BY <1>1, <1>2, <1>3 DEF Inv, In

(* Every step keeps the types.                                             *)
LEMMA TypedStep ==
    ASSUME Inv, Next
    PROVE  Typed'
<1>0. /\ pc \in Pcs /\ net_ok \in BOOLEAN /\ timer \in BOOLEAN /\ tidy \in BOOLEAN
      /\ evs \subseteq {"CONN", "IN", "OUT"} /\ accepted \in Seq(Byte) /\ wire \in Seq(Byte)
  BY DEF Inv, Typed
<1>a. {"do_connect", "onclose", "poll", "onconnect", "onconnect_now", "parse", "callback", "write",
       "exited", "aborted_read", "aborted_write", "crashed", "corrupt"} \subseteq Pcs
  BY DEF Pcs, Over
<1>1. CASE Connect
  <2>1. CASE connect_started \/ connect_at_once
    BY <1>0, <1>a, <2>1, SameTyped DEF connect_started, connect_at_once, connect_with, bufVars
  <2>2. CASE connect_exit
    BY <1>0, <1>a, <2>2, SameTyped DEF connect_exit, end
  <2>3. CASE connected \/ not_connected \/ reconn_cb
    BY <1>0, <1>a, <2>3, SameTyped
       DEF connected, not_connected, reconn_cb, del_ioev, run_after, bufVars, netVars
  <2>4. CASE onconnect_returns \/ onconnect_now_returns
    BY <1>0, <1>a, <2>4, SameTyped
       DEF onconnect_returns, onconnect_now_returns, Wanted, bufVars, netVars
  <2> QED BY <1>1, <2>1, <2>2, <2>3, <2>4 DEF Connect
<1>2. CASE Read
  <2>1. ASSUME NEW n \in Arrived, read_bytes(n) PROVE Typed'
    BY <2>1, ReadBytes
  <2>2. ASSUME NEW n \in Arrived, read_abort(n) PROVE Typed'
    <3>1. tidy' \in BOOLEAN
      BY <2>2 DEF read_abort
    <3> QED BY <1>0, <1>a, <2>2, <3>1, SameTyped DEF read_abort, end
  <2>3. CASE read_end \/ parse_reject
    BY <1>0, <1>a, <2>3, SameTyped DEF read_end, parse_reject, clean_conn, del_ioev, bufVars
  <2>4. CASE parse_rest \/ dispatch \/ callback_returns
    BY <1>0, <1>a, <2>4, SameTyped DEF parse_rest, dispatch, callback_returns, netVars
  <2>5. CASE parse_corrupt \/ callback_crash
    BY <1>0, <1>a, <2>5, SameTyped DEF parse_corrupt, callback_crash, end
  <2> QED BY <1>2, <2>1, <2>2, <2>3, <2>4, <2>5 DEF Read
<1>3. CASE Write
  <2>1. CASE handle_write \/ write_eagain \/ write_done
    BY <1>0, <1>a, <2>1, SameTyped DEF handle_write, write_eagain, write_done, bufVars, netVars
  <2>2. CASE WriteSome
    <3>1. PICK n \in 1..length(obuf) : write_some(n)
      BY <2>2 DEF WriteSome
    <3>2. wire' \in Seq(Byte)
      BY <3>1, WriteSomeOut
    <3> QED BY <1>0, <3>1, <3>2, SameTyped DEF write_some, netVars
  <2>3. CASE write_error
    BY <1>0, <1>a, <2>3, SameTyped DEF write_error, clean_conn, del_ioev, bufVars
  <2> QED BY <1>3, <2>1, <2>2, <2>3 DEF Write
<1>4. CASE Environment
  <2>1. ASSUME NEW m \in ServerMsgs, server_send(m) PROVE Typed'
    BY <2>1, ServerSend
  <2>2. ASSUME NEW r \in {"up", "refused"}, connect_result(r) PROVE Typed'
    BY <1>0, <2>2, SameTyped DEF connect_result, Env, bufVars
  <2>3. CASE server_close \/ server_reset \/ number_reused
    BY <1>0, <2>3, SameTyped DEF server_close, server_reset, number_reused, Env, bufVars, netVars
  <2> QED BY <1>4, <2>1, <2>2, <2>3 DEF Environment
<1>5. ASSUME NEW n \in SendLens, send_data(n) PROVE Typed'
  <2>1. accepted' \in Seq(Byte)
    BY <1>5, SendData
  <2> QED BY <1>0, <1>5, <2>1, SameTyped DEF send_data, netVars
<1> QED
  BY <1>1, <1>2, <1>3, <1>4, <1>5 DEF Next

(* Every step keeps the input: one case for each operation.                *)
LEMMA InStep ==
    ASSUME Inv, Next
    PROVE  In'
<1>1. CASE Connect
  <2>1. CASE connect_started \/ connect_at_once
    BY <2>1, SameIn DEF connect_started, connect_at_once, connect_with, bufVars
  <2>2. CASE connect_exit
    BY <2>2, SameIn DEF connect_exit, end
  <2>3. CASE connected \/ not_connected \/ reconn_cb
    BY <2>3, SameIn DEF connected, not_connected, reconn_cb, bufVars, netVars
  <2>4. CASE onconnect_returns \/ onconnect_now_returns
    BY <2>4, SameIn DEF onconnect_returns, onconnect_now_returns, bufVars, netVars
  <2> QED BY <1>1, <2>1, <2>2, <2>3, <2>4 DEF Connect
<1>2. CASE Read
  <2>1. ASSUME NEW n \in Arrived, read_bytes(n) PROVE In'
    BY <2>1, ReadBytes
  <2>2. ASSUME NEW n \in Arrived, read_abort(n) PROVE In'
    <3>1. pc' = "aborted_read" /\ server' = server
      BY <2>2 DEF read_abort, end
    <3>2. AllFit' = AllFit
      BY <3>1 DEF AllFit
    <3> QED BY <2>2, <3>1, <3>2, ReadAbort DEF In
  <2>3. CASE read_end
    BY <2>3, SameIn DEF read_end, clean_conn, bufVars
  <2>4. CASE parse_reject
    BY <2>4 DEF parse_reject, clean_conn, In
  <2>5. CASE parse_rest
    BY <2>5 DEF parse_rest, In
  <2>6. CASE parse_corrupt
    BY <2>6, TidyParse DEF parse_corrupt, In
  <2>7. CASE dispatch
    <3> SUFFICES ASSUME tidy' PROVE In'
      BY DEF In
    <3>1. PICK k \in 1..Len(server) : k = HeadMsg
      BY <2>7, TidyParse DEF dispatch
    <3>2. /\ cur' = [msg |-> k, data |-> CallbackData(k)] /\ ibuf' = pop(ibuf, HeadLen)
          /\ pc' = "callback" /\ server' = server
      BY <2>7, <3>1 DEF dispatch, netVars
    <3>3. CallbackData(k) = Body(k) /\ pop(ibuf, HeadLen).data = Body(k)
      BY <2>7, <3>1, TidyParse DEF dispatch
    <3>4. Body(k)' = Body(k)
      BY <3>2 DEF Body
    <3>5. cur'.msg = k /\ cur'.data = Body(k) /\ ibuf'.data = Body(k)
      BY <3>2, <3>3
    <3> QED BY <3>2, <3>4, <3>5 DEF In
  <2>8. CASE callback_returns
    <3> SUFFICES ASSUME tidy' PROVE ibuf'.data = << >>
      BY <2>8 DEF callback_returns, In
    <3>1. PICK k \in 1..Len(server) : k = cur.msg /\ ibuf.data = Body(k)
      BY <2>8 DEF callback_returns, Inv, In
    <3> DEFINE n == server[k].length
    <3>2. k \in Nat /\ n \in Nat
      BY ServerMsg
    <3>3. Len(Body(k)) = n
      BY <3>2, FrameParts DEF Body
    <3> HIDE DEF n
    <3>4. ibuf' = pop(ibuf, n)
      BY <2>8, <3>1 DEF callback_returns, n
    <3>5. ibuf'.data = SubSeq(ibuf.data, n + 1, n)
      BY <3>1, <3>3, <3>4 DEF pop, length
    <3> QED BY <3>2, <3>5, SubSeqEmpty
  <2>9. CASE callback_crash
    <3> SUFFICES ASSUME tidy' PROVE FALSE
      BY DEF In
    <3>1. PICK k \in 1..Len(server) : k = cur.msg /\ ibuf.data = Body(k)
      BY <2>9 DEF callback_crash, Inv, In
    <3>2. k \in Nat /\ server[k].length \in Nat
      BY ServerMsg
    <3>3. Len(Body(k)) = server[k].length
      BY <3>2, FrameParts DEF Body
    <3> QED BY <2>9, <3>1, <3>2, <3>3 DEF callback_crash, length
  <2> QED BY <1>2, <2>1, <2>2, <2>3, <2>4, <2>5, <2>6, <2>7, <2>8, <2>9 DEF Read
<1>3. CASE Write
  <2>1. CASE handle_write \/ write_eagain \/ write_done
    BY <2>1, SameIn DEF handle_write, write_eagain, write_done, bufVars, netVars
  <2>2. CASE WriteSome
    BY <2>2, SameIn DEF WriteSome, write_some, netVars
  <2>3. CASE write_error
    BY <2>3, SameIn DEF write_error, clean_conn, bufVars
  <2> QED BY <1>3, <2>1, <2>2, <2>3 DEF Write
<1>4. CASE Environment
  <2>1. ASSUME NEW m \in ServerMsgs, server_send(m) PROVE In'
    BY <2>1, ServerSend
  <2>2. ASSUME NEW r \in {"up", "refused"}, connect_result(r) PROVE In'
    BY <2>2, SameIn DEF connect_result, Env, bufVars
  <2>3. CASE server_close \/ server_reset \/ number_reused
    BY <2>3, SameIn DEF server_close, server_reset, number_reused, Env, bufVars, netVars
  <2> QED BY <1>4, <2>1, <2>2, <2>3 DEF Environment
<1>5. ASSUME NEW n \in SendLens, send_data(n) PROVE In'
  BY <1>5, SameIn DEF send_data, netVars
<1> QED
  BY <1>1, <1>2, <1>3, <1>4, <1>5 DEF Next

-----------------------------------------------------------------------------
(* The invariant holds when the constructor calls do_connect.              *)
LEMMA InitInv == Init => Inv
<1> SUFFICES ASSUME Init PROVE Inv
  OBVIOUS
<1>1. << >> \in Seq(Byte) /\ << >> \in Seq(ServerMsgs) /\ Len(<< >>) = 0 /\ << >> \o << >> = << >>
  BY EmptySeq, ConcatEmptySeq
<1>2. Typed
  <2>1. net_ok \in BOOLEAN /\ timer \in BOOLEAN /\ tidy \in BOOLEAN
    BY DEF Init
  <2> QED BY <1>1, <2>1 DEF Init, Typed, Pcs
<1>3. obuf.data = << >>
  BY DEF Init
<1>4. Out
  BY <1>1, <1>3 DEF Init, Out, OutStream
<1>5. Attempt /\ In
  BY DEF Init, Attempt, OneAttempt, In
<1> QED
  BY <1>2, <1>4, <1>5 DEF Inv

(* The inductive invariant holds in every reachable state of tcp_client,   *)
(* for any messages, any buffer capacity and any number of reconnections.  *)
THEOREM ClientInvariant == Spec => []Inv
<1>1. Init => Inv
  BY InitInv
<1>2. Inv /\ [Next]_vars => Inv'
  <2> SUFFICES ASSUME Inv, [Next]_vars PROVE Inv'
    OBVIOUS
  <2>1. CASE Next
    BY <2>1, TypedStep, AttemptStep, OutStep, InStep DEF Inv
  <2>2. CASE UNCHANGED vars
    BY <2>2 DEF vars, bufVars, netVars, Inv, Typed, Attempt, OneAttempt, Out, OutStream, In, Body, AllFit
  <2> QED BY <2>1, <2>2
<1> QED
  BY <1>1, <1>2, PTL DEF Spec

(* At any time tcp_client has one connection, one attempt to connect or    *)
(* one timer to try again, never two, over do_connect, clean_conn,         *)
(* connection_cb and reconn_cb (tcp_client.cc).                            *)
THEOREM OneAttemptAtATime == Spec => []OneAttempt
<1>1. Inv => OneAttempt
  BY DEF Inv, Attempt
<1> QED
  BY <1>1, ClientInvariant, PTL

(* What handle_write has written over all connections and what waits in    *)
(* obuf are exactly the messages for which send_data returned 0, and       *)
(* handle_write's assert never fails, although obuf outlives the           *)
(* connections.                                                            *)
THEOREM NothingLostOrSentTwice == Spec => []OutStream
<1>1. Inv => OutStream
  BY DEF Inv, Out
<1> QED
  BY <1>1, ClientInvariant, PTL

(* As long as every read returns one message, and no message is larger     *)
(* than ibuf, handle_read gives each callback the whole body of its        *)
(* message and none of its asserts fails: for every message length,        *)
(* including a body of length zero.                                        *)
THEOREM TidyInputIsFramed == Spec => []InFraming
<1>1. Inv => InFraming
  BY DEF Inv, In, InFraming, Framing
<1> QED
  BY <1>1, ClientInvariant, PTL
=============================================================================
