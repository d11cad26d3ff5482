--------------------------- MODULE TcpConnProofs ---------------------------
(***************************************************************************)
(* Proofs about TcpConn, for any messages (malformed ones included), any   *)
(* capacities of the pool's buffers, any limit on the length of a message, *)
(* and any number of connections, messages and sends.                      *)
(*                                                                         *)
(* InFraming is about one callback; what makes it inductive is that at any *)
(* time the bytes in ibuf and the bytes not yet read are together a        *)
(* stretch of what peers have sent (Stream) that starts with the head of   *)
(* message ncb + 1.  The stretch is described by its first byte and by     *)
(* which byte follows which (Succ), and not as a concatenation of          *)
(* messages, so that no recursion over the messages is needed: that its    *)
(* first bytes are those of one message is then proved from the least      *)
(* place where they are not (WithinFrame), taking a whole message off the  *)
(* front leaves a stretch again (DropFrame), and so does a reset that      *)
(* loses its end (StreamPrefix).  Ends, that the stretch goes to the last  *)
(* byte sent, is needed for the next message a peer sends, and is given up *)
(* when the connection is reset.                                           *)
(*                                                                         *)
(* On the output side obuf.head is the trace a failed send leaves.  Out    *)
(* claims the stream only while it is zero, and the registration for       *)
(* EPOLLOUT in every state but inside handle_write.                        *)
(***************************************************************************)
EXTENDS TcpConn, SequenceTheorems, WellFoundedInduction, TLAPS

(* A byte: the number of its message and its place in it.                  *)
Byte == Nat \X Nat
(* A buffer.                                                               *)
Buf == [cap : Nat, head : Nat, data : Seq(Byte)]
Pcs == {"closed", "poll", "read", "parse", "callback", "write", "aborted"}

(* The type invariant.                                                     *)
Typed ==
    /\ pc \in Pcs
    /\ rn \in Nat /\ ncb \in Nat /\ nsends \in Nat
    /\ ibuf \in Buf /\ obuf \in Buf
    /\ epmask \subseteq {"IN", "OUT"}
    /\ accepted \in Seq(Byte) /\ wire \in Seq(Byte) /\ instream \in Seq(Byte)
    /\ peer \in Seq(PeerMsgs)
    /\ pstate \in {"closed", "open", "fin", "rst"}

(* A buffer is not filled beyond its capacity.                             *)
Fits(b) == b.head + Len(b.data) <= b.cap

(* The byte that follows byte b in what peers have sent.                   *)
FrameLen(k) == HeadLen + BodyLen(peer[k])
Succ(b) == IF b[2] < FrameLen(b[1]) THEN <<b[1], b[2] + 1>> ELSE <<b[1] + 1, 1>>

(* s is a stretch of that stream and starts with message k + 1; if nothing *)
(* was lost, it ends with the last byte sent.                              *)
Stream(s, k) ==
    /\ s \in Seq(Byte) /\ k \in Nat
    /\ s # << >> => s[1] = <<k + 1, 1>>
    /\ \A i \in 1..Len(s) : s[i][1] \in 1..Len(peer)
    /\ \A i \in 1..Len(s) : i + 1 \in 1..Len(s) => s[i + 1] = Succ(s[i])
Ends(s, k) ==
    IF s = << >> THEN k = Len(peer) ELSE s[Len(s)] = <<Len(peer), FrameLen(Len(peer))>>

(* What is left in ibuf once the callback in course returns.               *)
Pending == IF pc = "callback" THEN SubSeq(ibuf.data, cur.length + 1, Len(ibuf.data)) ELSE ibuf.data

(* The input: what the bytes on the way are, what the callback has, and    *)
(* what ibuf is between the operations.                                    *)
In ==
    pc # "aborted" =>
        /\ Stream(Pending \o instream, ncb)
        /\ pstate # "rst" => Ends(Pending \o instream, ncb)
        /\ pc = "callback" =>
              /\ ncb \in 1..Len(peer) /\ cur = peer[ncb]
              /\ cur.length \in Nat /\ cur.length <= Len(ibuf.data)
              /\ cbdata = Body(ncb, cur.length)
        /\ pc \in {"closed", "poll", "read", "write"} => ibuf.head = 0
        /\ pc = "read" => rn <= ibuf.cap - Len(ibuf.data)
        /\ pc = "read" /\ pstate # "rst" => rn <= Len(instream)
        /\ pc # "read" => ibuf = NoBuf \/ ibuf.data # << >>
        /\ pc \in {"poll", "write"} /\ Len(ibuf.data) >= HeadLen => ~Complete(NextHead)
        /\ pc = "closed" => ibuf = NoBuf /\ pstate # "rst"

(* The output: what has been written and waits is what was accepted, and   *)
(* EPOLLOUT is registered when something waits.                            *)
Out ==
    /\ pc = "closed" => obuf = NoBuf /\ wire = << >> /\ accepted = << >>
    /\ obuf.head = 0 => wire \o obuf.data = accepted
    /\ pc \in {"poll", "read", "parse", "callback"} => ("OUT" \in epmask <=> obuf.data # << >>)
    /\ pc = "write" => "OUT" \in epmask

Inv == Typed /\ Fits(ibuf) /\ Fits(obuf) /\ In /\ Out /\ InFraming

-----------------------------------------------------------------------------
(* A nonempty set of natural numbers has a least element.                  *)
LEMMA LeastNatural ==
    ASSUME NEW S, S \subseteq Nat, S # {}
    PROVE  \E n \in S : \A m \in S : n <= m
<1>1. IsWellFoundedOn(OpToRel(<, Nat), Nat)
  BY NatLessThanWellFounded
<1>2. PICK n \in S : \A m \in S : ~(<<m, n>> \in OpToRel(<, Nat))
  BY <1>1, WFMin
<1>3. ASSUME NEW m \in S, m < n PROVE FALSE
  <2>1. <<m, n>> \in OpToRel(<, Nat)
    BY <1>3 DEF OpToRel
  <2> QED BY <1>2, <2>1
<1> QED
  BY <1>3

(* A function on 1..n is a sequence of length n.                           *)
LEMMA FunctionIsSeq ==
    ASSUME NEW S, NEW n \in Nat, NEW f \in [1..n -> S]
    PROVE  f \in Seq(S) /\ Len(f) = n
<1>1. f \in Seq(S)
  BY SeqDef
<1>2. Len(f) \in Nat /\ DOMAIN f = 1..Len(f)
  BY <1>1, LenProperties
<1>3. 1..Len(f) = 1..n
  BY <1>2
<1>4. Len(f) = n
  BY <1>2, <1>3
<1> QED
  BY <1>1, <1>4

(* Moving the first n bytes of d to the end of w loses and repeats         *)
(* nothing.                                                                *)
LEMMA SplitStream ==
    ASSUME NEW w \in Seq(Byte), NEW d \in Seq(Byte), NEW n \in 1..Len(d)
    PROVE  /\ (w \o SubSeq(d, 1, n)) \o SubSeq(d, n + 1, Len(d)) = w \o d
           /\ w \o SubSeq(d, 1, n) \in Seq(Byte)
           /\ SubSeq(d, n + 1, Len(d)) \in Seq(Byte)
           /\ SubSeq(d, 1, n) \in Seq(Byte) /\ Len(SubSeq(d, 1, n)) = n
<1>1. Len(d) \in Nat /\ n \in Nat /\ n <= Len(d) /\ 1 <= n
  BY LenProperties
<1>2. \A i \in 1..Len(d) : d[i] \in Byte
  BY ElementOfSeq
<1>3. SubSeq(d, 1, n) \in Seq(Byte) /\ Len(SubSeq(d, 1, n)) = n
  BY <1>1, <1>2, SubSeqProperties
<1>4. SubSeq(d, n + 1, Len(d)) \in Seq(Byte)
  <2>1. \A i \in (n + 1)..Len(d) : d[i] \in Byte
    BY <1>1, <1>2
  <2> QED BY <1>1, <2>1, SubSeqProperties
<1>5. SubSeq(d, 1, n) \o SubSeq(d, n + 1, Len(d)) = d
  <2>1. 1 \in 1..(Len(d) + 1) /\ n \in (1 - 1)..Len(d) /\ Len(d) \in n..Len(d)
    BY <1>1
  <2>2. SubSeq(d, 1, n) \o SubSeq(d, n + 1, Len(d)) = SubSeq(d, 1, Len(d))
    BY <2>1, ConcatAdjacentSubSeq
  <2> QED BY <2>2, SubSeqFull
<1>6. (w \o SubSeq(d, 1, n)) \o SubSeq(d, n + 1, Len(d))
        = w \o (SubSeq(d, 1, n) \o SubSeq(d, n + 1, Len(d)))
  <2> DEFINE u == SubSeq(d, 1, n)
             v == SubSeq(d, n + 1, Len(d))
  <2> HIDE DEF u, v
  <2>1. u \in Seq(Byte) /\ v \in Seq(Byte)
    BY <1>3, <1>4 DEF u, v
  <2>2. \A x, y, z \in Seq(Byte) : (x \o y) \o z = x \o (y \o z)
    BY ConcatAssociative, SMTT(30)
  <2>3. (w \o u) \o v = w \o (u \o v)
    BY <2>1, <2>2
  <2> QED BY <2>3 DEF u, v
<1>7. w \o SubSeq(d, 1, n) \in Seq(Byte)
  BY <1>3, ConcatProperties
<1> QED
  BY <1>3, <1>4, <1>5, <1>6, <1>7

(* The bytes of a message, as a sequence.                                  *)
LEMMA FrameIsSeq ==
    ASSUME NEW k \in Nat, NEW n \in Nat
    PROVE  Frame(k, n) \in Seq(Byte) /\ Len(Frame(k, n)) = HeadLen + n
<1>1. HeadLen + n \in Nat
  BY TcpConnAssumption
<1>2. Frame(k, n) \in [1..(HeadLen + n) -> Byte]
  BY <1>1 DEF Frame, Byte
<1> QED
  BY <1>1, <1>2, FunctionIsSeq


(* The bytes of a body, as a sequence.                                     *)
LEMMA BodyIsSeq ==
    ASSUME NEW k \in Nat, NEW n \in Nat
    PROVE  Body(k, n) \in Seq(Byte) /\ Len(Body(k, n)) = n
<1>1. \A o \in 1..n : <<k, HeadLen + o>> \in Byte
  BY TcpConnAssumption DEF Byte
<1>2. Body(k, n) \in [1..n -> Byte]
  BY <1>1 DEF Body
<1> QED
  BY <1>2, FunctionIsSeq

(* A message is its head and then its body.                                *)
LEMMA HeadThenBody ==
    ASSUME NEW k \in Nat, NEW n \in Nat
    PROVE  /\ Frame(k, 0) \o Body(k, n) = Frame(k, n)
           /\ SubSeq(Frame(k, 0), 1, HeadLen) = Frame(k, 0)
           /\ SubSeq(Frame(k, n), HeadLen + 1, HeadLen + n) = Body(k, n)
<1> DEFINE h == Frame(k, 0)
           b == Body(k, n)
           f == Frame(k, n)
<1>0. HeadLen \in Nat /\ HeadLen >= 1
  BY TcpConnAssumption
<1>1. h \in Seq(Byte) /\ Len(h) = HeadLen /\ \A i \in 1..HeadLen : h[i] = <<k, i>>
  BY <1>0, FrameIsSeq DEF Frame
<1>2. b \in Seq(Byte) /\ Len(b) = n /\ \A i \in 1..n : b[i] = <<k, HeadLen + i>>
  BY BodyIsSeq DEF Body
<1>3. f \in Seq(Byte) /\ Len(f) = HeadLen + n /\ \A i \in 1..(HeadLen + n) : f[i] = <<k, i>>
  BY FrameIsSeq DEF Frame
<1> HIDE DEF h, b, f
<1>4. h \o b = f
  <2>1. /\ h \o b \in Seq(Byte) /\ Len(h \o b) = HeadLen + n
        /\ \A i \in 1..(HeadLen + n) : (h \o b)[i] = IF i <= HeadLen THEN h[i] ELSE b[i - HeadLen]
    BY <1>1, <1>2, ConcatProperties
  <2>2. ASSUME NEW i \in 1..(HeadLen + n) PROVE (h \o b)[i] = f[i]
    <3>1. CASE i <= HeadLen
      <4>1. i \in 1..HeadLen
        BY <1>0, <3>1
      <4> QED BY <1>1, <1>3, <2>1, <3>1, <4>1
    <3>2. CASE ~(i <= HeadLen)
      <4>1. i - HeadLen \in 1..n /\ HeadLen + (i - HeadLen) = i
        BY <1>0, <3>2
      <4> QED BY <1>2, <1>3, <2>1, <3>2, <4>1
    <3> QED BY <3>1, <3>2
  <2> QED BY <1>3, <2>1, <2>2, SeqEqual
<1>5. SubSeq(h, 1, HeadLen) = h
  BY <1>1, SubSeqFull
<1>6. SubSeq(f, HeadLen + 1, HeadLen + n) = b
  <2> DEFINE s == SubSeq(f, HeadLen + 1, HeadLen + n)
  <2>1. \A i \in (HeadLen + 1)..(HeadLen + n) : f[i] \in Byte
    BY <1>0, <1>3, ElementOfSeq
  <2>2. /\ s \in Seq(Byte) /\ Len(s) = n
        /\ \A i \in 1..n : s[i] = f[HeadLen + i]
    BY <1>0, <2>1, SubSeqProperties
  <2>3. \A i \in 1..n : HeadLen + i \in 1..(HeadLen + n)
    BY <1>0
  <2> HIDE DEF s
  <2>4. s = b
    BY <1>2, <1>3, <2>2, <2>3, SeqEqual
  <2> QED BY <2>4 DEF s
<1> QED
  BY <1>4, <1>5, <1>6 DEF h, b, f

(* The last n bytes dropped from the front of a sequence, by index.        *)
LEMMA DropSeq ==
    ASSUME NEW s \in Seq(Byte), NEW n \in 0..Len(s)
    PROVE  /\ SubSeq(s, n + 1, Len(s)) \in Seq(Byte)
           /\ Len(SubSeq(s, n + 1, Len(s))) = Len(s) - n
           /\ \A i \in 1..(Len(s) - n) : SubSeq(s, n + 1, Len(s))[i] = s[n + i] /\ n + i \in 1..Len(s)
<1>1. Len(s) \in Nat /\ n \in Nat /\ n <= Len(s)
  BY LenProperties
<1>2. \A i \in 1..Len(s) : s[i] \in Byte
  BY ElementOfSeq
<1>3. \A i \in (n + 1)..Len(s) : s[i] \in Byte
  BY <1>1, <1>2
<1>4. /\ SubSeq(s, n + 1, Len(s)) \in Seq(Byte)
      /\ Len(SubSeq(s, n + 1, Len(s))) = IF n + 1 <= Len(s) THEN Len(s) - (n + 1) + 1 ELSE 0
      /\ \A i \in 1..(Len(s) - (n + 1) + 1) : SubSeq(s, n + 1, Len(s))[i] = s[n + 1 + i - 1]
  BY <1>1, <1>3, SubSeqProperties
<1>5. \A i \in 1..(Len(s) - n) :
         i \in 1..(Len(s) - (n + 1) + 1) /\ n + 1 + i - 1 = n + i /\ n + i \in 1..Len(s)
  BY <1>1
<1>6. Len(SubSeq(s, n + 1, Len(s))) = Len(s) - n
  BY <1>1, <1>4
<1> QED
  BY <1>4, <1>5, <1>6

(* Dropping from the front of a concatenation.                             *)
LEMMA DropConcat ==
    ASSUME NEW s \in Seq(Byte), NEW t \in Seq(Byte), NEW n \in 0..Len(s)
    PROVE  SubSeq(s, n + 1, Len(s)) \o t = SubSeq(s \o t, n + 1, Len(s \o t))
<1> DEFINE a == SubSeq(s, n + 1, Len(s))
           u == s \o t
           b == SubSeq(u, n + 1, Len(u))
<1>1. Len(s) \in Nat /\ Len(t) \in Nat /\ n \in Nat /\ n <= Len(s)
  BY LenProperties
<1>2. /\ u \in Seq(Byte) /\ Len(u) = Len(s) + Len(t)
      /\ \A i \in 1..(Len(s) + Len(t)) : u[i] = IF i <= Len(s) THEN s[i] ELSE t[i - Len(s)]
  BY ConcatProperties
<1>3. /\ a \in Seq(Byte) /\ Len(a) = Len(s) - n
      /\ \A i \in 1..(Len(s) - n) : a[i] = s[n + i]
  BY DropSeq
<1> HIDE DEF a, u
<1>4. n \in 0..Len(u)
  BY <1>1, <1>2
<1>5. /\ b \in Seq(Byte) /\ Len(b) = Len(u) - n
      /\ \A i \in 1..(Len(u) - n) : b[i] = u[n + i] /\ n + i \in 1..Len(u)
  BY <1>2, <1>4, DropSeq
<1> HIDE DEF b
<1>6. /\ a \o t \in Seq(Byte) /\ Len(a \o t) = Len(s) - n + Len(t)
      /\ \A i \in 1..(Len(s) - n + Len(t)) :
            (a \o t)[i] = IF i <= Len(s) - n THEN a[i] ELSE t[i - (Len(s) - n)]
  <2>1. a \in Seq(Byte)
    BY <1>3
  <2>2. /\ a \o t \in Seq(Byte) /\ Len(a \o t) = Len(a) + Len(t)
        /\ \A i \in 1..(Len(a) + Len(t)) :
              (a \o t)[i] = IF i <= Len(a) THEN a[i] ELSE t[i - Len(a)]
    BY <2>1, ConcatProperties
  <2>3. Len(a) = Len(s) - n
    BY <1>3
  <2> HIDE DEF a
  <2> QED BY <2>2, <2>3
<1>7. ASSUME NEW i \in 1..(Len(s) - n + Len(t)) PROVE (a \o t)[i] = b[i]
  <2>1. i \in 1..(Len(u) - n) /\ n + i \in 1..(Len(s) + Len(t))
    BY <1>1, <1>2
  <2>2. b[i] = IF n + i <= Len(s) THEN s[n + i] ELSE t[n + i - Len(s)]
    BY <1>2, <1>5, <2>1
  <2>3. CASE n + i <= Len(s)
    <3>1. i \in 1..(Len(s) - n) /\ i <= Len(s) - n
      BY <1>1, <2>3
    <3> QED BY <1>3, <1>6, <2>2, <2>3, <3>1
  <2>4. CASE ~(n + i <= Len(s))
    <3>1. ~(i <= Len(s) - n) /\ i - (Len(s) - n) = n + i - Len(s)
      BY <1>1, <2>4
    <3> QED BY <1>6, <2>2, <2>4, <3>1
  <2> QED BY <2>3, <2>4
<1>8. Len(a \o t) = Len(b)
  BY <1>1, <1>2, <1>5, <1>6
<1>9. \A i \in 1..Len(a \o t) : (a \o t)[i] = b[i]
  BY <1>6, <1>7
<1>10. a \o t = b
  BY <1>5, <1>6, <1>8, <1>9, SeqEqual
<1> QED
  BY <1>10 DEF a, b, u

-----------------------------------------------------------------------------
(* The stream of messages.                                                 *)

(* What is known of a message a peer has sent.                             *)
LEMMA PeerMsg ==
    ASSUME peer \in Seq(PeerMsgs), NEW k \in 1..Len(peer)
    PROVE  /\ k \in Nat /\ peer[k] \in PeerMsgs /\ peer[k].length \in Int
           /\ BodyLen(peer[k]) \in Nat /\ FrameLen(k) \in Nat /\ FrameLen(k) >= HeadLen
           /\ FrameLen(k) = HeadLen + BodyLen(peer[k])
<1>1. Len(peer) \in Nat /\ peer[k] \in PeerMsgs
  BY LenProperties, ElementOfSeq
<1>2. peer[k].length \in Int
  BY <1>1, TcpConnAssumption
<1>3. BodyLen(peer[k]) \in Nat
  BY <1>2, TcpConnAssumption DEF BodyLen
<1> QED
  BY <1>1, <1>2, <1>3, TcpConnAssumption DEF FrameLen

(* A stretch that starts with message k + 1 holds that message in order.   *)
LEMMA WithinFrame ==
    ASSUME peer \in Seq(PeerMsgs), NEW s, NEW k, Stream(s, k), s # << >>
    PROVE  /\ k + 1 \in 1..Len(peer)
           /\ \A i \in 1..Len(s) : i <= FrameLen(k + 1) => s[i] = <<k + 1, i>>
<1> DEFINE Wrong == {i \in 1..Len(s) : i <= FrameLen(k + 1) /\ s[i] # <<k + 1, i>>}
<1>1. s \in Seq(Byte) /\ k \in Nat /\ Len(s) \in Nat /\ Len(s) # 0 /\ s[1] = <<k + 1, 1>>
  BY LenProperties, EmptySeq DEF Stream
<1>2. k + 1 \in 1..Len(peer)
  <2>1. 1 \in 1..Len(s) /\ s[1][1] = k + 1
    BY <1>1
  <2> QED BY <2>1 DEF Stream
<1>3. FrameLen(k + 1) \in Nat
  BY <1>2, PeerMsg
<1>4. ASSUME Wrong # {} PROVE FALSE
  <2>1. PICK n \in Wrong : \A m \in Wrong : n <= m
    <3>1. Wrong \subseteq Nat
      BY <1>1
    <3> HIDE DEF Wrong
    <3> QED BY <1>4, <3>1, LeastNatural
  <2>2. n \in 1..Len(s) /\ n <= FrameLen(k + 1) /\ s[n] # <<k + 1, n>>
    OBVIOUS
  <2>3. n # 1
    BY <1>1, <2>2
  <2>4. n - 1 \in 1..Len(s) /\ n - 1 + 1 = n /\ n - 1 < FrameLen(k + 1) /\ n - 1 \in Nat
    BY <1>1, <1>3, <2>2, <2>3
  <2>5. s[n - 1] = <<k + 1, n - 1>>
    <3>1. n - 1 \notin Wrong
      <4>1. ~(n <= n - 1)
        BY <1>1, <2>2
      <4> QED BY <2>1, <4>1
    <3>2. n - 1 <= FrameLen(k + 1)
      BY <1>3, <2>4
    <3> QED BY <2>4, <3>1, <3>2
  <2>6. s[n] = Succ(s[n - 1])
    BY <2>2, <2>4 DEF Stream
  <2>7. Succ(<<k + 1, n - 1>>) = <<k + 1, n - 1 + 1>>
    BY <2>4 DEF Succ
  <2> QED BY <2>2, <2>4, <2>5, <2>6, <2>7
<1> QED
  BY <1>2, <1>4

(* Taking a whole message off the front.                                   *)
LEMMA DropFrame ==
    ASSUME peer \in Seq(PeerMsgs), NEW s, NEW k, Stream(s, k), s # << >>,
           Len(s) >= FrameLen(k + 1)
    PROVE  /\ Stream(SubSeq(s, FrameLen(k + 1) + 1, Len(s)), k + 1)
           /\ Ends(s, k) => Ends(SubSeq(s, FrameLen(k + 1) + 1, Len(s)), k + 1)
<1> DEFINE m == FrameLen(k + 1)
           t == SubSeq(s, m + 1, Len(s))
<1>1. s \in Seq(Byte) /\ k \in Nat /\ Len(s) \in Nat /\ Len(s) # 0
  BY LenProperties, EmptySeq DEF Stream
<1>2. /\ k + 1 \in 1..Len(peer)
      /\ \A i \in 1..Len(s) : i <= m => s[i] = <<k + 1, i>>
  BY WithinFrame
<1>3. m \in Nat /\ m >= 1 /\ m \in 0..Len(s) /\ m \in 1..Len(s) /\ Len(peer) \in Nat
  BY <1>1, <1>2, PeerMsg, LenProperties, TcpConnAssumption
<1> HIDE DEF m
<1>4. /\ t \in Seq(Byte) /\ Len(t) = Len(s) - m
      /\ \A i \in 1..(Len(s) - m) : t[i] = s[m + i] /\ m + i \in 1..Len(s)
  BY <1>1, <1>3, DropSeq
<1> HIDE DEF t
<1>5. s[m] = <<k + 1, m>>
  BY <1>2, <1>3
<1>6. ASSUME t # << >> PROVE t[1] = <<k + 1 + 1, 1>>
  <2>1. 1 \in 1..(Len(s) - m)
    BY <1>4, <1>6, EmptySeq
  <2>2. t[1] = s[m + 1] /\ m + 1 \in 1..Len(s)
    BY <1>4, <2>1
  <2>3. s[m + 1] = Succ(s[m])
    BY <1>3, <2>2 DEF Stream
  <2>4. Succ(<<k + 1, m>>) = <<k + 1 + 1, 1>>
    BY <1>3 DEF Succ, m
  <2> QED BY <1>5, <2>2, <2>3, <2>4
<1>7. \A i \in 1..Len(t) : t[i][1] \in 1..Len(peer)
  BY <1>4 DEF Stream
<1>8. ASSUME NEW i \in 1..Len(t), i + 1 \in 1..Len(t) PROVE t[i + 1] = Succ(t[i])
  <2>1. t[i] = s[m + i] /\ t[i + 1] = s[m + (i + 1)] /\ m + i \in 1..Len(s)
        /\ m + (i + 1) \in 1..Len(s)
    BY <1>4, <1>8
  <2>2. m + (i + 1) = (m + i) + 1
    BY <1>3
  <2> QED BY <2>1, <2>2 DEF Stream
<1>9. Stream(t, k + 1)
  BY <1>1, <1>4, <1>6, <1>7, <1>8 DEF Stream
<1>10. ASSUME Ends(s, k) PROVE Ends(t, k + 1)
  <2>1. s[Len(s)] = <<Len(peer), FrameLen(Len(peer))>>
    BY <1>10 DEF Ends
  <2>2. CASE t = << >>
    <3>1. Len(s) = m
      BY <1>1, <1>3, <1>4, <2>2, EmptySeq
    <3>2. <<k + 1, m>> = <<Len(peer), FrameLen(Len(peer))>>
      BY <1>5, <2>1, <3>1
    <3> QED BY <2>2, <3>2 DEF Ends
  <2>3. CASE t # << >>
    <3>1. Len(t) \in 1..(Len(s) - m) /\ m + Len(t) = Len(s)
      BY <1>1, <1>3, <1>4, <2>3, EmptySeq
    <3> QED BY <1>4, <2>1, <2>3, <3>1 DEF Ends
  <2> QED BY <2>2, <2>3
<1> QED
  BY <1>9, <1>10 DEF t, m

(* Losing the end of a stretch.                                            *)
LEMMA StreamPrefix ==
    ASSUME NEW s \in Seq(Byte), NEW t \in Seq(Byte), NEW k, Stream(s \o t, k)
    PROVE  Stream(s, k)
<1> DEFINE u == s \o t
<1>1. /\ u \in Seq(Byte) /\ Len(u) = Len(s) + Len(t)
      /\ \A i \in 1..(Len(s) + Len(t)) : u[i] = IF i <= Len(s) THEN s[i] ELSE t[i - Len(s)]
      /\ Len(s) \in Nat /\ Len(t) \in Nat
  BY ConcatProperties, LenProperties
<1>2. Stream(u, k)
  OBVIOUS
<1> HIDE DEF u
<1>3. \A i \in 1..Len(s) : i \in 1..Len(u) /\ u[i] = s[i]
  BY <1>1
<1>4. ASSUME s # << >> PROVE s[1] = <<k + 1, 1>>
  <2>1. 1 \in 1..Len(s)
    BY <1>1, <1>4, EmptySeq
  <2>2. u # << >>
    BY <1>1, <2>1, EmptySeq
  <2> QED BY <1>2, <1>3, <2>1, <2>2 DEF Stream
<1> QED
  BY <1>2, <1>3, <1>4 DEF Stream

(* The peer sends another message.                                         *)
LEMMA AppendFrame ==
    ASSUME peer \in Seq(PeerMsgs), NEW m \in PeerMsgs, peer' = Append(peer, m),
           NEW s, NEW k, Stream(s, k), Ends(s, k),
           NEW w, w = Frame(Len(peer) + 1, BodyLen(m))
    PROVE  Stream(s \o w, k)' /\ Ends(s \o w, k)'
<1>0. HeadLen \in Nat /\ HeadLen >= 1
  BY TcpConnAssumption
<1>1. PICK N \in Nat : N = Len(peer)
  BY LenProperties
<1>2. /\ peer' \in Seq(PeerMsgs) /\ Len(peer') = N + 1
      /\ \A i \in 1..N : peer'[i] = peer[i]
      /\ peer'[N + 1] = m
  BY <1>1, AppendProperties
<1>3. BodyLen(m) \in Nat
  BY TcpConnAssumption DEF BodyLen
<1>4. /\ w \in Seq(Byte) /\ Len(w) = HeadLen + BodyLen(m) /\ Len(w) \in Nat /\ Len(w) >= 1
      /\ \A i \in 1..Len(w) : w[i] = <<N + 1, i>>
  <2>1. w \in Seq(Byte) /\ Len(w) = HeadLen + BodyLen(m)
    BY <1>1, <1>3, FrameIsSeq
  <2>2. \A i \in 1..(HeadLen + BodyLen(m)) : w[i] = <<N + 1, i>>
    BY <1>1 DEF Frame
  <2> QED BY <1>0, <1>3, <2>1, <2>2
<1>5. FrameLen(N + 1)' = Len(w)
  BY <1>2, <1>4 DEF FrameLen, BodyLen
<1>6. \A i \in 1..N : FrameLen(i)' = FrameLen(i)
  BY <1>2 DEF FrameLen, BodyLen
<1>7. \A b \in Byte : b[1] \in 1..N => Succ(b)' = Succ(b)
  BY <1>6 DEF Succ
<1>8. \A j \in 1..Len(w) : j < Len(w) => Succ(<<N + 1, j>>)' = <<N + 1, j + 1>>
  BY <1>5 DEF Succ
<1>9. s \in Seq(Byte) /\ k \in Nat /\ Len(s) \in Nat
  BY LenProperties DEF Stream
<1> DEFINE u == s \o w
<1>10. /\ u \in Seq(Byte) /\ Len(u) = Len(s) + Len(w)
       /\ \A i \in 1..(Len(s) + Len(w)) : u[i] = IF i <= Len(s) THEN s[i] ELSE w[i - Len(s)]
  BY <1>4, <1>9, ConcatProperties
<1> HIDE DEF u
<1>11. \A i \in 1..Len(s) : u[i] = s[i] /\ s[i] \in Byte /\ s[i][1] \in 1..N
  BY <1>1, <1>4, <1>9, <1>10, ElementOfSeq DEF Stream
<1>12. \A i \in 1..Len(u) : i > Len(s) => i - Len(s) \in 1..Len(w) /\ u[i] = <<N + 1, i - Len(s)>>
  <2> SUFFICES ASSUME NEW i \in 1..Len(u), i > Len(s)
               PROVE  i - Len(s) \in 1..Len(w) /\ u[i] = <<N + 1, i - Len(s)>>
    OBVIOUS
  <2>1. i - Len(s) \in 1..Len(w) /\ i \in 1..(Len(s) + Len(w)) /\ ~(i <= Len(s))
    BY <1>4, <1>9, <1>10
  <2> QED BY <1>4, <1>10, <2>1
<1>13. u # << >> /\ Len(u) \in 1..Len(u)
  BY <1>4, <1>9, <1>10, EmptySeq
<1>14. u[1] = <<k + 1, 1>>
  <2>1. CASE s = << >>
    <3>1. Len(s) = 0 /\ k = N
      BY <1>1, <2>1, EmptySeq DEF Ends
    <3>2. 1 \in 1..Len(u) /\ 1 > Len(s) /\ 1 - Len(s) = 1
      BY <1>4, <1>10, <3>1
    <3> QED BY <1>12, <3>1, <3>2
  <2>2. CASE s # << >>
    <3>1. 1 \in 1..Len(s) /\ s[1] = <<k + 1, 1>>
      BY <1>9, <2>2, EmptySeq DEF Stream
    <3> QED BY <1>11, <3>1
  <2> QED BY <2>1, <2>2
<1>15. \A i \in 1..Len(u) : u[i][1] \in 1..(N + 1)
  <2> SUFFICES ASSUME NEW i \in 1..Len(u) PROVE u[i][1] \in 1..(N + 1)
    OBVIOUS
  <2>1. CASE i <= Len(s)
    <3>1. i \in 1..Len(s) /\ \A j \in 1..N : j \in 1..(N + 1)
      BY <1>9, <2>1
    <3> QED BY <1>11, <3>1
  <2>2. CASE i > Len(s)
    <3>1. u[i][1] = N + 1 /\ N + 1 \in 1..(N + 1)
      BY <1>12, <2>2
    <3> QED BY <3>1
  <2> QED BY <1>4, <1>9, <1>10, <2>1, <2>2
<1>16. \A i \in 1..Len(u) : i + 1 \in 1..Len(u) => u[i + 1] = Succ(u[i])'
  <2> SUFFICES ASSUME NEW i \in 1..Len(u), i + 1 \in 1..Len(u) PROVE u[i + 1] = Succ(u[i])'
    OBVIOUS
  <2>1. CASE i + 1 <= Len(s)
    <3>1. i \in 1..Len(s) /\ i + 1 \in 1..Len(s)
      BY <1>9, <2>1
    <3>2. s[i + 1] = Succ(s[i])
      BY <3>1 DEF Stream
    <3>3. Succ(s[i])' = Succ(s[i])
      BY <1>7, <1>11, <3>1
    <3>4. u[i] = s[i] /\ u[i + 1] = s[i + 1]
      BY <1>11, <3>1
    <3> QED BY <3>2, <3>3, <3>4
  <2>2. CASE i = Len(s)
    <3>1. i \in 1..Len(s) /\ s # << >> /\ i + 1 > Len(s) /\ i + 1 - Len(s) = 1
      BY <1>9, <2>2, EmptySeq
    <3>2. u[i] = <<N, FrameLen(N)>> /\ N \in 1..N
      <4>1. u[i] = s[Len(s)] /\ u[i][1] \in 1..N
        BY <1>11, <2>2, <3>1
      <4>2. s[Len(s)] = <<N, FrameLen(N)>>
        BY <1>1, <3>1 DEF Ends
      <4> QED BY <4>1, <4>2
    <3>3. u[i + 1] = <<N + 1, 1>>
      BY <1>12, <3>1
    <3>4. FrameLen(N) \in Nat /\ FrameLen(N)' = FrameLen(N)
      BY <1>1, <1>6, <3>2, PeerMsg
    <3>5. Succ(<<N, FrameLen(N)>>) = <<N + 1, 1>>
      BY <3>4 DEF Succ
    <3>6. <<N, FrameLen(N)>> \in Byte /\ <<N, FrameLen(N)>>[1] \in 1..N
      BY <3>2, <3>4 DEF Byte
    <3>7. PICK b \in Byte : b = u[i] /\ b = <<N, FrameLen(N)>> /\ b[1] \in 1..N
      BY <3>2, <3>6
    <3>8. Succ(b)' = Succ(b)
      BY <1>7, <3>7
    <3> QED BY <3>3, <3>5, <3>7, <3>8
  <2>3. CASE i > Len(s)
    <3>1. i - Len(s) \in 1..Len(w) /\ u[i] = <<N + 1, i - Len(s)>>
      BY <1>12, <2>3
    <3>a. i + 1 > Len(s)
      BY <1>9, <2>3
    <3>2. i + 1 - Len(s) \in 1..Len(w) /\ u[i + 1] = <<N + 1, i + 1 - Len(s)>>
      BY <1>12, <3>a
    <3>3. i - Len(s) < Len(w) /\ i + 1 - Len(s) = i - Len(s) + 1
      BY <1>4, <1>9, <3>1, <3>2
    <3> QED BY <1>8, <3>1, <3>2, <3>3
  <2> QED BY <1>4, <1>9, <1>10, <2>1, <2>2, <2>3
<1>17. Stream(u, k)'
  BY <1>2, <1>9, <1>10, <1>14, <1>15, <1>16 DEF Stream
<1>18. Ends(u, k)'
  <2>1. Len(u) > Len(s) /\ Len(u) - Len(s) = Len(w)
    BY <1>4, <1>9, <1>10
  <2>2. u[Len(u)] = <<N + 1, Len(w)>>
    BY <1>12, <1>13, <2>1
  <2> QED BY <1>2, <1>5, <1>13, <2>2 DEF Ends
<1> QED
  BY <1>17, <1>18 DEF u

-----------------------------------------------------------------------------
(* Buffers.                                                                *)

(* The null pointer, as a buffer.                                          *)
LEMMA NoBufIsBuf ==
    NoBuf \in Buf /\ NoBuf.cap = 0 /\ NoBuf.head = 0 /\ NoBuf.data = << >> /\ Fits(NoBuf)
<1>1. << >> \in Seq(Byte) /\ Len(<< >>) = 0
  BY EmptySeq
<1> QED
  BY <1>1 DEF NoBuf, Buf, Fits

(* alloc returns NULL or an empty buffer that is large enough.             *)
LEMMA AllocFits ==
    ASSUME NEW n \in Nat
    PROVE  \/ alloc(n) = NoBuf
           \/ /\ alloc(n) \in Buf /\ alloc(n).cap >= n /\ alloc(n).cap >= 1
              /\ alloc(n).head = 0 /\ alloc(n).data = << >>
<1> DEFINE Big == {c \in Caps : c >= n}
           c0 == CHOOSE c \in Caps : c >= n /\ \A d \in Caps : d >= n => c <= d
<1>1. CASE Big = {}
  <2>1. ~ \E c \in Caps : c >= n
    BY <1>1
  <2> QED BY <2>1 DEF alloc
<1>2. CASE Big # {}
  <2>1. Big \subseteq Nat
    BY TcpConnAssumption
  <2>2. PICK c \in Big : \A d \in Big : c <= d
    <3> HIDE DEF Big
    <3> QED BY <1>2, <2>1, LeastNatural
  <2>3. c \in Caps /\ c >= n /\ \A d \in Caps : d >= n => c <= d
    BY <2>2
  <2>4. c0 \in Caps /\ c0 >= n
    BY <2>3
  <2>5. alloc(n) = [NoBuf EXCEPT !.cap = c0]
    BY <2>3 DEF alloc
  <2> HIDE DEF c0
  <2>6. c0 \in Nat /\ c0 >= 1
    BY <2>4, TcpConnAssumption
  <2>7. << >> \in Seq(Byte)
    BY EmptySeq
  <2>8. alloc(n) = [cap |-> c0, head |-> 0, data |-> << >>]
    BY <2>5 DEF NoBuf
  <2> QED BY <2>4, <2>6, <2>7, <2>8 DEF Buf
<1> QED
  BY <1>1, <1>2

(* Making room keeps the data, and makes enough room.                      *)
LEMMA RoomFits ==
    ASSUME NEW b \in Buf, Fits(b), NEW n \in Nat, Room(b, n) # NoBuf, b.head = 0
    PROVE  /\ Room(b, n) \in Buf /\ Room(b, n).head = 0 /\ Room(b, n).data = b.data
           /\ Room(b, n).cap - Len(b.data) >= n
           /\ Fits(Room(b, n))
<1>0. b.cap \in Nat /\ b.data \in Seq(Byte) /\ Len(b.data) \in Nat
  BY LenProperties DEF Buf
<1>e. Len(<< >>) = 0
  BY EmptySeq
<1>1. CASE b = NoBuf
  <2>1. Room(b, n) = alloc(n)
    BY <1>1 DEF Room
  <2>2. b.data = << >>
    BY <1>1, NoBufIsBuf
  <2> HIDE DEF Room
  <2>3. /\ alloc(n) \in Buf /\ alloc(n).cap >= n /\ alloc(n).cap \in Nat
        /\ alloc(n).head = 0 /\ alloc(n).data = << >>
    BY <2>1, AllocFits DEF Buf
  <2> QED BY <1>e, <2>1, <2>2, <2>3 DEF Fits
<1>2. CASE b # NoBuf /\ Left(b) >= n
  <2>1. Room(b, n) = b
    BY <1>2 DEF Room
  <2> QED BY <1>0, <1>2, <2>1 DEF Left, length
<1>3. CASE b # NoBuf /\ ~(Left(b) >= n)
  <2> DEFINE a == alloc(n + length(b))
  <2>1. Room(b, n) = IF a = NoBuf THEN NoBuf ELSE [a EXCEPT !.data = b.data]
    BY <1>3 DEF Room
  <2>2. n + length(b) \in Nat
    BY <1>0 DEF length
  <2>3. a # NoBuf /\ Room(b, n) = [a EXCEPT !.data = b.data]
    BY <2>1
  <2>4. a \in Buf /\ a.cap >= n + length(b) /\ a.head = 0
    BY <2>2, <2>3, AllocFits
  <2> HIDE DEF a
  <2>5. /\ Room(b, n) \in Buf /\ Room(b, n).head = 0 /\ Room(b, n).data = b.data
        /\ Room(b, n).cap = a.cap
    BY <1>0, <2>3, <2>4 DEF Buf
  <2>6. a.cap \in Nat /\ a.cap >= n + Len(b.data)
    BY <2>4 DEF Buf, length
  <2> QED BY <1>0, <2>5, <2>6 DEF Fits
<1> QED
  BY <1>1, <1>2, <1>3

(* pop drops bytes from the front, and gives back an emptied buffer.       *)
LEMMA PopFits ==
    ASSUME NEW b \in Buf, Fits(b), NEW n \in 0..Len(b.data)
    PROVE  /\ pop(b, n) \in Buf /\ Fits(pop(b, n))
           /\ pop(b, n).data = SubSeq(b.data, n + 1, Len(b.data))
           /\ Len(pop(b, n).data) = Len(b.data) - n
           /\ pop(b, n) = NoBuf \/ (pop(b, n).data # << >> /\ pop(b, n).head = b.head + n)
<1>0. /\ b.cap \in Nat /\ b.head \in Nat /\ b.data \in Seq(Byte) /\ Len(b.data) \in Nat
      /\ n \in Nat /\ n <= Len(b.data)
  BY LenProperties DEF Buf
<1> DEFINE t == SubSeq(b.data, n + 1, Len(b.data))
<1>1. t \in Seq(Byte) /\ Len(t) = Len(b.data) - n
  BY <1>0, DropSeq
<1>2. CASE n = Len(b.data)
  <2>1. pop(b, n) = NoBuf
    BY <1>2 DEF pop, length
  <2>2. t = << >>
    BY <1>0, <1>2, SubSeqEmpty
  <2> QED BY <1>1, <2>1, <2>2, NoBufIsBuf
<1>3. CASE n # Len(b.data)
  <2>1. pop(b, n) = [b EXCEPT !.head = @ + n, !.data = SubSeq(@, n + 1, Len(@))]
    BY <1>3 DEF pop, length
  <2>2. pop(b, n) = [cap |-> b.cap, head |-> b.head + n, data |-> t]
    BY <2>1 DEF Buf
  <2> HIDE DEF t
  <2>3. t # << >>
    BY <1>0, <1>1, <1>3, EmptySeq
  <2>4. pop(b, n) \in Buf
    BY <1>0, <1>1, <2>2 DEF Buf
  <2>5. pop(b, n).cap = b.cap /\ pop(b, n).head = b.head + n /\ pop(b, n).data = t
    BY <2>2
  <2>6. Fits(pop(b, n))
    BY <1>0, <1>1, <2>5 DEF Fits
  <2> QED BY <1>1, <2>3, <2>4, <2>5, <2>6 DEF t
<1> QED
  BY <1>2, <1>3

-----------------------------------------------------------------------------
(* How the parts of the invariant carry over a step.                       *)

(* While no peer sends, what is a stretch of the stream stays one.         *)
LEMMA StreamKept ==
    ASSUME peer' = peer, NEW s, NEW k
    PROVE  (Stream(s, k)' <=> Stream(s, k)) /\ (Ends(s, k)' <=> Ends(s, k))
<1>1. \A b : Succ(b)' = Succ(b)
  BY DEF Succ, FrameLen, BodyLen
<1>2. Stream(s, k)' <=> Stream(s, k)
  BY <1>1 DEF Stream
<1>3. Ends(s, k)' <=> Ends(s, k)
  BY DEF Ends, FrameLen, BodyLen
<1> QED
  BY <1>2, <1>3

(* The stretch after a step, named by its value.                           *)
LEMMA StreamNext ==
    ASSUME NEW s, NEW k, (Pending \o instream)' = s, ncb' = k
    PROVE  /\ Stream(s, k)' => Stream(Pending \o instream, ncb)'
           /\ Ends(s, k)' => Ends(Pending \o instream, ncb)'
<1>1. Stream(s, k)' => Stream(Pending \o instream, ncb)'
  BY DEF Stream
<1>2. Ends(s, k)' => Ends(Pending \o instream, ncb)'
  BY DEF Ends
<1> QED
  BY <1>1, <1>2

(* Outside the asserts, InFraming follows from In.                         *)
LEMMA FramedNext ==
    ASSUME In', pc' # "aborted", Typed'
    PROVE  InFraming'
<1> SUFFICES ASSUME pc' = "callback"
             PROVE  /\ ncb' <= Len(peer')
                    /\ cur' = peer'[ncb']
                    /\ cbdata' = Body(ncb, peer[ncb].length)'
  BY DEF InFraming
<1>1. ncb' \in 1..Len(peer') /\ cur' = peer'[ncb'] /\ cbdata' = Body(ncb, cur.length)'
  BY DEF In
<1>2. Len(peer') \in Nat
  BY LenProperties DEF Typed
<1> QED
  BY <1>1, <1>2 DEF Body

(* A step that leaves the input alone.                                     *)
LEMMA InKept ==
    ASSUME In, pc # "aborted",
           UNCHANGED <<ibuf, rn, cur, ncb, cbdata, instream, peer, pstate>>,
           pc' \in {pc, "aborted"} \/ (pc \in {"poll", "write"} /\ pc' \in {"poll", "write"})
    PROVE  In'
<1>1. CASE pc' = "aborted"
  BY <1>1 DEF In
<1>2. CASE pc' # "aborted"
  <2>1. pc' = pc \/ (pc \in {"poll", "write"} /\ pc' \in {"poll", "write"})
    BY <1>2
  <2>2. PICK s, k : s = Pending \o instream /\ k = ncb
    OBVIOUS
  <2>3. (Pending \o instream)' = s /\ ncb' = k
    BY <2>1, <2>2 DEF Pending
  <2>4. Stream(Pending \o instream, ncb) /\ (pstate # "rst" => Ends(Pending \o instream, ncb))
    BY DEF In
  <2>5. Stream(s, k) /\ (pstate # "rst" => Ends(s, k))
    BY <2>2, <2>4
  <2>6. Stream(s, k)' /\ (pstate' # "rst" => Ends(s, k)')
    BY <2>5, StreamKept
  <2>7. Stream(Pending \o instream, ncb)' /\ (pstate' # "rst" => Ends(Pending \o instream, ncb)')
    BY <2>3, <2>6, StreamNext
  <2>8. NextHead' = NextHead /\ Complete(NextHead)' = Complete(NextHead)
    BY DEF NextHead, HeadAt, Complete, length
  <2>9. Body(ncb, cur.length)' = Body(ncb, cur.length)
    BY DEF Body
  <2> QED BY <2>1, <2>7, <2>8, <2>9 DEF In
<1> QED
  BY <1>1, <1>2

-----------------------------------------------------------------------------
(* The peer, opening and closing.                                          *)

(* What is left once the callback returns is a sequence of bytes.          *)
LEMMA PendingIsSeq ==
    ASSUME Typed, In, pc # "aborted"
    PROVE  Pending \in Seq(Byte) /\ instream \in Seq(Byte)
<1>1. ibuf.data \in Seq(Byte) /\ Len(ibuf.data) \in Nat /\ instream \in Seq(Byte)
  BY LenProperties DEF Typed, Buf
<1>2. CASE pc = "callback"
  <2>1. cur.length \in 0..Len(ibuf.data)
    BY <1>1, <1>2 DEF In
  <2>2. SubSeq(ibuf.data, cur.length + 1, Len(ibuf.data)) \in Seq(Byte)
    BY <1>1, <2>1, DropSeq
  <2> QED BY <1>1, <1>2, <2>2 DEF Pending
<1> QED
  BY <1>1, <1>2 DEF Pending

(* The message at the front of ibuf, if it is all of a head.               *)
LEMMA FrontMessage ==
    ASSUME Typed, In, pc \notin {"aborted", "callback"}, Len(ibuf.data) >= 1
    PROVE  /\ ncb + 1 \in 1..Len(peer) /\ ibuf.data[1] = <<ncb + 1, 1>>
           /\ NextHead = peer[ncb + 1]
<1>1. ibuf.data \in Seq(Byte) /\ Len(ibuf.data) \in Nat /\ instream \in Seq(Byte)
      /\ Len(instream) \in Nat /\ peer \in Seq(PeerMsgs)
  BY LenProperties DEF Typed, Buf
<1>2. Stream(ibuf.data \o instream, ncb)
  BY DEF In, Pending
<1>3. PICK s, k : s = ibuf.data \o instream /\ k = ncb
  OBVIOUS
<1>4. Stream(s, k)
  BY <1>2, <1>3
<1>5. /\ s[1] = ibuf.data[1] /\ Len(s) = Len(ibuf.data) + Len(instream)
      /\ s \in Seq(Byte)
  <2>1. 1 \in 1..(Len(ibuf.data) + Len(instream)) /\ 1 <= Len(ibuf.data)
    BY <1>1
  <2> QED BY <1>1, <1>3, <2>1, ConcatProperties
<1>6. s # << >>
  BY <1>1, <1>5, EmptySeq
<1>7. k + 1 \in 1..Len(peer) /\ s[1] = <<k + 1, 1>>
  BY <1>1, <1>4, <1>6, WithinFrame DEF Stream
<1> QED
  BY <1>3, <1>5, <1>7 DEF NextHead, HeadAt

(* A message from the peer: the stretch grows by it.                       *)
LEMMA PeerSends ==
    ASSUME Inv, NEW m \in PeerMsgs, peer_send(m)
    PROVE  Inv'
<1> USE DEF Inv
<1>0. pc' = pc /\ pc \notin {"closed", "aborted"} /\ pstate = "open" /\ pstate' = pstate
      /\ UNCHANGED <<ibuf, obuf, epmask, rn, cur, ncb, cbdata, nsends, accepted, wire>>
  BY DEF peer_send, Connected, connVars, readVars, sendVars
<1>1. PICK w : w = Frame(Len(peer) + 1, BodyLen(m))
  OBVIOUS
<1>2. peer' = Append(peer, m) /\ instream' = instream \o w
  BY <1>1 DEF peer_send
<1>3. peer \in Seq(PeerMsgs) /\ Len(peer) \in Nat /\ ibuf.data \in Seq(Byte) /\ Len(ibuf.data) \in Nat
  BY LenProperties DEF Typed, Buf
<1>4. /\ peer' \in Seq(PeerMsgs) /\ Len(peer') = Len(peer) + 1
      /\ \A i \in 1..Len(peer) : peer'[i] = peer[i]
  BY <1>2, <1>3, AppendProperties
<1>5. w \in Seq(Byte)
  <2>1. BodyLen(m) \in Nat
    BY TcpConnAssumption DEF BodyLen
  <2> QED BY <1>1, <1>3, <2>1, FrameIsSeq
<1>6. Pending \in Seq(Byte) /\ instream \in Seq(Byte)
  BY <1>0, PendingIsSeq
<1>7. Typed'
  <2>1. instream' \in Seq(Byte)
    BY <1>2, <1>5, <1>6, ConcatProperties
  <2> QED BY <1>0, <1>4, <2>1 DEF Typed
<1>8. In'
  <2>1. PICK s, k : s = Pending \o instream /\ k = ncb
    OBVIOUS
  <2>2. Stream(Pending \o instream, ncb) /\ Ends(Pending \o instream, ncb)
    BY <1>0 DEF In
  <2>3. Stream(s, k) /\ Ends(s, k)
    BY <2>1, <2>2
  <2>4. Stream(s \o w, k)' /\ Ends(s \o w, k)'
    BY <1>1, <1>2, <1>3, <2>3, AppendFrame
  <2>5. Pending' = Pending
    BY <1>0 DEF Pending
  <2>6. Pending' \o instream' = s \o w
    <3>1. \A x, y, z \in Seq(Byte) : (x \o y) \o z = x \o (y \o z)
      BY ConcatAssociative, SMTT(30)
    <3> QED BY <1>2, <1>5, <1>6, <2>1, <2>5, <3>1
  <2>7. PICK u : u = s \o w
    OBVIOUS
  <2>8. Stream(u, k)' /\ Ends(u, k)'
    BY <2>4, <2>7
  <2>9. Stream(Pending \o instream, ncb)' /\ Ends(Pending \o instream, ncb)'
    BY <1>0, <2>1, <2>6, <2>7, <2>8, StreamNext
  <2>10. Len(peer) <= Len(peer') /\ \A i \in 1..Len(peer) : i \in 1..Len(peer')
    BY <1>3, <1>4
  <2>11. ASSUME pc = "callback"
         PROVE  /\ ncb' \in 1..Len(peer') /\ cur' = peer'[ncb']
                /\ cur'.length \in Nat /\ cur'.length <= Len(ibuf'.data)
                /\ cbdata' = Body(ncb, cur.length)'
    <3>1. ncb \in 1..Len(peer) /\ cur = peer[ncb] /\ cur.length \in Nat
          /\ cur.length <= Len(ibuf.data) /\ cbdata = Body(ncb, cur.length)
      BY <1>0, <2>11 DEF In
    <3>2. Body(ncb, cur.length)' = Body(ncb, cur.length)
      BY <1>0 DEF Body
    <3> QED BY <1>0, <1>4, <2>10, <3>1, <3>2
  <2>12. ASSUME pc \in {"poll", "write"}, Len(ibuf.data) >= HeadLen
         PROVE  ~Complete(NextHead)'
    <3>1. ~Complete(NextHead)
      BY <1>0, <2>12 DEF In
    <3>2. Len(ibuf.data) >= 1
      BY <1>3, <2>12, TcpConnAssumption
    <3>3. ncb + 1 \in 1..Len(peer) /\ ibuf.data[1] = <<ncb + 1, 1>> /\ NextHead = peer[ncb + 1]
      BY <1>0, <2>12, <3>2, FrontMessage
    <3>4. NextHead' = peer'[ncb + 1]
      BY <1>0, <3>3 DEF NextHead, HeadAt
    <3>5. NextHead' = NextHead
      BY <1>4, <3>3, <3>4
    <3> QED BY <1>0, <3>1, <3>5 DEF Complete, length
  <2>13. pc = "read" => rn <= Len(instream')
    <3>1. Len(instream) \in Nat /\ Len(w) \in Nat /\ Len(instream \o w) = Len(instream) + Len(w)
      BY <1>5, <1>6, LenProperties, ConcatProperties
    <3>2. pc = "read" => rn <= Len(instream)
      BY <1>0 DEF In
    <3>3. rn \in Nat
      BY DEF Typed
    <3> QED BY <1>2, <3>1, <3>2, <3>3
  <2> QED BY <1>0, <2>9, <2>11, <2>12, <2>13 DEF In
<1>9. Out'
  BY <1>0 DEF Out
<1>10. InFraming'
  BY <1>0, <1>7, <1>8, FramedNext
<1> QED
  BY <1>0, <1>7, <1>8, <1>9, <1>10 DEF Fits

(* The peer closes; what it has sent is still there.                       *)
LEMMA PeerCloses ==
    ASSUME Inv, peer_close
    PROVE  Inv'
<1> USE DEF Inv
<1>0. pc' = pc /\ pc \notin {"closed", "aborted"} /\ pstate = "open" /\ pstate' = "fin"
      /\ UNCHANGED <<ibuf, obuf, epmask, rn, cur, ncb, cbdata, nsends, accepted, wire, peer, instream>>
  BY DEF peer_close, Connected, connVars, readVars, sendVars
<1>1. Typed'
  BY <1>0 DEF Typed
<1>2. In'
  <2>1. PICK s, k : s = Pending \o instream /\ k = ncb
    OBVIOUS
  <2>2. Stream(Pending \o instream, ncb) /\ Ends(Pending \o instream, ncb)
    BY <1>0 DEF In
  <2>3. Stream(s, k) /\ Ends(s, k)
    BY <2>1, <2>2
  <2>4. Stream(s, k)' /\ Ends(s, k)'
    BY <1>0, <2>3, StreamKept
  <2>5. Pending' \o instream' = s
    BY <1>0, <2>1 DEF Pending
  <2>6. Stream(Pending \o instream, ncb)' /\ Ends(Pending \o instream, ncb)'
    BY <1>0, <2>1, <2>4, <2>5, StreamNext
  <2>7. Complete(NextHead)' = Complete(NextHead) /\ Body(ncb, cur.length)' = Body(ncb, cur.length)
    BY <1>0 DEF NextHead, HeadAt, Complete, length, Body
  <2> QED BY <1>0, <2>6, <2>7 DEF In
<1>3. Out'
  BY <1>0 DEF Out
<1>4. InFraming'
  BY <1>0, <1>1, <1>2, FramedNext
<1> QED
  BY <1>0, <1>1, <1>2, <1>3, <1>4 DEF Fits

(* A reset: the stretch loses its end.                                     *)
LEMMA PeerResets ==
    ASSUME Inv, peer_reset
    PROVE  Inv'
<1> USE DEF Inv
<1>0. pc' = pc /\ pc \notin {"closed", "aborted"} /\ pstate' = "rst" /\ instream' = << >>
      /\ UNCHANGED <<ibuf, obuf, epmask, rn, cur, ncb, cbdata, nsends, accepted, wire, peer>>
  BY DEF peer_reset, Connected, connVars, readVars, sendVars
<1>1. Typed'
  <2>1. << >> \in Seq(Byte)
    BY EmptySeq
  <2> QED BY <1>0, <2>1 DEF Typed
<1>2. In'
  <2>1. PICK s, k : s = Pending /\ k = ncb
    OBVIOUS
  <2>2. Pending \in Seq(Byte) /\ instream \in Seq(Byte)
    BY <1>0, PendingIsSeq
  <2>3. Stream(Pending \o instream, ncb)
    BY <1>0 DEF In
  <2>4. Stream(s, k)
    <3>1. PICK t : t = instream
      OBVIOUS
    <3>2. Stream(s \o t, k)
      BY <2>1, <2>3, <3>1
    <3> QED BY <2>1, <2>2, <3>1, <3>2, StreamPrefix
  <2>5. Stream(s, k)'
    BY <1>0, <2>4, StreamKept
  <2>6. Pending' \o instream' = s
    <3>1. Pending' = Pending
      BY <1>0 DEF Pending
    <3> QED BY <1>0, <2>1, <2>2, <3>1, ConcatEmptySeq
  <2>7. Stream(Pending \o instream, ncb)'
    BY <1>0, <2>1, <2>5, <2>6, StreamNext
  <2>8. Complete(NextHead)' = Complete(NextHead) /\ Body(ncb, cur.length)' = Body(ncb, cur.length)
    BY <1>0 DEF NextHead, HeadAt, Complete, length, Body
  <2> QED BY <1>0, <2>7, <2>8 DEF In
<1>3. Out'
  BY <1>0 DEF Out
<1>4. InFraming'
  BY <1>0, <1>1, <1>2, FramedNext
<1> QED
  BY <1>0, <1>1, <1>2, <1>3, <1>4 DEF Fits

(* tcp_conn::init starts a new connection with what clean_conn has left.   *)
LEMMA Opens ==
    ASSUME Inv, init
    PROVE  Inv'
<1> USE DEF Inv
<1>0. pc = "closed" /\ pc' = "poll" /\ epmask' = {"IN"} /\ pstate' = "open"
      /\ UNCHANGED <<ibuf, obuf, rn, cur, ncb, cbdata, nsends, accepted, wire, peer, instream>>
  BY DEF init, readVars, sendVars
<1>1. Typed'
  BY <1>0 DEF Typed, Pcs
<1>a. ibuf = NoBuf /\ pstate # "rst" /\ ibuf.data = << >> /\ Len(ibuf.data) = 0 /\ ibuf.head = 0
  BY <1>0, NoBufIsBuf, EmptySeq DEF In
<1>2. In'
  <2>1. PICK s, k : s = Pending \o instream /\ k = ncb
    OBVIOUS
  <2>2. Stream(Pending \o instream, ncb) /\ Ends(Pending \o instream, ncb)
    BY <1>0, <1>a DEF In
  <2>3. Stream(s, k) /\ Ends(s, k)
    BY <2>1, <2>2
  <2>4. Stream(s, k)' /\ Ends(s, k)'
    BY <1>0, <2>3, StreamKept
  <2>5. Pending' \o instream' = s
    BY <1>0, <2>1 DEF Pending
  <2>6. Stream(Pending \o instream, ncb)' /\ Ends(Pending \o instream, ncb)'
    BY <1>0, <2>1, <2>4, <2>5, StreamNext
  <2>7. ~(Len(ibuf.data) >= HeadLen)
    BY <1>a, TcpConnAssumption
  <2> QED BY <1>0, <1>a, <2>6, <2>7 DEF In
<1>3. Out'
  BY <1>0, NoBufIsBuf DEF Out
<1>4. InFraming'
  BY <1>0, <1>1, <1>2, FramedNext
<1> QED
  BY <1>0, <1>1, <1>2, <1>3, <1>4 DEF Fits

(* clean_conn: whatever the connection was doing, nothing of it is left.   *)
LEMMA Closes ==
    ASSUME Inv, clean_conn
    PROVE  Inv'
<1> USE DEF Inv
<1>0. /\ pc' = "closed" /\ epmask' = {} /\ ibuf' = NoBuf /\ obuf' = NoBuf
      /\ ncb' = Len(peer) /\ rn' = 0
      /\ accepted' = << >> /\ wire' = << >> /\ instream' = << >> /\ pstate' = "closed"
      /\ nsends' = nsends /\ peer' = peer
  BY DEF clean_conn, clear
<1>1. Typed'
  <2>1. << >> \in Seq(Byte) /\ Len(peer) \in Nat
    BY EmptySeq, LenProperties DEF Typed
  <2> QED BY <1>0, <2>1, NoBufIsBuf DEF Typed, Pcs
<1>a. /\ << >> \in Seq(Byte) /\ Len(<< >>) = 0 /\ << >> \o << >> = << >>
      /\ Len(peer) \in Nat /\ 0 - 0 = 0
  BY EmptySeq, LenProperties, ConcatEmptySeq DEF Typed
<1>b. ibuf'.data = << >> /\ ibuf'.head = 0 /\ obuf'.data = << >> /\ obuf'.head = 0
  BY <1>0, NoBufIsBuf
<1>2. In'
  <2>1. PICK s, k : s = << >> /\ k = Len(peer)
    OBVIOUS
  <2>2. Stream(s, k) /\ Ends(s, k)
    BY <1>a, <2>1 DEF Stream, Ends
  <2>4. Stream(s, k)' /\ Ends(s, k)'
    BY <1>0, <2>2, StreamKept
  <2>5. Pending' \o instream' = s
    BY <1>0, <1>a, <1>b, <2>1 DEF Pending
  <2>6. Stream(Pending \o instream, ncb)' /\ Ends(Pending \o instream, ncb)'
    BY <1>0, <2>1, <2>4, <2>5, StreamNext
  <2> QED BY <1>0, <1>b, <2>6 DEF In
<1>3. Out'
  BY <1>0, <1>a, <1>b DEF Out
<1>4. InFraming'
  BY <1>0, <1>1, <1>2, FramedNext
<1>5. Fits(ibuf)' /\ Fits(obuf)'
  BY <1>0, NoBufIsBuf DEF Fits
<1> QED
  BY <1>1, <1>2, <1>3, <1>4, <1>5

-----------------------------------------------------------------------------
(* handle_read.                                                            *)

(* FIONREAD, and room for what it says; the assert on ibuf.head holds.     *)
LEMMA ReadAsks ==
    ASSUME Inv, NEW n \in Arrived, read_ioctl(n)
    PROVE  Inv'
<1> USE DEF Inv
<1>1. /\ pc = "poll" /\ ibuf.head = 0 /\ ibuf \in Buf /\ Fits(ibuf)
      /\ instream \in Seq(Byte) /\ Len(instream) \in Nat
  BY LenProperties DEF read_ioctl, In, Typed
<1>2. n \in Nat /\ n <= Len(instream)
  <2>1. CASE instream = << >>
    <3>1. n = 0
      BY <2>1 DEF Arrived
    <3> QED BY <1>1, <3>1
  <2>2. CASE instream # << >>
    <3>1. n \in 1..Len(instream)
      BY <2>2 DEF Arrived
    <3> QED BY <1>1, <3>1
  <2> QED BY <2>1, <2>2
<1>3. CASE Room(ibuf, n) = NoBuf
  BY <1>1, <1>3, Closes DEF read_ioctl
<1>4. CASE Room(ibuf, n) # NoBuf
  <2>1. /\ rn' = n /\ ibuf' = Room(ibuf, n) /\ pc' = "read"
        /\ UNCHANGED <<obuf, epmask, cur, ncb, cbdata, nsends, accepted, peer, pstate, instream, wire>>
    BY <1>1, <1>4 DEF read_ioctl, sendVars, netVars
  <2>2. /\ ibuf' \in Buf /\ ibuf'.head = 0 /\ ibuf'.data = ibuf.data
        /\ ibuf'.cap - Len(ibuf.data) >= n /\ Fits(Room(ibuf, n))
    BY <1>1, <1>2, <1>4, <2>1, RoomFits
  <2>3. Typed'
    BY <1>2, <2>1, <2>2 DEF Typed, Pcs
  <2>4. In'
    <3>1. PICK s, k : s = Pending \o instream /\ k = ncb
      OBVIOUS
    <3>2. Stream(Pending \o instream, ncb) /\ (pstate # "rst" => Ends(Pending \o instream, ncb))
      BY <1>1 DEF In
    <3>3. Stream(s, k) /\ (pstate # "rst" => Ends(s, k))
      BY <3>1, <3>2
    <3>4. Stream(s, k)' /\ (pstate # "rst" => Ends(s, k)')
      BY <2>1, <3>3, StreamKept
    <3>5. Pending' \o instream' = s
      BY <1>1, <2>1, <2>2, <3>1 DEF Pending
    <3>6. Stream(Pending \o instream, ncb)' /\ (pstate # "rst" => Ends(Pending \o instream, ncb)')
      BY <2>1, <3>1, <3>4, <3>5, StreamNext
    <3>7. rn' <= ibuf'.cap - Len(ibuf'.data)
      <4>1. ibuf'.cap \in Nat /\ Len(ibuf.data) \in Nat
        BY <1>1, <2>2, LenProperties DEF Buf
      <4> QED BY <1>2, <2>1, <2>2, <4>1
    <3>8. rn' <= Len(instream')
      BY <1>2, <2>1
    <3> QED BY <2>1, <2>2, <3>6, <3>7, <3>8 DEF In
  <2>5. Out'
    BY <1>1, <2>1 DEF Out
  <2>6. InFraming'
    BY <2>1, <2>3, <2>4, FramedNext
  <2>7. Fits(ibuf)' /\ Fits(obuf)'
    BY <2>1, <2>2 DEF Fits
  <2> QED BY <2>3, <2>4, <2>5, <2>6, <2>7
<1> QED
  BY <1>3, <1>4

(* The read moves bytes from the stream to ibuf, where there is room.      *)
LEMMA ReadTakes ==
    ASSUME Inv, read_bytes
    PROVE  Inv'
<1> USE DEF Inv
<1>0. /\ pc = "read" /\ rn > 0 /\ pstate # "rst" /\ rn' = 0 /\ pc' = "parse"
      /\ ibuf' = [ibuf EXCEPT !.data = @ \o SubSeq(instream, 1, rn)]
      /\ instream' = SubSeq(instream, rn + 1, Len(instream))
      /\ UNCHANGED <<obuf, epmask, cur, ncb, cbdata, nsends, accepted, peer, pstate, wire>>
  BY DEF read_bytes, sendVars
<1>1. /\ ibuf \in Buf /\ ibuf.data \in Seq(Byte) /\ Len(ibuf.data) \in Nat /\ ibuf.cap \in Nat
      /\ instream \in Seq(Byte) /\ Len(instream) \in Nat /\ rn \in Nat
  BY LenProperties DEF Typed, Buf
<1>2. /\ rn <= ibuf.cap - Len(ibuf.data) /\ rn <= Len(instream) /\ ibuf.head = 0
  BY <1>0 DEF In
<1>3. rn \in 1..Len(instream)
  BY <1>0, <1>1, <1>2
<1> DEFINE a == SubSeq(instream, 1, rn)
           d == ibuf.data \o a
<1>4. /\ d \o instream' = ibuf.data \o instream
      /\ d \in Seq(Byte) /\ instream' \in Seq(Byte) /\ a \in Seq(Byte) /\ Len(a) = rn
  BY <1>0, <1>1, <1>3, SplitStream
<1>5. Len(d) = Len(ibuf.data) + rn
  <2> HIDE DEF a
  <2>1. Len(ibuf.data \o a) = Len(ibuf.data) + Len(a)
    BY <1>1, <1>4, ConcatProperties
  <2> QED BY <1>4, <2>1
<1>6. ibuf' = [cap |-> ibuf.cap, head |-> 0, data |-> d]
  BY <1>0, <1>1, <1>2 DEF Buf
<1> HIDE DEF d
<1>7. ibuf' \in Buf /\ ibuf'.head = 0 /\ ibuf'.data = d /\ ibuf'.cap = ibuf.cap
  BY <1>1, <1>4, <1>6 DEF Buf
<1>8. Typed'
  BY <1>0, <1>4, <1>7 DEF Typed, Pcs
<1>9. In'
  <2>1. PICK s, k : s = Pending \o instream /\ k = ncb
    OBVIOUS
  <2>2. Stream(Pending \o instream, ncb) /\ Ends(Pending \o instream, ncb)
    BY <1>0 DEF In
  <2>3. Stream(s, k) /\ Ends(s, k)
    BY <2>1, <2>2
  <2>4. Stream(s, k)' /\ Ends(s, k)'
    BY <1>0, <2>3, StreamKept
  <2>5. Pending' \o instream' = s
    BY <1>0, <1>4, <1>7, <2>1 DEF Pending
  <2>6. Stream(Pending \o instream, ncb)' /\ Ends(Pending \o instream, ncb)'
    BY <1>0, <2>1, <2>4, <2>5, StreamNext
  <2>7. ibuf'.data # << >>
    <3>1. Len(d) # 0
      BY <1>0, <1>1, <1>5
    <3> QED BY <1>7, <3>1, EmptySeq
  <2> QED BY <1>0, <2>6, <2>7 DEF In
<1>10. Out'
  BY <1>0 DEF Out
<1>11. InFraming'
  BY <1>0, <1>8, <1>9, FramedNext
<1>12. Fits(ibuf)'
  BY <1>1, <1>2, <1>5, <1>7 DEF Fits
<1>13. Fits(obuf)'
  BY <1>0 DEF Fits
<1> QED
  BY <1>8, <1>9, <1>10, <1>11, <1>12, <1>13

(* An incomplete message is kept, moved to the front.                      *)
LEMMA KeepsTheRest ==
    ASSUME Inv, parse_rest
    PROVE  Inv'
<1> USE DEF Inv
<1>0. /\ pc = "parse" /\ pc' = "poll" /\ ibuf' = [ibuf EXCEPT !.head = 0]
      /\ UNCHANGED <<obuf, epmask, rn, cur, ncb, cbdata, nsends, accepted, peer, pstate, instream, wire>>
  BY DEF parse_rest, adjust, readVars, sendVars, netVars
<1>1. /\ ibuf \in Buf /\ ibuf.data \in Seq(Byte) /\ Len(ibuf.data) \in Nat /\ ibuf.cap \in Nat
      /\ ibuf.head \in Nat
  BY LenProperties DEF Typed, Buf
<1>2. ibuf' = [cap |-> ibuf.cap, head |-> 0, data |-> ibuf.data]
  BY <1>0, <1>1 DEF Buf
<1>3. ibuf' \in Buf /\ ibuf'.head = 0 /\ ibuf'.data = ibuf.data /\ ibuf'.cap = ibuf.cap
  BY <1>1, <1>2 DEF Buf
<1>4. Typed'
  BY <1>0, <1>3 DEF Typed, Pcs
<1>5. In'
  <2>1. PICK s, k : s = Pending \o instream /\ k = ncb
    OBVIOUS
  <2>2. Stream(Pending \o instream, ncb) /\ (pstate # "rst" => Ends(Pending \o instream, ncb))
    BY <1>0 DEF In
  <2>3. Stream(s, k) /\ (pstate # "rst" => Ends(s, k))
    BY <2>1, <2>2
  <2>4. Stream(s, k)' /\ (pstate # "rst" => Ends(s, k)')
    BY <1>0, <2>3, StreamKept
  <2>5. Pending' \o instream' = s
    BY <1>0, <1>3, <2>1 DEF Pending
  <2>6. Stream(Pending \o instream, ncb)' /\ (pstate # "rst" => Ends(Pending \o instream, ncb)')
    BY <1>0, <2>1, <2>4, <2>5, StreamNext
  <2>7. ibuf' = NoBuf \/ ibuf'.data # << >>
    <3>1. ibuf = NoBuf \/ ibuf.data # << >>
      BY <1>0 DEF In
    <3>2. ibuf = NoBuf => ibuf' = NoBuf
      BY <1>2 DEF NoBuf
    <3> QED BY <1>3, <3>1, <3>2
  <2>8. Len(ibuf.data) >= HeadLen => ~Complete(NextHead)
    BY DEF parse_rest, HaveHead, length
  <2>9. Complete(NextHead)' = Complete(NextHead)
    BY <1>0, <1>3 DEF Complete, NextHead, HeadAt, length
  <2> QED BY <1>0, <1>3, <2>6, <2>7, <2>8, <2>9 DEF In
<1>6. Out'
  BY <1>0 DEF Out
<1>7. InFraming'
  BY <1>0, <1>4, <1>5, FramedNext
<1>8. Fits(ibuf)'
  BY <1>1, <1>3 DEF Fits
<1>9. Fits(obuf)'
  BY <1>0 DEF Fits
<1> QED
  BY <1>4, <1>5, <1>6, <1>7, <1>8, <1>9

(* Popping the body leaves the rest; the assert of pop fails only for a    *)
(* body of length zero whose head emptied the buffer.                      *)
LEMMA CallbackReturns ==
    ASSUME Inv, callback_returns
    PROVE  Inv'
<1> USE DEF Inv
<1>1. /\ ibuf \in Buf /\ ibuf.data \in Seq(Byte) /\ Len(ibuf.data) \in Nat /\ Fits(ibuf)
  BY LenProperties DEF Typed, Buf
<1>2. /\ pc = "callback" /\ ncb \in 1..Len(peer) /\ cur = peer[ncb]
      /\ cur.length \in Nat /\ cur.length <= Len(ibuf.data)
  BY DEF callback_returns, In
<1>3. CASE ~PopAsserts(ibuf, cur.length)
  <2>0. /\ pc' = "aborted"
        /\ UNCHANGED <<ibuf, obuf, epmask, rn, cur, ncb, cbdata, nsends, accepted, peer, pstate,
                       instream, wire>>
    BY <1>3 DEF callback_returns, abort, connVars, readVars, sendVars, netVars
  <2>1. ibuf = NoBuf
    BY <1>2, <1>3 DEF PopAsserts, length
  <2>2. cur.length = 0
    <3>1. Len(ibuf.data) = 0
      BY <2>1, NoBufIsBuf, EmptySeq
    <3> QED BY <1>2, <3>1
  <2>3. InFraming'
    BY <1>2, <2>0, <2>1, <2>2 DEF InFraming
  <2>4. Typed'
    BY <2>0 DEF Typed, Pcs
  <2>5. In'
    BY <2>0 DEF In
  <2>6. Out'
    BY <2>0 DEF Out
  <2> QED BY <2>0, <2>3, <2>4, <2>5, <2>6 DEF Fits
<1>4. CASE PopAsserts(ibuf, cur.length)
  <2>0. /\ pc' = "parse" /\ ibuf' = pop(ibuf, cur.length)
        /\ UNCHANGED <<obuf, epmask, rn, ncb, nsends, accepted, peer, pstate, instream, wire>>
    BY <1>4 DEF callback_returns, sendVars, netVars
  <2>1. cur.length \in 0..Len(ibuf.data)
    BY <1>1, <1>2
  <2>2. /\ ibuf' \in Buf /\ Fits(pop(ibuf, cur.length))
        /\ ibuf'.data = SubSeq(ibuf.data, cur.length + 1, Len(ibuf.data))
        /\ ibuf' = NoBuf \/ ibuf'.data # << >>
    BY <1>1, <2>0, <2>1, PopFits
  <2>3. Typed'
    BY <2>0, <2>2 DEF Typed, Pcs
  <2>4. In'
    <3>1. PICK s, k : s = Pending \o instream /\ k = ncb
      OBVIOUS
    <3>2. Stream(Pending \o instream, ncb) /\ (pstate # "rst" => Ends(Pending \o instream, ncb))
      BY <1>2 DEF In
    <3>3. Stream(s, k) /\ (pstate # "rst" => Ends(s, k))
      BY <3>1, <3>2
    <3>4. Stream(s, k)' /\ (pstate # "rst" => Ends(s, k)')
      BY <2>0, <3>3, StreamKept
    <3>5. Pending' \o instream' = s
      BY <1>2, <2>0, <2>2, <3>1 DEF Pending
    <3>6. Stream(Pending \o instream, ncb)' /\ (pstate # "rst" => Ends(Pending \o instream, ncb)')
      BY <2>0, <3>1, <3>4, <3>5, StreamNext
    <3> QED BY <2>0, <2>2, <3>6 DEF In
  <2>5. Out'
    BY <1>2, <2>0 DEF Out
  <2>6. InFraming'
    BY <2>0, <2>3, <2>4, FramedNext
  <2>7. Fits(ibuf)' /\ Fits(obuf)'
    BY <2>0, <2>2 DEF Fits
  <2> QED BY <2>3, <2>4, <2>5, <2>6, <2>7
<1> QED
  BY <1>3, <1>4

(* Dropping head and body one after the other drops the message.           *)
LEMMA DropTwice ==
    ASSUME NEW s \in Seq(Byte), NEW a \in Nat, NEW b \in Nat, a + b <= Len(s),
           NEW t, t = SubSeq(s, a + 1, Len(s))
    PROVE  SubSeq(t, b + 1, Len(t)) = SubSeq(s, a + b + 1, Len(s))
<1>1. Len(s) \in Nat /\ a \in 0..Len(s) /\ a + b \in 0..Len(s)
  BY LenProperties
<1>2. /\ t \in Seq(Byte) /\ Len(t) = Len(s) - a
      /\ \A i \in 1..(Len(s) - a) : t[i] = s[a + i]
  BY <1>1, DropSeq
<1> DEFINE u == SubSeq(t, b + 1, Len(t))
           v == SubSeq(s, (a + b) + 1, Len(s))
<1>3. b \in 0..Len(t)
  BY <1>1, <1>2
<1>4. /\ u \in Seq(Byte) /\ Len(u) = Len(t) - b
      /\ \A i \in 1..(Len(t) - b) : u[i] = t[b + i] /\ b + i \in 1..Len(t)
  BY <1>2, <1>3, DropSeq
<1>5. /\ v \in Seq(Byte) /\ Len(v) = Len(s) - (a + b)
      /\ \A i \in 1..(Len(s) - (a + b)) : v[i] = s[(a + b) + i]
  BY <1>1, DropSeq
<1> HIDE DEF u, v
<1>6. Len(u) = Len(v) /\ Len(t) - b = Len(s) - (a + b)
  BY <1>1, <1>2, <1>4, <1>5
<1>7. ASSUME NEW i \in 1..Len(u) PROVE u[i] = v[i]
  <2>1. i \in 1..(Len(t) - b) /\ i \in 1..(Len(s) - (a + b)) /\ (a + b) + i = a + (b + i)
    BY <1>1, <1>4, <1>6
  <2>2. u[i] = t[b + i] /\ b + i \in 1..(Len(s) - a)
    BY <1>2, <1>4, <2>1
  <2> QED BY <1>2, <1>5, <2>1, <2>2
<1>8. u = v
  BY <1>4, <1>5, <1>6, <1>7, SeqEqual
<1> QED
  BY <1>8 DEF u, v

(* The message at the front is number ncb + 1 and its callback gets its    *)
(* body.                                                                   *)
LEMMA Dispatches ==
    ASSUME Inv, dispatch
    PROVE  Inv'
<1> USE DEF Inv
<1>0. /\ pc = "parse" /\ pc' = "callback" /\ cur' = NextHead /\ ncb' = ncb + 1
      /\ cbdata' = CallbackData(NextHead) /\ ibuf' = pop(ibuf, HeadLen)
      /\ Len(ibuf.data) >= HeadLen /\ ~BadLength(NextHead)
      /\ Len(ibuf.data) >= HeadLen + NextHead.length
      /\ UNCHANGED <<obuf, epmask, rn, nsends, accepted, peer, pstate, instream, wire>>
  BY DEF dispatch, HaveHead, Complete, length, sendVars, netVars
<1>1. /\ ibuf \in Buf /\ ibuf.data \in Seq(Byte) /\ Len(ibuf.data) \in Nat /\ Fits(ibuf)
      /\ instream \in Seq(Byte) /\ Len(instream) \in Nat /\ peer \in Seq(PeerMsgs) /\ ncb \in Nat
      /\ HeadLen \in Nat /\ HeadLen >= 1
  BY LenProperties, TcpConnAssumption DEF Typed, Buf
<1>2. /\ ncb + 1 \in 1..Len(peer) /\ NextHead = peer[ncb + 1]
  <2>1. Len(ibuf.data) >= 1
    BY <1>0, <1>1
  <2> QED BY <1>0, <2>1, FrontMessage
<1>3. PICK L : L = NextHead.length
  OBVIOUS
<1>4. L \in Nat /\ FrameLen(ncb + 1) = HeadLen + L /\ HeadLen + L <= Len(ibuf.data)
  <2>1. L \in Int
    BY <1>1, <1>2, <1>3, PeerMsg
  <2>2. L <= LengthLimit /\ L >= 0
    BY <1>0, <1>3, <2>1, TcpConnAssumption DEF BadLength
  <2>3. BodyLen(peer[ncb + 1]) = L
    BY <1>2, <1>3, <2>1, <2>2, TcpConnAssumption DEF BodyLen
  <2> QED BY <1>0, <1>1, <1>3, <2>1, <2>2, <2>3 DEF FrameLen
<1>5. HeadLen \in 0..Len(ibuf.data)
  BY <1>0, <1>1
<1>6. /\ ibuf' \in Buf /\ Fits(pop(ibuf, HeadLen))
      /\ ibuf'.data = SubSeq(ibuf.data, HeadLen + 1, Len(ibuf.data))
      /\ Len(ibuf'.data) = Len(ibuf.data) - HeadLen
      /\ ibuf' = NoBuf \/ ibuf'.data # << >>
  BY <1>0, <1>1, <1>5, PopFits
<1>7. PICK s, k : s = ibuf.data \o instream /\ k = ncb
  OBVIOUS
<1>8. Stream(s, k) /\ (pstate # "rst" => Ends(s, k))
  <2>1. Stream(Pending \o instream, ncb) /\ (pstate # "rst" => Ends(Pending \o instream, ncb))
    BY <1>0 DEF In
  <2>2. Pending = ibuf.data
    BY <1>0 DEF Pending
  <2> QED BY <1>7, <2>1, <2>2
<1>9. /\ s \in Seq(Byte) /\ Len(s) = Len(ibuf.data) + Len(instream)
      /\ \A i \in 1..Len(s) : i <= Len(ibuf.data) => s[i] = ibuf.data[i]
  BY <1>1, <1>7, ConcatProperties
<1>10. s # << >> /\ Len(s) >= FrameLen(k + 1)
  <2>1. Len(s) # 0
    BY <1>0, <1>1, <1>9
  <2>2. Len(s) >= FrameLen(k + 1)
    BY <1>1, <1>4, <1>7, <1>9
  <2> QED BY <2>1, <2>2, EmptySeq
<1>11. \A i \in 1..Len(s) : i <= HeadLen + L => s[i] = <<k + 1, i>>
  BY <1>1, <1>4, <1>7, <1>8, <1>10, WithinFrame
<1>12. PICK t : t = SubSeq(s, FrameLen(k + 1) + 1, Len(s))
  OBVIOUS
<1>13. Stream(t, k + 1) /\ (pstate # "rst" => Ends(t, k + 1))
  BY <1>1, <1>8, <1>10, <1>12, DropFrame
<1>14. (Pending \o instream)' = t
  <2>1. Pending' = SubSeq(ibuf'.data, L + 1, Len(ibuf'.data))
    BY <1>0, <1>3 DEF Pending
  <2>2. Pending' = SubSeq(ibuf.data, HeadLen + L + 1, Len(ibuf.data))
    BY <1>1, <1>4, <1>6, <2>1, DropTwice
  <2>3. HeadLen + L \in 0..Len(ibuf.data)
    BY <1>1, <1>4
  <2>4. PICK n : n = HeadLen + L
    OBVIOUS
  <2>5. SubSeq(ibuf.data, n + 1, Len(ibuf.data)) \o instream = SubSeq(s, n + 1, Len(s))
    BY <1>1, <1>7, <2>3, <2>4, DropConcat
  <2> QED BY <1>0, <1>4, <1>7, <1>12, <2>2, <2>4, <2>5
<1>15. cbdata' = Body(k + 1, L)
  <2> DEFINE c == SubSeq(ibuf'.data, 1, L)
             b == Body(k + 1, L)
  <2>1. cbdata' = c
    BY <1>0, <1>3 DEF CallbackData
  <2>2. /\ Len(ibuf'.data) \in Nat /\ L <= Len(ibuf'.data) /\ ibuf'.data \in Seq(Byte)
    BY <1>1, <1>4, <1>6, LenProperties DEF Buf
  <2>3. \A i \in 1..(Len(ibuf.data) - HeadLen) :
           ibuf'.data[i] = ibuf.data[HeadLen + i]
    BY <1>1, <1>5, <1>6, DropSeq
  <2>4. /\ c \in Seq(Byte) /\ Len(c) = L
        /\ \A i \in 1..L : c[i] = ibuf'.data[i]
    <3>1. \A i \in 1..L : ibuf'.data[i] \in Byte
      BY <1>4, <2>2, ElementOfSeq
    <3>2. /\ c \in Seq(Byte)
          /\ Len(c) = IF 1 <= L THEN L - 1 + 1 ELSE 0
          /\ \A i \in 1..(L - 1 + 1) : c[i] = ibuf'.data[1 + i - 1]
      BY <1>4, <2>2, <3>1, SubSeqProperties
    <3>3. \A i \in 1..L : i \in 1..(L - 1 + 1) /\ 1 + i - 1 = i
      BY <1>4
    <3>4. Len(c) = L
      BY <1>4, <3>2
    <3> HIDE DEF c
    <3> QED BY <3>2, <3>3, <3>4
  <2>5. b \in Seq(Byte) /\ Len(b) = L /\ \A i \in 1..L : b[i] = <<k + 1, HeadLen + i>>
    <3>1. k + 1 \in Nat
      BY <1>1, <1>7
    <3>2. b \in Seq(Byte) /\ Len(b) = L
      BY <1>4, <3>1, BodyIsSeq
    <3>3. \A i \in 1..L : b[i] = <<k + 1, HeadLen + i>>
      BY DEF Body
    <3> QED BY <3>2, <3>3
  <2> HIDE DEF c, b
  <2>6. ASSUME NEW i \in 1..L PROVE c[i] = b[i]
    <3>1. i \in 1..(Len(ibuf.data) - HeadLen) /\ HeadLen + i \in 1..Len(s)
          /\ HeadLen + i <= HeadLen + L /\ HeadLen + i <= Len(ibuf.data)
      BY <1>1, <1>4, <1>9
    <3>2. ibuf.data[HeadLen + i] = <<k + 1, HeadLen + i>>
      BY <1>9, <1>11, <3>1
    <3> QED BY <2>3, <2>4, <2>5, <3>1, <3>2
  <2>7. c = b
    BY <2>4, <2>5, <2>6, SeqEqual
  <2> QED BY <2>1, <2>7 DEF b
<1>16. Typed'
  <2>1. ncb + 1 \in Nat
    BY <1>1
  <2> QED BY <1>0, <1>6, <2>1 DEF Typed, Pcs
<1>17. In'
  <2>1. PICK j : j = k + 1
    OBVIOUS
  <2>2. Stream(t, j)' /\ (pstate # "rst" => Ends(t, j)')
    BY <1>0, <1>13, <2>1, StreamKept
  <2>3. Stream(Pending \o instream, ncb)' /\ (pstate # "rst" => Ends(Pending \o instream, ncb)')
    BY <1>0, <1>7, <1>14, <2>1, <2>2, StreamNext
  <2>4. Body(ncb, cur.length)' = Body(k + 1, L)
    BY <1>0, <1>3, <1>7 DEF Body
  <2>5. L <= Len(ibuf'.data)
    BY <1>1, <1>4, <1>6
  <2> QED BY <1>0, <1>2, <1>3, <1>4, <1>6, <1>15, <2>3, <2>4, <2>5 DEF In
<1>18. Out'
  BY <1>0 DEF Out
<1>19. InFraming'
  BY <1>0, <1>16, <1>17, FramedNext
<1>20. Fits(ibuf)' /\ Fits(obuf)'
  BY <1>0, <1>6 DEF Fits
<1> QED
  BY <1>16, <1>17, <1>18, <1>19, <1>20

-----------------------------------------------------------------------------
(* send_data.                                                              *)

(* obuf once the head of a reply is in it.                                 *)
LEMMA HeadWritten ==
    ASSUME Inv, obuf.head = 0, Room(obuf, HeadLen) # NoBuf
    PROVE  /\ WithHead \in Buf /\ Fits(WithHead) /\ WithHead.head = 0
           /\ WithHead.data = obuf.data \o Frame(nsends + 1, 0)
           /\ Len(WithHead.data) = Len(obuf.data) + HeadLen
<1> DEFINE r == Room(obuf, HeadLen)
           h == Frame(nsends + 1, 0)
           d == obuf.data \o h
<1>1. /\ obuf \in Buf /\ Fits(obuf) /\ nsends + 1 \in Nat /\ 0 \in Nat
      /\ obuf.data \in Seq(Byte) /\ Len(obuf.data) \in Nat /\ HeadLen \in Nat
  BY LenProperties, TcpConnAssumption DEF Inv, Typed, Buf
<1>2. /\ r \in Buf /\ r.head = 0 /\ r.data = obuf.data /\ r.cap - Len(obuf.data) >= HeadLen
  BY <1>1, RoomFits
<1>3. h \in Seq(Byte) /\ Len(h) = HeadLen + 0 /\ SubSeq(h, 1, HeadLen) = h
  BY <1>1, FrameIsSeq, HeadThenBody
<1>4. WithHead = [r EXCEPT !.data = @ \o SubSeq(h, 1, HeadLen)]
  BY DEF WithHead
<1> HIDE DEF r, h
<1>5. d \in Seq(Byte) /\ Len(d) = Len(obuf.data) + HeadLen
  <2>1. Len(h) = HeadLen
    BY <1>1, <1>3
  <2>2. d \in Seq(Byte) /\ Len(d) = Len(obuf.data) + Len(h)
    BY <1>1, <1>3, ConcatProperties
  <2> QED BY <2>1, <2>2
<1>6. WithHead = [cap |-> r.cap, head |-> 0, data |-> d]
  BY <1>2, <1>3, <1>4 DEF Buf
<1> HIDE DEF d
<1>7. WithHead \in Buf /\ WithHead.head = 0 /\ WithHead.data = d /\ WithHead.cap = r.cap
  BY <1>2, <1>5, <1>6 DEF Buf
<1>8. r.cap \in Nat
  BY <1>2 DEF Buf
<1>9. Fits(WithHead)
  BY <1>1, <1>2, <1>5, <1>7, <1>8 DEF Fits
<1> QED
  BY <1>5, <1>7, <1>9 DEF d, h

(* A send that succeeds appends one whole message.                         *)
LEMMA SendOk ==
    ASSUME Inv, NEW n \in SendLens, send_ok(n)
    PROVE  Inv'
<1> USE DEF Inv
<1> DEFINE h == Frame(nsends + 1, 0)
           b == Body(nsends + 1, n)
           f == Frame(nsends + 1, n)
           r == Room(WithHead, n)
           d == obuf.data \o f
<1>0. /\ pc \in {"callback", "poll"} /\ pc' = pc /\ nsends' = nsends + 1 /\ obuf.head = 0
      /\ Room(obuf, HeadLen) # NoBuf /\ r # NoBuf
      /\ obuf' = [r EXCEPT !.data = @ \o b] /\ accepted' = accepted \o f
      /\ epmask' = IF Need THEN epmask \cup {"OUT"} ELSE epmask
      /\ UNCHANGED <<ibuf, rn, cur, ncb, cbdata, peer, pstate, instream, wire>>
  BY DEF send_ok, send_call, AppRuns, readVars, netVars
<1>1. /\ n \in Nat /\ nsends + 1 \in Nat /\ HeadLen \in Nat /\ HeadLen >= 1
      /\ obuf.data \in Seq(Byte) /\ Len(obuf.data) \in Nat
      /\ accepted \in Seq(Byte) /\ wire \in Seq(Byte)
  BY LenProperties, TcpConnAssumption DEF Typed, Buf
<1>2. /\ WithHead \in Buf /\ Fits(WithHead) /\ WithHead.head = 0
      /\ WithHead.data = obuf.data \o h
      /\ Len(WithHead.data) = Len(obuf.data) + HeadLen
  BY <1>0, HeadWritten
<1>3. /\ r \in Buf /\ r.head = 0 /\ r.data = WithHead.data /\ r.cap - Len(WithHead.data) >= n
  BY <1>0, <1>1, <1>2, RoomFits
<1>4. /\ h \in Seq(Byte) /\ b \in Seq(Byte) /\ f \in Seq(Byte)
      /\ h \o b = f /\ Len(b) = n /\ Len(f) = HeadLen + n
  <2>1. 0 \in Nat
    OBVIOUS
  <2> QED BY <1>1, <2>1, FrameIsSeq, BodyIsSeq, HeadThenBody
<1> HIDE DEF h, b, f, r
<1>5. \A x, y, z \in Seq(Byte) : (x \o y) \o z = x \o (y \o z)
  BY ConcatAssociative, SMTT(30)
<1>6. WithHead.data \o b = d
  <2>0. obuf.data \in Seq(Byte) /\ h \in Seq(Byte) /\ b \in Seq(Byte)
    BY <1>1, <1>4
  <2>1. (obuf.data \o h) \o b = obuf.data \o (h \o b)
    BY <1>5, <2>0, Zenon
  <2> QED BY <1>2, <1>4, <2>1
<1>7. d \in Seq(Byte) /\ Len(d) = Len(obuf.data) + (HeadLen + n)
  <2>1. d \in Seq(Byte) /\ Len(d) = Len(obuf.data) + Len(f)
    BY <1>1, <1>4, ConcatProperties
  <2> HIDE DEF d
  <2>2. Len(f) = HeadLen + n
    BY <1>4
  <2> QED BY <2>1, <2>2
<1>b. PICK N \in Nat, l \in Nat, c \in Nat :
         /\ N = HeadLen + n /\ N >= 1 /\ l = Len(obuf.data) /\ c = r.cap
         /\ Len(d) = l + N /\ l + N <= c
  <2>1. HeadLen + n \in Nat /\ HeadLen + n >= 1
    BY <1>1
  <2>2. r.cap \in Nat
    BY <1>3 DEF Buf
  <2>3. Len(WithHead.data) = Len(obuf.data) + HeadLen /\ r.cap - Len(WithHead.data) >= n
    BY <1>2, <1>3
  <2>4. r.cap - (Len(obuf.data) + HeadLen) >= n
    BY <2>3
  <2>5. n \in Nat /\ HeadLen \in Nat /\ Len(obuf.data) \in Nat
    BY <1>1
  <2>6. Len(obuf.data) + (HeadLen + n) <= r.cap
    <3>1. \A w, x, y, z \in Nat : w - (x + y) >= z => x + (y + z) <= w
      OBVIOUS
    <3>2. PICK w \in Nat, x \in Nat, y \in Nat, z \in Nat :
             w = r.cap /\ x = Len(obuf.data) /\ y = HeadLen /\ z = n
      BY <2>2, <2>5
    <3>3. w - (x + y) >= z
      BY <2>4, <3>2
    <3>4. x + (y + z) <= w
      BY <3>1, <3>3
    <3> QED BY <3>2, <3>4
  <2> HIDE DEF d
  <2> QED BY <1>7, <2>1, <2>2, <2>5, <2>6
<1>a. wire \o d = (wire \o obuf.data) \o f
  BY <1>1, <1>4, <1>5
<1> HIDE DEF d
<1>8. obuf' = [cap |-> r.cap, head |-> 0, data |-> d]
  BY <1>0, <1>3, <1>6 DEF Buf
<1>9. obuf' \in Buf /\ obuf'.head = 0 /\ obuf'.data = d /\ obuf'.cap = r.cap
      /\ r.cap \in Nat
  BY <1>3, <1>7, <1>8 DEF Buf
<1>10. Typed'
  <2>1. accepted' \in Seq(Byte)
    BY <1>0, <1>1, <1>4, ConcatProperties
  <2>2. epmask' \subseteq {"IN", "OUT"}
    BY <1>0 DEF Typed
  <2> QED BY <1>0, <1>1, <1>9, <2>1, <2>2 DEF Typed
<1>11. In'
  BY <1>0, InKept
<1>12. Out'
  <2>1. wire \o obuf.data = accepted
    BY <1>0 DEF Out
  <2>2. wire \o d = accepted \o f
    BY <1>a, <2>1
  <2>3. obuf'.data # << >>
    <3>1. Len(d) # 0
      BY <1>b
    <3> QED BY <1>9, <3>1, EmptySeq
  <2>4. "OUT" \in epmask'
    <3>1. CASE obuf.data = << >>
      <4>1. Need
        BY <3>1, EmptySeq DEF Need, length
      <4> QED BY <1>0, <4>1
    <3>2. CASE obuf.data # << >>
      <4>1. "OUT" \in epmask
        BY <1>0, <3>2 DEF Out
      <4> QED BY <1>0, <4>1
    <3> QED BY <3>1, <3>2
  <2> QED BY <1>0, <1>9, <2>2, <2>3, <2>4 DEF Out
<1>13. InFraming'
  BY <1>0, <1>10, <1>11, FramedNext
<1>14. Fits(ibuf)'
  BY <1>0 DEF Fits
<1>15. Fits(obuf)'
  <2>1. Len(obuf'.data) <= obuf'.cap
    BY <1>9, <1>b
  <2> QED BY <1>9, <1>b, <2>1 DEF Fits
<1> QED
  BY <1>10, <1>11, <1>12, <1>13, <1>14, <1>15

(* A send that finds no room for its head changes nothing.                 *)
LEMMA SendFailsAtHead ==
    ASSUME Inv, send_fail_head
    PROVE  Inv'
<1> USE DEF Inv
<1>0. /\ pc \in {"callback", "poll"} /\ pc' = pc /\ nsends' = nsends + 1
      /\ UNCHANGED <<obuf, epmask, accepted, ibuf, rn, cur, ncb, cbdata, peer, pstate, instream, wire>>
  BY DEF send_fail_head, send_call, AppRuns, readVars, netVars
<1>1. Typed'
  BY <1>0 DEF Typed
<1>2. In'
  BY <1>0, InKept
<1>3. Out'
  BY <1>0 DEF Out
<1>4. InFraming'
  BY <1>0, <1>1, <1>2, FramedNext
<1> QED
  BY <1>0, <1>1, <1>2, <1>3, <1>4 DEF Fits

(* A send that finds no room for its body leaves either no buffer, as      *)
(* before, or a buffer whose head is not zero.                             *)
LEMMA SendFailsAtBody ==
    ASSUME Inv, NEW n \in SendLens, send_fail_body(n)
    PROVE  Inv'
<1> USE DEF Inv
<1>0. /\ pc \in {"callback", "poll"} /\ pc' = pc /\ nsends' = nsends + 1 /\ obuf.head = 0
      /\ Room(obuf, HeadLen) # NoBuf /\ obuf' = pop(WithHead, HeadLen)
      /\ UNCHANGED <<epmask, accepted, ibuf, rn, cur, ncb, cbdata, peer, pstate, instream, wire>>
  BY DEF send_fail_body, send_call, AppRuns, readVars, netVars
<1>1. /\ HeadLen \in Nat /\ HeadLen >= 1 /\ wire \in Seq(Byte)
      /\ obuf.data \in Seq(Byte) /\ Len(obuf.data) \in Nat
  BY LenProperties, TcpConnAssumption DEF Typed, Buf
<1>2. /\ WithHead \in Buf /\ Fits(WithHead) /\ WithHead.head = 0
      /\ Len(WithHead.data) = Len(obuf.data) + HeadLen
  BY <1>0, HeadWritten
<1>3. HeadLen \in 0..Len(WithHead.data)
  BY <1>1, <1>2
<1>4. /\ obuf' \in Buf /\ Fits(pop(WithHead, HeadLen))
      /\ Len(obuf'.data) = Len(WithHead.data) - HeadLen
      /\ obuf' = NoBuf \/ obuf'.head = WithHead.head + HeadLen
  BY <1>0, <1>2, <1>3, PopFits
<1>5. Len(obuf'.data) = Len(obuf.data)
  BY <1>1, <1>2, <1>4
<1>6. obuf'.data = << >> <=> obuf.data = << >>
  <2>1. obuf'.data \in Seq(Byte)
    BY <1>4 DEF Buf
  <2>2. \A x \in Seq(Byte) : x = << >> <=> Len(x) = 0
    BY EmptySeq
  <2> QED BY <1>1, <1>5, <2>1, <2>2
<1>7. Typed'
  BY <1>0, <1>4 DEF Typed
<1>8. In'
  BY <1>0, InKept
<1>9. Out'
  <2>1. ASSUME obuf'.head = 0 PROVE wire' \o obuf'.data = accepted'
    <3>1. obuf' = NoBuf
      BY <1>1, <1>2, <1>4, <2>1
    <3>2. obuf'.data = << >> /\ obuf.data = << >>
      BY <1>6, <3>1, NoBufIsBuf
    <3> QED BY <1>0, <3>2 DEF Out
  <2> QED BY <1>0, <1>6, <2>1 DEF Out
<1>10. InFraming'
  BY <1>0, <1>7, <1>8, FramedNext
<1>11. Fits(ibuf)' /\ Fits(obuf)'
  BY <1>0, <1>4 DEF Fits
<1> QED
  BY <1>7, <1>8, <1>9, <1>10, <1>11

(* An assert that fails because obuf.head is not zero.                     *)
LEMMA Aborts ==
    ASSUME Inv, pc # "aborted", pc' = "aborted", obuf.head # 0, nsends' \in Nat,
           UNCHANGED <<obuf, epmask, accepted, ibuf, rn, cur, ncb, cbdata, peer, pstate, instream, wire>>
    PROVE  Inv'
<1> USE DEF Inv
<1>1. Typed'
  BY DEF Typed, Pcs
<1>2. In'
  BY DEF In
<1>3. Out'
  BY DEF Out
<1>4. InFraming'
  BY DEF InFraming
<1> QED
  BY <1>1, <1>2, <1>3, <1>4 DEF Fits

-----------------------------------------------------------------------------
(* handle_write.                                                           *)

(* A write moves the front of obuf to the wire.                            *)
LEMMA WriteSome ==
    ASSUME Inv, NEW n \in 1..length(obuf), write_some(n)
    PROVE  Inv'
<1> USE DEF Inv
<1> DEFINE a == SubSeq(obuf.data, 1, n)
           t == SubSeq(obuf.data, n + 1, Len(obuf.data))
<1>0. /\ pc = "write" /\ pc' = pc /\ obuf.head = 0 /\ wire' = wire \o a
      /\ obuf' = [obuf EXCEPT !.data = t]
      /\ UNCHANGED <<epmask, ibuf, rn, cur, ncb, cbdata, nsends, accepted, peer, pstate, instream>>
  BY DEF write_some, Written, Keep, readVars, sendVars
<1>1. /\ obuf \in Buf /\ obuf.data \in Seq(Byte) /\ Len(obuf.data) \in Nat /\ wire \in Seq(Byte)
      /\ n \in 1..Len(obuf.data) /\ n \in 0..Len(obuf.data) /\ obuf.cap \in Nat
  BY LenProperties DEF Typed, Buf, length
<1>2. /\ (wire \o a) \o t = wire \o obuf.data
      /\ wire \o a \in Seq(Byte) /\ t \in Seq(Byte)
  BY <1>1, SplitStream
<1>3. Len(t) = Len(obuf.data) - n
  BY <1>1, DropSeq
<1> HIDE DEF a, t
<1>4. obuf' = [cap |-> obuf.cap, head |-> 0, data |-> t]
  BY <1>0, <1>1 DEF Buf
<1>5. obuf' \in Buf /\ obuf'.head = 0 /\ obuf'.data = t /\ obuf'.cap = obuf.cap
  BY <1>1, <1>2, <1>4 DEF Buf
<1>6. Typed'
  BY <1>0, <1>2, <1>5 DEF Typed
<1>7. In'
  BY <1>0, InKept
<1>8. Out'
  <2>1. wire' \o obuf'.data = accepted'
    BY <1>0, <1>2, <1>5 DEF Out
  <2> QED BY <1>0, <2>1 DEF Out
<1>9. InFraming'
  BY <1>0, <1>6, <1>7, FramedNext
<1>10. Fits(ibuf)'
  BY <1>0 DEF Fits
<1>11. Fits(obuf)'
  BY <1>0, <1>1, <1>3, <1>5 DEF Fits
<1> QED
  BY <1>6, <1>7, <1>8, <1>9, <1>10, <1>11

(* handle_write begins, or stops at EAGAIN: EPOLLOUT stays registered and  *)
(* something waits.                                                        *)
LEMMA WriteWaits ==
    ASSUME Inv, handle_write \/ write_eagain
    PROVE  Inv'
<1> USE DEF Inv
<1>0. /\ UNCHANGED <<obuf, epmask, ibuf, rn, cur, ncb, cbdata, nsends, accepted, peer, pstate,
                     instream, wire>>
      /\ \/ pc = "poll" /\ pc' = "write" /\ "OUT" \in epmask
         \/ pc = "write" /\ pc' = "poll" /\ length(obuf) > 0
  BY DEF handle_write, write_eagain, Keep, readVars, sendVars
<1>1. Typed'
  BY <1>0 DEF Typed, Pcs
<1>2. In'
  BY <1>0, InKept
<1>3. Out'
  <2>1. length(obuf) > 0 => obuf.data # << >>
    BY EmptySeq DEF length
  <2> QED BY <1>0, <2>1 DEF Out
<1>4. InFraming'
  BY <1>0, <1>1, <1>2, FramedNext
<1> QED
  BY <1>0, <1>1, <1>2, <1>3, <1>4 DEF Fits

(* handle_write has sent everything: EPOLLOUT is given up.                 *)
LEMMA WriteDone ==
    ASSUME Inv, write_done
    PROVE  Inv'
<1> USE DEF Inv
<1>0. /\ pc = "write" /\ pc' = "poll" /\ length(obuf) = 0 /\ epmask' = epmask \ {"OUT"}
      /\ UNCHANGED <<obuf, ibuf, rn, cur, ncb, cbdata, nsends, accepted, peer, pstate,
                     instream, wire>>
  BY DEF write_done, NotListening, Keep, readVars, sendVars
<1>1. Typed'
  BY <1>0 DEF Typed, Pcs
<1>2. In'
  BY <1>0, InKept
<1>3. Out'
  <2>1. obuf.data = << >>
    BY <1>0, EmptySeq DEF length, Typed, Buf
  <2>2. "OUT" \notin epmask'
    BY <1>0
  <2> QED BY <1>0, <2>1, <2>2 DEF Out
<1>4. InFraming'
  BY <1>0, <1>1, <1>2, FramedNext
<1> QED
  BY <1>0, <1>1, <1>2, <1>3, <1>4 DEF Fits

-----------------------------------------------------------------------------
(* The theorems.                                                           *)

(* The invariant holds before the first connection.                        *)
LEMMA InitInv ==
    Init => Inv
<1> SUFFICES ASSUME Init PROVE Inv
  OBVIOUS
<1>1. /\ pc = "closed" /\ rn = 0 /\ ncb = 0 /\ nsends = 0 /\ pstate = "closed" /\ epmask = {}
      /\ ibuf = NoBuf /\ obuf = NoBuf /\ accepted = << >> /\ wire = << >> /\ instream = << >>
      /\ peer = << >>
  BY DEF Init
<1>2. << >> \in Seq(Byte) /\ << >> \in Seq(PeerMsgs) /\ Len(<< >>) = 0 /\ << >> \o << >> = << >>
  BY EmptySeq, ConcatEmptySeq
<1>3. ibuf \in Buf /\ obuf \in Buf /\ ibuf.head = 0 /\ ibuf.data = << >> /\ obuf.data = << >>
      /\ Fits(ibuf) /\ Fits(obuf)
  BY <1>1, NoBufIsBuf
<1>4. Typed
  BY <1>1, <1>2, <1>3 DEF Typed, Pcs
<1>5. In
  <2>1. Pending = << >>
    BY <1>1, <1>3 DEF Pending
  <2>2. Stream(<< >>, 0) /\ Ends(<< >>, 0)
    BY <1>1, <1>2 DEF Stream, Ends
  <2>3. Stream(Pending \o instream, ncb) /\ Ends(Pending \o instream, ncb)
    BY <1>1, <1>2, <2>1, <2>2
  <2> QED BY <1>1, <1>3, <2>3 DEF In
<1>6. Out
  BY <1>1, <1>2, <1>3 DEF Out
<1>7. InFraming
  BY <1>1 DEF InFraming
<1> QED
  BY <1>3, <1>4, <1>5, <1>6, <1>7 DEF Inv

(* The invariant depends on the variables only.                            *)
LEMMA StutterInv ==
    ASSUME Inv, UNCHANGED vars
    PROVE  Inv'
<1> USE DEF Inv
<1>0. UNCHANGED <<pc, obuf, epmask, ibuf, rn, cur, ncb, cbdata, nsends, accepted, peer, pstate,
                  instream, wire>>
  BY DEF vars, connVars, readVars, sendVars, netVars
<1>1. Typed'
  BY <1>0 DEF Typed
<1>2. In'
  <2>1. CASE pc = "aborted"
    BY <1>0, <2>1 DEF In
  <2>2. CASE pc # "aborted"
    BY <1>0, <2>2, InKept
  <2> QED BY <2>1, <2>2
<1>3. Out'
  BY <1>0 DEF Out
<1>4. InFraming'
  BY <1>0 DEF InFraming, Body
<1> QED
  BY <1>0, <1>1, <1>2, <1>3, <1>4 DEF Fits

(* Every step keeps the invariant.                                         *)
LEMMA NextInv ==
    ASSUME Inv, Next
    PROVE  Inv'
<1>1. CASE init
  BY <1>1, Opens
<1>2. CASE Peer
  BY <1>2, PeerSends, PeerCloses, PeerResets DEF Peer
<1>3. CASE Read
  <2>1. CASE \E n \in Arrived : read_ioctl(n)
    BY <2>1, ReadAsks
  <2>2. CASE read_bytes
    BY <2>2, ReadTakes
  <2>3. CASE read_end
    BY <2>3, Closes DEF read_end
  <2> QED BY <1>3, <2>1, <2>2, <2>3 DEF Read
<1>4. CASE Parse
  <2>1. CASE parse_reject
    BY <2>1, Closes DEF parse_reject
  <2>2. CASE parse_rest
    BY <2>2, KeepsTheRest
  <2>3. CASE dispatch
    BY <2>3, Dispatches
  <2>4. CASE callback_returns
    BY <2>4, CallbackReturns
  <2> QED BY <1>4, <2>1, <2>2, <2>3, <2>4 DEF Parse
<1>5. CASE Write
  <2>1. CASE handle_write \/ write_eagain
    BY <2>1, WriteWaits
  <2>2. CASE \E n \in 1..length(obuf) : write_some(n)
    BY <2>2, WriteSome
  <2>3. CASE write_error
    BY <2>3, Closes DEF write_error
  <2>4. CASE write_abort
    <3>1. nsends' \in Nat
      BY <2>4 DEF write_abort, abort, sendVars, Inv, Typed
    <3> QED
      BY <2>4, <3>1, Aborts DEF write_abort, abort, connVars, readVars, sendVars, netVars
  <2>5. CASE write_done
    BY <2>5, WriteDone
  <2> QED BY <1>5, <2>1, <2>2, <2>3, <2>4, <2>5 DEF Write
<1>6. CASE App
  <2>1. CASE \E n \in SendLens : send_ok(n) \/ send_fail_body(n)
    BY <2>1, SendOk, SendFailsAtBody
  <2>2. CASE send_fail_head
    BY <2>2, SendFailsAtHead
  <2>3. CASE send_abort
    <3>1. nsends' \in Nat
      BY <2>3 DEF send_abort, send_call, Inv, Typed
    <3>2. pc # "aborted"
      BY <2>3 DEF send_abort, send_call, AppRuns
    <3> QED
      BY <2>3, <3>1, <3>2, Aborts DEF send_abort, send_call, readVars, netVars
  <2> QED BY <1>6, <2>1, <2>2, <2>3 DEF App
<1> QED
  BY <1>1, <1>2, <1>3, <1>4, <1>5, <1>6 DEF Next

(* The inductive invariant holds in every reachable state of a tcp_conn    *)
(* object, over all the connections it serves.                             *)
THEOREM ConnInvariant ==
    Spec => []Inv
<1>1. Inv /\ [Next]_vars => Inv'
  BY NextInv, StutterInv
<1> QED
  BY <1>1, InitInv, PTL DEF Spec

(* handle_read gives every callback the body of the next message of this   *)
(* connection, all of it and nothing else, however the stream is cut into  *)
(* reads, whatever the lengths of messages and the capacities of buffers,  *)
(* and whatever connections the object served before; an assert fails only *)
(* after a failed send or for a body of length zero.                       *)
THEOREM CallbacksGetWholeMessages ==
    Spec => []InFraming
<1>1. Inv => InFraming
  BY DEF Inv
<1> QED
  BY <1>1, ConnInvariant, PTL

(* What handle_write has written and what waits in obuf are exactly the    *)
(* messages for which send_data returned 0, in order, unless a failed send *)
(* has damaged obuf.                                                       *)
THEOREM RepliesGoOutInOrder ==
    Spec => []OutFraming
<1>1. Inv => OutFraming
  BY DEF Inv, Out, OutFraming
<1> QED
  BY <1>1, ConnInvariant, PTL

(* Whenever the loop goes back to epoll_wait, the connection is registered *)
(* for EPOLLOUT if and only if something waits in obuf.                    *)
THEOREM ListensForWritingWhenNeeded ==
    Spec => []EpollOutIffPending
<1>1. Inv => EpollOutIffPending
  <2> SUFFICES ASSUME Inv, pc = "poll" PROVE "OUT" \in epmask <=> length(obuf) > 0
    BY DEF EpollOutIffPending
  <2>1. obuf.data \in Seq(Byte) /\ Len(obuf.data) \in Nat
    BY LenProperties DEF Inv, Typed, Buf
  <2>2. obuf.data # << >> <=> Len(obuf.data) > 0
    BY <2>1, EmptySeq
  <2> QED BY <2>2 DEF Inv, Out, length
<1> QED
  BY <1>1, ConnInvariant, PTL

(* No buffer of a connection is filled beyond its capacity; back in        *)
(* epoll_wait the connection holds a read buffer only for an incomplete    *)
(* message, and a closed connection holds none.                            *)
THEOREM BuffersAreHeldOnlyWhenNeeded ==
    Spec => []Buffers
<1>1. Inv => Buffers
  <2> SUFFICES ASSUME Inv PROVE Buffers
    OBVIOUS
  <2>1. \A b \in {ibuf, obuf} : b.head + length(b) <= b.cap
    BY DEF Inv, Fits, length
  <2>2. ASSUME pc \in {"poll", "closed"}, ibuf # NoBuf
        PROVE  pc = "poll" /\ length(ibuf) > 0 /\ (length(ibuf) < HeadLen \/ ~Complete(NextHead))
    <3>1. pc = "poll" /\ ibuf.data # << >>
          /\ (Len(ibuf.data) >= HeadLen => ~Complete(NextHead))
      BY <2>2 DEF Inv, In
    <3>2. ibuf.data \in Seq(Byte) /\ Len(ibuf.data) \in Nat
      BY LenProperties DEF Inv, Typed, Buf
    <3>3. Len(ibuf.data) > 0
      BY <3>1, <3>2, EmptySeq
    <3> QED BY <3>1, <3>2, <3>3, TcpConnAssumption DEF length
  <2> QED BY <2>1, <2>2 DEF Buffers
<1> QED
  BY <1>1, ConnInvariant, PTL
=============================================================================
