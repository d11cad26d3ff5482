--------------------------- MODULE TcpServerProofs ---------------------------
(***************************************************************************)
(* Proofs about TcpServer, for any number of connections, any connection   *)
(* limit, any number of workers and any limit on descriptors.              *)
(*                                                                         *)
(* Who holds a descriptor is not inductive by itself: Holding says it of   *)
(* queues, epoll sets, objects and the loops inside clean_conn together,   *)
(* and is claimed only until close(_reservfd) has hit a connection         *)
(* (stolen). What must hold even after that is kept apart: Typed, InBounds *)
(* (numbers beyond the limit are never handed out, and whatever a loop     *)
(* serves has a slot) and Single.  Single is why a server without workers  *)
(* never serves more than maxConns and never fails the assertion: its      *)
(* count is never behind, so the number accept returns, the lowest free    *)
(* one, is at most the number of connections plus one.  That argument      *)
(* needs that all lower numbers are connections and none of them a second  *)
(* placeholder, which Roomy provides: if the limit on descriptors lies     *)
(* beyond the table, EMFILE never happens and the placeholder stays where  *)
(* the constructor put it; and if it does not, no number lies beyond the   *)
(* table at all.                                                           *)
(***************************************************************************)
EXTENDS TcpServer, FiniteSetTheorems, WellFoundedInduction, TLAPS

(* The two places of a loop inside clean_conn.                             *)
Cleans == {"clean_fin", "clean_bad"}

(* The places of the main thread in do_accept.                             *)
Steps == {"poll", "accept", "check", "dispatch", "close_reserv", "close_new", "open_reserv",
          "aborted", "exited"}

(* The type invariant.                                                     *)
Typed ==
    /\ setup \in Setups
    /\ stolen \in BOOLEAN /\ conn_full \in BOOLEAN
    /\ fdtab \in [Fd -> Clients \cup {"free", "reserve", "other"}]
    /\ backlog \subseteq Clients
    /\ apc \in Steps
    /\ connfd \in Fd \cup {-1}
    /\ reservfd \in Fd \cup {-1}
    /\ curr_conns \in Int
    /\ curr_index \in 0..setup.threads
    /\ inbox \in [Loops -> Seq(Fd)]
    /\ conns \in [Slots -> Loops \cup {NULL, Unallocated}]
    /\ io_evs \in [Loops -> SUBSET Fd]
    /\ epset \in [Loops -> SUBSET Fd]
    /\ lpc \in [Loops -> Cleans \cup {"idle", "adjust"}]
    /\ lfd \in [Loops -> Fd \cup {-1}]

(* Numbers beyond the limit stay out of reach, and admitted connections    *)
(* have a slot.                                                            *)
InBounds ==
    /\ connfd <= setup.limit /\ reservfd <= setup.limit
    /\ \A l \in Loops : lfd[l] <= setup.limit
    /\ \A f \in Fd : f > setup.limit => fdtab[f] = "other"
    /\ \A f \in Fd : fdtab[f] = "other" => f > setup.limit \/ f <= setup.late
    /\ \A l \in Loops : epset[l] \subseteq Slots
    /\ \A l \in Loops : \A i \in 1..Len(inbox[l]) : inbox[l][i] \in Slots
    /\ apc = "dispatch" => connfd \in Slots
    /\ apc \in {"check", "dispatch", "close_new", "aborted"} => connfd \in Fd

(* The main thread is in do_accept or in a callback of a connection.       *)
OneAtATime == apc # "poll" => lpc[MainLoop] = "idle"

(* Who holds which open connection.                                        *)
Holding ==
    /\ \A l \in Loops : \A i \in 1..Len(inbox[l]) :
          /\ fdtab[inbox[l][i]] \in Clients
          /\ ~Accepting(inbox[l][i])
          /\ \A k \in Loops : inbox[l][i] \notin epset[k]
    /\ \A l, k \in Loops : \A i \in 1..Len(inbox[l]), j \in 1..Len(inbox[k]) :
          inbox[l][i] = inbox[k][j] => l = k /\ i = j
    /\ \A l \in Loops : \A f \in epset[l] :
          fdtab[f] \in Clients /\ ~Accepting(f) /\ conns[f] = l
    /\ \A f \in Fd : Accepting(f) => fdtab[f] \in Clients
    /\ \A f \in Fd : fdtab[f] \in Clients =>
          \/ Accepting(f)
          \/ \E l \in Loops : \E i \in 1..Len(inbox[l]) : inbox[l][i] = f
          \/ \E l \in Loops : f \in epset[l]
    /\ io_evs = epset
    /\ \A l \in Loops : lpc[l] \in Cleans => lfd[l] \in epset[l]

(* Without workers the count is never behind.                              *)
Single ==
    setup.threads = 0 =>
        /\ \A l \in Loops : inbox[l] = << >>
        /\ \A l \in Loops \ {MainLoop} : epset[l] = {} /\ lpc[l] = "idle"
        /\ Cardinality(epset[MainLoop]) <= curr_conns + (IF lpc[MainLoop] \in Cleans THEN 1 ELSE 0)
        /\ curr_conns + (IF lpc[MainLoop] \in Cleans THEN 1 ELSE 0) <= MaxConns
        /\ apc = "dispatch" => curr_conns < MaxConns
        /\ lpc[MainLoop] \in Cleans => lfd[MainLoop] \in epset[MainLoop]
        /\ apc = "check" => \A f \in FreeFds : f > connfd

(* With more descriptors than slots, accept never fails with EMFILE, and   *)
(* the placeholder stays where it is.                                      *)
Roomy ==
    setup.late = 0 /\ setup.limit >= conns_size =>
        /\ ~conn_full /\ ~stolen
        /\ apc \notin {"close_reserv", "close_new", "open_reserv"}
        /\ fdtab[0] = "reserve"
        /\ \A f \in Fd : fdtab[f] = "reserve" => f = 0
        /\ \A f \in Fd : fdtab[f] \in Clients => f \in Slots \/ Accepting(f)

(* The inductive invariant.                                                *)
Inv ==
    /\ Typed /\ InBounds /\ OneAtATime
    /\ ~stolen => Holding
    /\ ConnCount
    /\ Single
    /\ Roomy
    /\ NoAbort

-----------------------------------------------------------------------------
(* The constants.                                                          *)

(* A nonempty set of natural numbers has a least element.                  *)
LEMMA LeastNatural ==
    ASSUME NEW S, S \subseteq Nat, S # {}
    PROVE  \E n \in S : \A m \in S : n <= m
<1>1. IsWellFoundedOn(OpToRel(<, Nat), Nat)
  BY NatLessThanWellFounded
<1>2. PICK n \in S : \A m \in S : ~(<<m, n>> \in OpToRel(<, Nat))
  BY <1>1, WFMin
<1>3. ASSUME NEW m \in S, m < n PROVE FALSE
  <2>1. <<m, n>> \in OpToRel(<, Nat)
    BY <1>3 DEF OpToRel
  <2> QED BY <1>2, <2>1
<1> QED
  BY <1>3

(* A nonempty finite set of natural numbers has a greatest element, which  *)
(* is what Most chooses: otherwise take a least subset that has none.      *)
LEMMA MostIsGreatest ==
    ASSUME NEW S, IsFiniteSet(S), S # {}, S \subseteq Nat
    PROVE  Most(S) \in S /\ \A k \in S : k <= Most(S)
<1> DEFINE Has(T) == \E m \in T : \A k \in T : k <= m
           Bad == {T \in SUBSET S : T # {} /\ ~Has(T)}
<1>1. SUFFICES ASSUME Bad # {} PROVE FALSE
  <2>1. Has(S)
    BY <1>1
  <2> QED BY <2>1 DEF Most
<1>2. PICK T \in Bad : \A v \in Bad : ~(<<v, T>> \in StrictSubsetOrdering(S))
  <2>1. IsWellFoundedOn(StrictSubsetOrdering(S), SUBSET S)
    BY FS_StrictSubsetOrderingWellFounded, FS_FiniteSubsetsOfFinite
  <2>2. Bad \subseteq SUBSET S
    OBVIOUS
  <2> HIDE DEF Bad
  <2> QED BY <1>1, <2>1, <2>2, WFMin
<1>3. T \in SUBSET S /\ T # {} /\ ~Has(T)
  OBVIOUS
<1>4. PICK x \in T : TRUE
  BY <1>3
<1> DEFINE R == T \ {x}
<1>5. R \notin Bad
  <2>1. <<R, T>> \in StrictSubsetOrdering(S)
    BY <1>3, <1>4 DEF StrictSubsetOrdering
  <2> QED BY <1>2, <2>1
<1>6. CASE R = {}
  <2>1. \A k \in T : k = x
    BY <1>6
  <2> QED BY <1>3, <1>4, <2>1
<1>7. CASE R # {}
  <2>1. PICK m \in R : \A k \in R : k <= m
    BY <1>3, <1>5, <1>7
  <2>2. m \in T /\ m \in Nat /\ x \in Nat /\ \A k \in T : k \in Nat /\ (k = x \/ k <= m)
    BY <1>3, <1>4, <2>1
  <2>3. CASE x <= m
    <3>1. \A k \in T : k <= m
      BY <2>2, <2>3
    <3> QED BY <1>3, <2>2, <3>1
  <2>4. CASE m <= x
    <3>1. \A k \in T : k <= x
      BY <2>2, <2>4
    <3> QED BY <1>3, <1>4, <3>1
  <2> QED BY <2>2, <2>3, <2>4
<1> QED
  BY <1>6, <1>7

(* There is a largest descriptor and a last worker, and a setup stays      *)
(* below both.                                                             *)
LEMMA Largest ==
    /\ FdMax \in Nat
    /\ Most({s.threads : s \in Setups}) \in Nat
    /\ \A s \in Setups : s.limit <= FdMax /\ s.threads <= Most({r.threads : r \in Setups})
<1> DEFINE A == {s.limit : s \in Setups}
           B == {s.threads : s \in Setups}
<1>1. Setups # {} /\ IsFiniteSet(Setups) /\ \A s \in Setups : s.limit \in Nat /\ s.threads \in Nat
  BY TcpServerAssumption
<1>2. IsFiniteSet(A) /\ A # {} /\ A \subseteq Nat
  <2> DEFINE f == [s \in Setups |-> s.limit]
  <2>1. f \in Surjection(Setups, A)
    BY DEF Surjection
  <2> HIDE DEF f, A
  <2>2. IsFiniteSet(A)
    BY <1>1, <2>1, FS_Surjection
  <2> QED BY <1>1, <2>2 DEF A
<1>3. IsFiniteSet(B) /\ B # {} /\ B \subseteq Nat
  <2> DEFINE f == [s \in Setups |-> s.threads]
  <2>1. f \in Surjection(Setups, B)
    BY DEF Surjection
  <2> HIDE DEF f, B
  <2>2. IsFiniteSet(B)
    BY <1>1, <2>1, FS_Surjection
  <2> QED BY <1>1, <2>2 DEF B
<1>4. \A s \in Setups : s.limit \in A /\ s.threads \in B
  OBVIOUS
<1> HIDE DEF A, B
<1>5. Most(A) \in A /\ \A k \in A : k <= Most(A)
  BY <1>2, MostIsGreatest
<1>6. Most(B) \in B /\ \A k \in B : k <= Most(B)
  BY <1>3, MostIsGreatest
<1>7. FdMax = Most(A)
  BY DEF FdMax, A
<1> QED
  BY <1>2, <1>3, <1>4, <1>5, <1>6, <1>7 DEF B

(* What the proofs use of the constants.                                   *)
LEMMA Consts ==
    /\ FdMax \in Nat /\ Fd = 0..FdMax /\ Fd \subseteq Nat /\ IsFiniteSet(Fd) /\ 0 \in Fd
    /\ MaxConns \in Nat /\ conns_size = MaxConns + 1 /\ Slots = 0..MaxConns
    /\ Loops \subseteq Nat /\ IsFiniteSet(Loops) /\ MainLoop \in Loops
    /\ NULL \notin Loops /\ Unallocated \notin Loops
    /\ "free" \notin Clients /\ "reserve" \notin Clients /\ "other" \notin Clients
    /\ \A s \in Setups : /\ s.threads \in Nat /\ s.limit \in Nat /\ s.late \in Nat
                         /\ s.limit <= FdMax /\ s.late <= s.limit
                         /\ (s.threads = 0 => s.late = 0)
                         /\ 1..s.threads \subseteq Loops
<1> DEFINE n == Most({s.threads : s \in Setups})
<1>1. n \in Nat /\ Loops = 0..n /\ \A s \in Setups : s.threads <= n
  BY Largest DEF Loops
<1>2. FdMax \in Nat /\ Fd = 0..FdMax
  BY Largest DEF Fd
<1> HIDE DEF n
<1>3. IsFiniteSet(Fd) /\ IsFiniteSet(Loops)
  BY <1>1, <1>2, FS_Interval
<1>4. \A s \in Setups : /\ s.threads \in Nat /\ s.limit \in Nat /\ s.late \in Nat
                        /\ s.late <= s.limit /\ (s.threads = 0 => s.late = 0)
  BY TcpServerAssumption
<1>5. \A s \in Setups : s.limit <= FdMax /\ 1..s.threads \subseteq Loops
  BY <1>1, <1>4, Largest
<1> QED
  BY <1>1, <1>2, <1>3, <1>4, <1>5, TcpServerAssumption
     DEF conns_size, next_fd, Slots, NULL, Unallocated, MainLoop

(* The kernel's lowest free number.                                        *)
LEMMA LowestIsFree ==
    ASSUME FreeFds # {}
    PROVE  LowestFree \in FreeFds /\ LowestFree \in Fd /\ \A g \in FreeFds : LowestFree <= g
<1>1. FreeFds \subseteq Nat /\ FreeFds \subseteq Fd
  BY Consts DEF FreeFds
<1>2. \E n \in FreeFds : \A m \in FreeFds : n <= m
  BY <1>1, LeastNatural
<1> QED
  BY <1>1, <1>2 DEF LowestFree

-----------------------------------------------------------------------------
(* Steps that leave the holders of descriptors alone.                      *)

(* do_accept may open or close numbers that no loop and no message holds:  *)
(* every connection that is not in its hands keeps its holder.             *)
LEMMA KeepHolding ==
    ASSUME Inv, ~stolen, UNCHANGED <<inbox, epset, io_evs, conns, lpc, lfd>>,
           \A f \in Fd : Accepting(f)' => fdtab'[f] \in Clients,
           \A f \in Fd : fdtab[f] \in Clients /\ ~Accepting(f) =>
                          fdtab'[f] \in Clients /\ ~Accepting(f)',
           \A f \in Fd : fdtab'[f] \in Clients =>
                          Accepting(f)' \/ (fdtab[f] \in Clients /\ ~Accepting(f))
    PROVE  Holding'
<1>1. Holding
  BY DEF Inv
<1>2. \A l \in Loops : \A i \in 1..Len(inbox[l]) : inbox[l][i] \in Fd
  BY DEF Inv, Typed
<1>3. \A l \in Loops : \A f \in epset[l] : f \in Fd
  BY DEF Inv, Typed
<1>4. (\A l \in Loops : \A i \in 1..Len(inbox[l]) :
          /\ fdtab[inbox[l][i]] \in Clients
          /\ ~Accepting(inbox[l][i])
          /\ \A k \in Loops : inbox[l][i] \notin epset[k])'
  BY <1>1, <1>2 DEF Holding
<1>5. (\A l, k \in Loops : \A i \in 1..Len(inbox[l]), j \in 1..Len(inbox[k]) :
          inbox[l][i] = inbox[k][j] => l = k /\ i = j)'
  BY <1>1 DEF Holding
<1>6. (\A l \in Loops : \A f \in epset[l] :
          fdtab[f] \in Clients /\ ~Accepting(f) /\ conns[f] = l)'
  BY <1>1, <1>3 DEF Holding
<1>7. (\A f \in Fd : fdtab[f] \in Clients =>
          \/ Accepting(f)
          \/ \E l \in Loops : \E i \in 1..Len(inbox[l]) : inbox[l][i] = f
          \/ \E l \in Loops : f \in epset[l])'
  BY <1>1 DEF Holding
<1>8. (io_evs = epset /\ \A l \in Loops : lpc[l] \in Cleans => lfd[l] \in epset[l])'
  BY <1>1 DEF Holding
<1> QED
  BY <1>4, <1>5, <1>6, <1>7, <1>8 DEF Holding

(* A step that registers and cleans up nothing keeps the count right.      *)
LEMMA SameCount ==
    ASSUME Inv, UNCHANGED <<curr_conns, io_evs, lpc, stolen>>
    PROVE  ConnCount'
BY DEF Inv, ConnCount, Cleaning

(* What a step of the main thread that only moves its program counter must *)
(* not break, gathered once for the steps that accept nothing.             *)
LEMMA ApcStep ==
    ASSUME Inv,
           UNCHANGED <<setup, stolen, fdtab, connfd, reservfd, curr_conns, curr_index, inbox,
                       conns, io_evs, epset, lpc, lfd>>,
           apc' \in Steps, conn_full' \in BOOLEAN, backlog' \subseteq Clients,
           \A f \in Fd : Accepting(f)' <=> Accepting(f),
           apc' # "poll" => lpc[MainLoop] = "idle",
           apc' = "dispatch" => connfd \in Slots /\ (setup.threads = 0 => curr_conns < MaxConns),
           apc' \in {"check", "dispatch", "close_new", "aborted"} => connfd \in Fd,
           apc' = "check" => apc = "check",
           setup.late = 0 /\ setup.limit >= conns_size =>
              ~conn_full' /\ apc' \notin {"close_reserv", "close_new", "open_reserv"},
           NoAbort'
    PROVE  Inv'
<1>1. Typed'
  BY DEF Inv, Typed
<1>2. InBounds'
  BY DEF Inv, InBounds
<1>3. OneAtATime'
  BY DEF OneAtATime
<1>4. ~stolen' => Holding'
  BY KeepHolding DEF Inv, Holding
<1>5. ConnCount'
  BY SameCount
<1>6. Single'
  BY DEF Inv, Single, FreeFds
<1>7. Roomy'
  BY DEF Inv, Roomy
<1> QED
  BY <1>1, <1>2, <1>3, <1>4, <1>5, <1>6, <1>7 DEF Inv

(* connect and the end of a connection by its peer are seen by nobody yet. *)
LEMMA PeerStep ==
    ASSUME Inv, NEW c \in Clients, Peer(c)
    PROVE  Inv'
<1>1. /\ UNCHANGED <<setup, stolen, fdtab, apc, conn_full, connfd, reservfd, curr_conns,
                     curr_index, inbox, conns, io_evs, epset, lpc, lfd>>
      /\ backlog' \subseteq Clients
  BY DEF Peer, connect, peer_ends, acceptVars, loopVars, Inv, Typed
<1>2. \A f \in Fd : Accepting(f)' <=> Accepting(f)
  BY <1>1 DEF Accepting
<1>3. NoAbort'
  BY <1>1 DEF Inv, NoAbort, Cleaning, FreeFds
<1>4. /\ apc' \in Steps /\ conn_full' \in BOOLEAN
      /\ apc' # "poll" => lpc[MainLoop] = "idle"
      /\ apc' = "dispatch" => connfd \in Slots /\ (setup.threads = 0 => curr_conns < MaxConns)
      /\ apc' \in {"check", "dispatch", "close_new", "aborted"} => connfd \in Fd
      /\ apc' = "check" => apc = "check"
  BY <1>1 DEF Inv, Typed, OneAtATime, InBounds, Single
<1>5. setup.late = 0 /\ setup.limit >= conns_size =>
         ~conn_full' /\ apc' \notin {"close_reserv", "close_new", "open_reserv"}
  BY <1>1 DEF Inv, Roomy
<1> QED
  BY <1>1, <1>2, <1>3, <1>4, <1>5, ApcStep

(* accepter_cb enters do_accept.                                           *)
LEMMA AccepterCb ==
    ASSUME Inv, accepter_cb
    PROVE  Inv'
<1>1. /\ apc = "poll" /\ apc' = "accept" /\ lpc[MainLoop] = "idle" /\ conn_full' = FALSE
      /\ UNCHANGED <<setup, stolen, fdtab, backlog, connfd, reservfd, curr_conns,
                     curr_index, inbox, conns, io_evs, epset, lpc, lfd>>
  BY DEF accepter_cb, AcceptStep
<1>2. \A f \in Fd : Accepting(f)' <=> Accepting(f)
  BY <1>1 DEF Accepting
<1>3. NoAbort' /\ backlog' \subseteq Clients /\ apc' \in Steps
  BY <1>1 DEF NoAbort, Inv, Typed, Steps
<1> QED
  BY <1>1, <1>2, <1>3, ApcStep

(* In a server with more descriptors than slots there is always a free one *)
(* when do_accept calls accept.                                            *)
LEMMA RoomyHasFree ==
    ASSUME Inv, setup.late = 0, setup.limit >= conns_size, apc = "accept"
    PROVE  FreeFds # {}
<1>1. conns_size \in Fd /\ conns_size # 0 /\ conns_size \notin Slots /\ setup \in Setups
  BY Consts DEF Inv, Typed
<1>2. ~Accepting(conns_size)
  BY DEF Accepting
<1>3. fdtab[conns_size] \notin Clients /\ fdtab[conns_size] # "reserve"
  BY <1>1, <1>2 DEF Inv, Roomy
<1>4. fdtab[conns_size] # "other"
  BY <1>1, Consts DEF Inv, InBounds
<1>5. fdtab[conns_size] = "free"
  BY <1>1, <1>3, <1>4 DEF Inv, Typed
<1> QED
  BY <1>1, <1>5 DEF FreeFds

(* accept fails for want of a descriptor: never when the table is roomy.   *)
LEMMA AcceptEmfile ==
    ASSUME Inv, accept_emfile
    PROVE  Inv'
<1>1. /\ apc = "accept" /\ apc' = "close_reserv" /\ conn_full' = TRUE /\ FreeFds = {}
      /\ UNCHANGED <<setup, stolen, fdtab, backlog, connfd, reservfd, curr_conns,
                     curr_index, inbox, conns, io_evs, epset, lpc, lfd>>
  BY DEF accept_emfile, AcceptStep
<1>2. \A f \in Fd : Accepting(f)' <=> Accepting(f)
  BY <1>1 DEF Accepting
<1>3. /\ NoAbort' /\ backlog' \subseteq Clients /\ apc' \in Steps
      /\ lpc[MainLoop] = "idle"
  BY <1>1 DEF NoAbort, Inv, Typed, Steps, OneAtATime
<1>4. ~(setup.late = 0 /\ setup.limit >= conns_size)
  BY <1>1, RoomyHasFree
<1> QED
  BY <1>1, <1>2, <1>3, <1>4, ApcStep

(* accept finds nobody waiting, or ends the process.                       *)
LEMMA AcceptFails ==
    ASSUME Inv, accept_eagain \/ accept_error
    PROVE  Inv'
<1>1. /\ apc = "accept" /\ apc' \in {"poll", "exited"}
      /\ UNCHANGED <<setup, stolen, fdtab, backlog, connfd, conn_full, reservfd, curr_conns,
                     curr_index, inbox, conns, io_evs, epset, lpc, lfd>>
  BY DEF accept_eagain, accept_error, AcceptStep
<1>2. \A f \in Fd : Accepting(f)' <=> Accepting(f)
  BY <1>1 DEF Accepting
<1>3. /\ NoAbort' /\ backlog' \subseteq Clients /\ apc' \in Steps
      /\ lpc[MainLoop] = "idle" /\ conn_full' \in BOOLEAN
  BY <1>1 DEF NoAbort, Inv, Typed, Steps, OneAtATime
<1>4. setup.late = 0 /\ setup.limit >= conns_size => ~conn_full'
  BY <1>1 DEF Inv, Roomy
<1> QED
  BY <1>1, <1>2, <1>3, <1>4, ApcStep

(* A server that is not full has a slot for what accept returns, unless    *)
(* one of the excuses of NoAbort holds.                                    *)
LEMMA NotFullHasSlot ==
    ASSUME Inv, apc = "check", ~Full, connfd >= conns_size
    PROVE  /\ setup.threads > 0
           /\ \/ setup.late > 0
              \/ Cleaning # {}
              \/ \E l \in Loops : inbox[l] # << >>
              \/ \E f \in FreeFds : f < connfd
<1>0. setup \in Setups /\ connfd \in Fd /\ connfd <= setup.limit /\ setup.limit >= conns_size
  BY Consts DEF Inv, Typed, InBounds
<1>1. ASSUME setup.late = 0, Cleaning = {}, \A l \in Loops : inbox[l] = << >>,
             \A f \in FreeFds : ~(f < connfd)
      PROVE  FALSE
  <2> DEFINE D == 1..MaxConns
             P == {lf \in Loops \X Fd : lf[2] \in io_evs[lf[1]]}
             g == [f \in D |-> <<conns[f], f>>]
  <2>1. ~stolen /\ Holding
    BY <1>0, <1>1 DEF Inv, Roomy
  <2>2. ASSUME NEW f \in D PROVE conns[f] \in Loops /\ f \in Fd /\ f \in io_evs[conns[f]]
    <3>1. f \in Fd /\ f # 0 /\ f < connfd /\ f <= setup.limit /\ f > setup.late
      BY <1>0, <1>1, Consts
    <3>2. fdtab[f] # "free" /\ fdtab[f] # "reserve" /\ fdtab[f] # "other"
      BY <1>0, <1>1, <3>1, Consts DEF Inv, Roomy, InBounds, FreeFds
    <3>3. fdtab[f] \in Clients /\ ~Accepting(f)
      BY <3>1, <3>2, Consts, <1>0 DEF Inv, Typed, Accepting
    <3>4. \A l \in Loops : ~ \E i \in 1..Len(inbox[l]) : inbox[l][i] = f
      BY <1>1
    <3>5. PICK l \in Loops : f \in epset[l]
      BY <2>1, <3>1, <3>3, <3>4 DEF Holding
    <3> QED BY <2>1, <3>1, <3>5 DEF Holding
  <2>3. g \in Injection(D, P)
    <3>1. \A f \in D : <<conns[f], f>> \in P
      BY <2>2
    <3>2. g \in [D -> P] /\ \A f \in D : g[f] = <<conns[f], f>>
      <4> HIDE DEF D, P
      <4> QED BY <3>1
    <3>3. \A a, b \in D : g[a] = g[b] => a = b
      <4> HIDE DEF D, g
      <4> QED BY <3>2
    <3> HIDE DEF D, P, g
    <3> QED BY <3>2, <3>3 DEF Injection, IsInjective
  <2>4. IsFiniteSet(P)
    <3>1. IsFiniteSet(Loops \X Fd) /\ P \in SUBSET (Loops \X Fd)
      BY Consts, FS_Product
    <3> HIDE DEF P
    <3> QED BY <3>1, FS_Subset
  <2> HIDE DEF D, P, g
  <2>5. Cardinality(D) <= Cardinality(P)
    BY <2>3, <2>4, FS_Injection
  <2>6. Cardinality(D) = MaxConns
    <3>1. Cardinality(1..MaxConns) = IF 1 > MaxConns THEN 0 ELSE MaxConns - 1 + 1
      BY FS_Interval, Consts
    <3> QED BY <3>1, Consts DEF D
  <2>7. curr_conns = Cardinality(P) - Cardinality({})
    BY <1>1, <2>1 DEF Inv, ConnCount, P
  <2>8. Cardinality(P) \in Nat /\ Cardinality({}) = 0
    BY <2>4, FS_CardinalityType, FS_EmptySet
  <2> QED BY <2>5, <2>6, <2>7, <2>8, Consts DEF Full
<1>2. CASE setup.threads > 0
  BY <1>0, <1>1, <1>2, Consts
<1>3. CASE setup.threads = 0
  <2>1. setup.late = 0
    BY <1>0, <1>3, Consts
  <2>2. \A l \in Loops : inbox[l] = << >> /\ lpc[l] = "idle"
    BY <1>3 DEF Inv, Single, OneAtATime
  <2>3. Cleaning = {}
    BY <2>2 DEF Cleaning
  <2>4. \A f \in FreeFds : ~(f < connfd)
    <3>1. \A f \in FreeFds : f > connfd
      BY <1>3 DEF Inv, Single
    <3>2. \A f \in FreeFds : f \in Nat
      BY Consts DEF FreeFds
    <3> QED BY <1>0, <3>1, <3>2, Consts
  <2> QED BY <1>1, <2>1, <2>2, <2>3, <2>4
<1> QED
  BY <1>0, <1>2, <1>3, Consts

(* do_accept passes the comparison with maxConns and reaches the assertion *)
(* on the table's size.                                                    *)
LEMMA AdmitConn ==
    ASSUME Inv, admit_conn
    PROVE  Inv'
<1>1. /\ apc = "check" /\ apc' = IF connfd < conns_size THEN "dispatch" ELSE "aborted"
      /\ ~Full
      /\ UNCHANGED <<setup, stolen, fdtab, backlog, connfd, conn_full, reservfd, curr_conns,
                     curr_index, inbox, conns, io_evs, epset, lpc, lfd>>
  BY DEF admit_conn, AcceptStep
<1>2. \A f \in Fd : Accepting(f)' <=> Accepting(f)
  BY <1>1 DEF Accepting
<1>3. /\ backlog' \subseteq Clients /\ apc' \in Steps
      /\ lpc[MainLoop] = "idle" /\ conn_full' \in BOOLEAN /\ connfd \in Fd
  BY <1>1 DEF Inv, Typed, Steps, OneAtATime, InBounds
<1>4. setup.late = 0 /\ setup.limit >= conns_size => ~conn_full'
  BY <1>1 DEF Inv, Roomy
<1>5. apc' = "dispatch" => connfd \in Slots /\ curr_conns < MaxConns
  BY <1>1, <1>3, Consts DEF Full, Inv, Typed
<1>6. NoAbort'
  <2> SUFFICES ASSUME apc' = "aborted" PROVE NoAbort'
    BY DEF NoAbort
  <2>1. connfd >= conns_size
    BY <1>1, <1>3, Consts
  <2>2. Cleaning' = Cleaning /\ FreeFds' = FreeFds
    BY <1>1 DEF Cleaning, FreeFds
  <2> QED BY <1>1, <2>1, <2>2, NotFullHasSlot DEF NoAbort
<1>7. apc' \notin {"close_reserv", "close_new", "open_reserv", "check", "poll"}
  BY <1>1
<1> QED
  BY <1>1, <1>2, <1>3, <1>4, <1>5, <1>6, <1>7, ApcStep

-----------------------------------------------------------------------------
(* Steps of do_accept that open or close a descriptor.                     *)

(* accept returns a new connection under the lowest free number, which     *)
(* nobody else can still hold.                                             *)
LEMMA AcceptOk ==
    ASSUME Inv, NEW c \in Clients, accept_ok(c)
    PROVE  Inv'
<1>0. PICK g \in Fd : g = LowestFree /\ fdtab[g] = "free" /\ \A f \in FreeFds : g <= f
  BY LowestIsFree DEF accept_ok, FreeFds
<1>1. /\ apc = "accept" /\ apc' = IF conn_full THEN "close_new" ELSE "check"
      /\ connfd' = g
      /\ fdtab' = [fdtab EXCEPT ![g] = c]
      /\ backlog' = backlog \ {c}
      /\ UNCHANGED <<setup, stolen, conn_full, reservfd, curr_conns,
                     curr_index, inbox, conns, io_evs, epset, lpc, lfd>>
  BY <1>0 DEF accept_ok, AcceptStep
<1>2. /\ fdtab'[g] = c /\ \A f \in Fd : f # g => fdtab'[f] = fdtab[f]
      /\ \A f : Accepting(f)' <=> f = g
      /\ \A f : ~Accepting(f)
      /\ g \in Nat /\ setup \in Setups /\ g <= setup.limit /\ fdtab[g] \notin Clients
      /\ lpc[MainLoop] = "idle" /\ apc' \in {"close_new", "check"}
  <2>1. fdtab'[g] = c /\ \A f \in Fd : f # g => fdtab'[f] = fdtab[f]
    BY <1>1 DEF Inv, Typed
  <2>2. apc' \in {"close_new", "check"} /\ lpc[MainLoop] = "idle"
    BY <1>1 DEF Inv, OneAtATime
  <2>3. \A f : (Accepting(f)' <=> f = g) /\ ~Accepting(f)
    BY <1>1, <2>2 DEF Accepting
  <2>4. g \in Nat /\ setup \in Setups /\ fdtab[g] \notin Clients
    BY <1>0, Consts DEF Inv, Typed
  <2>5. g <= setup.limit
    BY <1>0, <2>4, Consts DEF Inv, InBounds
  <2> QED BY <2>1, <2>2, <2>3, <2>4, <2>5
<1>3. Typed'
  BY <1>1, <1>2 DEF Inv, Typed, Steps
<1>4. InBounds'
  BY <1>1, <1>2, Consts DEF Inv, InBounds
<1>5. OneAtATime'
  BY <1>1, <1>2 DEF OneAtATime
<1>6. ~stolen' => Holding'
  <2> SUFFICES ASSUME ~stolen PROVE Holding'
    BY <1>1
  <2>1. \A f \in Fd : fdtab[f] \in Clients => fdtab'[f] \in Clients /\ f # g
    BY <1>2
  <2> QED BY <1>1, <1>2, <2>1, KeepHolding
<1>7. ConnCount'
  BY <1>1, SameCount
<1>8. Single'
  <2>1. \A f \in FreeFds' : f \in FreeFds /\ f # g /\ f \in Nat
    BY <1>1, <1>2, Consts DEF FreeFds
  <2>2. \A f \in FreeFds' : f > connfd'
    BY <1>0, <1>1, <1>2, <2>1
  <2> QED BY <1>1, <1>2, <2>2 DEF Inv, Single
<1>9. Roomy'
  <2> SUFFICES ASSUME setup.late = 0, setup.limit >= conns_size PROVE Roomy'
    BY <1>1 DEF Roomy
  <2>1. g # 0 /\ c # "reserve"
    BY <1>0, Consts DEF Inv, Roomy
  <2> QED BY <1>1, <1>2, <2>1, Consts DEF Inv, Roomy
<1>10. NoAbort'
  BY <1>2 DEF NoAbort
<1> QED
  BY <1>3, <1>4, <1>5, <1>6, <1>7, <1>8, <1>9, <1>10 DEF Inv

(* Closing a descriptor serves no more connections than before.            *)
LEMMA ClosingServes ==
    ASSUME Inv, NEW f, close(f)
    PROVE  /\ \A l \in Loops : epset'[l] = epset[l] \ {f}
           /\ Cardinality(epset'[MainLoop]) <= Cardinality(epset[MainLoop])
           /\ \A g \in Fd : fdtab'[g] = IF g = f THEN "free" ELSE fdtab[g]
           /\ fdtab' \in [Fd -> Clients \cup {"free", "reserve", "other"}]
           /\ epset' \in [Loops -> SUBSET Fd]
           /\ (\A l \in Loops : f \notin epset[l]) => epset' = epset
<1>1. \A l \in Loops : epset'[l] = epset[l] \ {f}
  BY DEF close
<1>2. IsFiniteSet(epset[MainLoop])
  BY Consts, FS_Subset DEF Inv, Typed
<1>3. Cardinality(epset'[MainLoop]) <= Cardinality(epset[MainLoop])
  <2>1. epset'[MainLoop] \in SUBSET epset[MainLoop]
    BY <1>1, Consts
  <2> QED BY <1>2, <2>1, FS_Subset
<1>4. /\ \A g \in Fd : fdtab'[g] = IF g = f THEN "free" ELSE fdtab[g]
      /\ fdtab' \in [Fd -> Clients \cup {"free", "reserve", "other"}]
  BY DEF close, Inv, Typed
<1>5. epset' \in [Loops -> SUBSET Fd]
  BY DEF close, Inv, Typed
<1>6. ASSUME \A l \in Loops : f \notin epset[l] PROVE epset' = epset
  <2>1. \A l \in Loops : epset[l] \ {f} = epset[l]
    BY <1>6
  <2>2. epset' = [l \in Loops |-> epset[l] \ {f}]
    BY DEF close
  <2>3. epset = [l \in Loops |-> epset[l]]
    BY DEF Inv, Typed
  <2> QED BY <2>1, <2>2, <2>3
<1> QED
  BY <1>1, <1>3, <1>4, <1>5, <1>6

(* do_accept closes the connection it has just accepted, because of EMFILE *)
(* or because the server is full.                                          *)
LEMMA CloseAccepted ==
    ASSUME Inv, close_new \/ reject_conn
    PROVE  Inv'
<1>0. PICK g \in Fd : g = connfd
  BY DEF close_new, reject_conn, AcceptStep, Inv, InBounds
<1>1. /\ apc \in {"check", "close_new"} /\ apc' \in {"accept", "open_reserv"}
      /\ apc = "check" => apc' = "accept"
      /\ close(g)
      /\ UNCHANGED <<setup, stolen, backlog, connfd, conn_full, reservfd, curr_conns,
                     curr_index, inbox, conns, io_evs, lpc, lfd>>
  BY <1>0 DEF close_new, reject_conn, AcceptStep
<1>2. /\ \A l \in Loops : epset'[l] = epset[l] \ {g}
      /\ Cardinality(epset'[MainLoop]) <= Cardinality(epset[MainLoop])
      /\ fdtab'[g] = "free" /\ \A f \in Fd : f # g => fdtab'[f] = fdtab[f]
      /\ fdtab' \in [Fd -> Clients \cup {"free", "reserve", "other"}]
      /\ epset' \in [Loops -> SUBSET Fd]
      /\ (\A l \in Loops : g \notin epset[l]) => epset' = epset
  BY <1>1, ClosingServes
<1>3. /\ \A f : ~Accepting(f)' /\ (Accepting(f) <=> f = g)
      /\ g \in Nat /\ setup \in Setups /\ g <= setup.limit
      /\ lpc[MainLoop] = "idle"
  BY <1>0, <1>1, Consts DEF Inv, Typed, Accepting, InBounds, OneAtATime
<1>4. Typed'
  BY <1>1, <1>2 DEF Inv, Typed, Steps
<1>5. InBounds'
  <2>1. /\ \A f \in Fd : f > setup.limit => f # g
        /\ \A f \in Fd : fdtab'[f] = "other" => fdtab[f] = "other"
    BY <1>2, <1>3, Consts
  <2>2. (\A f \in Fd : f > setup.limit => fdtab[f] = "other")
        => \A f \in Fd : f > setup.limit => fdtab'[f] = "other"
    BY <1>2, <2>1
  <2> QED BY <1>0, <1>1, <1>2, <2>1, <2>2 DEF Inv, InBounds
<1>6. OneAtATime'
  BY <1>1, <1>3 DEF OneAtATime
<1>7. ~stolen' => Holding'
  <2> SUFFICES ASSUME ~stolen PROVE Holding'
    BY <1>1
  <2>1. \A l \in Loops : \A f \in epset[l] : f # g
    BY <1>3 DEF Inv, Holding
  <2>2. epset' = epset
    BY <1>2, <2>1
  <2>3. \A f \in Fd : fdtab'[f] \in Clients => fdtab[f] \in Clients /\ f # g
    BY <1>2, Consts
  <2>4. \A f \in Fd : fdtab[f] \in Clients /\ f # g => fdtab'[f] \in Clients
    BY <1>2
  <2> QED BY <1>1, <1>3, <2>2, <2>3, <2>4, KeepHolding
<1>8. ConnCount'
  BY <1>1, SameCount
<1>9. Single'
  <2> SUFFICES ASSUME setup.threads = 0 PROVE Single'
    BY <1>1 DEF Single
  <2>1. /\ Cardinality(epset[MainLoop]) \in Nat /\ Cardinality(epset'[MainLoop]) \in Nat
        /\ curr_conns \in Int
    BY <1>2, Consts, FS_Subset, FS_CardinalityType DEF Inv, Typed
  <2>2. /\ \A l \in Loops : inbox[l] = << >>
        /\ \A l \in Loops \ {MainLoop} : epset'[l] = {} /\ lpc[l] = "idle"
    BY <1>2 DEF Inv, Single
  <2>3. Cardinality(epset[MainLoop]) <= curr_conns /\ curr_conns <= MaxConns
    BY <1>3, <2>1, Consts DEF Inv, Single, Cleans
  <2> QED BY <1>1, <1>2, <1>3, <2>1, <2>2, <2>3, Consts DEF Single, Cleans
<1>10. Roomy'
  <2> SUFFICES ASSUME setup.late = 0, setup.limit >= conns_size PROVE Roomy'
    BY <1>1 DEF Roomy
  <2>1. g # 0 /\ apc' = "accept"
    <3>1. fdtab[g] \in Clients
      BY <1>3 DEF Inv, Roomy, Holding
    <3> QED BY <1>1, <3>1, Consts DEF Inv, Roomy
  <2>2. fdtab'[0] = "reserve"
    BY <1>2, <2>1, Consts DEF Inv, Roomy
  <2>3. \A f \in Fd : fdtab'[f] = "reserve" => f = 0
    BY <1>2 DEF Inv, Roomy
  <2>4. \A f \in Fd : fdtab'[f] \in Clients => f \in Slots
    BY <1>2, <1>3, Consts DEF Inv, Roomy
  <2> QED BY <1>1, <2>1, <2>2, <2>3, <2>4 DEF Inv, Roomy
<1>11. NoAbort'
  BY <1>1 DEF NoAbort
<1> QED
  BY <1>4, <1>5, <1>6, <1>7, <1>8, <1>9, <1>10, <1>11 DEF Inv

(* do_accept gives up _reservfd; if the number is stale, stolen records    *)
(* it.                                                                     *)
LEMMA CloseReserv ==
    ASSUME Inv, close_reserv
    PROVE  Inv'
<1> DEFINE g == reservfd
<1>1. /\ apc = "close_reserv" /\ apc' = "accept"
      /\ close(g)
      /\ stolen' = (stolen \/ \E f \in Fd : f = g /\ fdtab[f] \in Clients)
      /\ UNCHANGED <<setup, backlog, connfd, conn_full, reservfd, curr_conns,
                     curr_index, inbox, conns, io_evs, lpc, lfd>>
  BY DEF close_reserv, AcceptStep, GivenUp
<1>2. /\ \A l \in Loops : epset'[l] = epset[l] \ {g}
      /\ Cardinality(epset'[MainLoop]) <= Cardinality(epset[MainLoop])
      /\ \A f \in Fd : fdtab'[f] = IF f = g THEN "free" ELSE fdtab[f]
      /\ fdtab' \in [Fd -> Clients \cup {"free", "reserve", "other"}]
      /\ epset' \in [Loops -> SUBSET Fd]
      /\ (\A l \in Loops : g \notin epset[l]) => epset' = epset
  BY <1>1, ClosingServes
<1>3. /\ \A f : ~Accepting(f)' /\ ~Accepting(f)
      /\ setup \in Setups /\ g <= setup.limit
      /\ lpc[MainLoop] = "idle"
      /\ ~(setup.late = 0 /\ setup.limit >= conns_size)
  BY <1>1 DEF Inv, Typed, Accepting, InBounds, OneAtATime, Roomy
<1>4. Typed'
  BY <1>1, <1>2 DEF Inv, Typed, Steps
<1>5. InBounds'
  BY <1>1, <1>2, <1>3, Consts DEF Inv, InBounds, Typed
<1>6. OneAtATime'
  BY <1>1, <1>3 DEF OneAtATime
<1>7. ~stolen' => Holding'
  <2> SUFFICES ASSUME ~stolen' PROVE Holding'
    OBVIOUS
  <2>1. ~stolen /\ \A f \in Fd : fdtab[f] \in Clients => f # g
    BY <1>1
  <2>2. \A l \in Loops : \A f \in epset[l] : f # g
    BY <2>1 DEF Inv, Typed, Holding
  <2>3. epset' = epset
    BY <1>2, <2>2
  <2>4. \A f \in Fd : fdtab'[f] \in Clients <=> fdtab[f] \in Clients
    BY <1>2, <2>1, Consts
  <2> QED BY <1>1, <1>3, <2>1, <2>3, <2>4, KeepHolding
<1>8. ConnCount'
  BY <1>1 DEF Inv, ConnCount, Cleaning
<1>9. Single'
  <2> SUFFICES ASSUME setup.threads = 0 PROVE Single'
    BY <1>1 DEF Single
  <2>1. /\ Cardinality(epset[MainLoop]) \in Nat /\ Cardinality(epset'[MainLoop]) \in Nat
        /\ curr_conns \in Int
    BY <1>2, Consts, FS_Subset, FS_CardinalityType DEF Inv, Typed
  <2>2. /\ \A l \in Loops : inbox[l] = << >>
        /\ \A l \in Loops \ {MainLoop} : epset'[l] = {} /\ lpc[l] = "idle"
    BY <1>2 DEF Inv, Single
  <2>3. Cardinality(epset[MainLoop]) <= curr_conns /\ curr_conns <= MaxConns
    BY <1>3, <2>1, Consts DEF Inv, Single, Cleans
  <2> QED BY <1>1, <1>2, <1>3, <2>1, <2>2, <2>3, Consts DEF Single, Cleans
<1>10. Roomy' /\ NoAbort'
  BY <1>1, <1>3 DEF Roomy, NoAbort
<1> QED
  BY <1>4, <1>5, <1>6, <1>7, <1>8, <1>9, <1>10 DEF Inv

(* do_accept opens the placeholder again, which may take a new number or   *)
(* fail.                                                                   *)
LEMMA OpenReserv ==
    ASSUME Inv, open_reserv
    PROVE  Inv'
<1>1. /\ apc = "open_reserv" /\ apc' = "accept"
      /\ UNCHANGED <<setup, stolen, backlog, connfd, conn_full, curr_conns,
                     curr_index, inbox, conns, io_evs, epset, lpc, lfd>>
      /\ \/ reservfd' = -1 /\ fdtab' = fdtab
         \/ \E g \in Fd : /\ fdtab[g] = "free" /\ reservfd' = g
                          /\ fdtab' = [fdtab EXCEPT ![g] = "reserve"]
  BY LowestIsFree DEF open_reserv, AcceptStep, FreeFds
<1>2. /\ \A f : ~Accepting(f)' /\ ~Accepting(f)
      /\ setup \in Setups /\ lpc[MainLoop] = "idle"
      /\ ~(setup.late = 0 /\ setup.limit >= conns_size)
      /\ \A f \in Fd : (fdtab'[f] \in Clients <=> fdtab[f] \in Clients)
                       /\ (fdtab'[f] = "other" <=> fdtab[f] = "other")
      /\ reservfd' <= setup.limit
      /\ fdtab' \in [Fd -> Clients \cup {"free", "reserve", "other"}]
  <2>1. \A f : ~Accepting(f)' /\ ~Accepting(f)
    BY <1>1 DEF Accepting
  <2>2. /\ setup \in Setups /\ lpc[MainLoop] = "idle"
        /\ ~(setup.late = 0 /\ setup.limit >= conns_size)
    BY <1>1 DEF Inv, Typed, OneAtATime, Roomy
  <2>3. CASE reservfd' = -1 /\ fdtab' = fdtab
    BY <2>1, <2>2, <2>3, Consts DEF Inv, Typed
  <2>4. ASSUME NEW g \in Fd, fdtab[g] = "free", reservfd' = g,
               fdtab' = [fdtab EXCEPT ![g] = "reserve"]
        PROVE  /\ \A f \in Fd : (fdtab'[f] \in Clients <=> fdtab[f] \in Clients)
                                /\ (fdtab'[f] = "other" <=> fdtab[f] = "other")
               /\ reservfd' <= setup.limit
               /\ fdtab' \in [Fd -> Clients \cup {"free", "reserve", "other"}]
    <3>1. /\ fdtab'[g] = "reserve" /\ \A f \in Fd : f # g => fdtab'[f] = fdtab[f]
          /\ fdtab' \in [Fd -> Clients \cup {"free", "reserve", "other"}]
      BY <2>4 DEF Inv, Typed
    <3>2. g <= setup.limit
      BY <2>2, <2>4, Consts DEF Inv, InBounds
    <3> QED BY <2>4, <3>1, <3>2, Consts
  <2> QED BY <1>1, <2>1, <2>2, <2>3, <2>4
<1>3. Typed'
  BY <1>1, <1>2 DEF Inv, Typed, Steps
<1>4. InBounds'
  BY <1>1, <1>2, Consts DEF Inv, InBounds
<1>5. OneAtATime'
  BY <1>1, <1>2 DEF OneAtATime
<1>6. ~stolen' => Holding'
  <2> SUFFICES ASSUME ~stolen PROVE Holding'
    BY <1>1
  <2> QED BY <1>1, <1>2, KeepHolding
<1>7. ConnCount'
  BY <1>1, SameCount
<1>8. Single' /\ Roomy' /\ NoAbort'
  BY <1>1, <1>2 DEF Inv, Single, Roomy, NoAbort
<1> QED
  BY <1>3, <1>4, <1>5, <1>6, <1>7, <1>8 DEF Inv

-----------------------------------------------------------------------------
(* Steps that hand a connection over, set it up or clean it up.            *)

(* What the loops have events for, and how many.                           *)
Pairs == {lf \in Loops \X Fd : lf[2] \in io_evs[lf[1]]}

(* The registered pairs and the loops that are cleaning up can be counted. *)
LEMMA PairsFinite ==
    /\ IsFiniteSet(Pairs) /\ Cardinality(Pairs) \in Nat
    /\ IsFiniteSet(Cleaning) /\ Cardinality(Cleaning) \in Nat
<1>1. IsFiniteSet(Loops \X Fd) /\ Pairs \in SUBSET (Loops \X Fd)
  BY Consts, FS_Product DEF Pairs
<1>2. IsFiniteSet(Pairs)
  BY <1>1, FS_Subset
<1>3. Cleaning \in SUBSET Loops /\ IsFiniteSet(Loops)
  BY Consts DEF Cleaning
<1>4. IsFiniteSet(Cleaning)
  BY <1>3, FS_Subset
<1> QED
  BY <1>2, <1>4, FS_CardinalityType

(* Registering a new pair raises the count by one.                         *)
LEMMA OnePairMore ==
    ASSUME Inv, NEW l \in Loops, NEW f \in Fd, f \notin io_evs[l],
           io_evs' = [io_evs EXCEPT ![l] = @ \cup {f}]
    PROVE  Cardinality(Pairs') = Cardinality(Pairs) + 1
<1>1. \A k \in Loops : io_evs'[k] = IF k = l THEN io_evs[l] \cup {f} ELSE io_evs[k]
  BY DEF Inv, Typed
<1>2. Pairs' = Pairs \cup {<<l, f>>} /\ <<l, f>> \notin Pairs
  BY <1>1 DEF Pairs
<1> QED
  BY <1>2, PairsFinite, FS_AddElement

(* Removing a registered pair lowers the count by one.                     *)
LEMMA OnePairLess ==
    ASSUME Inv, NEW l \in Loops, NEW f \in Fd, f \in io_evs[l],
           io_evs' = [io_evs EXCEPT ![l] = @ \ {f}]
    PROVE  Cardinality(Pairs') = Cardinality(Pairs) - 1
<1>1. \A k \in Loops : io_evs'[k] = IF k = l THEN io_evs[l] \ {f} ELSE io_evs[k]
  BY DEF Inv, Typed
<1>2. Pairs' = Pairs \ {<<l, f>>} /\ <<l, f>> \in Pairs
  BY <1>1 DEF Pairs
<1> QED
  BY <1>2, PairsFinite, FS_RemoveElement

(* The connections of the main loop can be counted.                        *)
LEMMA ServedFinite ==
    ASSUME Inv
    PROVE  /\ IsFiniteSet(epset[MainLoop]) /\ Cardinality(epset[MainLoop]) \in Nat
           /\ curr_conns \in Int
<1>1. epset[MainLoop] \in SUBSET Fd /\ IsFiniteSet(Fd)
  BY Consts DEF Inv, Typed
<1>2. IsFiniteSet(epset[MainLoop])
  BY <1>1, FS_Subset
<1> QED
  BY <1>2, FS_CardinalityType DEF Inv, Typed

(* What tcp_conn::init does, whoever calls it.                             *)
LEMMA InitConn ==
    ASSUME Inv, NEW l \in Loops, NEW f \in Fd, f \in Slots, init_conn(l, f)
    PROVE  /\ curr_conns' = curr_conns + 1
           /\ conns' = [conns EXCEPT ![f] = l] /\ conns'[f] = l
           /\ \A g \in Slots : g # f => conns'[g] = conns[g]
           /\ conns' \in [Slots -> Loops \cup {NULL, Unallocated}]
           /\ io_evs' = [io_evs EXCEPT ![l] = @ \cup {f}]
           /\ io_evs' \in [Loops -> SUBSET Fd] /\ epset' \in [Loops -> SUBSET Fd]
           /\ \A k \in Loops : epset'[k] \subseteq epset[k] \cup {f}
           /\ \A k \in Loops : k # l => epset'[k] = epset[k]
           /\ ~stolen /\ f \notin epset[l] /\ fdtab[f] \in Clients =>
                 /\ epset' = [epset EXCEPT ![l] = @ \cup {f}]
                 /\ epset'[l] = epset[l] \cup {f}
                 /\ io_evs' = epset'
                 /\ f \notin io_evs[l]
<1>1. /\ conns' = [conns EXCEPT ![f] = l]
      /\ io_evs' = [io_evs EXCEPT ![l] = @ \cup {f}]
      /\ curr_conns' = curr_conns + 1
      /\ epset' = IF f \in io_evs[l] \/ fdtab[f] = "free"
                  THEN epset ELSE [epset EXCEPT ![l] = @ \cup {f}]
  BY DEF init_conn, inc_conn
<1>2. /\ conns'[f] = l /\ \A g \in Slots : g # f => conns'[g] = conns[g]
      /\ conns' \in [Slots -> Loops \cup {NULL, Unallocated}]
  BY <1>1 DEF Inv, Typed
<1>3. io_evs' \in [Loops -> SUBSET Fd]
  BY <1>1 DEF Inv, Typed
<1>4. /\ epset' \in [Loops -> SUBSET Fd]
      /\ \A k \in Loops : epset'[k] \subseteq epset[k] \cup {f}
      /\ \A k \in Loops : k # l => epset'[k] = epset[k]
  <2>1. CASE epset' = epset
    BY <2>1 DEF Inv, Typed
  <2>2. CASE epset' = [epset EXCEPT ![l] = @ \cup {f}]
    BY <2>2 DEF Inv, Typed
  <2> QED BY <1>1, <2>1, <2>2
<1>5. ASSUME ~stolen, f \notin epset[l], fdtab[f] \in Clients
      PROVE  /\ epset' = [epset EXCEPT ![l] = @ \cup {f}]
             /\ epset'[l] = epset[l] \cup {f}
             /\ io_evs' = epset'
             /\ f \notin io_evs[l]
  <2>1. io_evs = epset
    BY <1>5 DEF Inv, Holding
  <2>2. epset' = [epset EXCEPT ![l] = @ \cup {f}]
    BY <1>1, <1>5, <2>1, Consts
  <2> QED BY <1>1, <1>5, <2>1, <2>2 DEF Inv, Typed
<1> QED
  BY <1>1, <1>2, <1>3, <1>4, <1>5

(* Without workers do_accept sets the connection up itself.                *)
LEMMA DispatchSelf ==
    ASSUME Inv, dispatch_self
    PROVE  Inv'
<1>0. PICK f \in Fd : f = connfd /\ f \in Slots
  BY DEF dispatch_self, AcceptStep, Inv, InBounds
<1>1. /\ apc = "dispatch" /\ apc' = "accept" /\ setup.threads = 0
      /\ init_conn(MainLoop, f)
      /\ UNCHANGED <<setup, stolen, fdtab, backlog, connfd, conn_full, reservfd,
                     curr_index, inbox, lpc, lfd>>
  BY <1>0 DEF dispatch_self, AcceptStep
<1>2. MainLoop \in Loops /\ lpc[MainLoop] = "idle" /\ setup \in Setups
  BY <1>1, Consts DEF Inv, OneAtATime, Typed
<1>3. /\ curr_conns' = curr_conns + 1
      /\ conns'[f] = MainLoop
      /\ \A g \in Slots : g # f => conns'[g] = conns[g]
      /\ conns' \in [Slots -> Loops \cup {NULL, Unallocated}]
      /\ io_evs' = [io_evs EXCEPT ![MainLoop] = @ \cup {f}]
      /\ io_evs' \in [Loops -> SUBSET Fd] /\ epset' \in [Loops -> SUBSET Fd]
      /\ \A k \in Loops : epset'[k] \subseteq epset[k] \cup {f}
      /\ \A k \in Loops : k # MainLoop => epset'[k] = epset[k]
  BY <1>0, <1>1, <1>2, InitConn
<1>4. \A g : (Accepting(g) <=> g = f) /\ ~Accepting(g)'
  BY <1>0, <1>1 DEF Accepting
<1>5. ASSUME ~stolen
      PROVE  /\ fdtab[f] \in Clients
             /\ epset'[MainLoop] = epset[MainLoop] \cup {f}
             /\ io_evs' = epset' /\ f \notin io_evs[MainLoop]
             /\ \A k \in Loops : f \notin epset[k]
  <2>1. fdtab[f] \in Clients /\ \A k \in Loops : f \notin epset[k]
    BY <1>4, <1>5 DEF Inv, Holding
  <2> QED BY <1>0, <1>1, <1>2, <1>5, <2>1, InitConn
<1>6. Typed'
  BY <1>1, <1>3 DEF Inv, Typed, Steps
<1>7. InBounds' /\ OneAtATime'
  BY <1>0, <1>1, <1>2, <1>3 DEF Inv, InBounds, OneAtATime
<1>8. ~stolen' => Holding'
  <2> SUFFICES ASSUME ~stolen PROVE Holding'
    BY <1>1
  <2>1. Holding /\ \A l \in Loops : inbox[l] = << >>
    BY <1>1 DEF Inv, Single
  <2>2. (\A l \in Loops : \A g \in epset[l] :
            fdtab[g] \in Clients /\ ~Accepting(g) /\ conns[g] = l)'
    <3>1. ASSUME NEW l \in Loops, NEW g \in epset'[l]
          PROVE  fdtab[g] \in Clients /\ conns'[g] = l
      <4>1. CASE g = f
        BY <1>3, <1>5, <3>1, <4>1
      <4>2. CASE g # f
        <5>1. g \in epset[l] /\ g \in Slots
          BY <1>3, <3>1, <4>2 DEF Inv, InBounds
        <5> QED BY <1>3, <2>1, <4>2, <5>1 DEF Holding
      <4> QED BY <4>1, <4>2
    <3> QED BY <1>1, <1>4, <3>1
  <2>3. (\A g \in Fd : fdtab[g] \in Clients =>
          \/ Accepting(g)
          \/ \E l \in Loops : \E i \in 1..Len(inbox[l]) : inbox[l][i] = g
          \/ \E l \in Loops : g \in epset[l])'
    <3>1. ASSUME NEW g \in Fd, fdtab[g] \in Clients PROVE \E l \in Loops : g \in epset'[l]
      <4>1. CASE g = f
        BY <1>2, <1>5, <4>1
      <4>2. CASE g # f
        <5>1. PICK l \in Loops : g \in epset[l]
          BY <1>4, <2>1, <3>1, <4>2 DEF Holding
        <5>2. epset[l] \subseteq epset'[l]
          BY <1>3, <1>5
        <5> QED BY <5>1, <5>2
      <4> QED BY <4>1, <4>2
    <3> QED BY <1>1, <3>1
  <2>4. (\A l \in Loops : lpc[l] \in Cleans => lfd[l] \in epset[l])'
    <3>1. \A l \in Loops : epset[l] \subseteq epset'[l]
      BY <1>3, <1>5
    <3> QED BY <1>1, <2>1, <3>1 DEF Holding
  <2> QED BY <1>1, <1>4, <1>5, <2>1, <2>2, <2>3, <2>4 DEF Holding
<1>9. ConnCount'
  <2> SUFFICES ASSUME ~stolen PROVE ConnCount'
    BY <1>1 DEF ConnCount
  <2>1. Cardinality(Pairs') = Cardinality(Pairs) + 1
    BY <1>2, <1>3, <1>5, OnePairMore
  <2>2. Cleaning' = Cleaning
    BY <1>1 DEF Cleaning
  <2>3. curr_conns = Cardinality(Pairs) - Cardinality(Cleaning)
    BY DEF Inv, ConnCount, Pairs
  <2>4. curr_conns' = Cardinality(Pairs') - Cardinality(Cleaning')
    BY <1>3, <2>1, <2>2, <2>3, PairsFinite
  <2> QED BY <2>4 DEF ConnCount, Pairs
<1>10. Single'
  <2>1. Cardinality(epset'[MainLoop]) <= Cardinality(epset[MainLoop]) + 1
    <3> DEFINE S == epset[MainLoop]
    <3>1. IsFiniteSet(S \cup {f}) /\ Cardinality(S \cup {f}) <= Cardinality(S) + 1
      <4>1. IsFiniteSet(S) /\ Cardinality(S) \in Nat
        BY ServedFinite
      <4> HIDE DEF S
      <4>2. /\ IsFiniteSet(S \cup {f})
            /\ Cardinality(S \cup {f}) = IF f \in S THEN Cardinality(S) ELSE Cardinality(S) + 1
        BY <4>1, FS_AddElement
      <4> QED BY <4>1, <4>2
    <3>2. epset'[MainLoop] \in SUBSET (S \cup {f})
      BY <1>2, <1>3
    <3>3. Cardinality(epset'[MainLoop]) <= Cardinality(S \cup {f})
      BY <3>1, <3>2, FS_Subset
    <3>4. Cardinality(S) \in Nat /\ Cardinality(S \cup {f}) \in Nat
          /\ Cardinality(epset'[MainLoop]) \in Nat
      BY ServedFinite, <3>1, <3>2, FS_Subset, FS_CardinalityType
    <3> HIDE DEF S
    <3>5. Cardinality(epset'[MainLoop]) <= Cardinality(S) + 1
      BY <3>1, <3>3, <3>4
    <3> QED BY <3>5 DEF S
  <2>2. Cardinality(epset[MainLoop]) <= curr_conns /\ curr_conns < MaxConns
    BY <1>1, <1>2, ServedFinite DEF Inv, Single, Cleans
  <2>3. Cardinality(epset'[MainLoop]) \in Nat
    <3>1. epset'[MainLoop] \in SUBSET Fd
      BY <1>2, <1>3
    <3> QED BY <3>1, Consts, FS_Subset, FS_CardinalityType
  <2>4. /\ Cardinality(epset'[MainLoop]) <= curr_conns' + 0
        /\ curr_conns' + 0 <= MaxConns
    BY <1>3, <2>1, <2>2, <2>3, ServedFinite, Consts
  <2>5. \A l \in Loops \ {MainLoop} : epset'[l] = {} /\ lpc[l] = "idle"
    BY <1>1, <1>3 DEF Inv, Single
  <2>6. \A l \in Loops : inbox[l] = << >>
    BY <1>1 DEF Inv, Single
  <2> QED BY <1>1, <1>2, <2>4, <2>5, <2>6 DEF Single, Cleans
<1>11. Roomy'
  BY <1>0, <1>1, <1>4 DEF Inv, Roomy
<1>12. NoAbort'
  BY <1>1 DEF NoAbort
<1> QED
  BY <1>6, <1>7, <1>8, <1>9, <1>10, <1>11, <1>12 DEF Inv

(* With workers do_accept sends the connection to the next one.            *)
LEMMA DispatchThread ==
    ASSUME Inv, dispatch_thread
    PROVE  Inv'
<1>0. PICK f \in Fd : f = connfd /\ f \in Slots
  BY DEF dispatch_thread, Inv, InBounds
<1>1. PICK l \in Loops : l = NextThread + 1 /\ l \in 1..setup.threads
  <2>1. setup \in Setups /\ setup.threads > 0 /\ curr_index \in 0..setup.threads
    BY DEF dispatch_thread, Inv, Typed
  <2>2. setup.threads \in Nat /\ 1..setup.threads \subseteq Loops
    BY <2>1, Consts
  <2>3. NextThread + 1 \in 1..setup.threads
    BY <2>1, <2>2 DEF NextThread
  <2> QED BY <2>2, <2>3
<1>2. /\ apc = "dispatch" /\ apc' = "accept" /\ setup.threads > 0
      /\ curr_index' = l
      /\ inbox' = [inbox EXCEPT ![l] = Append(@, f)]
      /\ UNCHANGED <<setup, stolen, fdtab, backlog, connfd, conn_full, reservfd, curr_conns,
                     conns, io_evs, epset, lpc, lfd>>
  BY <1>0, <1>1 DEF dispatch_thread, loopVars
<1> DEFINE q == inbox[l]
           n == Len(q)
<1>3. /\ inbox'[l] = Append(q, f) /\ \A k \in Loops : k # l => inbox'[k] = inbox[k]
      /\ inbox' \in [Loops -> Seq(Fd)] /\ q \in Seq(Fd) /\ n \in Nat
  BY <1>2 DEF Inv, Typed
<1>4. /\ Len(inbox'[l]) = n + 1 /\ inbox'[l][n + 1] = f
      /\ \A i \in 1..n : inbox'[l][i] = q[i]
  BY <1>3
<1> HIDE DEF n
<1>5. \A k \in Loops : \A i \in 1..Len(inbox'[k]) :
         \/ k = l /\ i = n + 1 /\ inbox'[k][i] = f
         \/ i \in 1..Len(inbox[k]) /\ inbox'[k][i] = inbox[k][i]
  <2>1. \A i \in 1..(n + 1) : i = n + 1 \/ i \in 1..n
    BY <1>3
  <2> QED BY <1>3, <1>4, <2>1 DEF n
<1>6. \A g : (Accepting(g) <=> g = f) /\ ~Accepting(g)'
  BY <1>0, <1>2 DEF Accepting
<1>7. Typed'
  BY <1>1, <1>2, <1>3, Consts DEF Inv, Typed, Steps
<1>8. InBounds'
  <2>1. \A k \in Loops : \A i \in 1..Len(inbox'[k]) : inbox'[k][i] \in Slots
    BY <1>0, <1>5 DEF Inv, InBounds
  <2> QED BY <1>2, <2>1 DEF Inv, InBounds
<1>9. OneAtATime'
  BY <1>2 DEF Inv, OneAtATime
<1>10. ~stolen' => Holding'
  <2> SUFFICES ASSUME ~stolen PROVE Holding'
    BY <1>2
  <2>1. Holding
    BY DEF Inv
  <2>2. /\ fdtab[f] \in Clients /\ \A k \in Loops : f \notin epset[k]
        /\ \A k \in Loops : \A i \in 1..Len(inbox[k]) : inbox[k][i] # f
    BY <1>6, <2>1 DEF Holding
  <2>3. (\A k \in Loops : \A i \in 1..Len(inbox[k]) :
          /\ fdtab[inbox[k][i]] \in Clients
          /\ ~Accepting(inbox[k][i])
          /\ \A m \in Loops : inbox[k][i] \notin epset[m])'
    BY <1>2, <1>5, <1>6, <2>1, <2>2 DEF Holding
  <2>4. (\A k, m \in Loops : \A i \in 1..Len(inbox[k]), j \in 1..Len(inbox[m]) :
          inbox[k][i] = inbox[m][j] => k = m /\ i = j)'
    <3> SUFFICES ASSUME NEW k \in Loops, NEW m \in Loops, NEW i \in 1..Len(inbox'[k]),
                        NEW j \in 1..Len(inbox'[m]), inbox'[k][i] = inbox'[m][j]
                 PROVE  k = m /\ i = j
      OBVIOUS
    <3>1. \/ k = l /\ i = n + 1 /\ inbox'[k][i] = f
          \/ i \in 1..Len(inbox[k]) /\ inbox'[k][i] = inbox[k][i]
      BY <1>5
    <3>2. \/ m = l /\ j = n + 1 /\ inbox'[m][j] = f
          \/ j \in 1..Len(inbox[m]) /\ inbox'[m][j] = inbox[m][j]
      BY <1>5
    <3> QED BY <2>1, <2>2, <3>1, <3>2 DEF Holding
  <2>5. (\A g \in Fd : fdtab[g] \in Clients =>
          \/ Accepting(g)
          \/ \E k \in Loops : \E i \in 1..Len(inbox[k]) : inbox[k][i] = g
          \/ \E k \in Loops : g \in epset[k])'
    <3>1. ASSUME NEW g \in Fd, fdtab[g] \in Clients, \A k \in Loops : g \notin epset[k]
          PROVE  \E k \in Loops : \E i \in 1..Len(inbox'[k]) : inbox'[k][i] = g
      <4>1. CASE g = f
        <5>1. n + 1 \in 1..Len(inbox'[l])
          BY <1>3, <1>4
        <5> QED BY <1>4, <4>1, <5>1
      <4>2. CASE g # f
        <5>1. PICK k \in Loops : \E i \in 1..Len(inbox[k]) : inbox[k][i] = g
          BY <1>6, <2>1, <3>1, <4>2 DEF Holding
        <5>a. PICK i \in 1..Len(inbox[k]) : inbox[k][i] = g
          BY <5>1
        <5>2. i \in 1..Len(inbox'[k]) /\ inbox'[k][i] = g
          BY <1>3, <1>4, <5>a DEF n
        <5> QED BY <5>2
      <4> QED BY <4>1, <4>2
    <3> QED BY <1>2, <3>1
  <2>6. (\A k \in Loops : \A g \in epset[k] :
          fdtab[g] \in Clients /\ ~Accepting(g) /\ conns[g] = k)'
    BY <1>2, <1>6, <2>1 DEF Holding
  <2>7. (\A g \in Fd : Accepting(g) => fdtab[g] \in Clients)'
    BY <1>6
  <2>8. (io_evs = epset /\ \A k \in Loops : lpc[k] \in Cleans => lfd[k] \in epset[k])'
    BY <1>2, <2>1 DEF Holding
  <2> QED BY <2>3, <2>4, <2>5, <2>6, <2>7, <2>8 DEF Holding
<1>11. ConnCount'
  BY <1>2, SameCount
<1>12. Single' /\ NoAbort'
  BY <1>2 DEF Single, NoAbort
<1>13. Roomy'
  BY <1>0, <1>2, <1>6 DEF Inv, Roomy
<1> QED
  BY <1>7, <1>8, <1>9, <1>10, <1>11, <1>12, <1>13 DEF Inv

(* A worker takes the first message out of its queue and sets the          *)
(* connection up.                                                          *)
LEMMA NewConn ==
    ASSUME Inv, NEW l \in Loops, new_conn(l)
    PROVE  Inv'
<1> DEFINE q == inbox[l]
           r == Tail(q)
<1>1. q \in Seq(Fd) /\ q # << >> /\ Len(q) \in Nat /\ Len(q) >= 1
  BY DEF new_conn, Inv, Typed
<1>2. PICK f \in Fd : f = Head(q) /\ f = q[1] /\ f \in Slots
  <2>1. 1 \in 1..Len(q) /\ Head(q) = q[1] /\ q[1] \in Fd
    BY <1>1
  <2> QED BY <2>1 DEF Inv, InBounds
<1>3. /\ LoopIdle(l) /\ init_conn(l, f)
      /\ inbox' = [inbox EXCEPT ![l] = r]
      /\ UNCHANGED <<setup, stolen, fdtab, backlog, apc, connfd, conn_full, reservfd,
                     curr_index, lpc, lfd>>
  BY <1>2 DEF new_conn, acceptVars
<1>4. setup.threads # 0
  BY <1>1 DEF Inv, Single
<1>5. /\ inbox'[l] = r /\ \A k \in Loops : k # l => inbox'[k] = inbox[k]
      /\ r \in Seq(Fd) /\ inbox' \in [Loops -> Seq(Fd)]
      /\ Len(r) = Len(q) - 1
      /\ \A i \in 1..Len(r) : r[i] = q[i + 1] /\ i + 1 \in 1..Len(q)
  BY <1>1, <1>3 DEF Inv, Typed
<1>6. /\ curr_conns' = curr_conns + 1
      /\ conns'[f] = l
      /\ \A g \in Slots : g # f => conns'[g] = conns[g]
      /\ conns' \in [Slots -> Loops \cup {NULL, Unallocated}]
      /\ io_evs' = [io_evs EXCEPT ![l] = @ \cup {f}]
      /\ io_evs' \in [Loops -> SUBSET Fd] /\ epset' \in [Loops -> SUBSET Fd]
      /\ \A k \in Loops : epset'[k] \subseteq epset[k] \cup {f}
      /\ \A k \in Loops : k # l => epset'[k] = epset[k]
  BY <1>2, <1>3, InitConn
<1> HIDE DEF r, q
<1>7. \A k \in Loops : \A i \in 1..Len(inbox'[k]) : \E j \in 1..Len(inbox[k]) :
         /\ inbox'[k][i] = inbox[k][j]
         /\ j = IF k = l THEN i + 1 ELSE i
  <2>1. ASSUME NEW i \in 1..Len(inbox'[l])
        PROVE  i + 1 \in 1..Len(inbox[l]) /\ inbox'[l][i] = inbox[l][i + 1]
    BY <1>5 DEF q
  <2> QED BY <1>5, <2>1
<1>8. \A g : Accepting(g)' <=> Accepting(g)
  BY <1>3 DEF Accepting
<1>9. ASSUME ~stolen
      PROVE  /\ fdtab[f] \in Clients /\ ~Accepting(f)
             /\ epset'[l] = epset[l] \cup {f}
             /\ io_evs' = epset' /\ f \notin io_evs[l]
             /\ \A k \in Loops : f \notin epset[k]
             /\ \A k \in Loops : \A i \in 1..Len(inbox'[k]) : inbox'[k][i] # f
             /\ Holding
  <2>0. Holding
    BY <1>9 DEF Inv
  <2>1. 1 \in 1..Len(inbox[l]) /\ inbox[l][1] = f
    BY <1>1, <1>2 DEF q
  <2>2. fdtab[f] \in Clients /\ ~Accepting(f) /\ \A k \in Loops : f \notin epset[k]
    BY <2>0, <2>1 DEF Holding
  <2>3. ASSUME NEW k \in Loops, NEW i \in 1..Len(inbox'[k]), inbox'[k][i] = f PROVE FALSE
    <3>1. PICK j \in 1..Len(inbox[k]) :
            inbox'[k][i] = inbox[k][j] /\ j = IF k = l THEN i + 1 ELSE i
      BY <1>7
    <3>2. k = l /\ j = 1
      BY <2>0, <2>1, <2>3, <3>1 DEF Holding
    <3>3. i \in Nat /\ i >= 1
      BY <1>5, <3>2 DEF q
    <3> QED BY <3>1, <3>2, <3>3
  <2> QED BY <1>2, <1>3, <1>9, <2>0, <2>2, <2>3, InitConn
<1>10. Typed'
  BY <1>3, <1>5, <1>6 DEF Inv, Typed
<1>11. InBounds'
  <2>1. \A k \in Loops : \A i \in 1..Len(inbox'[k]) : inbox'[k][i] \in Slots
    BY <1>7 DEF Inv, InBounds
  <2>2. \A k \in Loops : epset'[k] \subseteq Slots
    BY <1>2, <1>6 DEF Inv, InBounds
  <2> QED BY <1>3, <2>1, <2>2 DEF Inv, InBounds
<1>12. OneAtATime'
  BY <1>3 DEF Inv, OneAtATime
<1>13. ~stolen' => Holding'
  <2> SUFFICES ASSUME ~stolen PROVE Holding'
    BY <1>3
  <2>1. Holding
    BY <1>9
  <2>2. (\A k \in Loops : \A i \in 1..Len(inbox[k]) :
          /\ fdtab[inbox[k][i]] \in Clients
          /\ ~Accepting(inbox[k][i])
          /\ \A m \in Loops : inbox[k][i] \notin epset[m])'
    <3> SUFFICES ASSUME NEW k \in Loops, NEW i \in 1..Len(inbox'[k])
                 PROVE  /\ fdtab[inbox'[k][i]] \in Clients
                        /\ ~Accepting(inbox'[k][i])
                        /\ \A m \in Loops : inbox'[k][i] \notin epset'[m]
      BY <1>3, <1>8
    <3>1. PICK j \in 1..Len(inbox[k]) : inbox'[k][i] = inbox[k][j]
      BY <1>7
    <3>2. inbox'[k][i] # f
      BY <1>9
    <3> QED BY <1>6, <2>1, <3>1, <3>2 DEF Holding
  <2>3. (\A k, m \in Loops : \A i \in 1..Len(inbox[k]), j \in 1..Len(inbox[m]) :
          inbox[k][i] = inbox[m][j] => k = m /\ i = j)'
    <3> SUFFICES ASSUME NEW k \in Loops, NEW m \in Loops, NEW i \in 1..Len(inbox'[k]),
                        NEW j \in 1..Len(inbox'[m]), inbox'[k][i] = inbox'[m][j]
                 PROVE  k = m /\ i = j
      OBVIOUS
    <3>1. PICK a \in 1..Len(inbox[k]) :
            inbox'[k][i] = inbox[k][a] /\ a = IF k = l THEN i + 1 ELSE i
      BY <1>7
    <3>2. PICK b \in 1..Len(inbox[m]) :
            inbox'[m][j] = inbox[m][b] /\ b = IF m = l THEN j + 1 ELSE j
      BY <1>7
    <3>a. \A x, y \in Loops : \A u \in 1..Len(inbox[x]), v \in 1..Len(inbox[y]) :
            inbox[x][u] = inbox[y][v] => x = y /\ u = v
      BY <2>1 DEF Holding
    <3>b. inbox[k][a] = inbox[m][b]
      BY <3>1, <3>2
    <3>3. k = m /\ a = b
      BY <3>a, <3>b
    <3>4. i \in Int /\ j \in Int
      OBVIOUS
    <3> QED BY <3>1, <3>2, <3>3, <3>4
  <2>4. (\A k \in Loops : \A g \in epset[k] :
          fdtab[g] \in Clients /\ ~Accepting(g) /\ conns[g] = k)'
    <3> SUFFICES ASSUME NEW k \in Loops, NEW g \in epset'[k]
                 PROVE  fdtab[g] \in Clients /\ ~Accepting(g) /\ conns'[g] = k
      BY <1>3, <1>8
    <3>1. CASE g = f
      BY <1>6, <1>9, <3>1
    <3>2. CASE g # f
      <4>1. g \in epset[k] /\ g \in Slots
        BY <1>6, <3>2 DEF Inv, InBounds
      <4> QED BY <1>6, <2>1, <3>2, <4>1 DEF Holding
    <3> QED BY <3>1, <3>2
  <2>5. (\A g \in Fd : Accepting(g) => fdtab[g] \in Clients)'
    BY <1>3, <1>8, <2>1 DEF Holding
  <2>6. \A k \in Loops : epset[k] \subseteq epset'[k]
    BY <1>6, <1>9
  <2>7. (\A g \in Fd : fdtab[g] \in Clients =>
          \/ Accepting(g)
          \/ \E k \in Loops : \E i \in 1..Len(inbox[k]) : inbox[k][i] = g
          \/ \E k \in Loops : g \in epset[k])'
    <3> SUFFICES ASSUME NEW g \in Fd, fdtab[g] \in Clients, ~Accepting(g),
                        \A k \in Loops : g \notin epset'[k]
                 PROVE  \E k \in Loops : \E i \in 1..Len(inbox'[k]) : inbox'[k][i] = g
      BY <1>3, <1>8
    <3>1. g # f
      BY <1>9
    <3>a. PICK k \in Loops : \E j \in 1..Len(inbox[k]) : inbox[k][j] = g
      BY <2>1, <2>6 DEF Holding
    <3>2. PICK j \in 1..Len(inbox[k]) : inbox[k][j] = g
      BY <3>a
    <3>3. CASE k = l
      <4>1. j # 1
        BY <1>2, <3>1, <3>2, <3>3 DEF q
      <4>2. j - 1 \in 1..Len(inbox'[l]) /\ inbox'[l][j - 1] = g
        <5>1. j - 1 \in 1..Len(r) /\ j - 1 + 1 = j
          BY <1>1, <1>5, <3>2, <3>3, <4>1 DEF q
        <5>2. r[j - 1] = q[j]
          BY <1>5, <5>1
        <5> QED BY <1>5, <3>2, <3>3, <5>1, <5>2 DEF q
      <4> QED BY <4>2
    <3>4. CASE k # l
      BY <1>5, <3>2, <3>4
    <3> QED BY <3>3, <3>4
  <2>8. (io_evs = epset /\ \A k \in Loops : lpc[k] \in Cleans => lfd[k] \in epset[k])'
    BY <1>3, <1>9, <2>1, <2>6 DEF Holding
  <2> QED BY <2>2, <2>3, <2>4, <2>5, <2>7, <2>8 DEF Holding
<1>14. ConnCount'
  <2> SUFFICES ASSUME ~stolen PROVE ConnCount'
    BY <1>3 DEF ConnCount
  <2>1. Cardinality(Pairs') = Cardinality(Pairs) + 1
    BY <1>6, <1>9, OnePairMore
  <2>2. Cleaning' = Cleaning
    BY <1>3 DEF Cleaning
  <2>3. curr_conns = Cardinality(Pairs) - Cardinality(Cleaning)
    BY DEF Inv, ConnCount, Pairs
  <2>4. curr_conns' = Cardinality(Pairs') - Cardinality(Cleaning')
    BY <1>6, <2>1, <2>2, <2>3, PairsFinite
  <2> QED BY <2>4 DEF ConnCount, Pairs
<1>15. Single'
  BY <1>3, <1>4 DEF Single
<1>16. Roomy'
  BY <1>3, <1>8 DEF Inv, Roomy
<1>17. NoAbort'
  BY <1>3 DEF NoAbort, LoopIdle, Alive
<1> QED
  BY <1>10, <1>11, <1>12, <1>13, <1>14, <1>15, <1>16, <1>17 DEF Inv

(* handle_read decides to close a connection of its loop and lowers the    *)
(* count.                                                                  *)
LEMMA HandleRead ==
    ASSUME Inv, NEW l \in Loops, NEW f \in Fd, handle_read(l, f)
    PROVE  Inv'
<1>1. /\ LoopIdle(l) /\ f \in epset[l] /\ fdtab[f] \in Clients
      /\ curr_conns' = curr_conns - 1
      /\ lfd' = [lfd EXCEPT ![l] = f]
      /\ UNCHANGED <<setup, stolen, fdtab, backlog, apc, connfd, conn_full, reservfd,
                     curr_index, inbox, conns, io_evs, epset>>
  BY DEF handle_read, acceptVars
<1>2. PICK s \in Cleans : lpc' = [lpc EXCEPT ![l] = s]
  BY DEF handle_read, Cleans
<1>3. lpc[l] = "idle" /\ apc # "aborted" /\ (l = MainLoop => apc = "poll")
  BY <1>1 DEF LoopIdle, Alive
<1>4. /\ lpc'[l] = s /\ lfd'[l] = f
      /\ \A k \in Loops : k # l => lpc'[k] = lpc[k] /\ lfd'[k] = lfd[k]
      /\ lpc' \in [Loops -> Cleans \cup {"idle", "adjust"}]
      /\ lfd' \in [Loops -> Fd \cup {-1}]
  BY <1>1, <1>2 DEF Inv, Typed
<1>5. f <= setup.limit
  <2>1. fdtab[f] # "other"
    BY <1>1, Consts
  <2> QED BY <2>1, Consts DEF Inv, InBounds, Typed
<1>6. Typed'
  BY <1>1, <1>4 DEF Inv, Typed
<1>7. InBounds'
  BY <1>1, <1>4, <1>5 DEF Inv, InBounds
<1>8. OneAtATime'
  BY <1>1, <1>3, <1>4, Consts DEF Inv, OneAtATime
<1>9. ~stolen' => Holding'
  <2> SUFFICES ASSUME ~stolen PROVE Holding'
    BY <1>1
  <2>1. Holding
    BY DEF Inv
  <2>2. \A g : Accepting(g)' <=> Accepting(g)
    BY <1>1 DEF Accepting
  <2>3. \A k \in Loops : lpc'[k] \in Cleans => lfd'[k] \in epset[k]
    BY <1>1, <1>4, <2>1 DEF Holding
  <2> QED BY <1>1, <2>1, <2>2, <2>3 DEF Holding
<1>10. ConnCount'
  <2> SUFFICES ASSUME ~stolen PROVE ConnCount'
    BY <1>1 DEF ConnCount
  <2>1. Cleaning' = Cleaning \cup {l} /\ l \notin Cleaning
    BY <1>3, <1>4 DEF Cleaning, Cleans
  <2>2. Cardinality(Cleaning') = Cardinality(Cleaning) + 1
    BY <2>1, PairsFinite, FS_AddElement
  <2>3. curr_conns = Cardinality(Pairs) - Cardinality(Cleaning) /\ Pairs' = Pairs
    BY <1>1 DEF Inv, ConnCount, Pairs
  <2>4. curr_conns' = Cardinality(Pairs') - Cardinality(Cleaning')
    BY <1>1, <2>2, <2>3, PairsFinite
  <2> QED BY <2>4 DEF ConnCount, Pairs
<1>11. Single'
  <2> SUFFICES ASSUME setup.threads = 0 PROVE Single'
    BY <1>1 DEF Single
  <2>1. l = MainLoop
    BY <1>1 DEF Inv, Single
  <2>2. Cardinality(epset[MainLoop]) <= curr_conns /\ curr_conns <= MaxConns
    BY <1>3, <2>1, ServedFinite DEF Inv, Single, Cleans
  <2>3. Cardinality(epset[MainLoop]) <= curr_conns' + 1 /\ curr_conns' + 1 <= MaxConns
    BY <1>1, <2>2, ServedFinite, Consts
  <2>4. /\ \A k \in Loops : inbox[k] = << >>
        /\ \A k \in Loops \ {MainLoop} : epset[k] = {} /\ lpc'[k] = "idle"
    BY <1>4, <2>1 DEF Inv, Single
  <2> QED BY <1>1, <1>3, <1>4, <2>1, <2>3, <2>4 DEF Single
<1>12. Roomy'
  BY <1>1 DEF Inv, Roomy, Accepting
<1>13. NoAbort'
  BY <1>1, <1>3 DEF NoAbort
<1> QED
  BY <1>6, <1>7, <1>8, <1>9, <1>10, <1>11, <1>12, <1>13 DEF Inv

(* clean_conn removes the connection from the loop its object names, which *)
(* is the loop that runs it, and closes the number.                        *)
LEMMA CleanConn ==
    ASSUME Inv, NEW l \in Loops, clean_conn(l)
    PROVE  Inv'
<1>0. PICK f \in Fd \cup {-1} : f = lfd[l]
  BY DEF Inv, Typed
<1>1. /\ Alive /\ lpc[l] \in Cleans
      /\ io_evs' = [io_evs EXCEPT ![conns[f]] = @ \ {f}]
      /\ conns' = [conns EXCEPT ![f] = NULL]
      /\ UNCHANGED <<setup, stolen, backlog, apc, connfd, conn_full, reservfd, curr_conns,
                     curr_index, inbox, lfd>>
  BY <1>0 DEF clean_conn, del_ioev, acceptVars, Cleans
<1>2. /\ fdtab' = [g \in Fd |-> IF g = f THEN "free" ELSE fdtab[g]]
      /\ epset' = [k \in Loops |-> epset[k] \ {f}]
  BY <1>0 DEF clean_conn, close
<1>3. PICK s \in {"idle", "adjust"} : lpc' = [lpc EXCEPT ![l] = s]
  BY DEF clean_conn
<1>4. /\ lpc'[l] = s /\ \A k \in Loops : k # l => lpc'[k] = lpc[k]
      /\ lpc' \in [Loops -> Cleans \cup {"idle", "adjust"}]
  BY <1>3 DEF Inv, Typed
<1>5. /\ conns' \in [Slots -> Loops \cup {NULL, Unallocated}]
      /\ \A g \in Slots : g # f => conns'[g] = conns[g]
  BY <1>1 DEF Inv, Typed
<1>6. io_evs' \in [Loops -> SUBSET Fd]
  BY <1>1 DEF Inv, Typed
<1>7. /\ fdtab' \in [Fd -> Clients \cup {"free", "reserve", "other"}]
      /\ \A g \in Fd : g # f => fdtab'[g] = fdtab[g]
      /\ f \in Fd => fdtab'[f] = "free"
      /\ epset' \in [Loops -> SUBSET Fd]
      /\ \A k \in Loops : epset'[k] = epset[k] \ {f}
  BY <1>2 DEF Inv, Typed
<1>8. apc # "aborted" /\ (l = MainLoop => apc = "poll")
  BY <1>1 DEF Alive, Inv, OneAtATime, Cleans
<1>9. \A g : Accepting(g)' <=> Accepting(g)
  BY <1>1 DEF Accepting
<1>10. ASSUME ~stolen
       PROVE  /\ Holding /\ f \in Fd /\ f \in Slots /\ f \in epset[l] /\ conns[f] = l
              /\ fdtab[f] \in Clients /\ ~Accepting(f)
              /\ io_evs = epset
              /\ \A k \in Loops : f \in epset[k] => k = l
  <2>1. Holding
    BY <1>10 DEF Inv
  <2>2. f \in epset[l]
    BY <1>0, <1>1, <2>1 DEF Holding
  <2>3. f \in Fd /\ f \in Slots
    BY <2>2 DEF Inv, Typed, InBounds
  <2> QED BY <2>1, <2>2, <2>3 DEF Holding
<1>11. Typed'
  BY <1>1, <1>4, <1>5, <1>6, <1>7 DEF Inv, Typed
<1>12. InBounds'
  <2>1. f <= setup.limit
    BY <1>0 DEF Inv, InBounds
  <2>2. setup \in Setups /\ setup.limit \in Nat
    BY Consts DEF Inv, Typed
  <2>3. (\A g \in Fd : g > setup.limit => fdtab[g] = "other")'
    BY <1>1, <1>7, <2>1, <2>2, Consts DEF Inv, InBounds
  <2>4. (\A g \in Fd : fdtab[g] = "other" => g > setup.limit \/ g <= setup.late)'
    BY <1>1, <1>7 DEF Inv, InBounds
  <2>5. (\A k \in Loops : epset[k] \subseteq Slots)'
    BY <1>7 DEF Inv, InBounds
  <2> QED BY <1>1, <2>3, <2>4, <2>5 DEF Inv, InBounds
<1>13. OneAtATime'
  BY <1>1, <1>4, <1>8, Consts DEF Inv, OneAtATime
<1>14. ~stolen' => Holding'
  <2> SUFFICES ASSUME ~stolen PROVE Holding'
    BY <1>1
  <2>1. \A k \in Loops : \A i \in 1..Len(inbox[k]) : inbox[k][i] \in Fd /\ inbox[k][i] # f
    BY <1>10 DEF Holding, Inv, Typed
  <2>2. (\A k \in Loops : \A i \in 1..Len(inbox[k]) :
          /\ fdtab[inbox[k][i]] \in Clients
          /\ ~Accepting(inbox[k][i])
          /\ \A m \in Loops : inbox[k][i] \notin epset[m])'
    BY <1>1, <1>7, <1>9, <1>10, <2>1 DEF Holding
  <2>3. (\A k, m \in Loops : \A i \in 1..Len(inbox[k]), j \in 1..Len(inbox[m]) :
          inbox[k][i] = inbox[m][j] => k = m /\ i = j)'
    BY <1>1, <1>10 DEF Holding
  <2>4. (\A k \in Loops : \A g \in epset[k] :
          fdtab[g] \in Clients /\ ~Accepting(g) /\ conns[g] = k)'
    <3> SUFFICES ASSUME NEW k \in Loops, NEW g \in epset'[k]
                 PROVE  fdtab'[g] \in Clients /\ ~Accepting(g) /\ conns'[g] = k
      BY <1>9
    <3>1. g \in epset[k] /\ g # f /\ g \in Slots /\ g \in Fd
      BY <1>7 DEF Inv, InBounds, Typed
    <3> QED BY <1>5, <1>7, <1>10, <3>1 DEF Holding
  <2>5. (\A g \in Fd : Accepting(g) => fdtab[g] \in Clients)'
    BY <1>7, <1>9, <1>10 DEF Holding
  <2>6. (\A g \in Fd : fdtab[g] \in Clients =>
          \/ Accepting(g)
          \/ \E k \in Loops : \E i \in 1..Len(inbox[k]) : inbox[k][i] = g
          \/ \E k \in Loops : g \in epset[k])'
    <3> SUFFICES ASSUME NEW g \in Fd, fdtab'[g] \in Clients
                 PROVE  \/ Accepting(g)
                        \/ \E k \in Loops : \E i \in 1..Len(inbox[k]) : inbox[k][i] = g
                        \/ \E k \in Loops : g \in epset'[k]
      BY <1>1, <1>9
    <3>1. g # f /\ fdtab[g] \in Clients
      BY <1>7, Consts
    <3> QED BY <1>7, <1>10, <3>1 DEF Holding
  <2>7. (io_evs = epset)'
    <3>1. io_evs' = [epset EXCEPT ![l] = @ \ {f}]
      BY <1>1, <1>10
    <3>2. \A k \in Loops : k # l => epset[k] \ {f} = epset[k]
      BY <1>10
    <3> QED BY <1>2, <3>1, <3>2 DEF Inv, Typed
  <2>8. (\A k \in Loops : lpc[k] \in Cleans => lfd[k] \in epset[k])'
    <3> SUFFICES ASSUME NEW k \in Loops, lpc'[k] \in Cleans PROVE lfd[k] \in epset'[k]
      BY <1>1
    <3>1. k # l
      BY <1>4 DEF Cleans
    <3>2. lpc[k] \in Cleans /\ lfd[k] \in epset[k] /\ lfd[k] # f
      BY <1>4, <1>10, <3>1 DEF Holding
    <3> QED BY <1>7, <3>2
  <2> QED BY <2>2, <2>3, <2>4, <2>5, <2>6, <2>7, <2>8 DEF Holding
<1>15. ConnCount'
  <2> SUFFICES ASSUME ~stolen PROVE ConnCount'
    BY <1>1 DEF ConnCount
  <2>1. io_evs' = [io_evs EXCEPT ![l] = @ \ {f}] /\ f \in io_evs[l] /\ f \in Fd
    BY <1>1, <1>10
  <2>2. Cardinality(Pairs') = Cardinality(Pairs) - 1
    BY <2>1, OnePairLess
  <2>3. Cleaning' = Cleaning \ {l} /\ l \in Cleaning
    BY <1>1, <1>4 DEF Cleaning, Cleans
  <2>4. Cardinality(Cleaning') = Cardinality(Cleaning) - 1
    BY <2>3, PairsFinite, FS_RemoveElement
  <2>5. curr_conns = Cardinality(Pairs) - Cardinality(Cleaning)
    BY DEF Inv, ConnCount, Pairs
  <2>6. curr_conns' = Cardinality(Pairs') - Cardinality(Cleaning')
    BY <1>1, <2>2, <2>4, <2>5, PairsFinite
  <2> QED BY <2>6 DEF ConnCount, Pairs
<1>16. Single'
  <2> SUFFICES ASSUME setup.threads = 0 PROVE Single'
    BY <1>1 DEF Single
  <2>1. l = MainLoop
    BY <1>1 DEF Inv, Single, Cleans
  <2>2. Cardinality(epset[MainLoop]) <= curr_conns + 1 /\ curr_conns + 1 <= MaxConns
    BY <1>1, <2>1 DEF Inv, Single
  <2>3. f \in epset[MainLoop]
    BY <1>0, <1>1, <2>1 DEF Inv, Single
  <2>4. Cardinality(epset[MainLoop] \ {f}) = Cardinality(epset[MainLoop]) - 1
    BY <2>3, ServedFinite, FS_RemoveElement
  <2>a. epset'[MainLoop] = epset[MainLoop] \ {f}
    BY <1>7, Consts
  <2>b. curr_conns \in Int /\ Cardinality(epset[MainLoop]) \in Nat /\ MaxConns \in Nat
    BY ServedFinite, Consts
  <2>5. Cardinality(epset'[MainLoop]) <= curr_conns + 0 /\ curr_conns + 0 <= MaxConns
    BY <2>2, <2>4, <2>a, <2>b
  <2>6. /\ \A k \in Loops : inbox[k] = << >>
        /\ \A k \in Loops \ {MainLoop} : epset'[k] = {} /\ lpc'[k] = "idle"
    BY <1>4, <1>7, <2>1 DEF Inv, Single
  <2> QED BY <1>1, <1>4, <1>8, <2>1, <2>5, <2>6 DEF Single, Cleans
<1>17. Roomy'
  <2> SUFFICES ASSUME setup.late = 0, setup.limit >= conns_size PROVE Roomy'
    BY <1>1 DEF Roomy
  <2>1. ~stolen /\ fdtab[0] = "reserve"
    BY DEF Inv, Roomy
  <2>2. f # 0
    BY <1>10, <2>1, Consts
  <2> QED BY <1>1, <1>7, <1>9, <2>1, <2>2, Consts DEF Inv, Roomy
<1>18. NoAbort'
  BY <1>1, <1>8 DEF NoAbort
<1> QED
  BY <1>11, <1>12, <1>13, <1>14, <1>15, <1>16, <1>17, <1>18 DEF Inv

(* The trailing adjust after a malformed head.                             *)
LEMMA Adjust ==
    ASSUME Inv, NEW l \in Loops, adjust(l)
    PROVE  Inv'
<1>1. /\ Alive /\ lpc[l] = "adjust" /\ lpc' = [lpc EXCEPT ![l] = "idle"]
      /\ UNCHANGED <<setup, stolen, fdtab, backlog, apc, connfd, conn_full, reservfd, curr_conns,
                     curr_index, inbox, conns, io_evs, epset, lfd>>
  BY DEF adjust, acceptVars
<1>2. /\ lpc'[l] = "idle" /\ \A k \in Loops : k # l => lpc'[k] = lpc[k]
      /\ lpc' \in [Loops -> Cleans \cup {"idle", "adjust"}]
  BY <1>1 DEF Inv, Typed
<1>3. \A k \in Loops : lpc'[k] \in Cleans <=> lpc[k] \in Cleans
  BY <1>1, <1>2 DEF Cleans
<1>4. \A g : Accepting(g)' <=> Accepting(g)
  BY <1>1 DEF Accepting
<1>5. Typed' /\ InBounds' /\ OneAtATime'
  BY <1>1, <1>2, Consts DEF Inv, Typed, InBounds, OneAtATime
<1>6. ~stolen' => Holding'
  BY <1>1, <1>3, <1>4 DEF Inv, Holding
<1>7. ConnCount'
  <2>1. Cleaning' = Cleaning
    BY <1>3 DEF Cleaning, Cleans
  <2> QED BY <1>1, <2>1 DEF Inv, ConnCount
<1>8. Single'
  BY <1>1, <1>2, <1>3, Consts DEF Inv, Single, FreeFds
<1>9. Roomy'
  BY <1>1, <1>4 DEF Inv, Roomy
<1>10. NoAbort'
  BY <1>1 DEF NoAbort, Alive
<1> QED
  BY <1>5, <1>6, <1>7, <1>8, <1>9, <1>10 DEF Inv

-----------------------------------------------------------------------------
(* The invariant holds, and what follows from it.                          *)

(* The constructor establishes the invariant.                              *)
LEMMA InitInv == Init => Inv
<1> SUFFICES ASSUME Init PROVE Inv
  OBVIOUS
<1>1. setup \in Setups
  BY DEF Init
<1>2. /\ setup.limit \in Nat /\ setup.late \in Nat /\ setup.threads \in Nat
      /\ setup.late <= setup.limit /\ (setup.threads = 0 => setup.late = 0)
  BY <1>1, Consts
<1>3. /\ \A f \in Fd : fdtab[f] = IF f = 0 THEN "reserve"
                                  ELSE IF f <= setup.late \/ f > setup.limit THEN "other"
                                  ELSE "free"
      /\ fdtab \in [Fd -> Clients \cup {"free", "reserve", "other"}]
      /\ fdtab[0] = "reserve"
  BY Consts DEF Init
<1>4. Typed
  <2>1. /\ inbox \in [Loops -> Seq(Fd)]
        /\ conns \in [Slots -> Loops \cup {NULL, Unallocated}]
        /\ io_evs \in [Loops -> SUBSET Fd] /\ epset \in [Loops -> SUBSET Fd]
        /\ lpc \in [Loops -> Cleans \cup {"idle", "adjust"}]
        /\ lfd \in [Loops -> Fd \cup {-1}]
    BY DEF Init
  <2>2. /\ stolen = FALSE /\ conn_full = FALSE /\ backlog = {} /\ apc = "poll"
        /\ connfd = -1 /\ reservfd = 0 /\ curr_conns = 0 /\ curr_index = 0
    BY DEF Init
  <2>3. stolen \in BOOLEAN /\ conn_full \in BOOLEAN
    BY <2>2
  <2>4. /\ backlog \subseteq Clients
        /\ apc \in Steps /\ connfd \in Fd \cup {-1} /\ reservfd \in Fd \cup {-1}
        /\ curr_conns \in Int /\ curr_index \in 0..setup.threads
    BY <1>2, <2>2, Consts DEF Steps
  <2> QED BY <1>1, <1>3, <2>1, <2>3, <2>4 DEF Typed
<1>5. \A f \in Fd : fdtab[f] \notin Clients /\ ~Accepting(f)
  BY <1>3, Consts DEF Init, Accepting
<1>6. InBounds
  BY <1>2, <1>3, Consts DEF Init, InBounds
<1>7. OneAtATime /\ NoAbort
  BY DEF Init, OneAtATime, NoAbort
<1>8. Holding
  BY <1>5 DEF Init, Holding, Cleans
<1>9. Cardinality({}) = 0
  BY FS_EmptySet
<1>10. ConnCount
  <2>1. {lf \in Loops \X Fd : lf[2] \in io_evs[lf[1]]} = {}
    BY DEF Init
  <2>2. Cleaning = {}
    BY DEF Init, Cleaning
  <2>3. curr_conns = 0
    BY DEF Init
  <2> QED BY <1>9, <2>1, <2>2, <2>3 DEF ConnCount
<1>11. Single
  BY <1>9, Consts DEF Init, Single, Cleans
<1>12. Roomy
  BY <1>3, <1>5, Consts DEF Init, Roomy
<1> QED
  BY <1>4, <1>6, <1>7, <1>8, <1>10, <1>11, <1>12 DEF Inv

(* A step that changes nothing keeps the invariant.                        *)
LEMMA StutterInv ==
    ASSUME Inv, UNCHANGED vars
    PROVE  Inv'
BY DEF Inv, vars, acceptVars, loopVars, Typed, InBounds, OneAtATime, Holding, ConnCount, Cleaning,
       Single, FreeFds, Roomy, NoAbort, Accepting

(* The inductive invariant holds in every reachable state: every action of *)
(* the accepter, of the loops and of the peers keeps it.                   *)
THEOREM ServerInvariant == Spec => []Inv
<1>1. Init => Inv
  BY InitInv
<1>2. Inv /\ [Next]_vars => Inv'
  <2> SUFFICES ASSUME Inv, [Next]_vars PROVE Inv'
    OBVIOUS
  <2>1. ASSUME NEW c \in Clients, Peer(c) PROVE Inv'
    BY <2>1, PeerStep
  <2>2. CASE accepter_cb
    BY <2>2, AccepterCb
  <2>3. CASE do_accept
    <3>1. ASSUME NEW c \in Clients, accept_ok(c) PROVE Inv'
      BY <3>1, AcceptOk
    <3>2. CASE accept_emfile
      BY <3>2, AcceptEmfile
    <3>3. CASE accept_eagain \/ accept_error
      BY <3>3, AcceptFails
    <3>4. CASE close_reserv
      BY <3>4, CloseReserv
    <3>5. CASE close_new \/ reject_conn
      BY <3>5, CloseAccepted
    <3>6. CASE open_reserv
      BY <3>6, OpenReserv
    <3>7. CASE admit_conn
      BY <3>7, AdmitConn
    <3>8. CASE dispatch_self \/ dispatch_thread
      BY <3>8, DispatchSelf, DispatchThread
    <3> QED BY <2>3, <3>1, <3>2, <3>3, <3>4, <3>5, <3>6, <3>7, <3>8 DEF do_accept
  <2>4. ASSUME NEW l \in Loops, Loop(l) PROVE Inv'
    BY <2>4, NewConn, HandleRead, CleanConn, Adjust DEF Loop
  <2>5. CASE UNCHANGED vars
    BY <2>5, StutterInv
  <2> QED BY <2>1, <2>2, <2>3, <2>4, <2>5 DEF Next
<1> QED
  BY <1>1, <1>2, PTL DEF Spec

(* One holder, counted as OwnedOnce counts.                                *)
LEMMA HeldByOne ==
    ASSUME Inv, ~stolen
    PROVE  OwnedOnce
<1> SUFFICES ASSUME NEW f \in Fd, fdtab[f] \in Clients
             PROVE  /\ Cardinality(Queued(f)) + Cardinality(Serving(f))
                        + (IF Accepting(f) THEN 1 ELSE 0) = 1
                    /\ \A l \in Serving(f) : conns[f] = l
  BY DEF OwnedOnce, Inv, Holding
<1>1. Holding
  BY DEF Inv
<1>2. \A l \in Serving(f) : conns[f] = l
  BY <1>1 DEF Holding, Serving
<1>3. \A l \in Loops : DOMAIN inbox[l] = 1..Len(inbox[l])
  BY DEF Inv, Typed
<1>4. Queued(f) = {m \in UNION {{l} \X (1..Len(inbox[l])) : l \in Loops} : inbox[m[1]][m[2]] = f}
  BY <1>3 DEF Queued
<1>5. \A m \in Queued(f) : \E l \in Loops : \E i \in 1..Len(inbox[l]) :
         m = <<l, i>> /\ inbox[l][i] = f
  BY <1>4
<1>6. Cardinality({}) = 0
  BY FS_EmptySet
<1>7. CASE Accepting(f)
  <2>1. Queued(f) = {}
    BY <1>1, <1>5, <1>7 DEF Holding
  <2>2. Serving(f) = {}
    BY <1>1, <1>7 DEF Holding, Serving
  <2> QED BY <1>2, <1>6, <1>7, <2>1, <2>2
<1>8. CASE ~Accepting(f) /\ \E l \in Loops : f \in epset[l]
  <2>1. PICK l \in Loops : f \in epset[l]
    BY <1>8
  <2>2. Queued(f) = {}
    BY <1>1, <1>5, <2>1 DEF Holding
  <2>3. Serving(f) = {l}
    BY <1>2, <2>1 DEF Serving
  <2>4. Cardinality(Serving(f)) = 1
    BY <2>3, FS_Singleton
  <2> QED BY <1>2, <1>6, <1>8, <2>2, <2>4
<1>9. CASE ~Accepting(f) /\ ~(\E l \in Loops : f \in epset[l])
  <2>1. PICK l \in Loops : \E i \in 1..Len(inbox[l]) : inbox[l][i] = f
    BY <1>1, <1>9 DEF Holding
  <2>2. PICK i \in 1..Len(inbox[l]) : inbox[l][i] = f
    BY <2>1
  <2>3. Serving(f) = {}
    BY <1>9 DEF Serving
  <2>4. \A k \in Loops : \A j \in 1..Len(inbox[k]) : inbox[k][j] = f => k = l /\ j = i
    <3>1. \A x, y \in Loops : \A u \in 1..Len(inbox[x]), v \in 1..Len(inbox[y]) :
            inbox[x][u] = inbox[y][v] => x = y /\ u = v
      BY <1>1 DEF Holding
    <3> QED BY <2>2, <3>1
  <2>5. <<l, i>> \in Queued(f)
    BY <1>4, <2>2
  <2>6. Queued(f) = {<<l, i>>}
    BY <1>5, <2>4, <2>5
  <2>7. Cardinality(Queued(f)) = 1
    BY <2>6, FS_Singleton
  <2> QED BY <1>2, <1>6, <1>9, <2>3, <2>7
<1> QED
  BY <1>7, <1>8, <1>9

(* An open connection is in exactly one pair of hands (do_accept's, one    *)
(* message's or one loop's, then the one its tcp_conn names), whatever     *)
(* numbers come back while other threads clean up, as long as              *)
(* close(_reservfd) has not closed one of them.                            *)
THEOREM EveryConnectionHasOneHolder == Spec => []OwnedOnce
<1>1. Inv => OwnedOnce
  BY HeldByOne DEF OwnedOnce
<1> QED
  BY <1>1, ServerInvariant, PTL

(* _curr_conns is the number of registered connections less those in       *)
(* clean_conn: inc_conn and dec_conn stay paired.                          *)
THEOREM CountIsRight == Spec => []ConnCount
<1>1. Inv => ConnCount
  BY DEF Inv
<1> QED
  BY <1>1, ServerInvariant, PTL

(* The table's slots bound what workers serve, the count what a single     *)
(* loop does.                                                              *)
LEMMA LimitKept ==
    ASSUME Inv
    PROVE  ConnLimit
<1> DEFINE served == UNION {epset[l] : l \in Loops}
<1>1. setup \in Setups /\ setup.threads \in Nat /\ MaxConns \in Nat
  BY Consts DEF Inv, Typed
<1>2. served \subseteq 0..MaxConns
  BY Consts DEF Inv, InBounds
<1>3. CASE setup.threads = 0
  <2>1. served = epset[MainLoop]
    BY <1>3, Consts DEF Inv, Single
  <2>2. Cardinality(epset[MainLoop]) <= MaxConns
    BY <1>1, <1>3, ServedFinite DEF Inv, Single
  <2> HIDE DEF served
  <2>3. Cardinality(served) <= MaxConns + 0
    BY <1>1, <2>1, <2>2
  <2> QED BY <1>3, <2>3 DEF ConnLimit, served
<1>4. CASE setup.threads > 0 /\ 0 \in served
  <2> HIDE DEF served
  <2>1. IsFiniteSet(0..MaxConns) /\ Cardinality(0..MaxConns) = MaxConns + 1
    BY <1>1, FS_Interval
  <2>2. Cardinality(served) <= MaxConns + 1
    BY <1>2, <2>1, FS_Subset
  <2> QED BY <1>4, <2>2 DEF ConnLimit, served
<1>5. CASE setup.threads > 0 /\ 0 \notin served
  <2> HIDE DEF served
  <2>1. IsFiniteSet(1..MaxConns) /\ Cardinality(1..MaxConns) = MaxConns
    BY <1>1, FS_Interval
  <2>2. served \subseteq 1..MaxConns
    BY <1>1, <1>2, <1>5
  <2>a. Cardinality(served) <= MaxConns
    BY <2>1, <2>2, FS_Subset
  <2>3. Cardinality(served) <= MaxConns + 0
    BY <1>1, <2>a
  <2> QED BY <1>5, <2>3 DEF ConnLimit, served
<1> QED
  BY <1>1, <1>3, <1>4, <1>5

(* No server serves more than maxConns connections, but for the one a      *)
(* server with workers may put on the number of its lost placeholder.      *)
THEOREM LimitIsKept == Spec => []ConnLimit
<1>1. Inv => ConnLimit
  BY LimitKept
<1> QED
  BY <1>1, ServerInvariant, PTL

(* assert(connfd < _conns_size) in do_accept never fails in a single-      *)
(* threaded server, and in one with workers only in the situations NoAbort *)
(* names.                                                                  *)
THEOREM AssertFailsOnlyBehind == Spec => []NoAbort
<1>1. Inv => NoAbort
  BY DEF Inv
<1> QED
  BY <1>1, ServerInvariant, PTL
=============================================================================
