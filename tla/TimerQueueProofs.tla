-------------------------- MODULE TimerQueueProofs --------------------------
(***************************************************************************)
(* Theorems about TimerQueue, for every value of its constants: the index  *)
(* of the heap is exact, the heap is ordered and the timerfd armed in time *)
(* within the limits that heap_del sets, and the queue implements          *)
(* TimerService.                                                           *)
(*                                                                         *)
(* The argument goes from the inside out.  Rounds, the model's loop, obeys *)
(* a rule for loop invariants, one lemma per loop body.  With it the two   *)
(* sifting loops keep the index and the timers, and restore the order; so  *)
(* heap_add, heap_del and heap_pop change the set of timers as they        *)
(* should; so do add_timer, del_timer and the two loops of get_timo; and   *)
(* so the invariant FullInv of the state is inductive.                     *)
(***************************************************************************)
EXTENDS TimerQueue, FiniteSetTheorems, WellFoundedInduction, TLAPS

-----------------------------------------------------------------------------
(* Loops.                                                                  *)

(* Induction, with the set of the numbers for which the claim holds.       *)
LEMMA AllNaturals ==
    ASSUME NEW I, I \subseteq Nat, 0 \in I, \A k \in I : k + 1 \in I
    PROVE  \A k \in Nat : k \in I
<1> DEFINE Bad == Nat \ I
<1>1. SUFFICES ASSUME Bad # {} PROVE FALSE
  OBVIOUS
<1>2. IsWellFoundedOn(OpToRel(<, Nat), Nat)
  BY NatLessThanWellFounded
<1>3. PICK n \in Bad : \A m \in Bad : ~(<<m, n>> \in OpToRel(<, Nat))
  <2>1. Bad \subseteq Nat
    OBVIOUS
  <2> HIDE DEF Bad
  <2> QED BY <1>1, <1>2, <2>1, WFMin
<1>4. n \in Nat /\ n # 0 /\ n - 1 \in Nat /\ n - 1 < n /\ (n - 1) + 1 = n
  OBVIOUS
<1>5. n - 1 \notin Bad
  <2>1. <<n - 1, n>> \in OpToRel(<, Nat)
    BY <1>4 DEF OpToRel
  <2> QED BY <1>3, <2>1
<1> QED
  BY <1>3, <1>4, <1>5

(* a tabulates the rounds of a loop with the step f from x, up to n.       *)
Tabulates(a, f, x, n) ==
    a[0] = x /\ \A k \in Nat : k < n => a[k + 1] = f[a[k]]

(* Two such tables agree.                                                  *)
LEMMA TablesMatch ==
    ASSUME NEW f, NEW x, NEW n \in Nat, NEW a, NEW b, NEW m \in Nat, m <= n,
           Tabulates(a, f, x, n), Tabulates(b, f, x, m)
    PROVE  \A k \in 0..m : a[k] = b[k]
<1> DEFINE I == {k \in Nat : k <= m => a[k] = b[k]}
<1>1. 0 \in I
  BY DEF Tabulates
<1>2. ASSUME NEW k \in I PROVE k + 1 \in I
  BY DEF Tabulates
<1>3. \A k \in Nat : k \in I
  <2> HIDE DEF I
  <2>1. I \subseteq Nat
    BY DEF I
  <2> QED BY <1>1, <1>2, <2>1, AllNaturals
<1> QED BY <1>3

(* a is the table of all rounds.                                           *)
IsTable(a, f, x) == a = [k \in Nat |-> IF k = 0 THEN x ELSE f[a[k - 1]]]

(* There is a table of every length, and so there is one of all rounds.    *)
LEMMA TableExists ==
    ASSUME NEW f, NEW x
    PROVE  \E a : IsTable(a, f, x)
<1> DEFINE I == {n \in Nat : \E a : Tabulates(a, f, x, n)}
<1>1. 0 \in I
  <2>1. Tabulates([k \in Nat |-> x], f, x, 0)
    BY DEF Tabulates
  <2> QED BY <2>1
<1>2. ASSUME NEW n \in I PROVE n + 1 \in I
  <2>1. PICK a : Tabulates(a, f, x, n)
    OBVIOUS
  <2> DEFINE b == [k \in Nat |-> IF k = n + 1 THEN f[a[n]] ELSE a[k]]
  <2>2. Tabulates(b, f, x, n + 1)
    <3>1. b[0] = x
      BY <2>1 DEF Tabulates
    <3>2. ASSUME NEW k \in Nat, k < n + 1 PROVE b[k + 1] = f[b[k]]
      <4>1. b[k] = a[k]
        BY <3>2
      <4>2. CASE k = n
        BY <4>1, <4>2
      <4>3. CASE k # n
        <5>1. k < n /\ b[k + 1] = a[k + 1]
          BY <3>2, <4>3
        <5> QED BY <2>1, <4>1, <5>1 DEF Tabulates
      <4> QED BY <4>2, <4>3
    <3> HIDE DEF b
    <3> QED BY <3>1, <3>2 DEF Tabulates
  <2> QED BY <2>2
<1>3. \A n \in Nat : n \in I
  <2> HIDE DEF I
  <2>1. I \subseteq Nat
    BY DEF I
  <2> QED BY <1>1, <1>2, <2>1, AllNaturals
<1> DEFINE T(n) == CHOOSE a : Tabulates(a, f, x, n)
           c == [k \in Nat |-> T(k)[k]]
<1>4. \A n \in Nat : Tabulates(T(n), f, x, n)
  BY <1>3
<1>5. c[0] = x
  BY <1>4 DEF Tabulates
<1>6. ASSUME NEW k \in Nat PROVE c[k + 1] = f[c[k]]
  <2>1. k + 1 \in Nat /\ k <= k + 1 /\ k < k + 1 /\ k \in 0..k
    OBVIOUS
  <2>2. Tabulates(T(k), f, x, k) /\ Tabulates(T(k + 1), f, x, k + 1)
    BY <1>4
  <2> HIDE DEF T
  <2>3. T(k + 1)[k] = T(k)[k]
    BY <2>1, <2>2, TablesMatch
  <2>4. T(k + 1)[k + 1] = f[T(k + 1)[k]]
    BY <2>1, <2>2 DEF Tabulates
  <2> QED BY <2>3, <2>4
<1>7. c = [k \in Nat |-> IF k = 0 THEN x ELSE f[c[k - 1]]]
  <2>1. ASSUME NEW k \in Nat PROVE c[k] = IF k = 0 THEN x ELSE f[c[k - 1]]
    <3>1. CASE k = 0
      BY <1>5, <3>1
    <3>2. CASE k # 0
      <4>1. k - 1 \in Nat /\ (k - 1) + 1 = k
        BY <3>2
      <4> HIDE DEF c
      <4> QED BY <1>6, <3>2, <4>1
    <3> QED BY <3>1, <3>2
  <2>2. c = [k \in Nat |-> c[k]]
    OBVIOUS
  <2> HIDE DEF c
  <2> QED BY <2>1, <2>2
<1> QED BY <1>7 DEF IsTable

(* What a step leads from round to round: J[k] is what is true after k     *)
(* rounds.                                                                 *)
LEMMA TableKeeps ==
    ASSUME NEW x, NEW J, x \in J[0], NEW a, a[0] = x,
           \A k \in Nat : a[k] \in J[k] => a[k + 1] \in J[k + 1]
    PROVE  \A k \in Nat : a[k] \in J[k]
<1> DEFINE I == {k \in Nat : a[k] \in J[k]}
<1>1. 0 \in I /\ I \subseteq Nat
  OBVIOUS
<1>2. ASSUME NEW k \in I PROVE k + 1 \in I
  OBVIOUS
<1>3. \A k \in Nat : k \in I
  <2> HIDE DEF I
  <2> QED BY <1>1, <1>2, AllNaturals
<1> QED BY <1>3

(* A loop whose step leads from J[k] to J[k + 1] has a table within J.     *)
LEMMA TableWithin ==
    ASSUME NEW f, NEW J, NEW x \in J[0],
           \A k \in Nat : \A s \in J[k] : f[s] \in J[k + 1]
    PROVE  \E a : IsTable(a, f, x) /\ \A k \in Nat : a[k] \in J[k]
<1>1. PICK a : IsTable(a, f, x)
  BY TableExists
<1>2. \A k \in Nat : a[k] = IF k = 0 THEN x ELSE f[a[k - 1]]
  BY <1>1 DEF IsTable
<1>3. \A k \in Nat : k + 1 \in Nat /\ k + 1 # 0 /\ (k + 1) - 1 = k
  OBVIOUS
<1>4. a[0] = x
  BY <1>2
<1>5. ASSUME NEW k \in Nat, a[k] \in J[k] PROVE a[k + 1] \in J[k + 1]
  BY <1>2, <1>3, <1>5
<1>6. \A k \in Nat : a[k] \in J[k]
  BY <1>4, <1>5, TableKeeps
<1> QED BY <1>1, <1>6

(* The rule for loops, one lemma per loop: when J[k] holds what is true    *)
(* after k rounds of SiftUp, n rounds end in J[n].                         *)
LEMMA SiftUpRounds ==
    ASSUME NEW S, NEW J, \A k \in Nat : J[k] \subseteq S, NEW x \in J[0], NEW n \in Nat,
           \A k \in Nat : \A s \in J[k] : SiftUp(s) \in J[k + 1]
    PROVE  Rounds(SiftUp, x, n) \in J[n]
<1> DEFINE f == [s \in S |-> SiftUp(s)]
           R(a) == a = [k \in Nat |-> IF k = 0 THEN x ELSE Once(SiftUp, a[k - 1])]
           b == CHOOSE a : R(a)
<1>1. Rounds(SiftUp, x, n) = b[n]
  BY DEF Rounds
<1>2. \A e : Once(SiftUp, e) = SiftUp(e)
  <2> TAKE e
  <2>1. {SiftUp(z) : z \in {e}} = {SiftUp(e)}
    OBVIOUS
  <2> QED BY <2>1 DEF Once
<1>3. \A k \in Nat : \A s \in J[k] : f[s] = SiftUp(s) /\ f[s] \in J[k + 1]
  OBVIOUS
<1>4. PICK a : IsTable(a, f, x) /\ \A k \in Nat : a[k] \in J[k]
  <2> HIDE DEF f
  <2> QED BY <1>3, TableWithin
<1> HIDE DEF f
<1>5. R(a)
  <2>1. \A k \in Nat : k # 0 => k - 1 \in Nat
    OBVIOUS
  <2>2. \A k \in Nat : k # 0 => f[a[k - 1]] = Once(SiftUp, a[k - 1])
    BY <1>2, <1>3, <1>4, <2>1
  <2>3. [k \in Nat |-> IF k = 0 THEN x ELSE f[a[k - 1]]]
          = [k \in Nat |-> IF k = 0 THEN x ELSE Once(SiftUp, a[k - 1])]
    BY <2>2
  <2> QED BY <1>4, <2>3, Zenon DEF IsTable
<1>6. R(b)
  <2> HIDE DEF R
  <2> QED BY <1>5
<1> HIDE DEF b
<1>7. \A k \in Nat : b[k] = IF k = 0 THEN x ELSE SiftUp(b[k - 1])
  BY <1>2, <1>6
<1>8. \A k \in Nat : k + 1 \in Nat /\ k + 1 # 0 /\ (k + 1) - 1 = k
  OBVIOUS
<1>9. b[0] = x
  BY <1>7
<1>10. ASSUME NEW k \in Nat, b[k] \in J[k] PROVE b[k + 1] \in J[k + 1]
  <2>1. b[k + 1] = SiftUp(b[k])
    BY <1>7, <1>8, Zenon
  <2> QED BY <1>10, <2>1
<1>11. \A k \in Nat : b[k] \in J[k]
  BY <1>9, <1>10, TableKeeps
<1> QED BY <1>1, <1>11

(* The same rule for SiftDown.                                            *)
LEMMA SiftDownRounds ==
    ASSUME NEW S, NEW J, \A k \in Nat : J[k] \subseteq S, NEW x \in J[0], NEW n \in Nat,
           \A k \in Nat : \A s \in J[k] : SiftDown(s) \in J[k + 1]
    PROVE  Rounds(SiftDown, x, n) \in J[n]
<1> DEFINE f == [s \in S |-> SiftDown(s)]
           R(a) == a = [k \in Nat |-> IF k = 0 THEN x ELSE Once(SiftDown, a[k - 1])]
           b == CHOOSE a : R(a)
<1>1. Rounds(SiftDown, x, n) = b[n]
  BY DEF Rounds
<1>2. \A e : Once(SiftDown, e) = SiftDown(e)
  <2> TAKE e
  <2>1. {SiftDown(z) : z \in {e}} = {SiftDown(e)}
    OBVIOUS
  <2> QED BY <2>1 DEF Once
<1>3. \A k \in Nat : \A s \in J[k] : f[s] = SiftDown(s) /\ f[s] \in J[k + 1]
  OBVIOUS
<1>4. PICK a : IsTable(a, f, x) /\ \A k \in Nat : a[k] \in J[k]
  <2> HIDE DEF f
  <2> QED BY <1>3, TableWithin
<1> HIDE DEF f
<1>5. R(a)
  <2>1. \A k \in Nat : k # 0 => k - 1 \in Nat
    OBVIOUS
  <2>2. \A k \in Nat : k # 0 => f[a[k - 1]] = Once(SiftDown, a[k - 1])
    BY <1>2, <1>3, <1>4, <2>1
  <2>3. [k \in Nat |-> IF k = 0 THEN x ELSE f[a[k - 1]]]
          = [k \in Nat |-> IF k = 0 THEN x ELSE Once(SiftDown, a[k - 1])]
    BY <2>2
  <2> QED BY <1>4, <2>3, Zenon DEF IsTable
<1>6. R(b)
  <2> HIDE DEF R
  <2> QED BY <1>5
<1> HIDE DEF b
<1>7. \A k \in Nat : b[k] = IF k = 0 THEN x ELSE SiftDown(b[k - 1])
  BY <1>2, <1>6
<1>8. \A k \in Nat : k + 1 \in Nat /\ k + 1 # 0 /\ (k + 1) - 1 = k
  OBVIOUS
<1>9. b[0] = x
  BY <1>7
<1>10. ASSUME NEW k \in Nat, b[k] \in J[k] PROVE b[k + 1] \in J[k + 1]
  <2>1. b[k + 1] = SiftDown(b[k])
    BY <1>7, <1>8, Zenon
  <2> QED BY <1>10, <2>1
<1>11. \A k \in Nat : b[k] \in J[k]
  BY <1>9, <1>10, TableKeeps
<1> QED BY <1>1, <1>11

(* The same rule for TakeTop.                                             *)
LEMMA TakeTopRounds ==
    ASSUME NEW S, NEW J, \A k \in Nat : J[k] \subseteq S, NEW x \in J[0], NEW n \in Nat,
           \A k \in Nat : \A s \in J[k] : TakeTop(s) \in J[k + 1]
    PROVE  Rounds(TakeTop, x, n) \in J[n]
<1> DEFINE f == [s \in S |-> TakeTop(s)]
           R(a) == a = [k \in Nat |-> IF k = 0 THEN x ELSE Once(TakeTop, a[k - 1])]
           b == CHOOSE a : R(a)
<1>1. Rounds(TakeTop, x, n) = b[n]
  BY DEF Rounds
<1>2. \A e : Once(TakeTop, e) = TakeTop(e)
  <2> TAKE e
  <2>1. {TakeTop(z) : z \in {e}} = {TakeTop(e)}
    OBVIOUS
  <2> QED BY <2>1 DEF Once
<1>3. \A k \in Nat : \A s \in J[k] : f[s] = TakeTop(s) /\ f[s] \in J[k + 1]
  OBVIOUS
<1>4. PICK a : IsTable(a, f, x) /\ \A k \in Nat : a[k] \in J[k]
  <2> HIDE DEF f
  <2> QED BY <1>3, TableWithin
<1> HIDE DEF f
<1>5. R(a)
  <2>1. \A k \in Nat : k # 0 => k - 1 \in Nat
    OBVIOUS
  <2>2. \A k \in Nat : k # 0 => f[a[k - 1]] = Once(TakeTop, a[k - 1])
    BY <1>2, <1>3, <1>4, <2>1
  <2>3. [k \in Nat |-> IF k = 0 THEN x ELSE f[a[k - 1]]]
          = [k \in Nat |-> IF k = 0 THEN x ELSE Once(TakeTop, a[k - 1])]
    BY <2>2
  <2> QED BY <1>4, <2>3, Zenon DEF IsTable
<1>6. R(b)
  <2> HIDE DEF R
  <2> QED BY <1>5
<1> HIDE DEF b
<1>7. \A k \in Nat : b[k] = IF k = 0 THEN x ELSE TakeTop(b[k - 1])
  BY <1>2, <1>6
<1>8. \A k \in Nat : k + 1 \in Nat /\ k + 1 # 0 /\ (k + 1) - 1 = k
  OBVIOUS
<1>9. b[0] = x
  BY <1>7
<1>10. ASSUME NEW k \in Nat, b[k] \in J[k] PROVE b[k + 1] \in J[k + 1]
  <2>1. b[k + 1] = TakeTop(b[k])
    BY <1>7, <1>8, Zenon
  <2> QED BY <1>10, <2>1
<1>11. \A k \in Nat : b[k] \in J[k]
  BY <1>9, <1>10, TableKeeps
<1> QED BY <1>1, <1>11

(* The same rule for ReaddNext.                                           *)
LEMMA ReaddNextRounds ==
    ASSUME NEW S, NEW J, \A k \in Nat : J[k] \subseteq S, NEW x \in J[0], NEW n \in Nat,
           \A k \in Nat : \A s \in J[k] : ReaddNext(s) \in J[k + 1]
    PROVE  Rounds(ReaddNext, x, n) \in J[n]
<1> DEFINE f == [s \in S |-> ReaddNext(s)]
           R(a) == a = [k \in Nat |-> IF k = 0 THEN x ELSE Once(ReaddNext, a[k - 1])]
           b == CHOOSE a : R(a)
<1>1. Rounds(ReaddNext, x, n) = b[n]
  BY DEF Rounds
<1>2. \A e : Once(ReaddNext, e) = ReaddNext(e)
  <2> TAKE e
  <2>1. {ReaddNext(z) : z \in {e}} = {ReaddNext(e)}
    OBVIOUS
  <2> QED BY <2>1 DEF Once
<1>3. \A k \in Nat : \A s \in J[k] : f[s] = ReaddNext(s) /\ f[s] \in J[k + 1]
  OBVIOUS
<1>4. PICK a : IsTable(a, f, x) /\ \A k \in Nat : a[k] \in J[k]
  <2> HIDE DEF f
  <2> QED BY <1>3, TableWithin
<1> HIDE DEF f
<1>5. R(a)
  <2>1. \A k \in Nat : k # 0 => k - 1 \in Nat
    OBVIOUS
  <2>2. \A k \in Nat : k # 0 => f[a[k - 1]] = Once(ReaddNext, a[k - 1])
    BY <1>2, <1>3, <1>4, <2>1
  <2>3. [k \in Nat |-> IF k = 0 THEN x ELSE f[a[k - 1]]]
          = [k \in Nat |-> IF k = 0 THEN x ELSE Once(ReaddNext, a[k - 1])]
    BY <2>2
  <2> QED BY <1>4, <2>3, Zenon DEF IsTable
<1>6. R(b)
  <2> HIDE DEF R
  <2> QED BY <1>5
<1> HIDE DEF b
<1>7. \A k \in Nat : b[k] = IF k = 0 THEN x ELSE ReaddNext(b[k - 1])
  BY <1>2, <1>6
<1>8. \A k \in Nat : k + 1 \in Nat /\ k + 1 # 0 /\ (k + 1) - 1 = k
  OBVIOUS
<1>9. b[0] = x
  BY <1>7
<1>10. ASSUME NEW k \in Nat, b[k] \in J[k] PROVE b[k + 1] \in J[k + 1]
  <2>1. b[k + 1] = ReaddNext(b[k])
    BY <1>7, <1>8, Zenon
  <2> QED BY <1>10, <2>1
<1>11. \A k \in Nat : b[k] \in J[k]
  BY <1>9, <1>10, TableKeeps
<1> QED BY <1>1, <1>11

-----------------------------------------------------------------------------
(* Heaps.                                                                  *)

Timers == [id : Nat, ts : Nat, interval : Nat, h : Nat]
Elems(lst) == {lst[i] : i \in 1..Len(lst)}
Ids(lst) == {t.id : t \in Elems(lst)}
Heaps == [lst : Seq(Timers), pos : UNION {[D -> Nat] : D \in SUBSET Nat}]

(* The index is exact: the positions of PositionMap, for any heap.         *)
Indexed(hp) ==
    /\ hp \in Heaps
    /\ DOMAIN hp.pos = Ids(hp.lst)
    /\ \A i \in 1..Len(hp.lst) : hp.pos[hp.lst[i].id] = i - 1

(* An exact index leaves no room for two timers with one identifier.       *)
LEMMA IndexedIds ==
    ASSUME NEW hp, Indexed(hp)
    PROVE  \A i, j \in 1..Len(hp.lst) : hp.lst[i].id = hp.lst[j].id => i = j
<1>1. hp.lst \in Seq(Timers) /\ Len(hp.lst) \in Nat
  BY DEF Indexed, Heaps
<1> TAKE i, j \in 1..Len(hp.lst)
<1>2. hp.pos[hp.lst[i].id] = i - 1 /\ hp.pos[hp.lst[j].id] = j - 1
  BY DEF Indexed
<1> QED BY <1>1, <1>2

(* What an exactly indexed heap consists of.                               *)
LEMMA IndexedType ==
    ASSUME NEW hp, Indexed(hp)
    PROVE  /\ hp = [lst |-> hp.lst, pos |-> hp.pos]
           /\ hp.lst \in Seq(Timers) /\ Len(hp.lst) \in Nat /\ count(hp) = Len(hp.lst)
           /\ \A i \in 1..Len(hp.lst) : hp.lst[i] \in Timers
           /\ \A i \in 1..Len(hp.lst) : hp.lst[i].id \in Nat
           /\ hp.pos \in [Ids(hp.lst) -> Nat]
           /\ Ids(hp.lst) \subseteq Nat
<1>1. hp \in Heaps
  BY DEF Indexed
<1>2. /\ hp = [lst |-> hp.lst, pos |-> hp.pos]
      /\ hp.lst \in Seq(Timers) /\ Len(hp.lst) \in Nat /\ count(hp) = Len(hp.lst)
      /\ \A i \in 1..Len(hp.lst) : hp.lst[i] \in Timers
  BY <1>1 DEF Heaps, count
<1>3. \A i \in 1..Len(hp.lst) : hp.lst[i].id \in Nat
  BY <1>2 DEF Timers
<1>4. PICK D \in SUBSET Nat : hp.pos \in [D -> Nat]
  BY <1>1 DEF Heaps
<1>5. D = Ids(hp.lst)
  BY <1>4 DEF Indexed
<1> QED BY <1>2, <1>3, <1>4, <1>5

(* How to show that a heap is exactly indexed.                             *)
LEMMA IndexedIntro ==
    ASSUME NEW lst \in Seq(Timers), NEW pos, pos \in [Ids(lst) -> Nat],
           \A i \in 1..Len(lst) : pos[lst[i].id] = i - 1
    PROVE  Indexed([lst |-> lst, pos |-> pos])
<1>1. Ids(lst) \in SUBSET Nat
  <2>1. \A t \in Elems(lst) : t \in Timers
    BY DEF Elems
  <2> QED BY <2>1 DEF Ids, Timers
<1>2. pos \in UNION {[D -> Nat] : D \in SUBSET Nat}
  BY <1>1
<1>3. DOMAIN pos = Ids(lst)
  OBVIOUS
<1> QED BY <1>2, <1>3 DEF Indexed, Heaps

(* Swap keeps the index exact and the timers in the heap.                  *)
LEMMA SwapKeeps ==
    ASSUME NEW hp, Indexed(hp), NEW p \in 0..(count(hp) - 1), NEW q \in 0..(count(hp) - 1),
           p # q
    PROVE  /\ Indexed(Swap(hp, p, q))
           /\ count(Swap(hp, p, q)) = count(hp)
           /\ Elems(Swap(hp, p, q).lst) = Elems(hp.lst)
           /\ \A i \in 0..(count(hp) - 1) :
                 ts(Swap(hp, p, q), i) = IF i = p THEN ts(hp, q)
                                         ELSE IF i = q THEN ts(hp, p) ELSE ts(hp, i)
<1> DEFINE n == Len(hp.lst)
           lst == [hp.lst EXCEPT ![p + 1] = hp.lst[q + 1], ![q + 1] = hp.lst[p + 1]]
           pos == [hp.pos EXCEPT ![hp.lst[p + 1].id] = q, ![hp.lst[q + 1].id] = p]
<1>1. /\ hp.lst \in Seq(Timers) /\ n \in Nat /\ count(hp) = n
      /\ hp.pos \in [Ids(hp.lst) -> Nat]
      /\ \A i \in 1..n : hp.lst[i] \in Timers
  BY IndexedType
<1>2. p \in Nat /\ q \in Nat /\ p + 1 \in 1..n /\ q + 1 \in 1..n /\ p + 1 # q + 1
  BY <1>1
<1>3. /\ lst \in Seq(Timers) /\ Len(lst) = n
      /\ \A i \in 1..n : lst[i] = IF i = p + 1 THEN hp.lst[q + 1]
                                  ELSE IF i = q + 1 THEN hp.lst[p + 1] ELSE hp.lst[i]
  BY <1>1, <1>2
<1> HIDE DEF lst, n
<1>4. Elems(lst) = Elems(hp.lst)
  <2>1. ASSUME NEW t \in Elems(lst) PROVE t \in Elems(hp.lst)
    BY <1>2, <1>3 DEF Elems, n
  <2>2. ASSUME NEW t \in Elems(hp.lst) PROVE t \in Elems(lst)
    <3>1. PICK i \in 1..n : t = hp.lst[i]
      BY DEF Elems, n
    <3>2. \E j \in 1..n : t = lst[j]
      BY <1>2, <1>3, <3>1
    <3> QED BY <1>3, <3>2 DEF Elems
  <2> QED BY <2>1, <2>2
<1>5. Ids(lst) = Ids(hp.lst)
  BY <1>4 DEF Ids
<1>6. pos \in [Ids(lst) -> Nat]
  BY <1>1, <1>2, <1>5
<1>7. ASSUME NEW i \in 1..n PROVE pos[lst[i].id] = i - 1
  <2>1. \A j \in 1..n : /\ hp.lst[j].id \in Ids(hp.lst)
                        /\ hp.pos[hp.lst[j].id] = j - 1
    BY DEF Indexed, Ids, Elems, n
  <2>2. \A j, k \in 1..n : hp.lst[j].id = hp.lst[k].id => j = k
    BY IndexedIds DEF n
  <2> DEFINE dp == hp.lst[p + 1].id
             dq == hp.lst[q + 1].id
  <2>6. dp \in Ids(hp.lst) /\ dq \in Ids(hp.lst) /\ dp # dq
    BY <1>2, <2>1, <2>2
  <2>7. \A d \in Ids(hp.lst) : pos[d] = IF d = dq THEN p ELSE IF d = dp THEN q ELSE hp.pos[d]
    <3> HIDE DEF dp, dq
    <3>1. pos = [hp.pos EXCEPT ![dp] = q, ![dq] = p]
      BY DEF dp, dq
    <3> QED BY <1>1, <2>6, <3>1
  <2>8. p = (p + 1) - 1 /\ q = (q + 1) - 1
    BY <1>2
  <2> HIDE DEF pos
  <2>3. CASE i = p + 1
    <3>1. lst[i].id = dq
      BY <1>3, <2>3
    <3> QED BY <2>3, <2>6, <2>7, <2>8, <3>1, Zenon
  <2>4. CASE i = q + 1
    <3>1. lst[i].id = dp
      BY <1>2, <1>3, <2>4
    <3> QED BY <2>4, <2>6, <2>7, <2>8, <3>1, Zenon
  <2>5. CASE i # p + 1 /\ i # q + 1
    <3>1. lst[i].id = hp.lst[i].id /\ hp.lst[i].id # dp /\ hp.lst[i].id # dq
      BY <1>2, <1>3, <2>2, <2>5
    <3> QED BY <2>1, <2>7, <3>1
  <2> QED BY <2>3, <2>4, <2>5
<1>8. Swap(hp, p, q) = [lst |-> lst, pos |-> pos]
  BY DEF Swap, lst
<1> HIDE DEF pos
<1>9. Indexed([lst |-> lst, pos |-> pos])
  BY <1>3, <1>6, <1>7, IndexedIntro
<1>10. ASSUME NEW i \in 0..(n - 1)
       PROVE  ts([lst |-> lst, pos |-> pos], i)
                = IF i = p THEN ts(hp, q) ELSE IF i = q THEN ts(hp, p) ELSE ts(hp, i)
  <2>1. i + 1 \in 1..n /\ (i + 1 = p + 1 <=> i = p) /\ (i + 1 = q + 1 <=> i = q)
    BY <1>1, <1>2 DEF n
  <2> QED BY <1>3, <2>1 DEF ts
<1> QED BY <1>1, <1>3, <1>4, <1>8, <1>9, <1>10 DEF count

(* The tree of positions.                                                  *)
LEMMA Parents ==
    ASSUME NEW p \in Nat
    PROVE  /\ Parent(p) \in Nat
           /\ p # 0 => Parent(p) < p /\ p \in {2 * Parent(p) + 1, 2 * Parent(p) + 2}
           /\ p = 0 => Parent(p) = 0
           /\ Parent(2 * p + 1) = p /\ Parent(2 * p + 2) = p
  BY DEF Parent

(* Times are numbers.                                                      *)
LEMMA TimesType ==
    ASSUME NEW hp, Indexed(hp)
    PROVE  /\ count(hp) \in Nat
           /\ \A i \in 0..(count(hp) - 1) : ts(hp, i) \in Nat
<1>1. hp.lst \in Seq(Timers) /\ count(hp) = Len(hp.lst) /\ count(hp) \in Nat
  BY IndexedType
<1>2. ASSUME NEW i \in 0..(count(hp) - 1) PROVE ts(hp, i) \in Nat
  <2>1. i + 1 \in 1..Len(hp.lst)
    BY <1>1
  <2>2. hp.lst[i + 1] \in Timers
    BY <1>1, <2>1
  <2> QED BY <2>2 DEF ts, Timers
<1> QED BY <1>1, <1>2

(* MinPos finds the earliest of a timer and its children.                  *)
LEMMA MinPosRight ==
    ASSUME NEW hp, Indexed(hp), NEW p \in Nat
    PROVE  /\ MinPos(hp, p) = p =>
                 \A c \in 1..(count(hp) - 1) : Parent(c) = p => ts(hp, p) <= ts(hp, c)
           /\ MinPos(hp, p) # p =>
                 /\ MinPos(hp, p) \in 1..(count(hp) - 1)
                 /\ Parent(MinPos(hp, p)) = p /\ p < MinPos(hp, p)
                 /\ ts(hp, MinPos(hp, p)) < ts(hp, p)
                 /\ \A c \in 1..(count(hp) - 1) :
                       Parent(c) = p => ts(hp, MinPos(hp, p)) <= ts(hp, c)
<1> DEFINE n == count(hp)
           l == 2 * p + 1
           r == 2 * p + 2
           m == IF l < n /\ ts(hp, p) > ts(hp, l) THEN l ELSE p
<1>1. n \in Nat /\ \A i \in 0..(n - 1) : ts(hp, i) \in Nat
  BY TimesType
<1>2. MinPos(hp, p) = IF r < n /\ ts(hp, m) > ts(hp, r) THEN r ELSE m
  BY DEF MinPos
<1>3. Parent(l) = p /\ Parent(r) = p /\ p < l /\ p < r
  BY Parents
<1>4. l \in Nat /\ r \in Nat /\ l = r - 1 /\ l # p /\ r # p
  OBVIOUS
<1>5. \A c \in 1..(n - 1) : Parent(c) = p => c = l \/ c = r
  <2> TAKE c \in 1..(n - 1)
  <2>1. c \in Nat /\ c # 0
    BY <1>1
  <2>2. c = 2 * Parent(c) + 1 \/ c = 2 * Parent(c) + 2
    BY <2>1, Parents
  <2> QED BY <2>2
<1>6. /\ l < n => l \in 1..(n - 1) /\ p \in 0..(n - 1) /\ ts(hp, l) \in Nat /\ ts(hp, p) \in Nat
      /\ r < n => r \in 1..(n - 1) /\ l < n /\ ts(hp, r) \in Nat
  BY <1>1
<1> HIDE DEF n, l, r
<1>7. CASE ~(l < n)
  <2>1. ~(r < n)
    BY <1>6, <1>7
  <2>2. MinPos(hp, p) = p
    BY <1>2, <1>7, <2>1
  <2>3. \A c \in 1..(n - 1) : Parent(c) # p
    BY <1>1, <1>4, <1>5, <1>7, <2>1
  <2> QED BY <2>2, <2>3 DEF n
<1>8. CASE l < n
  <2>1. CASE ~(r < n)
    <3>1. MinPos(hp, p) = m
      BY <1>2, <2>1
    <3>2. \A c \in 1..(n - 1) : Parent(c) = p => c = l
      BY <1>1, <1>4, <1>5, <2>1
    <3>3. CASE ts(hp, p) > ts(hp, l)
      <4>1. MinPos(hp, p) = l
        BY <1>8, <3>1, <3>3
      <4> QED BY <1>3, <1>4, <1>6, <1>8, <3>2, <3>3, <4>1 DEF n
    <3>4. CASE ~(ts(hp, p) > ts(hp, l))
      <4>1. MinPos(hp, p) = p
        BY <3>1, <3>4
      <4> QED BY <1>6, <1>8, <3>2, <3>4, <4>1 DEF n
    <3> QED BY <3>3, <3>4
  <2>2. CASE r < n
    <3>1. CASE ts(hp, p) > ts(hp, l)
      <4>1. MinPos(hp, p) = IF ts(hp, l) > ts(hp, r) THEN r ELSE l
        BY <1>2, <1>8, <2>2, <3>1
      <4>2. CASE ts(hp, l) > ts(hp, r)
        <5>1. MinPos(hp, p) = r
          BY <4>1, <4>2
        <5>2. ts(hp, r) < ts(hp, p) /\ ts(hp, r) <= ts(hp, l) /\ ts(hp, r) <= ts(hp, r)
          BY <1>6, <1>8, <2>2, <3>1, <4>2
        <5> QED BY <1>3, <1>4, <1>5, <1>6, <2>2, <5>1, <5>2, Zenon DEF n
      <4>3. CASE ~(ts(hp, l) > ts(hp, r))
        <5>1. MinPos(hp, p) = l
          BY <4>1, <4>3
        <5>2. ts(hp, l) < ts(hp, p) /\ ts(hp, l) <= ts(hp, l) /\ ts(hp, l) <= ts(hp, r)
          BY <1>6, <1>8, <2>2, <3>1, <4>3
        <5> QED BY <1>3, <1>4, <1>5, <1>6, <1>8, <5>1, <5>2, Zenon DEF n
      <4> QED BY <4>2, <4>3
    <3>2. CASE ~(ts(hp, p) > ts(hp, l))
      <4>1. MinPos(hp, p) = IF ts(hp, p) > ts(hp, r) THEN r ELSE p
        BY <1>2, <2>2, <3>2
      <4>2. CASE ts(hp, p) > ts(hp, r)
        <5>1. MinPos(hp, p) = r
          BY <4>1, <4>2
        <5>2. ts(hp, r) < ts(hp, p) /\ ts(hp, r) <= ts(hp, l) /\ ts(hp, r) <= ts(hp, r)
          BY <1>6, <1>8, <2>2, <3>2, <4>2
        <5> QED BY <1>3, <1>4, <1>5, <1>6, <2>2, <5>1, <5>2, Zenon DEF n
      <4>3. CASE ~(ts(hp, p) > ts(hp, r))
        <5>1. MinPos(hp, p) = p
          BY <4>1, <4>3
        <5>2. ts(hp, p) <= ts(hp, l) /\ ts(hp, p) <= ts(hp, r)
          BY <1>6, <1>8, <2>2, <3>2, <4>3
        <5> QED BY <1>5, <5>1, <5>2, Zenon DEF n
      <4> QED BY <4>2, <4>3
    <3> QED BY <3>1, <3>2
  <2> QED BY <2>1, <2>2
<1> QED BY <1>7, <1>8

(* A loop on a heap with the timers E in n places, and its position at.    *)
Sifting(E, n) ==
    {s \in [hp : Heaps, at : Nat] :
        Indexed(s.hp) /\ count(s.hp) = n /\ Elems(s.hp.lst) = E}

(* A round of SiftUp keeps the index exact and the timers in the heap.     *)
LEMMA SiftUpKeeps ==
    ASSUME NEW E, NEW n \in Nat, NEW s \in Sifting(E, n), s.at < n
    PROVE  SiftUp(s) \in Sifting(E, n) /\ SiftUp(s).at <= s.at
<1> DEFINE up == Parent(s.at)
<1>1. s.at \in Nat /\ Indexed(s.hp) /\ count(s.hp) = n /\ Elems(s.hp.lst) = E
  BY DEF Sifting
<1>2. up \in Nat /\ up <= s.at
  <2>1. up \in Nat /\ (s.at # 0 => up < s.at) /\ (s.at = 0 => up = 0)
    BY <1>1, Parents
  <2> QED BY <1>1, <2>1
<1>3. ts(s.hp, s.at) \in Nat
  BY <1>1, TimesType
<1>4. CASE ts(s.hp, s.at) < ts(s.hp, up)
  <2>1. up # s.at
    BY <1>3, <1>4
  <2>2. SiftUp(s) = [hp |-> Swap(s.hp, s.at, up), at |-> up]
    BY <1>4 DEF SiftUp
  <2> HIDE DEF up
  <2>3. s.at \in 0..(n - 1) /\ up \in 0..(n - 1)
    BY <1>1, <1>2
  <2>4. /\ Indexed(Swap(s.hp, s.at, up))
        /\ count(Swap(s.hp, s.at, up)) = n
        /\ Elems(Swap(s.hp, s.at, up).lst) = E
    BY <1>1, <2>1, <2>3, SwapKeeps
  <2>5. Swap(s.hp, s.at, up) \in Heaps
    BY <2>4 DEF Indexed
  <2> QED BY <1>2, <2>2, <2>4, <2>5 DEF Sifting
<1>5. CASE ~(ts(s.hp, s.at) < ts(s.hp, up))
  BY <1>1, <1>5 DEF SiftUp
<1> QED BY <1>4, <1>5

(* So does a round of SiftDown.                                            *)
LEMMA SiftDownKeeps ==
    ASSUME NEW E, NEW n \in Nat, NEW s \in Sifting(E, n)
    PROVE  SiftDown(s) \in Sifting(E, n)
<1> DEFINE m == MinPos(s.hp, s.at)
<1>1. s.at \in Nat /\ Indexed(s.hp) /\ count(s.hp) = n /\ Elems(s.hp.lst) = E
  BY DEF Sifting
<1>2. CASE m # s.at
  <2>1. m \in 1..(n - 1) /\ s.at < m
    BY <1>1, <1>2, MinPosRight
  <2>2. SiftDown(s) = [hp |-> Swap(s.hp, m, s.at), at |-> m]
    BY <1>2 DEF SiftDown
  <2> HIDE DEF m
  <2>3. m \in 0..(n - 1) /\ s.at \in 0..(n - 1) /\ m \in Nat
    BY <1>1, <2>1
  <2>4. /\ Indexed(Swap(s.hp, m, s.at))
        /\ count(Swap(s.hp, m, s.at)) = n
        /\ Elems(Swap(s.hp, m, s.at).lst) = E
    BY <1>1, <1>2, <2>3, SwapKeeps
  <2>5. Swap(s.hp, m, s.at) \in Heaps
    BY <2>4 DEF Indexed
  <2> QED BY <2>2, <2>3, <2>4, <2>5 DEF Sifting
<1>3. CASE m = s.at
  BY <1>3 DEF SiftDown
<1> QED BY <1>2, <1>3

(* heap_hold keeps the index exact and the timers in the heap.             *)
LEMMA HoldKeeps ==
    ASSUME NEW hp, Indexed(hp), NEW p \in Nat
    PROVE  /\ Indexed(heap_hold(hp, p))
           /\ count(heap_hold(hp, p)) = count(hp)
           /\ Elems(heap_hold(hp, p).lst) = Elems(hp.lst)
<1> DEFINE n == count(hp)
           E == Elems(hp.lst)
           J == [k \in Nat |-> Sifting(E, n)]
           x == [hp |-> hp, at |-> p]
<1>1. n \in Nat
  BY TimesType
<1>2. x \in Sifting(E, n)
  BY DEF Sifting, Indexed
<1>3. \A s \in Sifting(E, n) : SiftDown(s) \in Sifting(E, n)
  BY <1>1, SiftDownKeeps
<1>4. Rounds(SiftDown, x, n) \in Sifting(E, n)
  <2>1. \A k \in Nat : J[k] = Sifting(E, n) /\ k + 1 \in Nat
    OBVIOUS
  <2>2. \A k \in Nat : J[k] \subseteq Sifting(E, n)
    BY <2>1
  <2>3. \A k \in Nat : \A s \in J[k] : SiftDown(s) \in J[k + 1]
    BY <1>3, <2>1
  <2>4. x \in J[0]
    BY <1>2, <2>1
  <2> HIDE DEF J, x, n, E
  <2>5. Rounds(SiftDown, x, n) \in J[n]
    BY <1>1, <2>2, <2>3, <2>4, SiftDownRounds
  <2> QED BY <1>1, <2>1, <2>5
<1> QED BY <1>4 DEF heap_hold, Sifting

(* heap_add's push_back, with the new index entry.                          *)
LEMMA AppendIndexed ==
    ASSUME NEW hp, Indexed(hp), NEW te \in Timers, te.id \notin Ids(hp.lst),
           NEW added,
           added = [lst |-> Append(hp.lst, te), pos |-> Put(hp.pos, te.id, count(hp))]
    PROVE  /\ Indexed(added) /\ count(added) = count(hp) + 1
           /\ Elems(added.lst) = Elems(hp.lst) \cup {te}
           /\ \A i \in 0..(count(hp) - 1) : ts(added, i) = ts(hp, i)
<1> DEFINE n == Len(hp.lst)
           lst == Append(hp.lst, te)
           pos == Put(hp.pos, te.id, n)
<1>1. /\ hp.lst \in Seq(Timers) /\ n \in Nat /\ count(hp) = n
      /\ hp.pos \in [Ids(hp.lst) -> Nat]
  BY IndexedType
<1>2. /\ lst \in Seq(Timers) /\ Len(lst) = n + 1
      /\ \A i \in 1..(n + 1) : lst[i] = IF i = n + 1 THEN te ELSE hp.lst[i]
  BY <1>1
<1> HIDE DEF lst
<1>3. Elems(lst) = Elems(hp.lst) \cup {te}
  <2>1. \A i \in 1..(n + 1) : i = n + 1 \/ i \in 1..n
    BY <1>1
  <2>2. \A i \in 1..n : i \in 1..(n + 1) /\ i # n + 1
    BY <1>1
  <2>3. n + 1 \in 1..(n + 1)
    BY <1>1
  <2> QED BY <1>2, <2>1, <2>2, <2>3 DEF Elems
<1>4. Ids(lst) = Ids(hp.lst) \cup {te.id}
  BY <1>3 DEF Ids
<1>5. /\ pos \in [Ids(lst) -> Nat] /\ pos[te.id] = n
      /\ \A d \in Ids(hp.lst) : pos[d] = hp.pos[d]
  BY <1>1, <1>4 DEF Put
<1> HIDE DEF pos
<1>6. ASSUME NEW i \in 1..Len(lst) PROVE pos[lst[i].id] = i - 1
  <2>1. CASE i = n + 1
    BY <1>1, <1>2, <1>5, <2>1
  <2>2. CASE i # n + 1
    <3>1. i \in 1..n /\ lst[i] = hp.lst[i]
      BY <1>1, <1>2, <2>2
    <3>2. hp.lst[i].id \in Ids(hp.lst) /\ hp.pos[hp.lst[i].id] = i - 1
      BY <3>1 DEF Ids, Elems, Indexed
    <3> QED BY <1>5, <3>1, <3>2
  <2> QED BY <2>1, <2>2
<1>7. added = [lst |-> lst, pos |-> pos]
  BY <1>1 DEF lst, pos
<1>8. Indexed(added)
  BY <1>2, <1>5, <1>6, <1>7, IndexedIntro
<1>9. ASSUME NEW i \in 0..(n - 1) PROVE lst[i + 1].ts = hp.lst[i + 1].ts
  BY <1>1, <1>2
<1>10. added.lst = lst
  BY <1>7
<1> HIDE DEF n
<1>11. count(added) = count(hp) + 1
  BY <1>1, <1>2, <1>10 DEF count
<1>12. \A i \in 0..(count(hp) - 1) : ts(added, i) = ts(hp, i)
  BY <1>1, <1>9, <1>10 DEF ts
<1> QED BY <1>3, <1>8, <1>10, <1>11, <1>12

(* heap_add adds the timer, if its identifier is new, and nothing else.    *)
LEMMA AddKeeps ==
    ASSUME NEW hp, Indexed(hp), NEW te \in Timers, te.id \notin Ids(hp.lst)
    PROVE  /\ Indexed(heap_add(hp, te))
           /\ count(heap_add(hp, te)) = count(hp) + 1
           /\ Elems(heap_add(hp, te).lst) = Elems(hp.lst) \cup {te}
<1> DEFINE added == [lst |-> Append(hp.lst, te), pos |-> Put(hp.pos, te.id, count(hp))]
           c == count(hp)
           E == Elems(hp.lst) \cup {te}
           S == {s \in Sifting(E, c + 1) : s.at <= c}
           J == [k \in Nat |-> S]
           x == [hp |-> added, at |-> c]
<1>1. c \in Nat /\ c + 1 \in Nat
  BY TimesType
<1>2. Indexed(added) /\ count(added) = c + 1 /\ Elems(added.lst) = E
  BY AppendIndexed
<1>3. heap_add(hp, te) = Rounds(SiftUp, x, c).hp
  BY DEF heap_add
<1> HIDE DEF added, c, E
<1>4. x \in S
  BY <1>1, <1>2 DEF Sifting, Indexed
<1>5. ASSUME NEW s \in S PROVE SiftUp(s) \in S
  <2>1. s \in Sifting(E, c + 1) /\ s.at \in Nat /\ s.at <= c /\ s.at < c + 1
    BY <1>1 DEF Sifting
  <2>2. SiftUp(s) \in Sifting(E, c + 1) /\ SiftUp(s).at <= s.at
    BY <1>1, <2>1, SiftUpKeeps
  <2>3. SiftUp(s).at \in Nat
    BY <2>2 DEF Sifting
  <2> QED BY <1>1, <2>1, <2>2, <2>3
<1> HIDE DEF S
<1>6. Rounds(SiftUp, x, c) \in S
  <2>1. \A k \in Nat : J[k] = S /\ k + 1 \in Nat
    OBVIOUS
  <2>2. \A k \in Nat : J[k] \subseteq S
    BY <2>1
  <2>3. \A k \in Nat : \A s \in J[k] : SiftUp(s) \in J[k + 1]
    BY <1>5, <2>1
  <2>4. x \in J[0]
    BY <1>4, <2>1
  <2> HIDE DEF J, x
  <2>5. Rounds(SiftUp, x, c) \in J[c]
    BY <1>1, <2>2, <2>3, <2>4, SiftUpRounds
  <2> QED BY <1>1, <2>1, <2>5
<1> QED BY <1>3, <1>6 DEF S, Sifting, c, E

(* heap_del and heap_pop put the last timer in the place of the one at p   *)
(* and sift it down.  This is the heap before that, and its index.         *)
MovedList(hp, p) ==
    SubSeq([hp.lst EXCEPT ![p + 1] = hp.lst[count(hp)]], 1, count(hp) - 1)
MovedIndex(pos, hp, p) ==
    /\ pos \in [Ids(hp.lst) \ {hp.lst[p + 1].id} -> Nat]
    /\ \A d \in Ids(hp.lst) \ {hp.lst[p + 1].id} :
          pos[d] = IF d = hp.lst[count(hp)].id THEN p ELSE hp.pos[d]

(* left is what remains of hp without the timer at p, before the sifting.  *)
Vacated(left, hp, p) ==
    /\ Indexed(left) /\ count(left) = count(hp) - 1
    /\ Elems(left.lst) = Elems(hp.lst) \ {hp.lst[p + 1]}
    /\ \A i \in 0..(count(hp) - 2) :
          ts(left, i) = IF i = p THEN ts(hp, count(hp) - 1) ELSE ts(hp, i)

(* The timer at p is gone and the index is exact.                          *)
LEMMA RearIndexed ==
    ASSUME NEW hp, Indexed(hp), NEW p \in 0..(count(hp) - 1), NEW pos,
           MovedIndex(pos, hp, p)
    PROVE  Vacated([lst |-> MovedList(hp, p), pos |-> pos], hp, p)
<1> DEFINE n == Len(hp.lst)
           full == [hp.lst EXCEPT ![p + 1] = hp.lst[n]]
           lst == SubSeq(full, 1, n - 1)
           gone == hp.lst[p + 1]
           left == [lst |-> MovedList(hp, p), pos |-> pos]
<1>1. /\ hp.lst \in Seq(Timers) /\ n \in Nat /\ count(hp) = n
      /\ hp.pos \in [Ids(hp.lst) -> Nat]
      /\ \A i \in 1..n : hp.lst[i] \in Timers
  BY IndexedType
<1>2. p \in Nat /\ p + 1 \in 1..n /\ n \in 1..n /\ n - 1 \in Nat
  BY <1>1
<1>3. /\ full \in Seq(Timers) /\ Len(full) = n
      /\ \A i \in 1..n : full[i] = IF i = p + 1 THEN hp.lst[n] ELSE hp.lst[i]
  BY <1>1, <1>2
<1> HIDE DEF full
<1>4. /\ lst \in Seq(Timers) /\ Len(lst) = n - 1
      /\ \A i \in 1..(n - 1) : lst[i] = full[i]
  BY <1>1, <1>2, <1>3
<1> HIDE DEF lst
<1>5. \A i \in 1..(n - 1) : lst[i] = IF i = p + 1 THEN hp.lst[n] ELSE hp.lst[i]
  BY <1>1, <1>3, <1>4
<1>6. \A i, j \in 1..n : hp.lst[i].id = hp.lst[j].id => i = j
  BY IndexedIds
<1>7. Elems(lst) = Elems(hp.lst) \ {gone}
  <2>1. ASSUME NEW i \in 1..(n - 1) PROVE lst[i] \in Elems(hp.lst) /\ lst[i] # gone
    <3>1. CASE i = p + 1
      <4>1. lst[i] = hp.lst[n] /\ p + 1 # n
        BY <1>2, <1>5, <3>1
      <4>2. hp.lst[n].id # gone.id
        BY <1>2, <1>6, <4>1
      <4> QED BY <1>2, <4>1, <4>2 DEF Elems
    <3>2. CASE i # p + 1
      <4>1. lst[i] = hp.lst[i] /\ i \in 1..n
        BY <1>2, <1>5, <3>2
      <4>2. hp.lst[i].id # gone.id
        BY <1>2, <1>6, <3>2, <4>1
      <4> QED BY <4>1, <4>2 DEF Elems
    <3> QED BY <3>1, <3>2
  <2>2. ASSUME NEW j \in 1..n, hp.lst[j] # gone PROVE \E i \in 1..(n - 1) : lst[i] = hp.lst[j]
    <3>1. j # p + 1
      BY <2>2
    <3>2. CASE j = n
      <4>1. p + 1 \in 1..(n - 1)
        BY <1>1, <1>2, <3>1, <3>2
      <4> QED BY <1>5, <3>2, <4>1
    <3>3. CASE j # n
      <4>1. j \in 1..(n - 1)
        BY <1>1, <3>3
      <4> QED BY <1>5, <3>1, <4>1
    <3> QED BY <3>2, <3>3
  <2> HIDE DEF gone
  <2>3. \A t \in Elems(lst) : t \in Elems(hp.lst) \ {gone}
    BY <1>4, <2>1 DEF Elems
  <2>4. \A t \in Elems(hp.lst) \ {gone} : t \in Elems(lst)
    BY <1>4, <2>2 DEF Elems
  <2> QED BY <2>3, <2>4
<1>8. Ids(lst) = Ids(hp.lst) \ {gone.id}
  <2>1. \A t \in Elems(hp.lst) : t.id = gone.id => t = gone
    BY <1>2, <1>6 DEF Elems
  <2> HIDE DEF gone
  <2> QED BY <1>7, <2>1 DEF Ids
<1>9. ASSUME NEW i \in 1..Len(lst) PROVE pos[lst[i].id] = i - 1
  <2>1. i \in 1..(n - 1) /\ i \in 1..n /\ i # n
    BY <1>1, <1>4
  <2>2. lst[i].id \in Ids(hp.lst) \ {gone.id}
    BY <1>8 DEF Ids, Elems
  <2>3. pos[lst[i].id] = IF lst[i].id = hp.lst[n].id THEN p ELSE hp.pos[lst[i].id]
    BY <1>1, <2>2 DEF MovedIndex
  <2>4. CASE i = p + 1
    BY <1>2, <1>5, <2>1, <2>3, <2>4
  <2>5. CASE i # p + 1
    <3>1. lst[i] = hp.lst[i] /\ hp.lst[i].id # hp.lst[n].id
      BY <1>2, <1>5, <1>6, <2>1, <2>5
    <3>2. hp.pos[hp.lst[i].id] = i - 1
      BY <2>1 DEF Indexed
    <3> QED BY <2>3, <3>1, <3>2
  <2> QED BY <2>4, <2>5
<1>10. left = [lst |-> lst, pos |-> pos]
  BY <1>1 DEF lst, full, MovedList
<1> HIDE DEF left
<1>11. Indexed(left)
  <2>1. pos \in [Ids(lst) -> Nat]
    BY <1>8 DEF MovedIndex
  <2>2. Indexed([lst |-> lst, pos |-> pos])
    BY <1>4, <1>9, <2>1, IndexedIntro
  <2> QED BY <1>10, <2>2
<1>12. ASSUME NEW i \in 0..(n - 2)
       PROVE  lst[i + 1].ts = IF i = p THEN hp.lst[n].ts ELSE hp.lst[i + 1].ts
  <2>1. i + 1 \in 1..(n - 1) /\ (i + 1 = p + 1 <=> i = p)
    BY <1>1, <1>2
  <2> QED BY <1>5, <2>1
<1>13. (n - 1) + 1 = n
  BY <1>1
<1>14. left.lst = lst
  BY <1>10
<1> HIDE DEF n
<1>15. count(left) = count(hp) - 1
  BY <1>1, <1>4, <1>14 DEF count
<1>16. \A i \in 0..(count(hp) - 2) :
          ts(left, i) = IF i = p THEN ts(hp, count(hp) - 1) ELSE ts(hp, i)
  BY <1>1, <1>12, <1>13, <1>14 DEF ts
<1> QED BY <1>7, <1>11, <1>14, <1>15, <1>16 DEF Vacated, left

(* heap_del sifts what remains down from p.                                *)
LEMMA DelVacates ==
    ASSUME NEW hp, Indexed(hp), NEW p \in 0..(count(hp) - 1)
    PROVE  \E left : Vacated(left, hp, p) /\ heap_del(hp, p) = heap_hold(left, p)
<1> DEFINE n == count(hp)
           rear == hp.lst[n]
           gone == hp.lst[p + 1]
           pos == Erase(Put(hp.pos, rear.id, p), gone.id)
           left == [lst |-> SubSeq([hp.lst EXCEPT ![p + 1] = rear], 1, n - 1), pos |-> pos]
<1>1. /\ hp.lst \in Seq(Timers) /\ n \in Nat /\ n = Len(hp.lst)
      /\ hp.pos \in [Ids(hp.lst) -> Nat]
  BY IndexedType
<1>2. p \in Nat /\ n \in 1..n /\ p + 1 \in 1..n
  BY <1>1
<1>3. rear.id \in Ids(hp.lst) /\ gone.id \in Ids(hp.lst)
  BY <1>1, <1>2 DEF Ids, Elems
<1>4. heap_del(hp, p) = heap_hold(left, p)
  BY DEF heap_del
<1>5. /\ pos \in [Ids(hp.lst) \ {gone.id} -> Nat]
      /\ \A d \in Ids(hp.lst) \ {gone.id} : pos[d] = IF d = rear.id THEN p ELSE hp.pos[d]
  <2> DEFINE a == rear.id
             b == gone.id
             D == Ids(hp.lst)
  <2>1. a \in D /\ hp.pos \in [D -> Nat] /\ p \in Nat
    BY <1>1, <1>2, <1>3
  <2>2. pos = Erase(Put(hp.pos, a, p), b)
    OBVIOUS
  <2> HIDE DEF a, b, D, pos
  <2>3. Put(hp.pos, a, p) = [i \in D |-> IF i = a THEN p ELSE hp.pos[i]]
    <3>1. DOMAIN hp.pos \cup {a} = D
      BY <2>1
    <3> QED BY <3>1 DEF Put
  <2>4. pos = [i \in D \ {b} |-> IF i = a THEN p ELSE hp.pos[i]]
    BY <2>2, <2>3 DEF Erase, Restrict
  <2>5. pos \in [D \ {b} -> Nat] /\ \A d \in D \ {b} : pos[d] = IF d = a THEN p ELSE hp.pos[d]
    BY <2>1, <2>4
  <2> QED BY <2>5 DEF a, b, D
<1>6. Vacated([lst |-> MovedList(hp, p), pos |-> pos], hp, p)
  <2>1. MovedIndex(pos, hp, p)
    BY <1>5 DEF MovedIndex
  <2> HIDE DEF pos
  <2> QED BY <2>1, RearIndexed
<1>7. left = [lst |-> MovedList(hp, p), pos |-> pos]
  BY DEF MovedList
<1> QED BY <1>4, <1>6, <1>7

(* So does heap_pop from 0, when there is more than one timer.             *)
LEMMA PopVacates ==
    ASSUME NEW hp, Indexed(hp), count(hp) > 1
    PROVE  \E left : Vacated(left, hp, 0) /\ heap_pop(hp) = heap_hold(left, 0)
<1> DEFINE n == count(hp)
           rear == hp.lst[n]
           gone == hp.lst[1]
           pos == Put(Erase(hp.pos, gone.id), rear.id, 0)
           left == [lst |-> SubSeq([hp.lst EXCEPT ![1] = rear], 1, n - 1), pos |-> pos]
<1>1. /\ hp.lst \in Seq(Timers) /\ n \in Nat /\ n = Len(hp.lst)
      /\ hp.pos \in [Ids(hp.lst) -> Nat]
  BY IndexedType
<1>2. n \in 1..n /\ 1 \in 1..n /\ n # 1 /\ 0 \in 0..(n - 1) /\ 0 + 1 = 1
  <2>1. \A c \in Nat : c > 1 => c \in 1..c /\ 1 \in 1..c /\ c # 1 /\ 0 \in 0..(c - 1) /\ 0 + 1 = 1
    OBVIOUS
  <2> QED BY <1>1, <2>1, Zenon
<1>3. rear.id \in Ids(hp.lst) /\ gone.id \in Ids(hp.lst) /\ rear.id # gone.id
  <2>1. rear.id # gone.id
    BY <1>1, <1>2, IndexedIds
  <2> QED BY <1>1, <1>2, <2>1 DEF Ids, Elems
<1>4. heap_pop(hp) = heap_hold(left, 0)
  BY <1>2 DEF heap_pop
<1>5. /\ pos \in [Ids(hp.lst) \ {gone.id} -> Nat]
      /\ \A d \in Ids(hp.lst) \ {gone.id} : pos[d] = IF d = rear.id THEN 0 ELSE hp.pos[d]
  <2> DEFINE a == rear.id
             b == gone.id
             D == Ids(hp.lst)
  <2>1. a \in D /\ a # b /\ hp.pos \in [D -> Nat]
    BY <1>1, <1>3
  <2>2. pos = Put(Erase(hp.pos, b), a, 0)
    OBVIOUS
  <2> HIDE DEF a, b, D, pos
  <2>3. Erase(hp.pos, b) = [i \in D \ {b} |-> hp.pos[i]]
    BY <2>1 DEF Erase, Restrict
  <2>4. pos = [i \in D \ {b} |-> IF i = a THEN 0 ELSE hp.pos[i]]
    <3>1. (D \ {b}) \cup {a} = D \ {b}
      BY <2>1
    <3> QED BY <2>2, <2>3, <3>1 DEF Put
  <2>5. pos \in [D \ {b} -> Nat] /\ \A d \in D \ {b} : pos[d] = IF d = a THEN 0 ELSE hp.pos[d]
    BY <2>1, <2>4
  <2> QED BY <2>5 DEF a, b, D
<1>6. Vacated([lst |-> MovedList(hp, 0), pos |-> pos], hp, 0)
  <2>1. MovedIndex(pos, hp, 0)
    BY <1>2, <1>5 DEF MovedIndex
  <2> HIDE DEF pos
  <2> QED BY <1>2, <2>1, RearIndexed
<1>7. left = [lst |-> MovedList(hp, 0), pos |-> pos]
  BY <1>2 DEF MovedList
<1> QED BY <1>4, <1>6, <1>7

(* heap_del removes the timer at p and no other.                           *)
LEMMA DelKeeps ==
    ASSUME NEW hp, Indexed(hp), NEW p \in 0..(count(hp) - 1)
    PROVE  /\ Indexed(heap_del(hp, p))
           /\ count(heap_del(hp, p)) = count(hp) - 1
           /\ Elems(heap_del(hp, p).lst) = Elems(hp.lst) \ {hp.lst[p + 1]}
<1>1. PICK left : Vacated(left, hp, p) /\ heap_del(hp, p) = heap_hold(left, p)
  BY DelVacates
<1>2. p \in Nat
  BY TimesType
<1> QED BY <1>1, <1>2, HoldKeeps DEF Vacated

(* heap_pop removes the timer on top and no other.                         *)
LEMMA PopKeeps ==
    ASSUME NEW hp, Indexed(hp), count(hp) # 0
    PROVE  /\ Indexed(heap_pop(hp))
           /\ count(heap_pop(hp)) = count(hp) - 1
           /\ Elems(heap_pop(hp).lst) = Elems(hp.lst) \ {hp.lst[1]}
<1>1. /\ hp.lst \in Seq(Timers) /\ count(hp) \in Nat /\ count(hp) = Len(hp.lst)
      /\ hp.pos \in [Ids(hp.lst) -> Nat]
  BY IndexedType
<1>2. CASE count(hp) = 1
  <2>1. heap_pop(hp) = [lst |-> << >>, pos |-> Erase(hp.pos, hp.lst[1].id)]
    BY <1>2 DEF heap_pop
  <2>2. Elems(hp.lst) = {hp.lst[1]}
    BY <1>1, <1>2 DEF Elems
  <2>3. Elems(<< >>) = {} /\ Ids(<< >>) = {}
    BY DEF Elems, Ids
  <2>4. Ids(hp.lst) = {hp.lst[1].id}
    BY <2>2 DEF Ids
  <2>5. Erase(hp.pos, hp.lst[1].id) \in [Ids(<< >>) -> Nat]
    BY <1>1, <2>3, <2>4 DEF Erase, Restrict
  <2>6. Indexed([lst |-> << >>, pos |-> Erase(hp.pos, hp.lst[1].id)])
    <3>1. << >> \in Seq(Timers) /\ Len(<< >>) = 0 /\ \A i \in 1..0 : FALSE
      OBVIOUS
    <3> QED BY <2>5, <3>1, IndexedIntro
  <2> QED BY <1>2, <2>1, <2>2, <2>3, <2>6 DEF count
<1>3. CASE count(hp) # 1
  <2>1. count(hp) > 1
    <3>1. \A c \in Nat : c # 0 /\ c # 1 => c > 1
      OBVIOUS
    <3> QED BY <1>1, <1>3, <3>1, Zenon
  <2>2. PICK left : Vacated(left, hp, 0) /\ heap_pop(hp) = heap_hold(left, 0)
    BY <2>1, PopVacates
  <2>3. hp.lst[0 + 1] = hp.lst[1]
    OBVIOUS
  <2> QED BY <2>2, <2>3, HoldKeeps DEF Vacated
<1> QED BY <1>2, <1>3

(* A heap is ordered: HeapOrder, for any heap.                             *)
Ordered(hp) == \A p \in 1..(count(hp) - 1) : ts(hp, Parent(p)) <= ts(hp, p)

(* Facts about positions that the two sifting proofs use.                  *)
LEMMA Positions ==
    ASSUME NEW n \in Nat, NEW p \in 1..(n - 1)
    PROVE  /\ p \in Nat /\ p # 0 /\ p \in 0..(n - 1)
           /\ Parent(p) \in Nat /\ Parent(p) < p /\ Parent(p) \in 0..(n - 1)
<1>1. p \in Nat /\ p # 0 /\ p \in 0..(n - 1)
  OBVIOUS
<1>2. Parent(p) \in Nat /\ Parent(p) < p
  BY <1>1, Parents
<1> QED BY <1>1, <1>2

(* While a timer rises, only it may be before its parent, and its children *)
(* are not before its parent.                                              *)
Rising(s) ==
    /\ \A p \in 1..(count(s.hp) - 1) : p # s.at => ts(s.hp, Parent(p)) <= ts(s.hp, p)
    /\ s.at # 0 => \A p \in 1..(count(s.hp) - 1) :
          Parent(p) = s.at => ts(s.hp, Parent(s.at)) <= ts(s.hp, p)

(* Rising is kept, and the timer rises until the heap is ordered.          *)
LEMMA SiftUpRises ==
    ASSUME NEW E, NEW n \in Nat, NEW s \in Sifting(E, n), s.at < n, Rising(s)
    PROVE  /\ Rising(SiftUp(s))
           /\ Ordered(s.hp) => Ordered(SiftUp(s).hp)
           /\ SiftUp(s).at < s.at \/ Ordered(SiftUp(s).hp)
<1> DEFINE a == s.at
           u == Parent(s.at)
           t(p) == ts(s.hp, p)
<1>1. a \in Nat /\ a \in 0..(n - 1) /\ Indexed(s.hp) /\ count(s.hp) = n
  BY DEF Sifting
<1>2. \A p \in 0..(n - 1) : t(p) \in Nat
  BY <1>1, TimesType
<1>3. CASE t(a) < t(u)
  <2>1. a # 0
    <3>1. a = 0 => u = a
      BY Parents
    <3>2. t(a) \in Nat
      BY <1>1, <1>2
    <3> HIDE DEF t, a, u
    <3> QED BY <1>3, <3>1, <3>2
  <2>2. a \in 1..(n - 1) /\ u \in 0..(n - 1) /\ u < a /\ u # a /\ u \in Nat
    <3>1. a \in 1..(n - 1)
      BY <1>1, <2>1
    <3> QED BY <1>1, <3>1, Positions
  <2> DEFINE new == Swap(s.hp, a, u)
             v(p) == ts(new, p)
  <2>3. SiftUp(s) = [hp |-> new, at |-> u]
    BY <1>3 DEF SiftUp
  <2>4. /\ count(new) = n
        /\ \A p \in 0..(n - 1) : v(p) = IF p = a THEN t(u) ELSE IF p = u THEN t(a) ELSE t(p)
    BY <1>1, <2>2, SwapKeeps
  <2>5. \A p \in 1..(n - 1) : p # a => t(Parent(p)) <= t(p)
    BY <1>1 DEF Rising
  <2>6. \A p \in 1..(n - 1) : Parent(p) = a => t(u) <= t(p)
    BY <1>1, <2>1 DEF Rising
  <2> HIDE DEF new, v, t, a
  <2>7. Parent(a) = u
    BY DEF a
  <2> HIDE DEF u
  <2>8. ASSUME NEW p \in 1..(n - 1), p # u PROVE v(Parent(p)) <= v(p)
    <3>1. /\ p \in 0..(n - 1) /\ Parent(p) \in 0..(n - 1) /\ Parent(p) < p
          /\ p \in Nat /\ Parent(p) \in Nat
      BY Positions
    <3>2. t(a) \in Nat /\ t(u) \in Nat /\ t(p) \in Nat /\ t(Parent(p)) \in Nat
      BY <1>1, <1>2, <2>2, <3>1
    <3>3. CASE p = a
      <4>1. v(p) = t(u) /\ v(Parent(p)) = t(a)
        BY <1>1, <2>2, <2>4, <2>7, <3>3
      <4> QED BY <1>3, <3>2, <4>1
    <3>4. CASE p # a /\ Parent(p) = a
      <4>1. v(p) = t(p) /\ v(Parent(p)) = t(u)
        BY <2>4, <2>8, <3>1, <3>4
      <4> QED BY <2>6, <3>4, <4>1
    <3>5. CASE p # a /\ Parent(p) = u
      <4>1. v(p) = t(p) /\ v(Parent(p)) = t(a)
        BY <2>2, <2>4, <2>8, <3>1, <3>5
      <4>2. t(u) <= t(p)
        BY <2>5, <3>5
      <4> QED BY <1>3, <3>2, <4>1, <4>2
    <3>6. CASE p # a /\ Parent(p) # a /\ Parent(p) # u
      <4>1. v(p) = t(p) /\ v(Parent(p)) = t(Parent(p))
        BY <2>4, <2>8, <3>1, <3>6
      <4> QED BY <2>5, <3>6, <4>1
    <3> QED BY <3>3, <3>4, <3>5, <3>6
  <2>9. ASSUME u # 0, NEW p \in 1..(n - 1), Parent(p) = u PROVE v(Parent(u)) <= v(p)
    <3>1. u \in 1..(n - 1)
      BY <2>2, <2>9
    <3>2. /\ p \in 0..(n - 1) /\ Parent(u) \in 0..(n - 1) /\ Parent(u) < u
          /\ u < p /\ p \in Nat /\ Parent(u) \in Nat
      BY <2>9, <3>1, Positions
    <3>3. v(Parent(u)) = t(Parent(u))
      <4>1. Parent(u) # a /\ Parent(u) # u
        BY <1>1, <2>2, <3>2
      <4> QED BY <2>4, <3>2, <4>1
    <3>4. t(Parent(u)) <= t(u)
      BY <2>2, <2>5, <3>1
    <3>5. t(Parent(u)) \in Nat /\ t(u) \in Nat /\ t(p) \in Nat
      BY <1>2, <2>2, <3>2
    <3>6. CASE p = a
      <4>1. v(p) = t(u)
        BY <2>4, <3>2, <3>6
      <4> QED BY <3>3, <3>4, <4>1
    <3>7. CASE p # a
      <4>1. p # u
        BY <2>2, <3>2
      <4>2. v(p) = t(p) /\ t(u) <= t(p)
        BY <2>4, <2>5, <2>9, <3>2, <3>7, <4>1
      <4> QED BY <3>3, <3>4, <3>5, <4>2
    <3> QED BY <3>6, <3>7
  <2>10. Rising([hp |-> new, at |-> u])
    BY <2>4, <2>8, <2>9 DEF Rising, v
  <2>11. ~Ordered(s.hp)
    <3>1. t(a) \in Nat /\ t(u) \in Nat
      BY <1>1, <1>2, <2>2
    <3>2. Ordered(s.hp) => t(u) <= t(a)
      BY <1>1, <2>2, <2>7 DEF Ordered, t
    <3> QED BY <1>3, <3>1, <3>2
  <2> QED BY <2>2, <2>3, <2>10, <2>11 DEF a
<1>4. CASE ~(t(a) < t(u))
  <2>1. SiftUp(s) = s
    BY <1>4 DEF SiftUp
  <2>2. ASSUME NEW p \in 1..(n - 1) PROVE t(Parent(p)) <= t(p)
    <3>1. CASE p = a
      <4>1. u \in 0..(n - 1)
        BY <3>1, Positions
      <4>2. t(a) \in Nat /\ t(u) \in Nat
        BY <1>1, <1>2, <4>1
      <4> QED BY <1>4, <3>1, <4>2
    <3>2. CASE p # a
      BY <1>1, <3>2 DEF Rising
    <3> QED BY <3>1, <3>2
  <2>3. Ordered(s.hp)
    BY <1>1, <2>2 DEF Ordered
  <2> QED BY <2>1, <2>3
<1> QED BY <1>3, <1>4

(* heap_add keeps the order.                                               *)
LEMMA AddOrders ==
    ASSUME NEW hp, Indexed(hp), NEW te \in Timers, te.id \notin Ids(hp.lst), Ordered(hp)
    PROVE  Ordered(heap_add(hp, te))
<1> DEFINE added == [lst |-> Append(hp.lst, te), pos |-> Put(hp.pos, te.id, count(hp))]
           c == count(hp)
           E == Elems(hp.lst) \cup {te}
           S == Sifting(E, c + 1)
           K(k) == {s \in S : /\ s.at <= c /\ Rising(s)
                              /\ Ordered(s.hp) \/ s.at <= c - k}
           J == [k \in Nat |-> K(k)]
           x == [hp |-> added, at |-> c]
<1>1. c \in Nat /\ c + 1 \in Nat /\ (c + 1) - 1 = c /\ c <= c /\ c - 0 = c
  BY TimesType
<1>2. /\ Indexed(added) /\ count(added) = c + 1 /\ Elems(added.lst) = E
      /\ \A i \in 0..(c - 1) : ts(added, i) = ts(hp, i)
  BY AppendIndexed
<1>3. heap_add(hp, te) = Rounds(SiftUp, x, c).hp
  BY DEF heap_add
<1> HIDE DEF added, E
<1>4. x \in K(0)
  <2>1. x \in S
    BY <1>1, <1>2 DEF Sifting, Indexed
  <2>2. ASSUME NEW p \in 1..c, p # c PROVE ts(added, Parent(p)) <= ts(added, p)
    <3>1. p \in 1..(c - 1)
      BY <1>1, <2>2
    <3>2. p \in 0..(c - 1) /\ Parent(p) \in 0..(c - 1)
      BY <1>1, <3>1, Positions
    <3>3. ts(hp, Parent(p)) <= ts(hp, p)
      BY <3>1 DEF Ordered
    <3> QED BY <1>2, <3>2, <3>3
  <2>3. ASSUME NEW p \in 1..c PROVE Parent(p) # c
    <3>1. Parent(p) < p /\ Parent(p) \in Nat
      BY <1>1, Positions
    <3> QED BY <1>1, <3>1
  <2>4. Rising(x)
    BY <1>1, <1>2, <2>2, <2>3 DEF Rising
  <2> HIDE DEF S, x
  <2>5. x.at = c
    BY DEF x
  <2> QED BY <1>1, <2>1, <2>4, <2>5
<1>5. ASSUME NEW k \in Nat, NEW s \in K(k) PROVE SiftUp(s) \in K(k + 1)
  <2>1. /\ s \in Sifting(E, c + 1) /\ s.at \in Nat /\ s.at <= c /\ s.at < c + 1
        /\ Rising(s) /\ (Ordered(s.hp) \/ s.at <= c - k)
    BY <1>1 DEF Sifting
  <2>2. SiftUp(s) \in Sifting(E, c + 1) /\ SiftUp(s).at <= s.at
    BY <1>1, <2>1, SiftUpKeeps
  <2>3. /\ Rising(SiftUp(s))
        /\ Ordered(s.hp) => Ordered(SiftUp(s).hp)
        /\ SiftUp(s).at < s.at \/ Ordered(SiftUp(s).hp)
    BY <1>1, <2>1, SiftUpRises
  <2>4. SiftUp(s).at \in Nat
    BY <2>2 DEF Sifting
  <2>5. SiftUp(s).at <= c
    BY <1>1, <2>1, <2>2, <2>4
  <2>6. SiftUp(s).at < s.at /\ s.at <= c - k => SiftUp(s).at <= c - (k + 1)
    BY <1>1, <2>1, <2>4
  <2> QED BY <2>1, <2>2, <2>3, <2>5, <2>6
<1> HIDE DEF S, c, x
<1>6. Rounds(SiftUp, x, c) \in K(c)
  <2>1. \A k \in Nat : J[k] = K(k) /\ k + 1 \in Nat
    OBVIOUS
  <2>2. \A k \in Nat : J[k] \subseteq S
    BY <2>1
  <2> HIDE DEF J, K
  <2>3. \A k \in Nat : \A s \in J[k] : SiftUp(s) \in J[k + 1]
    BY <1>5, <2>1
  <2>4. x \in J[0]
    BY <1>4, <2>1
  <2>5. Rounds(SiftUp, x, c) \in J[c]
    BY <1>1, <2>2, <2>3, <2>4, SiftUpRounds
  <2> QED BY <1>1, <2>1, <2>5
<1>7. ASSUME NEW s \in K(c) PROVE Ordered(s.hp)
  <2>1. s.at \in Nat /\ count(s.hp) = c + 1 /\ Rising(s) /\ (Ordered(s.hp) \/ s.at <= c - c)
    BY DEF S, Sifting
  <2>2. CASE s.at <= c - c
    <3>1. s.at = 0
      BY <1>1, <2>1, <2>2
    <3>2. \A p \in 1..(count(s.hp) - 1) : p # 0
      BY <1>1, <2>1
    <3> QED BY <2>1, <3>1, <3>2 DEF Rising, Ordered
  <2> QED BY <2>1, <2>2
<1> QED BY <1>3, <1>6, <1>7

(* While a timer sinks, only its children may be before it, and they are   *)
(* not before its parent.                                                  *)
Sinking(s) ==
    /\ \A p \in 1..(count(s.hp) - 1) : Parent(p) # s.at => ts(s.hp, Parent(p)) <= ts(s.hp, p)
    /\ s.at # 0 => \A p \in 1..(count(s.hp) - 1) :
          Parent(p) = s.at => ts(s.hp, Parent(s.at)) <= ts(s.hp, p)

(* Sinking is kept, and the timer sinks until the heap is ordered.         *)
LEMMA SiftDownSinks ==
    ASSUME NEW E, NEW n \in Nat, NEW s \in Sifting(E, n), Sinking(s)
    PROVE  /\ Sinking(SiftDown(s))
           /\ Ordered(s.hp) => Ordered(SiftDown(s).hp)
           /\ SiftDown(s).at > s.at \/ Ordered(SiftDown(s).hp)
<1> DEFINE a == s.at
           m == MinPos(s.hp, s.at)
           t(p) == ts(s.hp, p)
<1>1. a \in Nat /\ Indexed(s.hp) /\ count(s.hp) = n
  BY DEF Sifting
<1>2. \A p \in 0..(n - 1) : t(p) \in Nat
  BY <1>1, TimesType
<1>3. CASE m # a
  <2>1. /\ m \in 1..(n - 1) /\ Parent(m) = a /\ a < m /\ t(m) < t(a)
        /\ \A c \in 1..(n - 1) : Parent(c) = a => t(m) <= t(c)
    BY <1>1, <1>3, MinPosRight
  <2>2. m \in 0..(n - 1) /\ a \in 0..(n - 1) /\ m \in Nat
    BY <1>1, <2>1
  <2> DEFINE new == Swap(s.hp, m, a)
             v(p) == ts(new, p)
  <2>3. SiftDown(s) = [hp |-> new, at |-> m]
    BY <1>3 DEF SiftDown
  <2>4. /\ count(new) = n
        /\ \A p \in 0..(n - 1) : v(p) = IF p = m THEN t(a) ELSE IF p = a THEN t(m) ELSE t(p)
    BY <1>1, <1>3, <2>2, SwapKeeps
  <2>5. \A p \in 1..(n - 1) : Parent(p) # a => t(Parent(p)) <= t(p)
    BY <1>1 DEF Sinking
  <2>6. a # 0 => t(Parent(a)) <= t(m)
    BY <1>1, <2>1 DEF Sinking
  <2> HIDE DEF new, v, t, a, m
  <2>8. ASSUME NEW p \in 1..(n - 1), Parent(p) # m PROVE v(Parent(p)) <= v(p)
    <3>1. /\ p \in 0..(n - 1) /\ Parent(p) \in 0..(n - 1) /\ Parent(p) < p
          /\ p \in Nat /\ p # 0 /\ Parent(p) \in Nat
      BY Positions
    <3>2. t(a) \in Nat /\ t(m) \in Nat /\ t(p) \in Nat /\ t(Parent(p)) \in Nat
      BY <1>2, <2>2, <3>1
    <3>3. CASE p = m
      <4>1. v(p) = t(a) /\ v(Parent(p)) = t(m)
        BY <1>3, <2>1, <2>2, <2>4, <3>3
      <4> QED BY <2>1, <3>2, <4>1
    <3>4. CASE p # m /\ Parent(p) = a
      <4>0. p # a
        BY <3>1, <3>4
      <4>1. v(p) = t(p) /\ v(Parent(p)) = t(m)
        BY <1>3, <2>4, <3>1, <3>4, <4>0
      <4> QED BY <2>1, <3>4, <4>1
    <3>5. CASE p = a
      <4>1. Parent(p) # a
        BY <3>1, <3>5
      <4>2. v(p) = t(m) /\ v(Parent(p)) = t(Parent(p))
        BY <1>3, <2>4, <2>8, <3>1, <3>5, <4>1
      <4> QED BY <2>6, <3>1, <3>5, <4>2
    <3>6. CASE p # m /\ p # a /\ Parent(p) # a
      <4>1. v(p) = t(p) /\ v(Parent(p)) = t(Parent(p))
        BY <2>4, <2>8, <3>1, <3>6
      <4> QED BY <2>5, <3>6, <4>1
    <3> QED BY <3>3, <3>4, <3>5, <3>6
  <2>9. ASSUME NEW p \in 1..(n - 1), Parent(p) = m PROVE v(Parent(m)) <= v(p)
    <3>1. p \in 0..(n - 1) /\ m < p /\ p \in Nat
      BY <2>9, Positions
    <3>2. p # m /\ p # a
      BY <1>1, <2>1, <2>2, <3>1
    <3>3. v(p) = t(p) /\ v(a) = t(m)
      BY <1>3, <2>2, <2>4, <3>1, <3>2
    <3>4. t(m) <= t(p)
      BY <1>3, <2>5, <2>9
    <3> QED BY <2>1, <3>3, <3>4
  <2>10. Sinking([hp |-> new, at |-> m])
    BY <2>4, <2>8, <2>9 DEF Sinking, v
  <2>11. ~Ordered(s.hp)
    <3>1. t(a) \in Nat /\ t(m) \in Nat
      BY <1>2, <2>2
    <3>2. Ordered(s.hp) => t(a) <= t(m)
      BY <1>1, <2>1 DEF Ordered, t
    <3> QED BY <2>1, <3>1, <3>2
  <2> QED BY <1>1, <2>1, <2>2, <2>3, <2>10, <2>11 DEF a
<1>4. CASE m = a
  <2>1. SiftDown(s) = s
    BY <1>4 DEF SiftDown
  <2>2. ASSUME NEW p \in 1..(n - 1) PROVE t(Parent(p)) <= t(p)
    <3>1. CASE Parent(p) = a
      BY <1>1, <1>4, <3>1, MinPosRight
    <3>2. CASE Parent(p) # a
      BY <1>1, <3>2 DEF Sinking
    <3> QED BY <3>1, <3>2
  <2>3. Ordered(s.hp)
    BY <1>1, <2>2 DEF Ordered
  <2> QED BY <2>1, <2>3
<1> QED BY <1>3, <1>4

(* heap_hold orders a heap that is ordered but for the timer at p, which   *)
(* is not before its parent.                                               *)
LEMMA HoldOrders ==
    ASSUME NEW hp, Indexed(hp), NEW p \in Nat, Sinking([hp |-> hp, at |-> p])
    PROVE  Ordered(heap_hold(hp, p))
<1> DEFINE n == count(hp)
           E == Elems(hp.lst)
           S == Sifting(E, n)
           K(k) == {s \in S : Sinking(s) /\ (Ordered(s.hp) \/ s.at >= p + k)}
           J == [k \in Nat |-> K(k)]
           x == [hp |-> hp, at |-> p]
<1>1. n \in Nat /\ p >= p + 0
  BY TimesType
<1>2. x \in K(0)
  <2>1. x \in S
    BY DEF Sifting, Indexed
  <2> HIDE DEF S, x
  <2>2. x.at = p /\ Sinking(x)
    BY DEF x
  <2> QED BY <1>1, <2>1, <2>2
<1>3. heap_hold(hp, p) = Rounds(SiftDown, x, n).hp
  BY DEF heap_hold
<1>4. ASSUME NEW k \in Nat, NEW s \in K(k) PROVE SiftDown(s) \in K(k + 1)
  <2>1. /\ s \in Sifting(E, n) /\ s.at \in Nat
        /\ Sinking(s) /\ (Ordered(s.hp) \/ s.at >= p + k)
    BY DEF Sifting
  <2>2. SiftDown(s) \in Sifting(E, n)
    BY <1>1, <2>1, SiftDownKeeps
  <2>3. /\ Sinking(SiftDown(s))
        /\ Ordered(s.hp) => Ordered(SiftDown(s).hp)
        /\ SiftDown(s).at > s.at \/ Ordered(SiftDown(s).hp)
    BY <1>1, <2>1, SiftDownSinks
  <2>4. SiftDown(s).at \in Nat
    BY <2>2 DEF Sifting
  <2>5. SiftDown(s).at > s.at /\ s.at >= p + k => SiftDown(s).at >= p + (k + 1)
    BY <2>1, <2>4
  <2> QED BY <2>1, <2>2, <2>3, <2>5
<1> HIDE DEF S, n, x
<1>5. Rounds(SiftDown, x, n) \in K(n)
  <2>1. \A k \in Nat : J[k] = K(k) /\ k + 1 \in Nat
    OBVIOUS
  <2>2. \A k \in Nat : J[k] \subseteq S
    BY <2>1
  <2> HIDE DEF J, K
  <2>3. \A k \in Nat : \A s \in J[k] : SiftDown(s) \in J[k + 1]
    BY <1>4, <2>1
  <2>4. x \in J[0]
    BY <1>2, <2>1
  <2>5. Rounds(SiftDown, x, n) \in J[n]
    BY <1>1, <2>2, <2>3, <2>4, SiftDownRounds
  <2> QED BY <1>1, <2>1, <2>5
<1>6. ASSUME NEW s \in K(n) PROVE Ordered(s.hp)
  <2>1. s.at \in Nat /\ count(s.hp) = n /\ Sinking(s) /\ (Ordered(s.hp) \/ s.at >= p + n)
    BY DEF S, Sifting
  <2>2. CASE s.at >= p + n
    <3>1. ASSUME NEW q \in 1..(n - 1) PROVE Parent(q) # s.at
      <4>1. Parent(q) \in Nat /\ Parent(q) \in 0..(n - 1)
        BY <1>1, Positions
      <4> QED BY <1>1, <2>1, <2>2, <4>1
    <3> QED BY <2>1, <3>1 DEF Sinking, Ordered
  <2> QED BY <2>1, <2>2
<1> QED BY <1>3, <1>5, <1>6

(* What remains of an ordered heap, when the last timer moves to p and is  *)
(* not before the parent there.                                            *)
LEMMA VacatedSinks ==
    ASSUME NEW hp, Indexed(hp), Ordered(hp), NEW p \in 0..(count(hp) - 1),
           NEW left, Vacated(left, hp, p),
           p # 0 => ts(hp, Parent(p)) <= ts(hp, count(hp) - 1)
    PROVE  Sinking([hp |-> left, at |-> p])
<1> DEFINE n == count(hp)
           t(i) == ts(hp, i)
           v(i) == ts(left, i)
<1>1. n \in Nat /\ \A i \in 0..(n - 1) : t(i) \in Nat
  BY TimesType
<1>2. p \in Nat /\ n - 1 \in Nat /\ n - 1 \in 0..(n - 1)
  BY <1>1
<1>3. /\ count(left) = n - 1
      /\ \A i \in 0..(n - 2) : v(i) = IF i = p THEN t(n - 1) ELSE t(i)
  BY DEF Vacated
<1>4. \A i \in 1..(n - 1) : t(Parent(i)) <= t(i)
  BY DEF Ordered
<1>5. p # 0 => t(Parent(p)) <= t(n - 1)
  OBVIOUS
<1> HIDE DEF n, t, v
<1>6. ASSUME NEW i \in 1..((n - 1) - 1)
      PROVE  /\ i \in 1..(n - 1) /\ i \in 0..(n - 2) /\ Parent(i) \in 0..(n - 2)
             /\ i \in Nat /\ i # 0 /\ Parent(i) \in Nat /\ Parent(i) < i
  <2>1. i \in 1..(n - 1) /\ i \in 0..(n - 2) /\ i # 0
    BY <1>1
  <2>2. i \in Nat /\ Parent(i) \in Nat /\ Parent(i) < i
    BY <1>1, <2>1, Positions
  <2> QED BY <1>1, <2>1, <2>2
<1>7. ASSUME NEW i \in 1..((n - 1) - 1), Parent(i) # p PROVE v(Parent(i)) <= v(i)
  <2>1. v(Parent(i)) = t(Parent(i))
    BY <1>3, <1>6, <1>7
  <2>2. CASE i = p
    <3>1. v(i) = t(n - 1) /\ p # 0
      BY <1>3, <1>6, <2>2
    <3> QED BY <1>5, <2>1, <2>2, <3>1
  <2>3. CASE i # p
    <3>1. v(i) = t(i)
      BY <1>3, <1>6, <2>3
    <3> QED BY <1>4, <1>6, <2>1, <3>1
  <2> QED BY <2>2, <2>3
<1>8. ASSUME p # 0, NEW i \in 1..((n - 1) - 1), Parent(i) = p PROVE v(Parent(p)) <= v(i)
  <2>1. p \in 1..((n - 1) - 1) /\ i # p
    BY <1>1, <1>2, <1>6, <1>8
  <2>2. v(i) = t(i) /\ t(p) <= t(i)
    BY <1>3, <1>4, <1>6, <1>8, <2>1
  <2>3. v(Parent(p)) = t(Parent(p)) /\ t(Parent(p)) <= t(p)
    <3>1. Parent(p) # p
      BY <1>6, <2>1
    <3> QED BY <1>3, <1>4, <1>6, <2>1, <3>1
  <2>4. t(Parent(p)) \in Nat /\ t(p) \in Nat /\ t(i) \in Nat
    <3>1. i \in 0..(n - 1) /\ p \in 0..(n - 1) /\ Parent(p) \in 0..(n - 1)
      BY <1>1, <1>6, <2>1
    <3> QED BY <1>1, <3>1
  <2> QED BY <2>2, <2>3, <2>4
<1> QED BY <1>3, <1>7, <1>8 DEF Sinking, v

(* heap_pop keeps the order.                                               *)
LEMMA PopOrders ==
    ASSUME NEW hp, Indexed(hp), Ordered(hp), count(hp) # 0
    PROVE  Ordered(heap_pop(hp))
<1>1. count(hp) \in Nat
  BY TimesType
<1>2. CASE count(hp) > 1
  <2>1. PICK left : Vacated(left, hp, 0) /\ heap_pop(hp) = heap_hold(left, 0)
    BY <1>2, PopVacates
  <2>2. 0 \in 0..(count(hp) - 1)
    BY <1>1, <1>2
  <2>3. Sinking([hp |-> left, at |-> 0])
    BY <2>1, <2>2, VacatedSinks
  <2> QED BY <2>1, <2>3, HoldOrders DEF Vacated
<1>3. CASE ~(count(hp) > 1)
  <2>1. count(heap_pop(hp)) = count(hp) - 1
    BY PopKeeps
  <2>2. \A p \in 1..(count(heap_pop(hp)) - 1) : FALSE
    BY <1>1, <1>3, <2>1
  <2> QED BY <2>2 DEF Ordered
<1> QED BY <1>2, <1>3

(* heap_del keeps the order of a heap of up to five timers: the last one   *)
(* is then never before the parent at the place it moves to.  With six, it *)
(* may be, and nothing lets it rise.                                       *)
LEMMA DelOrders ==
    ASSUME NEW hp, Indexed(hp), Ordered(hp), NEW p \in 0..(count(hp) - 1), count(hp) <= 5
    PROVE  Ordered(heap_del(hp, p))
<1> DEFINE n == count(hp)
           t(i) == ts(hp, i)
<1>1. n \in Nat /\ \A i \in 0..(n - 1) : t(i) \in Nat
  BY TimesType
<1>2. \A i \in 1..(n - 1) : t(Parent(i)) <= t(i)
  BY DEF Ordered
<1>3. PICK left : Vacated(left, hp, p) /\ heap_del(hp, p) = heap_hold(left, p)
  BY DelVacates
<1>4. p # 0 => t(Parent(p)) <= t(n - 1)
  <2>1. Parent(1) = 0 /\ Parent(2) = 0 /\ Parent(3) = 1 /\ Parent(4) = 1
    BY DEF Parent
  <2>2. n <= 5
    OBVIOUS
  <2> HIDE DEF n, t
  <2>3. n \in 0..5 /\ p \in 0..(n - 1)
    BY <1>1, <2>2 DEF n
  <2>4. /\ n > 1 => t(0) <= t(1) /\ t(0) \in Nat /\ t(1) \in Nat
        /\ n > 2 => t(0) <= t(2) /\ t(2) \in Nat
        /\ n > 3 => t(1) <= t(3) /\ t(3) \in Nat
        /\ n > 4 => t(1) <= t(4) /\ t(4) \in Nat
    BY <1>1, <1>2, <2>1
  <2>5. CASE n \in {0, 1}
    BY <2>3, <2>5
  <2>6. CASE n = 2
    <3>1. p # 0 => p = 1
      BY <2>3, <2>6
    <3> QED BY <2>1, <2>4, <2>6, <3>1
  <2>7. CASE n = 3
    <3>1. p # 0 => p \in {1, 2}
      BY <2>3, <2>7
    <3> QED BY <2>1, <2>4, <2>7, <3>1
  <2>8. CASE n = 4
    <3>1. p # 0 => p \in {1, 2, 3}
      BY <2>3, <2>8
    <3> QED BY <2>1, <2>4, <2>8, <3>1
  <2>9. CASE n = 5
    <3>1. p # 0 => p \in {1, 2, 3, 4}
      BY <2>3, <2>9
    <3> QED BY <2>1, <2>4, <2>9, <3>1
  <2>10. n \in {0, 1} \/ n = 2 \/ n = 3 \/ n = 4 \/ n = 5
    BY <2>3
  <2> QED BY <2>5, <2>6, <2>7, <2>8, <2>9, <2>10
<1>5. Sinking([hp |-> left, at |-> p])
  BY <1>3, <1>4, VacatedSinks
<1>6. p \in Nat
  BY <1>1
<1> QED BY <1>3, <1>5, <1>6, HoldOrders DEF Vacated

(* The top of an ordered heap is the earliest timer.                       *)
LEMMA TopIsFirst ==
    ASSUME NEW hp, Indexed(hp), Ordered(hp), NEW p \in 0..(count(hp) - 1)
    PROVE  ts(hp, 0) <= ts(hp, p)
<1> DEFINE n == count(hp)
           t(i) == ts(hp, i)
           I == {k \in Nat : \A i \in 0..k : i < n => t(0) <= t(i)}
<1>1. n \in Nat /\ \A i \in 0..(n - 1) : t(i) \in Nat
  BY TimesType
<1>2. \A i \in 1..(n - 1) : t(Parent(i)) <= t(i)
  BY DEF Ordered
<1>3. p \in Nat /\ p < n /\ p \in 0..p /\ 0 \in 0..(n - 1)
  BY <1>1
<1> HIDE DEF n, t
<1>4. 0 \in I
  <2>1. t(0) \in Nat /\ \A i \in 0..0 : i = 0
    BY <1>1, <1>3
  <2>2. t(0) <= t(0)
    BY <2>1
  <2>3. \A i \in 0..0 : i < n => t(0) <= t(i)
    BY <2>1, <2>2
  <2> QED BY <2>3
<1>5. ASSUME NEW k \in I PROVE k + 1 \in I
  <2>1. k \in Nat /\ \A i \in 0..k : i < n => t(0) <= t(i)
    OBVIOUS
  <2>2. ASSUME NEW i \in 0..(k + 1), i < n PROVE t(0) <= t(i)
    <3>1. CASE i \in 0..k
      BY <2>1, <2>2, <3>1
    <3>2. CASE i \notin 0..k
      <4>1. i = k + 1 /\ i \in 1..(n - 1)
        BY <1>1, <2>1, <2>2, <3>2
      <4>2. Parent(i) \in 0..(n - 1) /\ Parent(i) < i /\ Parent(i) \in Nat /\ i \in 0..(n - 1)
        BY <1>1, <4>1, Positions
      <4>3. Parent(i) \in 0..k /\ Parent(i) < n
        BY <1>1, <2>1, <2>2, <4>1, <4>2
      <4>4. t(0) <= t(Parent(i)) /\ t(Parent(i)) <= t(i)
        BY <1>2, <2>1, <4>1, <4>3
      <4>5. t(0) \in Nat /\ t(Parent(i)) \in Nat /\ t(i) \in Nat
        BY <1>1, <1>3, <4>2
      <4> QED BY <4>4, <4>5
    <3> QED BY <3>1, <3>2
  <2> QED BY <2>1, <2>2
<1>6. \A k \in Nat : k \in I
  <2> HIDE DEF I
  <2>1. I \subseteq Nat
    BY DEF I
  <2> QED BY <1>4, <1>5, <2>1, AllNaturals
<1>7. t(0) <= t(p)
  BY <1>3, <1>6
<1> QED BY <1>7 DEF t

-----------------------------------------------------------------------------
(* Queues.                                                                 *)

Queues == [hp : Heaps, pioneer : Nat \cup {NoPioneer}, next : Nat, fd : Nat]

(* The index is exact, identifiers are given out once, and the timerfd is  *)
(* armed for _pioneer.                                                     *)
SoundQueue(q) ==
    /\ q \in Queues
    /\ Indexed(q.hp)
    /\ \A t \in Elems(q.hp.lst) : t.id < q.next
    /\ q.fd = IF q.pioneer = NoPioneer THEN 0 ELSE q.pioneer

(* _pioneer is not later than the timer on top.                            *)
Ahead(q) ==
    count(q.hp) # 0 => q.pioneer \in Nat /\ q.pioneer <= ts(q.hp, 0)

(* _pioneer of r is that of q, none, or the time of the timer on top.      *)
PioneerFrom(r, q) ==
    r.pioneer \in {q.pioneer, NoPioneer} \/ (count(r.hp) # 0 /\ r.pioneer = ts(r.hp, 0))

Bodies == [h : Nat, ts : Nat, interval : Nat]

(* A queue is a record.                                                    *)
LEMMA QueueRecord ==
    ASSUME NEW q \in Queues
    PROVE  /\ q = [hp |-> q.hp, pioneer |-> q.pioneer, next |-> q.next, fd |-> q.fd]
           /\ \A hp : [q EXCEPT !.hp = hp]
                            = [hp |-> hp, pioneer |-> q.pioneer, next |-> q.next, fd |-> q.fd]
<1>1. q = [hp |-> q.hp, pioneer |-> q.pioneer, next |-> q.next, fd |-> q.fd]
  BY DEF Queues
<1>2. \A hp : [q EXCEPT !.hp = hp]
               = [hp |-> hp, pioneer |-> q.pioneer, next |-> q.next, fd |-> q.fd]
  BY DEF Queues
<1> QED BY <1>1, <1>2

(* reset_timo arms the timerfd for a new _pioneer.                         *)
LEMMA ResetSound ==
    ASSUME NEW q, SoundQueue(q), NEW to \in Nat \cup {NoPioneer}
    PROVE  /\ SoundQueue(reset_timo(q, to))
           /\ reset_timo(q, to).hp = q.hp /\ reset_timo(q, to).next = q.next
           /\ reset_timo(q, to).pioneer = to
<1> DEFINE fd == IF to = NoPioneer THEN 0 ELSE to
           r == [hp |-> q.hp, pioneer |-> to, next |-> q.next, fd |-> fd]
<1>1. q \in Queues
  BY DEF SoundQueue
<1>2. reset_timo(q, to) = r
  BY DEF reset_timo
<1>3. fd \in Nat
  OBVIOUS
<1>4. r \in Queues
  BY <1>1, <1>3 DEF Queues
<1> QED BY <1>2, <1>4 DEF SoundQueue

(* The same queue with another heap.                                       *)
LEMMA HeapChanged ==
    ASSUME NEW q, SoundQueue(q), NEW hp, Indexed(hp), NEW next \in Nat,
           \A t \in Elems(hp.lst) : t.id < next,
           NEW r, r = [hp |-> hp, pioneer |-> q.pioneer, next |-> next, fd |-> q.fd]
    PROVE  /\ SoundQueue(r)
           /\ r.hp = hp /\ r.next = next /\ r.pioneer = q.pioneer
<1>1. q \in Queues /\ hp \in Heaps
  BY DEF SoundQueue, Indexed
<1>2. r \in Queues
  BY <1>1 DEF Queues
<1> QED BY <1>2 DEF SoundQueue

(* A numbered timer.                                                       *)
LEMMA NumberedType ==
    ASSUME NEW te \in Bodies, NEW id \in Nat
    PROVE  /\ Numbered(te, id) \in Timers /\ Numbered(te, id).id = id
           /\ Numbered(te, id).ts = te.ts /\ Numbered(te, id).interval = te.interval
           /\ Numbered(te, id).h = te.h
  BY DEF Numbered, Timers, Bodies

(* Arming for the timer on top, if it is before _pioneer, puts _pioneer    *)
(* ahead of it.                                                            *)
LEMMA TopAhead ==
    ASSUME NEW q, SoundQueue(q), count(q.hp) # 0,
           NEW r, r = IF Before(ts(q.hp, 0), q.pioneer) THEN reset_timo(q, ts(q.hp, 0)) ELSE q
    PROVE  SoundQueue(r) /\ Ahead(r) /\ PioneerFrom(r, q) /\ r.hp = q.hp /\ r.next = q.next
<1>1. count(q.hp) \in Nat /\ \A i \in 0..(count(q.hp) - 1) : ts(q.hp, i) \in Nat
  BY TimesType DEF SoundQueue
<1>2. ts(q.hp, 0) \in Nat
  BY <1>1
<1>3. q.pioneer \in Nat \cup {NoPioneer}
  BY DEF SoundQueue, Queues
<1>4. CASE Before(ts(q.hp, 0), q.pioneer)
  <2>1. r = reset_timo(q, ts(q.hp, 0))
    BY <1>4
  <2>2. /\ SoundQueue(r) /\ r.hp = q.hp /\ r.next = q.next
        /\ r.pioneer = ts(q.hp, 0)
    BY <1>2, <2>1, ResetSound
  <2> QED BY <1>2, <2>2 DEF Ahead, PioneerFrom
<1>5. CASE ~Before(ts(q.hp, 0), q.pioneer)
  <2>1. q.pioneer \in Nat /\ q.pioneer <= ts(q.hp, 0)
    BY <1>2, <1>3, <1>5 DEF Before
  <2> QED BY <1>5, <2>1 DEF Ahead, PioneerFrom
<1> QED BY <1>4, <1>5

(* add_timer adds the timer, numbered, and nothing else.                   *)
LEMMA AddTimerRight ==
    ASSUME NEW q, SoundQueue(q), NEW te \in Bodies, NEW r, r = add_timer(q, te)
    PROVE  /\ SoundQueue(r) /\ Ahead(r) /\ PioneerFrom(r, q)
           /\ r.hp = heap_add(q.hp, Numbered(te, q.next))
           /\ r.next = q.next + 1
           /\ count(r.hp) = count(q.hp) + 1
           /\ Elems(r.hp.lst) = Elems(q.hp.lst) \cup {Numbered(te, q.next)}
<1> DEFINE new == Numbered(te, q.next)
           hp == heap_add(q.hp, new)
           added == [hp |-> hp, pioneer |-> q.pioneer, next |-> q.next + 1, fd |-> q.fd]
<1>1. q \in Queues /\ q.next \in Nat /\ q.next + 1 \in Nat /\ Indexed(q.hp)
  BY DEF SoundQueue, Queues
<1>2. new \in Timers /\ new.id = q.next
  BY <1>1, NumberedType
<1>3. \A t \in Elems(q.hp.lst) : t \in Timers /\ t.id \in Nat /\ t.id < q.next
  <2>1. \A t \in Elems(q.hp.lst) : t \in Timers
    BY <1>1, IndexedType DEF Elems
  <2> QED BY <2>1 DEF SoundQueue, Timers
<1> HIDE DEF new
<1>4. new.id \notin Ids(q.hp.lst)
  BY <1>1, <1>2, <1>3 DEF Ids
<1>5. /\ Indexed(hp) /\ count(hp) = count(q.hp) + 1
      /\ Elems(hp.lst) = Elems(q.hp.lst) \cup {new}
  BY <1>1, <1>2, <1>4, AddKeeps
<1>6. added = [hp |-> hp, pioneer |-> q.pioneer, next |-> q.next + 1, fd |-> q.fd]
  OBVIOUS
<1>7. r = IF Before(ts(hp, 0), q.pioneer) THEN reset_timo(added, ts(hp, 0)) ELSE added
  BY DEF add_timer, new
<1> HIDE DEF hp, added
<1>8. \A t \in Elems(hp.lst) : t.id < q.next + 1
  BY <1>1, <1>2, <1>3, <1>5
<1>9. /\ SoundQueue(added) /\ added.hp = hp /\ added.next = q.next + 1
      /\ added.pioneer = q.pioneer
  BY <1>1, <1>5, <1>6, <1>8, HeapChanged
<1>10. count(added.hp) # 0
  BY <1>1, <1>5, <1>9, TimesType
<1>11. /\ SoundQueue(r) /\ Ahead(r) /\ PioneerFrom(r, added)
       /\ r.hp = added.hp /\ r.next = added.next
  BY <1>7, <1>9, <1>10, TopAhead
<1>12. PioneerFrom(r, q)
  BY <1>9, <1>11, Zenon DEF PioneerFrom
<1> QED BY <1>5, <1>9, <1>11, <1>12 DEF hp, new

(* del_timer removes the timer with that identifier, if there is one, and  *)
(* no other.                                                               *)
LEMMA DelTimerRight ==
    ASSUME NEW q, SoundQueue(q), NEW id, NEW r, r = del_timer(q, id)
    PROVE  /\ SoundQueue(r) /\ (Ahead(q) => Ahead(r)) /\ PioneerFrom(r, q)
           /\ r.next = q.next
           /\ Elems(r.hp.lst) = {t \in Elems(q.hp.lst) : t.id # id}
           /\ \/ r.hp = q.hp
              \/ \E p \in 0..(count(q.hp) - 1) :
                    r.hp = heap_del(q.hp, p) /\ count(r.hp) = count(q.hp) - 1
<1>1. /\ q \in Queues /\ q.next \in Nat /\ Indexed(q.hp)
      /\ \A t \in Elems(q.hp.lst) : t.id < q.next
  BY DEF SoundQueue, Queues
<1>2. DOMAIN q.hp.pos = Ids(q.hp.lst)
  BY <1>1 DEF Indexed
<1>3. CASE id \notin DOMAIN q.hp.pos
  <2>1. r = q
    BY <1>3 DEF del_timer
  <2>2. \A t \in Elems(q.hp.lst) : t.id # id
    BY <1>2, <1>3 DEF Ids
  <2>3. Elems(q.hp.lst) = {t \in Elems(q.hp.lst) : t.id # id}
    BY <2>2
  <2> QED BY <2>1, <2>3 DEF PioneerFrom
<1>4. CASE id \in DOMAIN q.hp.pos
  <2> DEFINE p == q.hp.pos[id]
             hp == heap_del(q.hp, p)
             left == [q EXCEPT !.hp = hp]
  <2>1. r = IF count(hp) = 0 THEN Emptied(left)
            ELSE IF Before(ts(hp, 0), q.pioneer) THEN reset_timo(left, ts(hp, 0)) ELSE left
    BY <1>4 DEF del_timer
  <2>2. PICK i \in 1..Len(q.hp.lst) : q.hp.lst[i].id = id
    BY <1>2, <1>4 DEF Ids, Elems
  <2>3. p = i - 1
    BY <1>1, <2>2 DEF Indexed
  <2>4. Len(q.hp.lst) \in Nat /\ count(q.hp) = Len(q.hp.lst)
    BY <1>1, IndexedType
  <2>5. p \in 0..(count(q.hp) - 1) /\ p + 1 = i
    BY <2>3, <2>4
  <2> HIDE DEF p
  <2>6. /\ Indexed(hp) /\ count(hp) = count(q.hp) - 1
        /\ Elems(hp.lst) = Elems(q.hp.lst) \ {q.hp.lst[p + 1]}
    BY <1>1, <2>5, DelKeeps
  <2>7. left = [hp |-> hp, pioneer |-> q.pioneer, next |-> q.next, fd |-> q.fd]
    BY <1>1, QueueRecord, Zenon
  <2> HIDE DEF hp, left
  <2>8. /\ SoundQueue(left) /\ left.hp = hp /\ left.next = q.next
        /\ left.pioneer = q.pioneer
    <3>1. \A t \in Elems(hp.lst) : t.id < q.next
      BY <1>1, <2>6
    <3> QED BY <1>1, <2>6, <2>7, <3>1, HeapChanged
  <2>9. \A j \in 1..Len(q.hp.lst) : q.hp.lst[j].id = id => j = i
    BY <1>1, <2>2, IndexedIds
  <2>10. Elems(hp.lst) = {t \in Elems(q.hp.lst) : t.id # id}
    BY <2>2, <2>5, <2>6, <2>9 DEF Elems
  <2>11. SoundQueue(r) /\ Ahead(r) /\ PioneerFrom(r, q) /\ r.hp = hp /\ r.next = q.next
    <3>1. CASE count(hp) = 0
      <4>1. r = reset_timo(left, NoPioneer)
        BY <2>1, <3>1 DEF Emptied
      <4>2. SoundQueue(r) /\ r.hp = left.hp /\ r.next = left.next /\ r.pioneer = NoPioneer
        <5>1. NoPioneer \in Nat \cup {NoPioneer}
          OBVIOUS
        <5>2. /\ SoundQueue(reset_timo(left, NoPioneer))
              /\ reset_timo(left, NoPioneer).hp = left.hp
              /\ reset_timo(left, NoPioneer).next = left.next
              /\ reset_timo(left, NoPioneer).pioneer = NoPioneer
          BY <2>8, <5>1, ResetSound
        <5> QED BY <4>1, <5>2, Zenon
      <4> QED BY <2>8, <3>1, <4>2 DEF Ahead, PioneerFrom
    <3>2. CASE count(hp) # 0
      <4>1. r = IF Before(ts(left.hp, 0), left.pioneer)
                THEN reset_timo(left, ts(left.hp, 0)) ELSE left
        BY <2>1, <2>8, <3>2
      <4>2. /\ SoundQueue(r) /\ Ahead(r) /\ PioneerFrom(r, left)
            /\ r.hp = left.hp /\ r.next = left.next
        BY <2>8, <3>2, <4>1, TopAhead
      <4>3. PioneerFrom(r, q)
        BY <2>8, <4>2, Zenon DEF PioneerFrom
      <4> QED BY <2>8, <4>2, <4>3
    <3> QED BY <3>1, <3>2
  <2> QED BY <2>5, <2>6, <2>10, <2>11 DEF hp
<1> QED BY <1>3, <1>4

(* get_timo's first loop, started with the queue q: the timers are in the  *)
(* heap or taken, never in both; the taken ones are those of _pioneer.     *)
Taking(q) ==
    {s \in [q : Queues, taken : Seq(Timers)] :
        /\ SoundQueue(s.q)
        /\ s.q.pioneer = q.pioneer /\ s.q.next = q.next
        /\ Elems(s.q.hp.lst) \cup Elems(s.taken) = Elems(q.hp.lst)
        /\ Elems(s.q.hp.lst) \cap Elems(s.taken) = {}
        /\ \A i \in 1..Len(s.taken) : s.taken[i].ts = q.pioneer
        /\ \A i, j \in 1..Len(s.taken) : s.taken[i] = s.taken[j] => i = j
        /\ count(s.q.hp) + Len(s.taken) = count(q.hp)
        /\ Ordered(q.hp) => Ordered(s.q.hp)}

(* Append, as the lemmas below use it.                                     *)
LEMMA AppendFacts ==
    ASSUME NEW T, NEW tk \in Seq(T), NEW e \in T
    PROVE  /\ Append(tk, e) \in Seq(T) /\ Len(Append(tk, e)) = Len(tk) + 1
           /\ \A i \in 1..Len(tk) : Append(tk, e)[i] = tk[i]
           /\ Append(tk, e)[Len(tk) + 1] = e
           /\ Elems(Append(tk, e)) = Elems(tk) \cup {e}
<1> DEFINE n == Len(tk)
           a == Append(tk, e)
<1>1. /\ n \in Nat /\ a \in Seq(T) /\ Len(a) = n + 1
      /\ \A i \in 1..n : a[i] = tk[i]
      /\ a[n + 1] = e
  OBVIOUS
<1> HIDE DEF a
<1>2. 1..(n + 1) = 1..n \cup {n + 1}
  BY <1>1
<1>3. Elems(a) = Elems(tk) \cup {e}
  BY <1>1, <1>2 DEF Elems
<1> QED BY <1>1, <1>3 DEF a

(* A round of that loop.                                                   *)
LEMMA TakeTopTakes ==
    ASSUME NEW q, SoundQueue(q), NEW s \in Taking(q)
    PROVE  TakeTop(s) \in Taking(q)
<1> DEFINE hp == s.q.hp
           top == s.q.hp.lst[1]
<1>1. /\ s.q \in Queues /\ s.taken \in Seq(Timers) /\ SoundQueue(s.q) /\ Indexed(hp)
      /\ s.q.pioneer = q.pioneer /\ s.q.next = q.next
      /\ Elems(hp.lst) \cup Elems(s.taken) = Elems(q.hp.lst)
      /\ Elems(hp.lst) \cap Elems(s.taken) = {}
      /\ \A i \in 1..Len(s.taken) : s.taken[i].ts = q.pioneer
      /\ \A i, j \in 1..Len(s.taken) : s.taken[i] = s.taken[j] => i = j
      /\ count(hp) + Len(s.taken) = count(q.hp)
      /\ Ordered(q.hp) => Ordered(hp)
  BY DEF Taking, SoundQueue
<1>2. CASE count(hp) # 0 /\ s.q.pioneer = ts(hp, 0)
  <2> DEFINE new == heap_pop(hp)
             sq == [s.q EXCEPT !.hp = new]
             tk == Append(s.taken, top)
  <2>1. TakeTop(s) = [q |-> sq, taken |-> tk]
    BY <1>2 DEF TakeTop
  <2>2. /\ hp.lst \in Seq(Timers) /\ Len(hp.lst) \in Nat /\ count(hp) = Len(hp.lst)
        /\ \A i \in 1..Len(hp.lst) : hp.lst[i] \in Timers
    BY <1>1, IndexedType
  <2>3. 1 \in 1..Len(hp.lst)
    BY <1>2, <2>2
  <2>4. top \in Timers /\ top \in Elems(hp.lst) /\ top.ts = q.pioneer
    BY <1>1, <1>2, <2>2, <2>3 DEF Elems, ts
  <2>5. /\ Indexed(new) /\ count(new) = count(hp) - 1
        /\ Elems(new.lst) = Elems(hp.lst) \ {top}
    BY <1>1, <1>2, PopKeeps
  <2>6. Ordered(q.hp) => Ordered(new)
    BY <1>1, <1>2, PopOrders
  <2>7. sq = [hp |-> new, pioneer |-> s.q.pioneer, next |-> s.q.next, fd |-> s.q.fd]
    BY <1>1, QueueRecord, Zenon
  <2>8. /\ tk \in Seq(Timers) /\ Len(tk) = Len(s.taken) + 1
        /\ \A i \in 1..Len(s.taken) : tk[i] = s.taken[i]
        /\ tk[Len(s.taken) + 1] = top
        /\ Elems(tk) = Elems(s.taken) \cup {top}
    BY <1>1, <2>4, AppendFacts
  <2> HIDE DEF new, sq, tk, top, hp
  <2>9. /\ SoundQueue(sq) /\ sq.hp = new /\ sq.next = q.next /\ sq.pioneer = q.pioneer
        /\ sq \in Queues
    <3>1. s.q.next \in Nat /\ \A t \in Elems(new.lst) : t.id < s.q.next
      BY <1>1, <2>5 DEF SoundQueue, Queues, hp
    <3>2. SoundQueue(sq) /\ sq.hp = new /\ sq.next = s.q.next /\ sq.pioneer = s.q.pioneer
      BY <1>1, <2>5, <2>7, <3>1, HeapChanged
    <3> QED BY <1>1, <3>2 DEF SoundQueue
  <2>10. \A i \in 1..Len(tk) : i \in 1..Len(s.taken) \/ i = Len(s.taken) + 1
    BY <1>1, <2>8
  <2>11. \A i \in 1..Len(s.taken) : s.taken[i] # top
    <3>1. \A i \in 1..Len(s.taken) : s.taken[i] \in Elems(s.taken)
      BY DEF Elems
    <3>2. top \notin Elems(s.taken)
      BY <1>1, <2>4
    <3> QED BY <3>1, <3>2
  <2>12. \A i \in 1..Len(tk) : tk[i].ts = q.pioneer
    BY <1>1, <2>4, <2>8, <2>10
  <2>13. \A i, j \in 1..Len(tk) : tk[i] = tk[j] => i = j
    BY <1>1, <2>8, <2>10, <2>11
  <2>14. Elems(new.lst) \cup Elems(tk) = Elems(q.hp.lst) /\ Elems(new.lst) \cap Elems(tk) = {}
    BY <1>1, <2>4, <2>5, <2>8 DEF hp
  <2>15. count(new) + Len(tk) = count(q.hp)
    <3>1. s.taken \in Seq(Timers) /\ count(hp) + Len(s.taken) = count(q.hp)
      BY <1>1, Zenon
    <3>2. Len(s.taken) \in Nat
      BY <3>1
    <3>3. count(hp) \in Nat
      BY <2>2, Zenon
    <3> QED BY <2>5, <2>8, <3>1, <3>2, <3>3
  <2> DEFINE z == [q |-> sq, taken |-> tk]
  <2>16. z.q = sq /\ z.taken = tk /\ z \in [q : Queues, taken : Seq(Timers)]
    BY <2>8, <2>9
  <2> HIDE DEF z
  <2>17. z \in Taking(q)
    BY <2>6, <2>9, <2>12, <2>13, <2>14, <2>15, <2>16, Zenon DEF Taking
  <2> QED BY <2>1, <2>17 DEF z
<1>3. CASE ~(count(hp) # 0 /\ s.q.pioneer = ts(hp, 0))
  BY <1>3 DEF TakeTop
<1> QED BY <1>2, <1>3

(* The whole loop.                                                         *)
LEMMA TakeFiredTakes ==
    ASSUME NEW q, SoundQueue(q)
    PROVE  TakeFired(q) \in Taking(q)
<1> DEFINE x == [q |-> q, taken |-> << >>]
           n == count(q.hp)
           J == [k \in Nat |-> Taking(q)]
<1>1. q \in Queues /\ n \in Nat
  BY TimesType DEF SoundQueue
<1>2. x \in Taking(q)
  <2>1. << >> \in Seq(Timers) /\ Len(<< >>) = 0 /\ \A i \in 1..0 : FALSE
    OBVIOUS
  <2>2. Elems(<< >>) = {}
    BY DEF Elems
  <2> QED BY <1>1, <2>1, <2>2 DEF Taking
<1>3. \A k \in Nat : J[k] = Taking(q) /\ k + 1 \in Nat
  OBVIOUS
<1>4. TakeFired(q) = Rounds(TakeTop, x, n)
  BY DEF TakeFired
<1> HIDE DEF J, x, n
<1>5. \A k \in Nat : \A s \in J[k] : TakeTop(s) \in J[k + 1]
  BY <1>3, TakeTopTakes
<1>6. x \in J[0] /\ \A k \in Nat : J[k] \subseteq Taking(q)
  BY <1>2, <1>3
<1>7. Rounds(TakeTop, x, n) \in J[n]
  BY <1>1, <1>5, <1>6, TakeTopRounds
<1> QED BY <1>1, <1>3, <1>4, <1>7

(* u is the next appearance of the periodic timer t.                       *)
Returns(u, t) == u.h = t.h /\ u.ts = t.ts + t.interval /\ u.interval = t.interval

(* The first k timers of taken that are periodic.                          *)
Periodic(taken, k) == {i \in 1..Len(taken) : i <= k /\ taken[i].interval > 0}

(* The timers b, under identifiers that were free, are back in the queue   *)
(* q for the periodic timers I of r.taken.                                 *)
Back(b, I, r, q) ==
    /\ b \in [I -> Timers]
    /\ \A i, j \in I : b[i] = b[j] => i = j
    /\ \A i \in I : Returns(b[i], r.taken[i]) /\ r.q.next <= b[i].id /\ b[i].id < q.next
    /\ Elems(q.hp.lst) = Elems(r.q.hp.lst) \cup {b[i] : i \in I}

(* get_timo's second loop after k rounds, started with r.                  *)
Readding(r, k) ==
    {s \in [q : Queues, taken : Seq(Timers)] :
        /\ SoundQueue(s.q) /\ r.q.next <= s.q.next
        /\ Len(s.taken) = Len(r.taken) - k
        /\ \A j \in 1..Len(s.taken) : s.taken[j] = r.taken[k + j]
        /\ \E b : Back(b, Periodic(r.taken, k), r, s.q)
        /\ count(s.q.hp) + Len(s.taken) <= count(r.q.hp) + Len(r.taken)
        /\ Ordered(r.q.hp) => Ordered(s.q.hp)}

(* A timer that comes back is added to those that are back already.        *)
LEMMA BackGrows ==
    ASSUME NEW r, NEW q, NEW q2, NEW I, NEW b, Back(b, I, r, q), NEW i, i \notin I,
           NEW new \in Timers, new.id = q.next, q.next \in Nat, r.q.next \in Nat,
           r.q.next <= q.next, q2.next = q.next + 1,
           Returns(new, r.taken[i]),
           Elems(q2.hp.lst) = Elems(q.hp.lst) \cup {new}
    PROVE  \E c : Back(c, I \cup {i}, r, q2)
<1> DEFINE c == [j \in I \cup {i} |-> IF j = i THEN new ELSE b[j]]
<1>1. b \in [I -> Timers] /\ \A j \in I : b[j] \in Timers
  BY DEF Back
<1>2. c \in [I \cup {i} -> Timers] /\ c[i] = new /\ \A j \in I : c[j] = b[j]
  BY <1>1
<1> HIDE DEF c
<1>3. \A j \in I : b[j].id \in Nat /\ r.q.next <= b[j].id /\ b[j].id < q.next
  BY <1>1 DEF Back, Timers
<1>4. \A j \in I : b[j] # new
  BY <1>3
<1>5. \A j, k \in I \cup {i} : c[j] = c[k] => j = k
  BY <1>2, <1>4 DEF Back
<1>6. \A j \in I \cup {i} :
         Returns(c[j], r.taken[j]) /\ r.q.next <= c[j].id /\ c[j].id < q2.next
  <2>1. r.q.next <= new.id /\ new.id < q2.next
    OBVIOUS
  <2>2. \A j \in I : r.q.next <= b[j].id /\ b[j].id < q2.next
    BY <1>3
  <2>3. \A j \in I : Returns(b[j], r.taken[j])
    BY DEF Back
  <2> QED BY <1>2, <2>1, <2>2, <2>3
<1>7. {c[j] : j \in I \cup {i}} = {b[j] : j \in I} \cup {new}
  BY <1>2
<1>8. Elems(q2.hp.lst) = Elems(r.q.hp.lst) \cup {c[j] : j \in I \cup {i}}
  BY <1>7 DEF Back
<1> QED BY <1>2, <1>5, <1>6, <1>8 DEF Back

(* The next time of a periodic timer.                                      *)
LEMMA NextPeriodReturns ==
    ASSUME NEW te \in Timers, NEW id \in Nat
    PROVE  /\ NextPeriod(te) \in Bodies
           /\ Returns(Numbered(NextPeriod(te), id), te)
<1>1. NextPeriod(te) \in Bodies /\ NextPeriod(te).h = te.h
      /\ NextPeriod(te).ts = te.ts + te.interval /\ NextPeriod(te).interval = te.interval
  BY DEF NextPeriod, Bodies, Timers
<1> QED BY <1>1, NumberedType DEF Returns

(* A round of the second loop.                                             *)
LEMMA ReaddNextReadds ==
    ASSUME NEW q, NEW r \in Taking(q), NEW k \in Nat, k < Len(r.taken),
           NEW s \in Readding(r, k)
    PROVE  ReaddNext(s) \in Readding(r, k + 1)
<1> DEFINE L == Len(r.taken)
           te == Head(s.taken)
           rest == Tail(s.taken)
           I == Periodic(r.taken, k)
<1>1. /\ r.taken \in Seq(Timers) /\ L \in Nat /\ r.q \in Queues
      /\ \A i \in 1..L : r.taken[i] \in Timers
  BY DEF Taking
<1>2. /\ s.q \in Queues /\ s.taken \in Seq(Timers)
      /\ SoundQueue(s.q) /\ r.q.next <= s.q.next
      /\ Len(s.taken) = L - k
      /\ \A j \in 1..Len(s.taken) : s.taken[j] = r.taken[k + j]
      /\ \E b : Back(b, I, r, s.q)
      /\ count(s.q.hp) + Len(s.taken) <= count(r.q.hp) + L
      /\ Ordered(r.q.hp) => Ordered(s.q.hp)
  BY DEF Readding
<1>3. Len(s.taken) \in Nat /\ Len(s.taken) > 0 /\ s.taken # << >> /\ 1 \in 1..Len(s.taken)
  BY <1>1, <1>2
<1>4. te = r.taken[k + 1] /\ k + 1 \in 1..L /\ te \in Timers /\ te.interval \in Nat
  <2>1. te = s.taken[1]
    BY <1>2, <1>3
  <2>2. te = r.taken[k + 1] /\ k + 1 \in 1..L
    BY <1>1, <1>2, <1>3, <2>1
  <2> QED BY <1>1, <2>2 DEF Timers
<1>5. /\ rest \in Seq(Timers) /\ Len(rest) = Len(s.taken) - 1
      /\ \A j \in 1..Len(rest) : rest[j] = s.taken[j + 1]
  BY <1>2, <1>3
<1>6. ReaddNext(s) = [q |-> IF te.interval > 0 THEN add_timer(s.q, NextPeriod(te)) ELSE s.q,
                      taken |-> rest]
  BY <1>3 DEF ReaddNext
<1>7. s.q.next \in Nat /\ r.q.next \in Nat /\ Indexed(s.q.hp)
  BY <1>1, <1>2 DEF SoundQueue, Queues
<1>8. count(s.q.hp) \in Nat
  BY <1>7, TimesType
<1>9. count(r.q.hp) \in Nat
  BY TimesType DEF Taking, SoundQueue
<1> HIDE DEF te, rest, L
<1>10. Len(rest) = L - (k + 1) /\ \A j \in 1..Len(rest) : rest[j] = r.taken[(k + 1) + j]
  <2>1. Len(rest) = L - (k + 1)
    BY <1>1, <1>2, <1>5
  <2>2. ASSUME NEW j \in 1..Len(rest) PROVE rest[j] = r.taken[(k + 1) + j]
    <3>1. j + 1 \in 1..Len(s.taken) /\ k + (j + 1) = (k + 1) + j
      BY <1>3, <1>5
    <3> QED BY <1>2, <1>5, <3>1
  <2> QED BY <2>1, <2>2
<1>11. \A i \in 1..L : (i <= k + 1 <=> (i <= k \/ i = k + 1)) /\ (i = k + 1 => ~(i <= k))
  BY <1>1
<1>12. CASE te.interval > 0
  <2> DEFINE q2 == add_timer(s.q, NextPeriod(te))
             new == Numbered(NextPeriod(te), s.q.next)
  <2>1. ReaddNext(s) = [q |-> q2, taken |-> rest]
    BY <1>6, <1>12
  <2>2. NextPeriod(te) \in Bodies /\ Returns(new, te)
    BY <1>4, <1>7, NextPeriodReturns
  <2>3. new \in Timers /\ new.id = s.q.next
    BY <1>7, <2>2, NumberedType
  <2>4. /\ SoundQueue(q2) /\ q2.hp = heap_add(s.q.hp, new) /\ q2.next = s.q.next + 1
        /\ count(q2.hp) = count(s.q.hp) + 1
        /\ Elems(q2.hp.lst) = Elems(s.q.hp.lst) \cup {new}
    BY <1>2, <2>2, AddTimerRight
  <2> HIDE DEF q2, new
  <2>5. Periodic(r.taken, k + 1) = I \cup {k + 1} /\ k + 1 \notin I
    BY <1>4, <1>11, <1>12 DEF Periodic, L
  <2>6. \E c : Back(c, I \cup {k + 1}, r, q2)
    <3>1. PICK b : Back(b, I, r, s.q)
      BY <1>2
    <3> HIDE DEF I
    <3>2. Returns(new, r.taken[k + 1])
      BY <1>4, <2>2
    <3> QED BY <1>2, <1>7, <2>3, <2>4, <2>5, <3>1, <3>2, BackGrows
  <2>7. Ordered(r.q.hp) => Ordered(q2.hp)
    <3>1. new.id \notin Ids(s.q.hp.lst)
      <4>1. \A t \in Elems(s.q.hp.lst) : t \in Timers /\ t.id < s.q.next
        BY <1>2, <1>7, IndexedType DEF SoundQueue, Elems
      <4>2. \A t \in Elems(s.q.hp.lst) : t.id \in Nat /\ t.id # s.q.next
        BY <1>7, <4>1 DEF Timers
      <4> QED BY <2>3, <4>2 DEF Ids
    <3> QED BY <1>2, <1>7, <2>3, <2>4, <3>1, AddOrders
  <2>8. count(q2.hp) + Len(rest) <= count(r.q.hp) + L
    BY <1>1, <1>2, <1>3, <1>5, <1>8, <1>9, <2>4
  <2>9. q2 \in Queues /\ r.q.next <= q2.next
    BY <1>2, <1>7, <2>4 DEF SoundQueue
  <2>10. \E c : Back(c, Periodic(r.taken, k + 1), r, q2)
    BY <2>5, <2>6, Zenon
  <2> DEFINE z == [q |-> q2, taken |-> rest]
  <2>11. z.q = q2 /\ z.taken = rest /\ z \in [q : Queues, taken : Seq(Timers)]
    BY <1>5, <2>9
  <2> HIDE DEF z
  <2>12. z \in Readding(r, k + 1)
    BY <1>10, <2>4, <2>7, <2>8, <2>9, <2>10, <2>11, Zenon DEF Readding, L
  <2> QED BY <2>1, <2>12 DEF z
<1>13. CASE ~(te.interval > 0)
  <2>1. ReaddNext(s) = [q |-> s.q, taken |-> rest]
    BY <1>6, <1>13
  <2>2. Periodic(r.taken, k + 1) = I
    BY <1>4, <1>11, <1>13 DEF Periodic, L
  <2>3. count(s.q.hp) + Len(rest) <= count(r.q.hp) + L
    BY <1>1, <1>2, <1>3, <1>5, <1>8, <1>9
  <2> QED BY <1>2, <1>5, <1>10, <2>1, <2>2, <2>3 DEF Readding, L
<1> QED BY <1>12, <1>13

(* The whole loop: every periodic timer taken is back.                     *)
LEMMA ReaddReadds ==
    ASSUME NEW q, NEW r \in Taking(q)
    PROVE  \E s \in Readding(r, Len(r.taken)) : Readd(r) = s.q
<1> DEFINE L == Len(r.taken)
           J == [k \in Nat |-> Readding(r, IF k <= L THEN k ELSE L)]
           S == [q : Queues, taken : Seq(Timers)]
<1>1. r \in S /\ r.taken \in Seq(Timers) /\ L \in Nat /\ SoundQueue(r.q) /\ r.q.next \in Nat
  BY DEF Taking, SoundQueue, Queues
<1>2. count(r.q.hp) \in Nat
  BY <1>1, TimesType DEF SoundQueue
<1>3. r \in Readding(r, 0)
  <2>1. Periodic(r.taken, 0) = {}
    <3>1. \A i \in 1..L : ~(i <= 0)
      BY <1>1
    <3> QED BY <3>1 DEF Periodic
  <2>2. Back([i \in {} |-> 0], {}, r, r.q)
    BY DEF Back
  <2>3. L = L - 0 /\ \A j \in 1..L : 0 + j = j
    BY <1>1
  <2>4. count(r.q.hp) + L <= count(r.q.hp) + L /\ r.q.next <= r.q.next
    BY <1>1, <1>2
  <2> QED BY <1>1, <2>1, <2>2, <2>3, <2>4 DEF Readding
<1>4. \A k \in Nat : J[k] = Readding(r, IF k <= L THEN k ELSE L) /\ k + 1 \in Nat
  OBVIOUS
<1>5. Readd(r) = Rounds(ReaddNext, r, L).q
  BY DEF Readd
<1> HIDE DEF J, L
<1>6. ASSUME NEW k \in Nat, NEW s \in J[k] PROVE ReaddNext(s) \in J[k + 1]
  <2>1. CASE k < L
    <3>1. k <= L /\ k + 1 <= L
      BY <1>1, <2>1
    <3>2. s \in Readding(r, k) /\ J[k + 1] = Readding(r, k + 1)
      BY <1>4, <3>1
    <3> QED BY <2>1, <3>2, ReaddNextReadds DEF L
  <2>2. CASE ~(k < L)
    <3>1. (IF k <= L THEN k ELSE L) = L /\ (IF k + 1 <= L THEN k + 1 ELSE L) = L
      BY <1>1, <2>2
    <3>2. s \in Readding(r, L) /\ J[k + 1] = Readding(r, L)
      BY <1>4, <3>1
    <3>3. s.taken \in Seq(Timers) /\ Len(s.taken) = 0
      BY <1>1, <3>2 DEF Readding, L
    <3>4. s.taken = << >>
      BY <3>3
    <3> QED BY <3>2, <3>4 DEF ReaddNext
  <2> QED BY <2>1, <2>2
<1>7. r \in J[0] /\ \A k \in Nat : J[k] \subseteq S
  <2>1. (IF 0 <= L THEN 0 ELSE L) = 0
    BY <1>1
  <2> QED BY <1>3, <1>4, <2>1 DEF Readding
<1>8. Rounds(ReaddNext, r, L) \in J[L]
  BY <1>1, <1>6, <1>7, ReaddNextRounds
<1>9. J[L] = Readding(r, L)
  BY <1>1, <1>4
<1> QED BY <1>5, <1>8, <1>9 DEF L

-----------------------------------------------------------------------------
(* States.                                                                 *)

(* The queue is sound and _pioneer ahead of it, so that a timerfd that was *)
(* reported has expired for _pioneer unless the queue was touched since.   *)
(* Every timer in the queue was added, or stands for one that was.         *)
IInv ==
    /\ now \in Nat /\ now >= 1
    /\ SoundQueue(Queue)
    /\ Ahead(Queue)
    /\ pc \in {"poll", "batch", "callbacks"}
    /\ fired_evs \in Seq(Timers)
    /\ pc # "callbacks" => fired_evs = << >>
    /\ touched \in BOOLEAN /\ (touched => pc = "batch")
    /\ pc = "batch" /\ ~touched => timerfd # 0 /\ timerfd <= now
    /\ adds \in Nat /\ adds <= MaxAdds /\ count(Heap) <= adds
    /\ dels \in Nat /\ dels <= MaxDels

(* Without run_at(0), every time is positive.                              *)
Positive ==
    0 \notin RunAtTimes =>
        pioneer # 0 /\ \A t \in Elems(event_lst) : t.ts >= 1

(* Within the limits of DelOrders, the heap is ordered.                    *)
Small == MaxDels = 0 \/ MaxAdds <= 5
SmallOrdered == Small => Ordered(Heap)

FullInv == IInv /\ Positive /\ SmallOrdered

(* What SetQueue makes of the variables.                                   *)
LEMMA QueueSet ==
    ASSUME NEW q, SoundQueue(q), SetQueue(q)
    PROVE  /\ Queue' = q /\ Heap' = q.hp
           /\ event_lst' = q.hp.lst /\ position' = q.hp.pos
           /\ pioneer' = q.pioneer /\ next_timer_id' = q.next /\ timerfd' = q.fd
<1>1. /\ event_lst' = q.hp.lst /\ position' = q.hp.pos
      /\ pioneer' = q.pioneer /\ next_timer_id' = q.next /\ timerfd' = q.fd
  BY DEF SetQueue
<1>2. q \in Queues /\ Indexed(q.hp)
  BY DEF SoundQueue
<1>3. q.hp = [lst |-> q.hp.lst, pos |-> q.hp.pos]
  BY <1>2, IndexedType
<1>4. q = [hp |-> q.hp, pioneer |-> q.pioneer, next |-> q.next, fd |-> q.fd]
  BY <1>2, QueueRecord
<1>5. Heap' = q.hp
  BY <1>1, <1>3, Zenon DEF Heap
<1>6. Queue' = [hp |-> Heap', pioneer |-> pioneer', next |-> next_timer_id', fd |-> timerfd']
  BY DEF Queue
<1>7. Queue' = q
  BY <1>1, <1>4, <1>5, <1>6, Zenon
<1> QED BY <1>1, <1>5, <1>7

(* What the queue's parts are.                                             *)
LEMMA QueueParts ==
    /\ Queue.hp = Heap /\ Queue.pioneer = pioneer /\ Queue.next = next_timer_id
    /\ Queue.fd = timerfd /\ Heap.lst = event_lst /\ Heap.pos = position
  BY DEF Queue, Heap

(* get_timo: the loops, and then the timerfd is armed for the top.         *)
LEMMA GetTimoRight ==
    ASSUME SoundQueue(Queue), get_timo
    PROVE  \E r \in Taking(Queue) : \E s \in Readding(r, Len(r.taken)) :
              /\ fired_evs' = r.taken
              /\ Heap' = s.q.hp /\ event_lst' = s.q.hp.lst /\ next_timer_id' = s.q.next
              /\ SoundQueue(Queue') /\ Ahead(Queue')
              /\ pioneer' = NoPioneer \/ (count(Heap') # 0 /\ pioneer' = ts(Heap', 0))
<1> DEFINE r == TakeFired(Queue)
           left == Readd(r)
           to == NextPioneer(left)
           new == reset_timo(left, to)
<1>1. r \in Taking(Queue)
  BY TakeFiredTakes
<1>2. fired_evs' = r.taken /\ SetQueue(new)
  BY DEF get_timo
<1> HIDE DEF r
<1>3. PICK s \in Readding(r, Len(r.taken)) : left = s.q
  BY <1>1, ReaddReadds
<1>4. SoundQueue(left) /\ Indexed(left.hp)
  BY <1>3 DEF Readding, SoundQueue
<1>5. count(left.hp) \in Nat /\ (count(left.hp) # 0 => ts(left.hp, 0) \in Nat)
  BY <1>4, TimesType
<1>6. to = IF count(left.hp) = 0 THEN NoPioneer ELSE ts(left.hp, 0)
  BY DEF NextPioneer
<1> HIDE DEF left, to
<1>7. to \in Nat \cup {NoPioneer}
  BY <1>5, <1>6
<1>8. SoundQueue(new) /\ new.hp = left.hp /\ new.next = left.next /\ new.pioneer = to
  BY <1>4, <1>7, ResetSound
<1> HIDE DEF new
<1>9. Ahead(new)
  BY <1>5, <1>6, <1>8 DEF Ahead
<1>10. /\ Queue' = new /\ Heap' = new.hp /\ event_lst' = new.hp.lst
       /\ pioneer' = new.pioneer /\ next_timer_id' = new.next
  BY <1>2, <1>8, QueueSet
<1>11. to = NoPioneer \/ (count(left.hp) # 0 /\ to = ts(left.hp, 0))
  BY <1>6
<1>12. /\ fired_evs' = r.taken
       /\ Heap' = s.q.hp /\ event_lst' = s.q.hp.lst /\ next_timer_id' = s.q.next
       /\ SoundQueue(Queue') /\ Ahead(Queue')
       /\ pioneer' = NoPioneer \/ (count(Heap') # 0 /\ pioneer' = ts(Heap', 0))
  BY <1>2, <1>3, <1>8, <1>9, <1>10, <1>11
<1> QED BY <1>1, <1>12

(* The initial state.                                                      *)
LEMMA InitInv ==
    ASSUME Init
    PROVE  FullInv
<1>1. Heap = [lst |-> << >>, pos |-> << >>] /\ count(Heap) = 0 /\ Heap.lst = << >>
  BY DEF Init, Heap, count
<1>2. Elems(<< >>) = {} /\ Ids(<< >>) = {}
  BY DEF Elems, Ids
<1>3. Indexed(Heap)
  <2>1. << >> \in Seq(Timers) /\ Len(<< >>) = 0 /\ \A i \in 1..0 : FALSE
    OBVIOUS
  <2>2. << >> \in [{} -> Nat]
    OBVIOUS
  <2> QED BY <1>1, <1>2, <2>1, <2>2, IndexedIntro
<1>4. /\ Queue.hp = Heap /\ Queue.pioneer = NoPioneer /\ Queue.next = 0 /\ Queue.fd = 0
      /\ Queue \in Queues
  BY <1>3 DEF Init, Queue, Queues, Indexed
<1>5. SoundQueue(Queue) /\ Ahead(Queue)
  BY <1>1, <1>2, <1>3, <1>4 DEF SoundQueue, Ahead
<1>6. \A p \in 1..(0 - 1) : FALSE
  OBVIOUS
<1>7. Ordered(Heap)
  BY <1>1, <1>6 DEF Ordered
<1>8. << >> \in Seq(Timers)
  OBVIOUS
<1>9. IInv
  <2>1. /\ now \in Nat /\ now >= 1 /\ adds \in Nat /\ adds <= MaxAdds /\ count(Heap) <= adds
        /\ dels \in Nat /\ dels <= MaxDels
    BY <1>1, TimerQueueAssumption DEF Init
  <2>2. pc = "poll" /\ fired_evs = << >> /\ touched = FALSE
    BY DEF Init
  <2>3. pc \in {"poll", "batch", "callbacks"} /\ pc # "batch"
    BY <2>2
  <2>4. touched \in BOOLEAN /\ ~touched
    BY <2>2
  <2> QED BY <1>5, <1>8, <2>1, <2>2, <2>3, <2>4, Zenon DEF IInv
<1>10. Positive
  BY <1>2 DEF Init, Positive, NoPioneer
<1> QED BY <1>7, <1>9, <1>10 DEF FullInv, SmallOrdered

(* A step that leaves the queue alone keeps what is said of it.            *)
LEMMA SameQueue ==
    ASSUME UNCHANGED queueVars
    PROVE  /\ Queue' = Queue /\ Heap' = Heap
           /\ Positive => Positive'
           /\ SmallOrdered => SmallOrdered'
<1>1. Queue' = Queue /\ Heap' = Heap
  BY DEF queueVars, Queue, Heap
<1>2. Positive => Positive'
  BY DEF queueVars, Positive, Elems
<1>3. SmallOrdered => SmallOrdered'
  BY <1>1 DEF SmallOrdered, Small, Ordered, count, ts, Parent
<1> QED BY <1>1, <1>2, <1>3

(* The application adds a timer.                                           *)
LEMMA AppAddsInv ==
    ASSUME FullInv, NEW t \in Nat, NEW i \in Nat, AppAdds(t, i),
           0 \notin RunAtTimes => t >= 1
    PROVE  FullInv'
<1> DEFINE te == [h |-> next_timer_id, ts |-> t, interval |-> i]
           q == add_timer(Queue, te)
           new == Numbered(te, next_timer_id)
<1>1. /\ adds < MaxAdds /\ adds' = adds + 1 /\ SetQueue(q)
      /\ touched' = (pc = "batch")
      /\ UNCHANGED <<now, pc, fired_evs, dels, deleted>>
  BY DEF AppAdds
<1>2. IInv /\ Positive /\ SmallOrdered /\ SoundQueue(Queue)
  BY DEF FullInv, IInv
<1>3. next_timer_id \in Nat /\ Indexed(Heap)
  BY <1>2, QueueParts DEF SoundQueue, Queues
<1>4. te \in Bodies
  BY <1>3 DEF Bodies
<1>5. new \in Timers /\ new.id = next_timer_id /\ new.ts = t
  BY <1>3, <1>4, NumberedType
<1>6. /\ SoundQueue(q) /\ Ahead(q) /\ PioneerFrom(q, Queue)
      /\ q.hp = heap_add(Heap, new)
      /\ count(q.hp) = count(Heap) + 1
      /\ Elems(q.hp.lst) = Elems(event_lst) \cup {new}
  BY <1>2, <1>4, AddTimerRight, QueueParts
<1> HIDE DEF q, new
<1>7. /\ Queue' = q /\ Heap' = q.hp /\ event_lst' = q.hp.lst /\ pioneer' = q.pioneer
  BY <1>1, <1>6, QueueSet
<1>8. count(Heap) \in Nat
  BY <1>3, TimesType
<1>9. IInv'
  <2>1. count(Heap') <= adds'
    BY <1>1, <1>2, <1>6, <1>7, <1>8 DEF IInv
  <2>2. SoundQueue(Queue') /\ Ahead(Queue')
    BY <1>6, <1>7
  <2>3. /\ now' \in Nat /\ now' >= 1 /\ pc' \in {"poll", "batch", "callbacks"}
        /\ fired_evs' \in Seq(Timers) /\ (pc' # "callbacks" => fired_evs' = << >>)
        /\ touched' \in BOOLEAN /\ (touched' => pc' = "batch")
        /\ ~(pc' = "batch" /\ ~touched')
        /\ dels' \in Nat /\ dels' <= MaxDels
    BY <1>1, <1>2 DEF IInv
  <2>4. adds' \in Nat /\ adds' <= MaxAdds
    BY <1>1, <1>2, TimerQueueAssumption DEF IInv
  <2> QED BY <2>1, <2>2, <2>3, <2>4 DEF IInv
<1>10. Positive'
  <2> SUFFICES ASSUME 0 \notin RunAtTimes
               PROVE  pioneer' # 0 /\ \A x \in Elems(event_lst') : x.ts >= 1
    BY DEF Positive
  <2>1. pioneer # 0 /\ \A x \in Elems(event_lst) : x.ts >= 1
    BY <1>2 DEF Positive
  <2>2. \A x \in Elems(event_lst') : x.ts >= 1
    BY <1>5, <1>6, <1>7, <2>1
  <2>3. count(q.hp) # 0 => ts(q.hp, 0) >= 1
    <3>1. Indexed(q.hp)
      BY <1>6 DEF SoundQueue
    <3>2. count(q.hp) # 0 => 1 \in 1..Len(q.hp.lst)
      BY <3>1, IndexedType
    <3> QED BY <1>7, <2>2, <3>2 DEF Elems, ts
  <2>4. pioneer' # 0
    BY <1>6, <1>7, <2>1, <2>3, QueueParts DEF PioneerFrom, NoPioneer
  <2> QED BY <2>2, <2>4
<1>11. SmallOrdered'
  <2> SUFFICES ASSUME Small PROVE Ordered(Heap')
    BY DEF SmallOrdered, Small, Ordered, count, ts, Parent
  <2>1. Ordered(Heap)
    BY <1>2 DEF SmallOrdered
  <2>2. new.id \notin Ids(Heap.lst)
    <3>1. \A x \in Elems(Heap.lst) : x \in Timers /\ x.id < next_timer_id
      BY <1>2, <1>3, IndexedType, QueueParts DEF SoundQueue, Elems
    <3>2. \A x \in Elems(Heap.lst) : x.id \in Nat /\ x.id # next_timer_id
      BY <1>3, <3>1 DEF Timers
    <3> QED BY <1>5, <3>2 DEF Ids
  <2> QED BY <1>3, <1>5, <1>6, <1>7, <2>1, <2>2, AddOrders
<1> QED BY <1>9, <1>10, <1>11 DEF FullInv

(* The application deletes a timer.                                        *)
LEMMA AppDeletesInv ==
    ASSUME FullInv, NEW id, AppDeletes(id)
    PROVE  FullInv'
<1> DEFINE q == del_timer(Queue, id)
<1>1. /\ dels < MaxDels /\ dels' = dels + 1 /\ SetQueue(q)
      /\ touched' = (pc = "batch")
      /\ UNCHANGED <<now, pc, fired_evs, adds>>
  BY DEF AppDeletes
<1>2. IInv /\ Positive /\ SmallOrdered /\ SoundQueue(Queue) /\ Ahead(Queue)
  BY DEF FullInv, IInv
<1>3. Indexed(Heap)
  BY <1>2, QueueParts DEF SoundQueue
<1>4. /\ SoundQueue(q) /\ Ahead(q) /\ PioneerFrom(q, Queue)
      /\ Elems(q.hp.lst) = {t \in Elems(event_lst) : t.id # id}
      /\ \/ q.hp = Heap
         \/ \E p \in 0..(count(Heap) - 1) :
               q.hp = heap_del(Heap, p) /\ count(q.hp) = count(Heap) - 1
  BY <1>2, DelTimerRight, QueueParts
<1> HIDE DEF q
<1>5. /\ Queue' = q /\ Heap' = q.hp /\ event_lst' = q.hp.lst /\ pioneer' = q.pioneer
  BY <1>1, <1>4, QueueSet
<1>6. count(Heap) \in Nat
  BY <1>3, TimesType
<1>7. IInv'
  <2>1. count(Heap') <= adds'
    <3>1. count(q.hp) = count(Heap) \/ count(q.hp) = count(Heap) - 1
      BY <1>4
    <3> QED BY <1>1, <1>2, <1>5, <1>6, <3>1 DEF IInv
  <2>2. SoundQueue(Queue') /\ Ahead(Queue')
    BY <1>4, <1>5
  <2>3. /\ now' \in Nat /\ now' >= 1 /\ pc' \in {"poll", "batch", "callbacks"}
        /\ fired_evs' \in Seq(Timers) /\ (pc' # "callbacks" => fired_evs' = << >>)
        /\ touched' \in BOOLEAN /\ (touched' => pc' = "batch")
        /\ ~(pc' = "batch" /\ ~touched')
        /\ adds' \in Nat /\ adds' <= MaxAdds
    BY <1>1, <1>2 DEF IInv
  <2>4. dels' \in Nat /\ dels' <= MaxDels
    BY <1>1, <1>2, TimerQueueAssumption DEF IInv
  <2> QED BY <2>1, <2>2, <2>3, <2>4 DEF IInv
<1>8. Positive'
  <2> SUFFICES ASSUME 0 \notin RunAtTimes
               PROVE  pioneer' # 0 /\ \A x \in Elems(event_lst') : x.ts >= 1
    BY DEF Positive
  <2>1. pioneer # 0 /\ \A x \in Elems(event_lst) : x.ts >= 1
    BY <1>2 DEF Positive
  <2>2. \A x \in Elems(event_lst') : x.ts >= 1
    BY <1>4, <1>5, <2>1
  <2>3. count(q.hp) # 0 => ts(q.hp, 0) >= 1
    <3>1. Indexed(q.hp)
      BY <1>4 DEF SoundQueue
    <3>2. count(q.hp) # 0 => 1 \in 1..Len(q.hp.lst)
      BY <3>1, IndexedType
    <3> QED BY <1>5, <2>2, <3>2 DEF Elems, ts
  <2>4. pioneer' # 0
    BY <1>4, <1>5, <2>1, <2>3, QueueParts DEF PioneerFrom, NoPioneer
  <2> QED BY <2>2, <2>4
<1>9. SmallOrdered'
  <2> SUFFICES ASSUME Small PROVE Ordered(Heap')
    BY DEF SmallOrdered, Small, Ordered, count, ts, Parent
  <2>1. Ordered(Heap)
    BY <1>2 DEF SmallOrdered
  <2>2. MaxDels # 0
    BY <1>1, <1>2, TimerQueueAssumption DEF IInv
  <2>3. count(Heap) <= 5
    <3>1. adds \in Nat /\ adds <= MaxAdds /\ count(Heap) <= adds /\ MaxAdds \in Nat
      BY <1>2, TimerQueueAssumption DEF IInv
    <3>2. MaxAdds <= 5
      BY <2>2 DEF Small
    <3> QED BY <1>6, <3>1, <3>2
  <2> QED BY <1>3, <1>4, <1>5, <2>1, <2>3, DelOrders
<1> QED BY <1>7, <1>8, <1>9 DEF FullInv

(* timerqueue_cb takes the timers that fired.                              *)
LEMMA CallbackInv ==
    ASSUME FullInv, timerqueue_cb
    PROVE  FullInv'
<1>1. /\ pc = "batch" /\ get_timo /\ pc' = "callbacks" /\ touched' = FALSE
      /\ UNCHANGED <<now, adds, dels, deleted>>
  BY DEF timerqueue_cb
<1>2. IInv /\ Positive /\ SmallOrdered /\ SoundQueue(Queue)
  BY DEF FullInv, IInv
<1>3. PICK r \in Taking(Queue) : \E s \in Readding(r, Len(r.taken)) :
         /\ fired_evs' = r.taken
         /\ Heap' = s.q.hp /\ event_lst' = s.q.hp.lst
         /\ SoundQueue(Queue') /\ Ahead(Queue')
         /\ pioneer' = NoPioneer \/ (count(Heap') # 0 /\ pioneer' = ts(Heap', 0))
  BY <1>1, <1>2, GetTimoRight
<1>4. PICK s \in Readding(r, Len(r.taken)) :
         /\ fired_evs' = r.taken
         /\ Heap' = s.q.hp /\ event_lst' = s.q.hp.lst
         /\ SoundQueue(Queue') /\ Ahead(Queue')
         /\ pioneer' = NoPioneer \/ (count(Heap') # 0 /\ pioneer' = ts(Heap', 0))
  BY <1>3
<1>5. /\ r.taken \in Seq(Timers) /\ SoundQueue(r.q)
      /\ count(r.q.hp) + Len(r.taken) = count(Heap)
      /\ Elems(r.q.hp.lst) \cup Elems(r.taken) = Elems(event_lst)
      /\ Ordered(Heap) => Ordered(r.q.hp)
  BY QueueParts DEF Taking
<1>6. /\ s.taken \in Seq(Timers) /\ SoundQueue(s.q)
      /\ count(s.q.hp) + Len(s.taken) <= count(r.q.hp) + Len(r.taken)
      /\ Ordered(r.q.hp) => Ordered(s.q.hp)
      /\ \E b : Back(b, Periodic(r.taken, Len(r.taken)), r, s.q)
  BY DEF Readding
<1>7. Indexed(Heap) /\ Indexed(s.q.hp)
  BY <1>2, <1>6, QueueParts DEF SoundQueue
<1>8. count(Heap) \in Nat /\ count(s.q.hp) \in Nat
  BY <1>7, TimesType
<1>9. count(Heap') <= count(Heap)
  <2>1. Len(s.taken) \in Nat
    BY <1>6
  <2>2. count(s.q.hp) + Len(s.taken) <= count(Heap)
    BY <1>5, <1>6
  <2> QED BY <1>4, <1>8, <2>1, <2>2
<1>10. IInv'
  <2>1. count(Heap') <= adds' /\ adds' \in Nat /\ adds' <= MaxAdds
    BY <1>1, <1>2, <1>4, <1>8, <1>9 DEF IInv
  <2>2. pc' \in {"poll", "batch", "callbacks"} /\ ~(pc' # "callbacks") /\ pc' # "batch"
    BY <1>1
  <2>3. touched' \in BOOLEAN /\ ~touched'
    BY <1>1
  <2>4. now' \in Nat /\ now' >= 1 /\ dels' \in Nat /\ dels' <= MaxDels
    BY <1>1, <1>2 DEF IInv
  <2>5. fired_evs' \in Seq(Timers)
    BY <1>4, <1>5
  <2> QED BY <1>4, <2>1, <2>2, <2>3, <2>4, <2>5, Zenon DEF IInv
<1>11. Positive'
  <2> SUFFICES ASSUME 0 \notin RunAtTimes
               PROVE  pioneer' # 0 /\ \A x \in Elems(event_lst') : x.ts >= 1
    BY DEF Positive
  <2>1. \A x \in Elems(event_lst) : x.ts >= 1
    BY <1>2 DEF Positive
  <2>2. PICK b : Back(b, Periodic(r.taken, Len(r.taken)), r, s.q)
    BY <1>6
  <2>3. ASSUME NEW i \in Periodic(r.taken, Len(r.taken)) PROVE b[i].ts >= 1
    <3>1. i \in 1..Len(r.taken)
      BY DEF Periodic
    <3>2. r.taken[i] \in Timers /\ r.taken[i] \in Elems(r.taken)
      BY <1>5, <3>1 DEF Elems
    <3>3. r.taken[i].ts \in Nat /\ r.taken[i].interval \in Nat /\ r.taken[i].ts >= 1
      BY <1>5, <2>1, <3>2 DEF Timers
    <3>4. b[i].ts = r.taken[i].ts + r.taken[i].interval
      BY <2>2 DEF Back, Returns
    <3> QED BY <3>3, <3>4
  <2>4. \A x \in Elems(event_lst') : x.ts >= 1
    BY <1>4, <1>5, <2>1, <2>2, <2>3 DEF Back
  <2>5. count(Heap') # 0 => ts(Heap', 0) >= 1
    <3>1. count(s.q.hp) # 0 => 1 \in 1..Len(s.q.hp.lst)
      BY <1>7, IndexedType
    <3> QED BY <1>4, <2>4, <3>1 DEF Elems, ts
  <2>6. pioneer' # 0
    BY <1>4, <2>5 DEF NoPioneer
  <2> QED BY <2>4, <2>6
<1>12. SmallOrdered'
  <2> SUFFICES ASSUME Small PROVE Ordered(Heap')
    BY DEF SmallOrdered, Small, Ordered, count, ts, Parent
  <2>1. Ordered(Heap)
    BY <1>2 DEF SmallOrdered
  <2> QED BY <1>4, <1>5, <1>6, <2>1
<1> QED BY <1>10, <1>11, <1>12 DEF FullInv

(* The steps that leave the queue alone.                                   *)
LEMMA QuietInv ==
    ASSUME FullInv,
           tick \/ epoll_wait \/ run_callback \/ callbacks_done \/ UNCHANGED vars
    PROVE  FullInv'
<1>1. UNCHANGED queueVars
  BY DEF tick, epoll_wait, run_callback, callbacks_done, vars
<1>2. /\ Queue' = Queue /\ Heap' = Heap /\ timerfd' = timerfd
      /\ Positive => Positive'
      /\ SmallOrdered => SmallOrdered'
  BY <1>1, SameQueue DEF queueVars
<1>3. IInv /\ Positive /\ SmallOrdered
  BY DEF FullInv
<1>4. UNCHANGED appVars
  BY DEF tick, epoll_wait, run_callback, callbacks_done, vars
<1>5. UNCHANGED <<adds, dels, touched>>
  BY <1>4 DEF appVars
<1>6. SoundQueue(Queue') /\ Ahead(Queue') /\ count(Heap') <= adds'
  BY <1>2, <1>3, <1>5 DEF IInv
<1>7. /\ touched' \in BOOLEAN /\ adds' \in Nat /\ adds' <= MaxAdds
      /\ dels' \in Nat /\ dels' <= MaxDels
  BY <1>3, <1>5, Zenon DEF IInv
<1>8. /\ now' \in Nat /\ now' >= 1 /\ pc' \in {"poll", "batch", "callbacks"}
      /\ fired_evs' \in Seq(Timers) /\ (pc' # "callbacks" => fired_evs' = << >>)
      /\ touched' => pc' = "batch"
      /\ pc' = "batch" /\ ~touched' => timerfd' # 0 /\ timerfd' <= now'
  <2>1. /\ now \in Nat /\ now >= 1 /\ pc \in {"poll", "batch", "callbacks"}
        /\ fired_evs \in Seq(Timers) /\ (pc # "callbacks" => fired_evs = << >>)
        /\ touched => pc = "batch"
        /\ pc = "batch" /\ ~touched => timerfd # 0 /\ timerfd <= now
        /\ timerfd \in Nat
    BY <1>3, QueueParts DEF IInv, SoundQueue, Queues
  <2>2. CASE tick
    BY <1>2, <1>5, <2>1, <2>2 DEF tick
  <2>3. CASE epoll_wait
    BY <1>2, <1>5, <2>1, <2>3 DEF epoll_wait
  <2>4. CASE run_callback
    <3>1. fired_evs' \in Seq(Timers)
      BY <2>1, <2>4 DEF run_callback
    <3> QED BY <1>2, <1>5, <2>1, <2>4, <3>1 DEF run_callback
  <2>5. CASE callbacks_done
    BY <1>2, <1>5, <2>1, <2>5 DEF callbacks_done
  <2>6. CASE UNCHANGED vars
    BY <1>2, <1>5, <2>1, <2>6 DEF vars
  <2> QED BY <2>2, <2>3, <2>4, <2>5, <2>6
<1>9. IInv'
  BY <1>6, <1>7, <1>8, Zenon DEF IInv
<1> QED BY <1>2, <1>3, <1>9 DEF FullInv

(* The invariant is inductive.                                             *)
LEMMA StepInv ==
    ASSUME FullInv, [Next]_vars
    PROVE  FullInv'
<1>1. now \in Nat /\ now >= 1
  BY DEF FullInv, IInv
<1>2. ASSUME NEW t \in RunAtTimes, run_at(t) PROVE FullInv'
  <2>1. t \in Nat /\ (0 \notin RunAtTimes => t >= 1)
    BY TimerQueueAssumption
  <2>2. AppAdds(t, 0)
    BY <1>2 DEF run_at
  <2> QED BY <2>1, <2>2, AppAddsInv
<1>3. ASSUME NEW d \in Delays, run_after(d) PROVE FullInv'
  <2>1. now + d \in Nat /\ now + d >= 1
    BY <1>1, TimerQueueAssumption
  <2>2. AppAdds(now + d, 0)
    BY <1>3 DEF run_after
  <2> QED BY <2>1, <2>2, AppAddsInv
<1>4. ASSUME NEW i \in Intervals, run_every(i) PROVE FullInv'
  <2>1. now + i \in Nat /\ now + i >= 1 /\ i \in Nat
    BY <1>1, TimerQueueAssumption
  <2>2. AppAdds(now + i, i)
    BY <1>4 DEF run_every
  <2> QED BY <2>1, <2>2, AppAddsInv
<1>5. ASSUME NEW id \in Handles, AppDeletes(id) PROVE FullInv'
  BY <1>5, AppDeletesInv
<1>6. CASE timerqueue_cb
  BY <1>6, CallbackInv
<1>7. CASE tick \/ epoll_wait \/ run_callback \/ callbacks_done \/ UNCHANGED vars
  BY <1>7, QuietInv
<1> QED BY <1>2, <1>3, <1>4, <1>5, <1>6, <1>7, Zenon DEF Next, Loop, App

(* The invariant holds in every state of every behaviour.                  *)
LEMMA Invariance == Spec => []FullInv
<1>1. Init => FullInv
  BY InitInv
<1>2. FullInv /\ [Next]_vars => FullInv'
  BY StepInv
<1> QED BY <1>1, <1>2, PTL DEF Spec

(* An exact index is PositionMap.                                          *)
LEMMA IndexedPositions ==
    ASSUME FullInv
    PROVE  PositionMap
<1>1. Indexed(Heap)
  BY QueueParts DEF FullInv, IInv, SoundQueue
<1>2. DOMAIN position = Ids(event_lst)
      /\ \A i \in 1..Len(event_lst) : position[event_lst[i].id] = i - 1
  BY <1>1, QueueParts DEF Indexed
<1>3. Ids(event_lst) = {event_lst[i].id : i \in 1..Len(event_lst)}
  BY DEF Ids, Elems
<1> QED BY <1>2, <1>3 DEF PositionMap

(* The index _position is exact in every state, whatever the application   *)
(* adds and deletes: del_timer never deletes another timer than it is      *)
(* asked to, however broken the order of the heap may be.                  *)
THEOREM IndexIsExact == Spec => []PositionMap
<1>1. FullInv => PositionMap
  BY IndexedPositions
<1> QED BY <1>1, Invariance, PTL

(* The order of the heap is HeapOrder.                                     *)
LEMMA OrderedOrder ==
    Ordered(Heap) <=> HeapOrder
  BY QueueParts DEF Ordered, HeapOrder, count

(* The heap is indexed and ordered for as long as no timer is deleted, or  *)
(* no more than five are added.  The behaviour of the sixth is what the    *)
(* run timer_sift shows.                                                   *)
THEOREM HeapIsRight ==
    ASSUME MaxDels = 0 \/ MaxAdds <= 5
    PROVE  Spec => []HeapOK
<1>1. FullInv => HeapOK
  <2> SUFFICES ASSUME FullInv PROVE HeapOK
    OBVIOUS
  <2>1. Ordered(Heap)
    BY DEF FullInv, SmallOrdered, Small
  <2> QED BY <2>1, IndexedPositions, OrderedOrder DEF HeapOK
<1> QED BY <1>1, Invariance, PTL

(* Whenever the order holds, the timerfd is armed in time, at any point of *)
(* the loop: only a broken order, or run_at(0), makes a timer late.        *)
LEMMA OrderArms ==
    ASSUME FullInv, HeapOrder, 0 \notin RunAtTimes
    PROVE  ArmedInTime
<1>1. /\ SoundQueue(Queue) /\ Ahead(Queue) /\ Indexed(Heap) /\ pioneer # 0
      /\ timerfd = IF pioneer = NoPioneer THEN 0 ELSE pioneer
      /\ Ordered(Heap)
  BY QueueParts, OrderedOrder DEF FullInv, IInv, Positive, SoundQueue
<1>2. /\ count(Heap) \in Nat /\ count(Heap) = Len(event_lst)
      /\ \A i \in 0..(count(Heap) - 1) : ts(Heap, i) \in Nat
  BY <1>1, TimesType, QueueParts DEF count
<1>3. ASSUME NEW i \in 1..Len(event_lst) PROVE timerfd # 0 /\ timerfd <= event_lst[i].ts
  <2>1. i - 1 \in 0..(count(Heap) - 1) /\ count(Heap) # 0 /\ (i - 1) + 1 = i
    BY <1>2
  <2>2. pioneer \in Nat /\ pioneer <= ts(Heap, 0)
    BY <1>1, <2>1, QueueParts DEF Ahead
  <2>3. ts(Heap, 0) <= ts(Heap, i - 1)
    BY <1>1, <2>1, TopIsFirst
  <2>4. ts(Heap, i - 1) = event_lst[i].ts
    BY <2>1, QueueParts DEF ts
  <2>5. timerfd = pioneer
    BY <1>1, <2>2 DEF NoPioneer
  <2>6. ts(Heap, 0) \in Nat /\ ts(Heap, i - 1) \in Nat
    BY <1>2, <2>1
  <2> QED BY <1>1, <2>2, <2>3, <2>4, <2>5, <2>6
<1> QED BY <1>3 DEF ArmedInTime

(* No timer is late but for a heap out of order or a call of run_at(0),    *)
(* whose time is the one that disarms a timerfd.                           *)
THEOREM OnlyDisorderDelays ==
    ASSUME 0 \notin RunAtTimes
    PROVE  Spec => [](HeapOrder => ArmedInTime)
<1>1. FullInv => (HeapOrder => ArmedInTime)
  BY OrderArms
<1> QED BY <1>1, Invariance, PTL

(* So the timerfd is armed in time under the conditions of HeapIsRight.    *)
THEOREM ArmedWhileSmall ==
    ASSUME 0 \notin RunAtTimes, MaxDels = 0 \/ MaxAdds <= 5
    PROVE  Spec => []ArmedInTime
<1>1. FullInv => ArmedInTime
  <2> SUFFICES ASSUME FullInv PROVE ArmedInTime
    OBVIOUS
  <2>1. HeapOrder
    BY OrderedOrder DEF FullInv, SmallOrdered, Small
  <2> QED BY <2>1, OrderArms
<1> QED BY <1>1, Invariance, PTL

-----------------------------------------------------------------------------
(* The timer service.                                                      *)

(* A set counts as many elements as the indices it is listed by.           *)
LEMMA Listed ==
    ASSUME NEW K, IsFiniteSet(K), NEW f, \A i, j \in K : f[i] = f[j] => i = j
    PROVE  Cardinality({f[i] : i \in K}) = Cardinality(K)
<1> DEFINE T == {f[i] : i \in K}
           g == [i \in K |-> f[i]]
<1>1. g \in [K -> T]
  OBVIOUS
<1>2. IsInjective(g)
  BY DEF IsInjective
<1>3. \A t \in T : \E i \in K : g[i] = t
  OBVIOUS
<1>4. g \in Bijection(K, T)
  <2> HIDE DEF g, T
  <2> QED BY <1>1, <1>2, <1>3 DEF Bijection, Injection, Surjection
<1>5. ExistsBijection(K, T)
  <2> HIDE DEF g, T
  <2> QED BY <1>4 DEF ExistsBijection
<1> HIDE DEF T
<1>6. Cardinality(T) = Cardinality(K)
  BY <1>5, FS_Bijection
<1> QED BY <1>6 DEF T

BodyOf(t) == [h |-> t.h, ts |-> t.ts, interval |-> t.interval]

(* A timer that returns has the body of the next period.                   *)
LEMMA ReturnsBody ==
    ASSUME NEW u, NEW t, Returns(u, t)
    PROVE  BodyOf(u) = NextPeriod(t)
  BY DEF Returns, BodyOf, NextPeriod

(* What get_timo takes and gives back, in terms of the sets of timers.     *)
LEMMA TakenAndBack ==
    ASSUME NEW q, SoundQueue(q), NEW r \in Taking(q), NEW s \in Readding(r, Len(r.taken)),
           NEW old, old = Elems(q.hp.lst), NEW new, new = Elems(s.q.hp.lst)
    PROVE  /\ Elems(r.taken) = old \ new
           /\ Len(r.taken) = Cardinality(old \ new)
           /\ \A t \in old \ new : t.interval > 0 =>
                 Cardinality({u \in new \ old : BodyOf(u) = NextPeriod(t)})
                 = Cardinality({u \in old \ new : NextPeriod(u) = NextPeriod(t) /\ u.interval > 0})
           /\ \A u \in new \ old : \E t \in old \ new :
                 t.interval > 0 /\ BodyOf(u) = NextPeriod(t)
<1> DEFINE L == Len(r.taken)
           I == Periodic(r.taken, L)
<1>1. /\ r.taken \in Seq(Timers) /\ L \in Nat /\ r.q.next = q.next
      /\ Elems(r.q.hp.lst) \cup Elems(r.taken) = old
      /\ Elems(r.q.hp.lst) \cap Elems(r.taken) = {}
      /\ \A i, j \in 1..L : r.taken[i] = r.taken[j] => i = j
  BY DEF Taking
<1>2. PICK b : Back(b, I, r, s.q)
  BY DEF Readding
<1>3. /\ b \in [I -> Timers]
      /\ \A i, j \in I : b[i] = b[j] => i = j
      /\ \A i \in I : Returns(b[i], r.taken[i]) /\ q.next <= b[i].id
      /\ new = Elems(r.q.hp.lst) \cup {b[i] : i \in I}
  BY <1>1, <1>2 DEF Back
<1>4. \A i \in I : b[i] \notin old
  <2>1. q.next \in Nat /\ Indexed(q.hp) /\ \A t \in old : t.id < q.next
    BY DEF SoundQueue, Queues
  <2>2. \A t \in old : t \in Timers
    BY <2>1, IndexedType DEF Elems
  <2>3. \A t \in old : t.id \in Nat
    BY <2>2 DEF Timers
  <2>4. \A i \in I : b[i].id \in Nat
    BY <1>3 DEF Timers
  <2>5. ASSUME NEW i \in I, b[i] \in old PROVE FALSE
    <3>1. b[i].id < q.next /\ q.next <= b[i].id /\ b[i].id \in Nat
      BY <1>3, <2>1, <2>4, <2>5
    <3> QED BY <2>1, <3>1
  <2> QED BY <2>5
<1>5. I = {i \in 1..L : r.taken[i].interval > 0}
  <2>1. \A i \in 1..L : i <= L
    BY <1>1
  <2> QED BY <2>1 DEF Periodic
<1> HIDE DEF I, L
<1>6. old \ new = Elems(r.taken)
  BY <1>1, <1>3, <1>4
<1>7. new \ old = {b[i] : i \in I}
  BY <1>1, <1>3, <1>4
<1>8. Elems(r.taken) = {r.taken[i] : i \in 1..L}
  BY DEF Elems, L
<1>9. IsFiniteSet(1..L) /\ Cardinality(1..L) = L
  BY <1>1, FS_Interval
<1>10. L = Cardinality(old \ new)
  <2>1. Cardinality({r.taken[i] : i \in 1..L}) = Cardinality(1..L)
    BY <1>1, <1>9, Listed
  <2> QED BY <1>6, <1>8, <1>9, <2>1
<1>11. \A i \in I : BodyOf(b[i]) = NextPeriod(r.taken[i])
  BY <1>3, ReturnsBody
<1>12. ASSUME NEW t \in old \ new, t.interval > 0
       PROVE  Cardinality({u \in new \ old : BodyOf(u) = NextPeriod(t)})
              = Cardinality({u \in old \ new : NextPeriod(u) = NextPeriod(t) /\ u.interval > 0})
  <2> DEFINE K == {i \in I : NextPeriod(r.taken[i]) = NextPeriod(t)}
  <2>1. {u \in new \ old : BodyOf(u) = NextPeriod(t)} = {b[i] : i \in K}
    BY <1>7, <1>11
  <2>2. {u \in old \ new : NextPeriod(u) = NextPeriod(t) /\ u.interval > 0}
          = {r.taken[i] : i \in K}
    BY <1>5, <1>6, <1>8
  <2>3. K \in SUBSET (1..L)
    BY <1>5
  <2>4. /\ \A i, j \in K : b[i] = b[j] => i = j
        /\ \A i, j \in K : r.taken[i] = r.taken[j] => i = j
    BY <1>1, <1>3, <2>3
  <2> HIDE DEF K
  <2>5. IsFiniteSet(K)
    BY <1>9, <2>3, FS_Subset
  <2>6. Cardinality({b[i] : i \in K}) = Cardinality(K)
    BY <2>4, <2>5, Listed
  <2>7. Cardinality({r.taken[i] : i \in K}) = Cardinality(K)
    BY <2>4, <2>5, Listed
  <2> QED BY <2>1, <2>2, <2>6, <2>7
<1>13. ASSUME NEW u \in new \ old
       PROVE  \E t \in old \ new : t.interval > 0 /\ BodyOf(u) = NextPeriod(t)
  <2>1. PICK i \in I : u = b[i]
    BY <1>7
  <2>2. r.taken[i] \in old \ new /\ r.taken[i].interval > 0
    BY <1>5, <1>6, <1>8
  <2> QED BY <1>11, <2>1, <2>2
<1> QED BY <1>6, <1>10, <1>12, <1>13 DEF L

(* The service's pending timers are those of the heap.                     *)
Pending == {event_lst[i] : i \in 1..Len(event_lst)}

(* In terms of Elems, now and after a step.                                *)
LEMMA PendingElems ==
    Pending = Elems(event_lst) /\ Pending' = Elems(event_lst')
  BY DEF Pending, Elems

(* The service counts as this module does.                                 *)
LEMMA SameCounting == \A S : Service!Cardinality(S) = Cardinality(S)
  BY Zenon DEF Service!Cardinality, Cardinality

(* Adding a timer is the service's Add.                                    *)
LEMMA AddServes ==
    ASSUME FullInv, NEW t \in Nat, NEW i \in Nat, AppAdds(t, i)
    PROVE  Service!Add
<1> DEFINE te == [h |-> next_timer_id, ts |-> t, interval |-> i]
           q == add_timer(Queue, te)
           new == Numbered(te, next_timer_id)
<1>1. SetQueue(q) /\ UNCHANGED <<now, fired_evs, deleted>>
  BY DEF AppAdds
<1>2. SoundQueue(Queue) /\ next_timer_id \in Nat /\ Indexed(Heap)
  BY QueueParts DEF FullInv, IInv, SoundQueue, Queues
<1>3. te \in Bodies
  BY <1>2 DEF Bodies
<1>4. new \in Timers /\ new.id = next_timer_id
  BY <1>2, <1>3, NumberedType
<1>5. SoundQueue(q) /\ Elems(q.hp.lst) = Elems(event_lst) \cup {new}
  BY <1>2, <1>3, AddTimerRight, QueueParts
<1> HIDE DEF q, new
<1>6. Pending' = Pending \cup {new}
  BY <1>1, <1>5, QueueSet, PendingElems
<1>7. \A u \in Pending : u.id # new.id
  <2>1. \A u \in Elems(Heap.lst) : u \in Timers /\ u.id < next_timer_id
    BY <1>2, IndexedType, QueueParts DEF SoundQueue, Elems
  <2>2. \A u \in Elems(Heap.lst) : u.id \in Nat /\ u.id # next_timer_id
    BY <1>2, <2>1 DEF Timers
  <2> QED BY <1>4, <2>2, PendingElems, QueueParts
<1>8. new \in Pending' \ Pending
  BY <1>6, <1>7
<1>9. /\ Pending \subseteq Pending'
      /\ \E u \in Pending' \ Pending :
            Pending' = Pending \cup {u} /\ \A v \in Pending : v.id # u.id
  BY <1>6, <1>7, <1>8
<1> QED BY <1>1, <1>9 DEF Service!Add, Pending

(* Deleting a timer is the service's Cancel.                               *)
LEMMA DeleteServes ==
    ASSUME FullInv, NEW id, AppDeletes(id)
    PROVE  Service!Cancel
<1> DEFINE q == del_timer(Queue, id)
<1>1. SetQueue(q) /\ UNCHANGED <<now, fired_evs>> /\ deleted' = deleted \cup {id}
  BY DEF AppDeletes
<1>2. SoundQueue(Queue)
  BY DEF FullInv, IInv
<1>3. SoundQueue(q) /\ Elems(q.hp.lst) = {t \in Elems(event_lst) : t.id # id}
  BY <1>2, DelTimerRight, QueueParts
<1> HIDE DEF q
<1>4. Pending' = {t \in Pending : t.id # id}
  BY <1>1, <1>3, QueueSet, PendingElems
<1>5. id \in deleted'
  BY <1>1
<1>6. \E d \in deleted' : deleted' = deleted \cup {d} /\ Pending' = {t \in Pending : t.id # d}
  BY <1>1, <1>4, <1>5
<1> QED BY <1>1, <1>6 DEF Service!Cancel, Pending

(* timerqueue_cb is the service's Take.  Unless the queue was touched, the *)
(* timers it takes are due: their time is _pioneer, for which the timerfd  *)
(* was armed when epoll reported it.                                       *)
LEMMA CallbackServes ==
    ASSUME FullInv, timerqueue_cb
    PROVE  Service!Take
<1>1. /\ pc = "batch" /\ get_timo /\ touched' = FALSE
      /\ UNCHANGED <<now, deleted>>
  BY DEF timerqueue_cb
<1>2. IInv /\ SoundQueue(Queue) /\ fired_evs = << >>
  BY <1>1 DEF FullInv, IInv
<1>3. PICK r \in Taking(Queue) : \E s \in Readding(r, Len(r.taken)) :
         fired_evs' = r.taken /\ event_lst' = s.q.hp.lst
  BY <1>1, <1>2, GetTimoRight
<1>4. PICK s \in Readding(r, Len(r.taken)) : fired_evs' = r.taken /\ event_lst' = s.q.hp.lst
  BY <1>3
<1> DEFINE gone == Pending \ Pending'
           back == Pending' \ Pending
<1>5. /\ Elems(r.taken) = gone
      /\ Len(r.taken) = Cardinality(gone)
      /\ \A t \in gone : t.interval > 0 =>
            Cardinality({u \in back : BodyOf(u) = NextPeriod(t)})
            = Cardinality({u \in gone : NextPeriod(u) = NextPeriod(t) /\ u.interval > 0})
      /\ \A u \in back : \E t \in gone : t.interval > 0 /\ BodyOf(u) = NextPeriod(t)
  <2>1. Pending = Elems(Queue.hp.lst) /\ Pending' = Elems(s.q.hp.lst)
    BY <1>4, PendingElems, QueueParts
  <2> QED BY <1>2, <2>1, TakenAndBack
<1>6. touched \/ \A t \in gone : t.ts <= now
  <2> SUFFICES ASSUME ~touched, NEW t \in gone PROVE t.ts <= now
    OBVIOUS
  <2>1. timerfd # 0 /\ timerfd <= now
    BY <1>1, <1>2 DEF IInv
  <2>2. timerfd = pioneer
    BY <1>2, <2>1, QueueParts DEF SoundQueue
  <2>3. t.ts = pioneer
    <3>1. t \in Elems(r.taken)
      BY <1>5
    <3>2. \A i \in 1..Len(r.taken) : r.taken[i].ts = pioneer
      BY QueueParts DEF Taking
    <3> QED BY <3>1, <3>2 DEF Elems
  <2> QED BY <2>1, <2>2, <2>3
<1>7. /\ {fired_evs'[i] : i \in 1..Len(fired_evs')} = gone
      /\ Len(fired_evs') = Service!Cardinality(gone)
  BY <1>4, <1>5, SameCounting DEF Elems
<1>8. /\ \A t \in gone : t.interval > 0 =>
            Service!Cardinality({u \in back : Service!Body(u) = Service!Period(t)})
            = Service!Cardinality({u \in gone : /\ Service!Period(u) = Service!Period(t)
                                                /\ u.interval > 0})
      /\ \A u \in back : \E t \in gone : t.interval > 0 /\ Service!Body(u) = Service!Period(t)
  <2> HIDE DEF gone, back
  <2> QED BY <1>5, SameCounting DEF Service!Body, Service!Period, BodyOf, NextPeriod
<1>9. ~touched'
  BY <1>1
<1> QED BY <1>1, <1>2, <1>6, <1>7, <1>8, <1>9, Zenon DEF Service!Take, Pending

(* Every step is one of the service's or leaves the service alone.         *)
LEMMA StepServes ==
    ASSUME FullInv, [Next]_vars
    PROVE  [Service!Next]_(Service!svars)
<1>1. now \in Nat
  BY DEF FullInv, IInv
<1>2. ASSUME NEW t \in RunAtTimes, run_at(t) PROVE Service!Add
  <2>1. t \in Nat /\ AppAdds(t, 0)
    BY <1>2, TimerQueueAssumption DEF run_at
  <2> QED BY <2>1, AddServes
<1>3. ASSUME NEW d \in Delays, run_after(d) PROVE Service!Add
  <2>1. now + d \in Nat /\ AppAdds(now + d, 0)
    BY <1>1, <1>3, TimerQueueAssumption DEF run_after
  <2> QED BY <2>1, AddServes
<1>4. ASSUME NEW i \in Intervals, run_every(i) PROVE Service!Add
  <2>1. now + i \in Nat /\ i \in Nat /\ AppAdds(now + i, i)
    BY <1>1, <1>4, TimerQueueAssumption DEF run_every
  <2> QED BY <2>1, AddServes
<1>5. ASSUME NEW id \in Handles, AppDeletes(id) PROVE Service!Cancel
  BY <1>5, DeleteServes
<1>6. CASE timerqueue_cb
  BY <1>6, CallbackServes DEF Service!Next
<1>7. CASE tick
  BY <1>7 DEF tick, queueVars, appVars, Service!Next, Service!Tick
<1>8. CASE run_callback
  BY <1>8 DEF run_callback, queueVars, appVars, Service!Next, Service!Run
<1>9. CASE epoll_wait \/ callbacks_done \/ UNCHANGED vars
  BY <1>9 DEF epoll_wait, callbacks_done, vars, queueVars, appVars, Service!svars
<1>10. CASE App
  <2>1. Service!Add \/ Service!Cancel
    BY <1>2, <1>3, <1>4, <1>5, <1>10, Zenon DEF App
  <2> QED BY <2>1 DEF Service!Next
<1> QED BY <1>6, <1>7, <1>8, <1>9, <1>10, Zenon DEF Next, Loop

(* The timer queue implements the timer service, for every application and *)
(* whatever the state of the heap: no timer is lost, taken twice or taken  *)
(* early from an undisturbed queue, a deletion removes the timer asked for *)
(* and no other, and a periodic timer comes back one interval later.       *)
THEOREM ImplementsService == Spec => ServiceSpec
<1>1. Init => Service!Init
  BY DEF Init, Service!Init
<1>2. FullInv /\ [Next]_vars => [Service!Next]_(Service!svars)
  BY StepServes
<1> QED BY <1>1, <1>2, Invariance, PTL DEF Spec, ServiceSpec, Service!Spec

=============================================================================
