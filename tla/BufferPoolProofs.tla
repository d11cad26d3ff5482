-------------------------- MODULE BufferPoolProofs --------------------------
(***************************************************************************)
(* Proofs about BufferPool, for any threads, any capacities, any number of *)
(* buffers made at first and any memory limit.                             *)
(*                                                                         *)
(* The inductive invariant Inv says who holds the mutex (Locking), what a  *)
(* call knows at each of its steps (Working), that a buffer is in one hand *)
(* or on one list (Owned), that the lists are linked through their buffers *)
(* (Lists), that only buffers in use have data (Clean) and that _total_mem *)
(* is the sum over the buffers made (Memory).  The parts need each other:  *)
(* alloc writes a buffer's link after the unlock, and that this hurts no   *)
(* list and no other call follows from Owned; that a buffer                *)
(* moves between hand and list in one piece follows from Locking, Working  *)
(* and Lists; that there is a name for a new buffer, from Memory.          *)
(*                                                                         *)
(* Sum is a fold, that is a recursive function.  What it computes is       *)
(* proved here by looking at a least counterexample, which exists because  *)
(* inclusion of finite sets is well founded.                               *)
(***************************************************************************)
EXTENDS BufferPool, FiniteSetTheorems, WellFoundedInduction, TLAPS

MadeBufs == {b \in Bufs : b[2] <= made[b[1]]}
OnList(b) == \E i \in 1..Len(free[b[1]]) : free[b[1]][i] = b

Allocating == {"alloc_lock", "alloc_look", "alloc_relink", "alloc_unlock", "alloc_next"}
Critical == {"alloc_look", "alloc_relink", "alloc_unlock",
             "revert_link", "revert_first", "revert_unlock"}
InHand == {"alloc_unlock", "alloc_next", "revert_lock", "revert_link", "revert_first"}

Typed ==
    /\ mutex \in SUBSET Threads
    /\ pool \in [Caps -> Bufs \cup {NULL}]
    /\ next \in [Bufs -> Bufs \cup {NULL}]
    /\ total_mem \in Nat
    /\ pc \in [Threads -> {"idle", "revert_lock"} \cup Allocating \cup Critical]
    /\ asked \in [Threads -> Nat]
    /\ buf \in [Threads -> Bufs \cup {NULL}]
    /\ held \in [Threads -> SUBSET Bufs]
    /\ made \in [Caps -> Nat]
    /\ free \in [Caps -> Seq(Bufs)]

(* The mutex is held by the thread in a critical section, if there is one. *)
Locking == \A t \in Threads : pc[t] \in Critical <=> mutex = {t}

(* What a call of alloc or revert knows on its way.                        *)
Working ==
    \A t \in Threads :
        /\ pc[t] \in Allocating => Fits(asked[t])
        /\ pc[t] = "alloc_relink" => /\ buf[t] = pool[SizeClass(asked[t])]
                                     /\ buf[t] # NULL
        /\ pc[t] \in {"alloc_unlock", "alloc_next"} => buf[t][1] = SizeClass(asked[t])
        /\ pc[t] = "revert_first" => next[buf[t]] = pool[buf[t][1]]

(* Hands hold buffers that were made; no two hands, and no hand and list,  *)
(* the same; and every buffer that was made is in one of them.             *)
Owned ==
    /\ \A t \in Threads : held[t] \subseteq MadeBufs
    /\ \A t \in Threads : pc[t] \in InHand => buf[t] \in MadeBufs \ held[t]
    /\ \A t, u \in Threads : \A b \in Hands(t) : b \in Hands(u) => t = u
    /\ \A t \in Threads : \A b \in Hands(t) : ~OnList(b)
    /\ \A b \in MadeBufs : OnList(b) \/ \E t \in Threads : b \in Hands(t)

(* The free lists have made buffers of their capacity, each once.          *)
Lists ==
    \A c \in Caps :
        /\ \A i \in 1..Len(free[c]) : free[c][i] \in MadeBufs /\ free[c][i][1] = c
        /\ \A i, j \in 1..Len(free[c]) : free[c][i] = free[c][j] => i = j
        /\ Linked(c)

(* Only buffers of connections have data in them.                          *)
Clean == \A b \in dirty : \E t \in Threads : b \in held[t]

(* The memory accounted for is that of the buffers made.                   *)
Memory == MemAccounted

Inv == Typed /\ Locking /\ Working /\ Owned /\ Lists /\ Clean /\ Memory

-----------------------------------------------------------------------------
(* A nonempty set of natural numbers has a least element: < is well        *)
(* founded.                                                                *)
LEMMA LeastNatural ==
    ASSUME NEW S, S \subseteq Nat, S # {}
    PROVE  \E n \in S : \A m \in S : n <= m
<1>1. IsWellFoundedOn(OpToRel(<, Nat), Nat)
  BY NatLessThanWellFounded
<1>2. PICK n \in S : \A m \in S : ~(<<m, n>> \in OpToRel(<, Nat))
  BY <1>1, WFMin
<1>3. ASSUME NEW m \in S, m < n PROVE FALSE
  <2>1. <<m, n>> \in OpToRel(<, Nat)
    BY <1>3 DEF OpToRel
  <2> QED BY <1>2, <2>1
<1> QED
  BY <1>3

(* So is strict inclusion below a finite set: every nonempty set of its    *)
(* subsets has one with no smaller one in it. The lemmas on sums look at   *)
(* the least subset for which they would fail.                             *)
LEMMA LeastSubset ==
    ASSUME NEW S, IsFiniteSet(S), NEW T, T \subseteq SUBSET S, T # {}
    PROVE  \E u \in T : \A v \in T : v \subseteq u => v = u
<1>1. IsWellFoundedOn(StrictSubsetOrdering(S), SUBSET S)
  BY FS_StrictSubsetOrderingWellFounded, FS_FiniteSubsetsOfFinite
<1>2. PICK u \in T : \A v \in T : ~(<<v, u>> \in StrictSubsetOrdering(S))
  BY <1>1, WFMin
<1>3. ASSUME NEW v \in T, v \subseteq u, v # u PROVE FALSE
  BY <1>2, <1>3 DEF StrictSubsetOrdering
<1> QED
  BY <1>3

(* How a fold over a set takes its elements: some one of them first.       *)
Pick(s) == CHOOSE x \in s : TRUE

(* g tabulates the sums over the subsets of S that the fold goes through.  *)
Adds(g, f, S) ==
    g = [s \in SUBSET S |->
            IF s = {} THEN 0 ELSE Pick(s) * f[Pick(s)] + g[s \ {Pick(s)}]]

(* The two equations of such a table.                                      *)
LEMMA AddsAt ==
    ASSUME NEW f, NEW S, NEW g, Adds(g, f, S)
    PROVE  /\ g[{}] = 0
           /\ \A s \in SUBSET S :
                 s # {} => g[s] = Pick(s) * f[Pick(s)] + g[s \ {Pick(s)}]
<1> DEFINE G(s) == IF s = {} THEN 0 ELSE Pick(s) * f[Pick(s)] + g[s \ {Pick(s)}]
<1>1. g = [s \in SUBSET S |-> G(s)]
  BY DEF Adds
<1>2. \A s \in SUBSET S : g[s] = G(s)
  <2> HIDE DEF G
  <2> QED BY <1>1
<1>3. {} \in SUBSET S
  OBVIOUS
<1>4. g[{}] = G({})
  <2> HIDE DEF G
  <2> QED BY <1>2, <1>3
<1> QED
  BY <1>2, <1>4

(* The element taken is one of the set.                                    *)
LEMMA PickIn == \A s : s # {} => Pick(s) \in s
BY DEF Pick

(* There is at most one table: two of them agree on every set that both    *)
(* tabulate.                                                               *)
LEMMA AddsAgree ==
    ASSUME NEW f, NEW S, IsFiniteSet(S), NEW U \in SUBSET S, NEW V \in SUBSET S,
           NEW g, Adds(g, f, U), NEW h, Adds(h, f, V)
    PROVE  \A s \in SUBSET (U \cap V) : g[s] = h[s]
<1> DEFINE Bad == {s \in SUBSET (U \cap V) : g[s] # h[s]}
<1>1. SUFFICES ASSUME Bad # {} PROVE FALSE
  OBVIOUS
<1>2. Bad \subseteq SUBSET S
  OBVIOUS
<1>3. PICK s \in Bad : \A v \in Bad : v \subseteq s => v = s
  <2> HIDE DEF Bad
  <2> QED BY <1>1, <1>2, LeastSubset
<1>4. s \subseteq U /\ s \subseteq V /\ g[s] # h[s]
  OBVIOUS
<1>5. s # {}
  BY <1>4, AddsAt
<1>6. Pick(s) \in s
  BY <1>5, PickIn
<1>7. g[s \ {Pick(s)}] = h[s \ {Pick(s)}]
  BY <1>3, <1>4, <1>6
<1> QED
  BY <1>4, <1>5, <1>7, AddsAt

(* There is a table for every finite set: the one for T is put together    *)
(* from those of its strict subsets.                                       *)
LEMMA AddsExists ==
    ASSUME NEW f, NEW S, IsFiniteSet(S)
    PROVE  \E g : Adds(g, f, S)
<1> DEFINE Bad == {T \in SUBSET S : ~ \E g : Adds(g, f, T)}
<1>1. SUFFICES ASSUME Bad # {} PROVE FALSE
  OBVIOUS
<1>2. PICK T \in Bad : \A v \in Bad : v \subseteq T => v = T
  <2>1. Bad \subseteq SUBSET S
    OBVIOUS
  <2> HIDE DEF Bad
  <2> QED BY <1>1, <2>1, LeastSubset
<1> DEFINE G(u) == CHOOSE g : Adds(g, f, u)
<1>3. \A u \in SUBSET T : u # T => Adds(G(u), f, u)
  BY <1>2
<1> DEFINE h == [s \in SUBSET T |->
                   IF s = {} THEN 0
                   ELSE Pick(s) * f[Pick(s)] + G(s \ {Pick(s)})[s \ {Pick(s)}]]
<1>4. ASSUME NEW s \in SUBSET T, s # {} PROVE h[s \ {Pick(s)}] = G(s \ {Pick(s)})[s \ {Pick(s)}]
  <2> DEFINE u == s \ {Pick(s)}
  <2>1. u \in SUBSET T /\ u # T /\ Adds(G(u), f, u)
    BY <1>3, <1>4, PickIn
  <2>2. CASE u = {}
    <3>1. G(u)[u] = 0
      <4> HIDE DEF u, G
      <4> QED BY <2>1, <2>2, AddsAt
    <3>2. h[u] = 0
      <4> HIDE DEF u, G
      <4> QED BY <2>1, <2>2
    <3> QED BY <3>1, <3>2
  <2>3. CASE u # {}
    <3> DEFINE v == u \ {Pick(u)}
    <3>0. v \subseteq u /\ v # T /\ u \subseteq S /\ v \subseteq S
      BY <2>1
    <3>1. Adds(G(v), f, v)
      BY <1>3, <2>1, <3>0
    <3>2. G(u)[u] = Pick(u) * f[Pick(u)] + G(u)[v]
      <4> DEFINE g == G(u)
      <4>1. Adds(g, f, u) /\ u \in SUBSET u
        BY <2>1
      <4> HIDE DEF g, u
      <4>2. g[u] = Pick(u) * f[Pick(u)] + g[u \ {Pick(u)}]
        BY <4>1, <2>3, AddsAt
      <4> QED BY <4>2 DEF g
    <3>3. h[u] = Pick(u) * f[Pick(u)] + G(v)[v]
      <4> HIDE DEF G, u
      <4> QED BY <2>1, <2>3
    <3>4. G(u)[v] = G(v)[v]
      <4> DEFINE g == G(u)
                 k == G(v)
      <4>1. Adds(g, f, u) /\ Adds(k, f, v)
        BY <2>1, <3>1
      <4>2. u \in SUBSET S /\ v \in SUBSET S /\ v \in SUBSET (u \cap v)
        BY <3>0
      <4> HIDE DEF g, k, u, v
      <4>3. g[v] = k[v]
        BY <4>1, <4>2, AddsAgree
      <4> QED BY <4>3 DEF g, k
    <3> QED BY <3>2, <3>3, <3>4
  <2> QED BY <2>2, <2>3
<1>5. Adds(h, f, T)
  <2> HIDE DEF G
  <2>1. h = [s \in SUBSET T |->
            IF s = {} THEN 0 ELSE Pick(s) * f[Pick(s)] + h[s \ {Pick(s)}]]
    BY <1>4
  <2> HIDE DEF h
  <2> QED BY <2>1 DEF Adds
<1> QED
  BY <1>2, <1>5

(* The table of a finite set.                                              *)
Totals(f, S) == CHOOSE g : Adds(g, f, S)

(* Sum, which is a fold of the community modules, is the table's entry for *)
(* the whole domain.                                                       *)
LEMMA SumIsTotal ==
    ASSUME NEW f
    PROVE  Sum(f) = Totals(f, DOMAIN f)[DOMAIN f]
BY DEF Sum, MapThenSumSet, MapThenFoldSet, Totals, Adds, Pick

(* f gives each capacity in S a number of buffers.                         *)
Weighted(f, S) == S \subseteq Nat \ {0} /\ f \in [S -> Nat]

(* The order of the fold does not matter: any element may be taken first.  *)
LEMMA TakeOut ==
    ASSUME NEW S, IsFiniteSet(S), NEW f, Weighted(f, S)
    PROVE  LET g == Totals(f, S) IN
           \A s \in SUBSET S : /\ g[s] \in Nat
                             /\ \A x \in s : g[s] = x * f[x] + g[s \ {x}]
<1> DEFINE g == Totals(f, S)
<1>1. Adds(g, f, S)
  BY AddsExists DEF Totals
<1> HIDE DEF g
<1>a. /\ g[{}] = 0
      /\ \A s \in SUBSET S :
            s # {} => g[s] = Pick(s) * f[Pick(s)] + g[s \ {Pick(s)}]
  BY <1>1, AddsAt
<1> DEFINE Good(s) == /\ g[s] \in Nat
                      /\ \A x \in s : g[s] = x * f[x] + g[s \ {x}]
           Bad == {s \in SUBSET S : ~Good(s)}
<1>2. SUFFICES ASSUME Bad # {} PROVE FALSE
  BY DEF g
<1>3. PICK s \in Bad : \A v \in Bad : v \subseteq s => v = s
  <2>1. Bad \subseteq SUBSET S
    OBVIOUS
  <2> HIDE DEF Bad
  <2> QED BY <1>2, <2>1, LeastSubset
<1>4. s \in SUBSET S /\ ~Good(s) /\ \A v \in SUBSET s : v # s => Good(v)
  <2> HIDE DEF Good
  <2> QED BY <1>3
<1>5. s # {}
  <2>1. Good({})
    BY <1>a
  <2> HIDE DEF Good
  <2> QED BY <1>4, <2>1
<1> DEFINE p == Pick(s)
           r == s \ {p}
<1>6. p \in s /\ g[s] = p * f[p] + g[r] /\ r \in SUBSET s /\ r # s
  <2>1. p \in s
    BY <1>5, PickIn
  <2>2. g[s] = p * f[p] + g[r]
    BY <1>a, <1>4, <1>5
  <2> QED BY <2>1, <2>2
<1>7. Good(r)
  <2> HIDE DEF Good, r
  <2> QED BY <1>4, <1>6
<1>8. \A x \in s : x * f[x] \in Nat
  BY <1>4 DEF Weighted
<1>9. g[s] \in Nat
  <2> HIDE DEF r, p
  <2> QED BY <1>6, <1>7, <1>8
<1>10. ASSUME NEW x \in s PROVE g[s] = x * f[x] + g[s \ {x}]
  <2>1. CASE x = p
    BY <2>1, <1>6
  <2>2. CASE x # p
    <3> DEFINE q == s \ {x}
               both == r \ {x}
    <3>1. q \in SUBSET s /\ q # s /\ p \in q /\ x \in r
      BY <1>6, <2>2
    <3>2. both = q \ {p} /\ both \in SUBSET s /\ both # s
      BY <1>6
    <3>3. Good(q) /\ Good(both)
      <4> HIDE DEF Good, q, both
      <4> QED BY <1>4, <3>1, <3>2
    <3>4. g[r] = x * f[x] + g[both]
      BY <1>7, <3>1
    <3>5. g[q] = p * f[p] + g[q \ {p}]
      BY <3>3, <3>1
    <3>6. g[q] = p * f[p] + g[both]
      BY <3>5, <3>2
    <3>7. g[both] \in Nat /\ p * f[p] \in Nat /\ x * f[x] \in Nat
      BY <3>3, <1>8, <1>6
    <3> HIDE DEF Good, q, both, r, p
    <3>8. g[s] = x * f[x] + g[q]
      BY <1>6, <3>4, <3>6, <3>7
    <3> QED BY <3>8 DEF q
  <2> QED BY <2>1, <2>2
<1> QED
  BY <1>4, <1>9, <1>10

(* Without x, the sums of two functions that differ at x only are the      *)
(* same.                                                                   *)
LEMMA SameElsewhere ==
    ASSUME NEW S, IsFiniteSet(S), NEW f, NEW h, Weighted(f, S), Weighted(h, S),
           NEW x \in S, \A y \in S : y # x => f[y] = h[y]
    PROVE  Totals(f, S)[S \ {x}] = Totals(h, S)[S \ {x}]
<1> DEFINE a == Totals(f, S)
           b == Totals(h, S)
           Bad == {s \in SUBSET (S \ {x}) : a[s] # b[s]}
<1>1. Adds(a, f, S) /\ Adds(b, h, S)
  BY AddsExists DEF Totals
<1> HIDE DEF a, b
<1>a. /\ a[{}] = 0
      /\ \A s \in SUBSET S :
            s # {} => a[s] = Pick(s) * f[Pick(s)] + a[s \ {Pick(s)}]
  BY <1>1, AddsAt
<1>b. /\ b[{}] = 0
      /\ \A s \in SUBSET S :
            s # {} => b[s] = Pick(s) * h[Pick(s)] + b[s \ {Pick(s)}]
  BY <1>1, AddsAt
<1>2. SUFFICES ASSUME Bad # {} PROVE FALSE
  BY DEF a, b
<1>3. PICK s \in Bad : \A v \in Bad : v \subseteq s => v = s
  <2>1. Bad \subseteq SUBSET S
    OBVIOUS
  <2> HIDE DEF Bad
  <2> QED BY <1>2, <2>1, LeastSubset
<1>4. s \in SUBSET S /\ x \notin s /\ a[s] # b[s]
  OBVIOUS
<1>5. s # {}
  BY <1>4, <1>a, <1>b
<1>6. Pick(s) \in s
  BY <1>5, PickIn
<1>7. a[s \ {Pick(s)}] = b[s \ {Pick(s)}]
  BY <1>3, <1>6
<1>8. f[Pick(s)] = h[Pick(s)]
  BY <1>4, <1>6
<1>9. /\ a[s] = Pick(s) * f[Pick(s)] + a[s \ {Pick(s)}]
      /\ b[s] = Pick(s) * h[Pick(s)] + b[s \ {Pick(s)}]
  BY <1>a, <1>b, <1>4, <1>5
<1> QED
  BY <1>4, <1>7, <1>8, <1>9

(* One more buffer of capacity x adds x to the sum: the += of alloc.       *)
LEMMA SumOneMore ==
    ASSUME NEW S, IsFiniteSet(S), NEW f, Weighted(f, S), NEW x \in S
    PROVE  Sum([f EXCEPT ![x] = @ + 1]) = Sum(f) + x
<1> DEFINE h == [f EXCEPT ![x] = @ + 1]
           rest == Totals(f, S)[S \ {x}]
<1>1. /\ Weighted(h, S) /\ h[x] = f[x] + 1 /\ DOMAIN h = S
      /\ \A y \in S : y # x => f[y] = h[y]
  BY DEF Weighted
<1>2. Sum(f) = Totals(f, S)[S]
  <2>1. DOMAIN f = S
    BY DEF Weighted
  <2> QED BY <2>1, SumIsTotal
<1>3. Sum(h) = Totals(h, S)[S]
  <2> HIDE DEF h
  <2> QED BY <1>1, SumIsTotal
<1>4. Totals(f, S)[S] = x * f[x] + rest /\ rest \in Nat
  <2>1. S \in SUBSET S /\ S \ {x} \in SUBSET S /\ x \in S
    OBVIOUS
  <2> QED BY <2>1, TakeOut
<1>5. Totals(h, S)[S] = x * h[x] + rest
  <2> HIDE DEF h
  <2>1. Totals(h, S)[S] = x * h[x] + Totals(h, S)[S \ {x}]
    BY <1>1, TakeOut
  <2>2. Totals(h, S)[S \ {x}] = rest
    BY <1>1, SameElsewhere
  <2> QED BY <2>1, <2>2
<1>6. x * (f[x] + 1) = x * f[x] + x
  <2>1. x \in Nat /\ f[x] \in Nat
    BY DEF Weighted
  <2> QED BY <2>1
<1>7. x * f[x] \in Nat /\ x \in Nat
  BY DEF Weighted
<1> HIDE DEF h, rest
<1>8. Sum(h) = Sum(f) + x
  BY <1>1, <1>2, <1>3, <1>4, <1>5, <1>6, <1>7
<1> QED BY <1>8 DEF h

(* The sum is at least the number of buffers of each capacity.             *)
LEMMA SumCovers ==
    ASSUME NEW S, IsFiniteSet(S), NEW f, Weighted(f, S)
    PROVE  Sum(f) \in Nat /\ \A x \in S : f[x] <= Sum(f)
<1>1. Sum(f) = Totals(f, S)[S]
  <2>1. DOMAIN f = S
    BY DEF Weighted
  <2> QED BY <2>1, SumIsTotal
<1>2. Sum(f) \in Nat
  BY <1>1, TakeOut
<1>3. ASSUME NEW x \in S PROVE f[x] <= Sum(f)
  <2> DEFINE rest == Totals(f, S)[S \ {x}]
             n == f[x]
  <2>1. Sum(f) = x * n + rest /\ rest \in Nat
    <3>1. S \in SUBSET S /\ S \ {x} \in SUBSET S /\ x \in S
      OBVIOUS
    <3>2. Totals(f, S)[S] = x * f[x] + Totals(f, S)[S \ {x}]
      BY <3>1, TakeOut
    <3>3. Totals(f, S)[S \ {x}] \in Nat
      BY <3>1, TakeOut
    <3> QED BY <1>1, <3>2, <3>3
  <2>2. x \in Nat /\ x >= 1 /\ n \in Nat
    BY DEF Weighted
  <2> HIDE DEF rest, n
  <2>3. n <= x * n
    BY <2>2
  <2>4. x * n \in Nat
    BY <2>2
  <2>5. n <= Sum(f)
    BY <2>1, <2>2, <2>3, <2>4
  <2> QED BY <2>5 DEF n
<1> QED
  BY <1>2, <1>3

-----------------------------------------------------------------------------
(* The ladder of comparisons finds the smallest capacity that suffices.    *)
LEMMA SizeClassFits ==
    ASSUME NEW n \in Nat, Fits(n)
    PROVE  /\ SizeClass(n) \in Caps
           /\ n <= SizeClass(n)
           /\ \A c \in Caps : n <= c => SizeClass(n) <= c
<1> DEFINE Good == {c \in Caps : n <= c}
<1>1. Good # {} /\ Good \subseteq Nat
  BY BufferPoolAssumption DEF Fits
<1>2. PICK m \in Good : \A d \in Good : m <= d
  <2> HIDE DEF Good
  <2> QED BY <1>1, LeastNatural
<1>3. \E c \in Caps : n <= c /\ \A d \in Caps : n <= d => c <= d
  BY <1>2
<1> QED
  BY <1>3 DEF SizeClass

(* A buffer has a positive capacity: NULL is none.                         *)
LEMMA NullIsNoBuffer ==
    /\ NULL \notin Bufs
    /\ \A b \in Bufs : b[1] \in Caps /\ b[2] \in 1..MemLimit /\ b = <<b[1], b[2]>>
BY BufferPoolAssumption DEF NULL, Bufs

(* Lists and ownership stay as they are in a step that changes no hand, no *)
(* list and no link.                                                       *)
LEMMA SameOwners ==
    ASSUME Inv, made' = made, free' = free,
           \A u \in Threads :
              /\ Hands(u)' = Hands(u)
              /\ held'[u] \subseteq MadeBufs
              /\ pc'[u] \in InHand => buf'[u] \in MadeBufs \ held'[u]
    PROVE  Owned'
<1>1. MadeBufs' = MadeBufs
  BY DEF MadeBufs
<1>2. \A b : OnList(b)' <=> OnList(b)
  BY DEF OnList
<1>3. (\A u \in Threads : held[u] \subseteq MadeBufs)'
  BY <1>1
<1>4. (\A u \in Threads : pc[u] \in InHand => buf[u] \in MadeBufs \ held[u])'
  BY <1>1
<1>5. (\A u, v \in Threads : \A b \in Hands(u) : b \in Hands(v) => u = v)'
  BY DEF Inv, Owned
<1>6. (\A u \in Threads : \A b \in Hands(u) : ~OnList(b))'
  BY <1>2 DEF Inv, Owned
<1>7. (\A b \in MadeBufs : OnList(b) \/ \E u \in Threads : b \in Hands(u))'
  BY <1>1, <1>2 DEF Inv, Owned
<1> QED
  BY <1>3, <1>4, <1>5, <1>6, <1>7 DEF Owned

(* The same for the lists: no link of a buffer on a list was written.      *)
LEMMA SameLists ==
    ASSUME Inv, made' = made, free' = free, pool' = pool,
           \A c \in Caps : \A i \in 1..Len(free[c]) : next'[free[c][i]] = next[free[c][i]]
    PROVE  Lists'
<1>1. MadeBufs' = MadeBufs
  BY DEF MadeBufs
<1>2. ASSUME NEW c \in Caps PROVE Linked(c)'
  BY <1>2 DEF Inv, Lists, Linked
<1> QED
  BY <1>1, <1>2 DEF Inv, Lists

(* A call of alloc begins: nothing but the caller's own state changes.     *)
LEMMA AllocCall ==
    ASSUME Inv, NEW t \in Threads, NEW n \in Sizes, alloc_call(t, n)
    PROVE  Inv'
<1>1. /\ pc[t] = "idle" /\ pc'[t] \in {"idle", "alloc_lock"}
      /\ \A u \in Threads : u # t => pc'[u] = pc[u] /\ asked'[u] = asked[u]
      /\ asked'[t] = n /\ n \in Nat /\ (pc'[t] = "alloc_lock" => Fits(n))
      /\ asked' \in [Threads -> Nat]
      /\ pc' = [pc EXCEPT ![t] = pc'[t]]
      /\ UNCHANGED <<mutex, pool, next, total_mem, dirty, exited, buf, held, made, free>>
  BY BufferPoolAssumption DEF alloc_call, Step, Inv, Typed, poolVars, ghosts
<1>2. Typed'
  BY <1>1 DEF Inv, Typed, Allocating, Critical
<1>3. Locking'
  BY <1>1 DEF Inv, Locking, Critical
<1>4. Working'
  BY <1>1 DEF Inv, Working, Allocating
<1>5. \A u \in Threads : Hands(u)' = Hands(u)
  BY <1>1 DEF Hands
<1>6. Owned'
  BY <1>1, <1>5, SameOwners DEF Inv, Owned, InHand
<1>7. Lists'
  BY <1>1, SameLists
<1>8. Clean' /\ Memory'
  BY <1>1 DEF Inv, Clean, Memory, MemAccounted
<1> QED
  BY <1>2, <1>3, <1>4, <1>6, <1>7, <1>8 DEF Inv

(* alloc enters the critical section: no thread was in it.                 *)
LEMMA AllocLock ==
    ASSUME Inv, NEW t \in Threads, alloc_lock(t)
    PROVE  Inv'
<1>1. /\ pc[t] = "alloc_lock" /\ pc'[t] = "alloc_look"
      /\ \A u \in Threads : u # t => pc'[u] = pc[u]
      /\ pc' = [pc EXCEPT ![t] = "alloc_look"]
      /\ mutex = {} /\ mutex' = {t}
      /\ UNCHANGED <<pool, next, total_mem, dirty, exited, asked, buf, held, made, free>>
  BY DEF alloc_lock, Step, Unlocked, Inv, Typed, poolVars, ghosts
<1>2. Typed'
  BY <1>1 DEF Inv, Typed, Critical
<1>3. Locking'
  BY <1>1 DEF Inv, Locking, Critical
<1>4. Working'
  BY <1>1 DEF Inv, Working, Allocating
<1>5. \A u \in Threads : Hands(u)' = Hands(u)
  BY <1>1 DEF Hands
<1>6. Owned'
  BY <1>1, <1>5, SameOwners DEF Inv, Owned, InHand
<1>7. Lists'
  BY <1>1, SameLists
<1>8. Clean' /\ Memory'
  BY <1>1 DEF Inv, Clean, Memory, MemAccounted
<1> QED
  BY <1>2, <1>3, <1>4, <1>6, <1>7, <1>8 DEF Inv

(* alloc reads the first buffer of a list that is not empty.               *)
LEMMA AllocFound ==
    ASSUME Inv, NEW t \in Threads, alloc_found(t)
    PROVE  Inv'
<1> DEFINE index == SizeClass(asked[t])
<1>1. /\ pc[t] = "alloc_look" /\ pc'[t] = "alloc_relink"
      /\ \A u \in Threads : u # t => pc'[u] = pc[u] /\ buf'[u] = buf[u]
      /\ pc' = [pc EXCEPT ![t] = "alloc_relink"]
      /\ buf' = [buf EXCEPT ![t] = pool[index]]
      /\ buf'[t] = pool[index] /\ pool[index] # NULL
      /\ UNCHANGED <<mutex, pool, next, total_mem, dirty, exited, asked, held, made, free>>
  BY DEF alloc_found, Step, Inv, Typed, poolVars, ghosts
<1>a. index \in Caps
  BY <1>1, SizeClassFits DEF Inv, Typed, Working, Allocating
<1>2. Typed'
  BY <1>1, <1>a DEF Inv, Typed, Allocating
<1>3. Locking'
  BY <1>1 DEF Inv, Locking, Critical
<1>4. Working'
  BY <1>1 DEF Inv, Working, Allocating
<1>5. \A u \in Threads : Hands(u)' = Hands(u)
  BY <1>1 DEF Hands
<1>6. Owned'
  BY <1>1, <1>5, SameOwners DEF Inv, Owned, InHand
<1>7. Lists'
  BY <1>1, SameLists
<1>8. Clean' /\ Memory'
  BY <1>1 DEF Inv, Clean, Memory, MemAccounted
<1> QED
  BY <1>2, <1>3, <1>4, <1>6, <1>7, <1>8 DEF Inv

(* The process ends.                                                       *)
LEMMA AllocExit ==
    ASSUME Inv, NEW t \in Threads, alloc_exit(t)
    PROVE  Inv'
<1>1. UNCHANGED <<mutex, pool, next, total_mem, dirty, pc, asked, buf, held, made, free>>
  BY DEF alloc_exit, Step, Inv, Typed, poolVars, ghosts
<1>2. Typed' /\ Locking' /\ Working' /\ Clean' /\ Memory'
  BY <1>1 DEF Inv, Typed, Locking, Working, Clean, Memory, MemAccounted
<1>3. Owned'
  <2>1. \A u \in Threads : Hands(u)' = Hands(u)
    BY <1>1 DEF Hands
  <2> QED BY <1>1, <2>1, SameOwners DEF Inv, Owned
<1>4. Lists'
  BY <1>1, SameLists
<1> QED
  BY <1>2, <1>3, <1>4 DEF Inv

(* alloc makes a buffer: it is in no hand and on no list before, and the   *)
(* memory below the limit leaves room for its number.                      *)
LEMMA AllocNew ==
    ASSUME Inv, NEW t \in Threads, alloc_new(t)
    PROVE  Inv'
<1> DEFINE index == SizeClass(asked[t])
           b == <<index, made[index] + 1>>
<1>1. /\ pc[t] = "alloc_look" /\ pc'[t] = "alloc_unlock"
      /\ \A u \in Threads : u # t => pc'[u] = pc[u] /\ buf'[u] = buf[u]
      /\ pc' = [pc EXCEPT ![t] = "alloc_unlock"]
      /\ buf' = [buf EXCEPT ![t] = b] /\ buf'[t] = b
      /\ pool[index] = NULL /\ total_mem + index < MemLimit
      /\ total_mem' = total_mem + index
      /\ made' = [made EXCEPT ![index] = @ + 1]
      /\ UNCHANGED <<mutex, pool, next, dirty, exited, asked, held, free>>
  BY DEF alloc_new, Step, Made, Counted, Inv, Typed
<1>2. index \in Caps /\ index \in Nat \ {0}
  BY <1>1, SizeClassFits, BufferPoolAssumption DEF Inv, Typed, Working, Allocating
<1>3. Sum(made) \in Nat /\ made[index] <= Sum(made) /\ Sum(made') = Sum(made) + index
  <2>1. Weighted(made, Caps) /\ IsFiniteSet(Caps)
    BY BufferPoolAssumption DEF Weighted, Inv, Typed
  <2>2. Sum(made) \in Nat /\ made[index] <= Sum(made)
    BY <1>2, <2>1, SumCovers
  <2>3. Sum([made EXCEPT ![index] = @ + 1]) = Sum(made) + index
    BY <1>2, <2>1, SumOneMore
  <2> QED BY <1>1, <2>2, <2>3
<1>4. Memory'
  BY <1>1, <1>3 DEF Inv, Memory, MemAccounted
<1>5. b \in Bufs
  <2>1. made[index] \in Nat /\ made[index] + 1 <= MemLimit
    BY <1>1, <1>2, <1>3, BufferPoolAssumption DEF Inv, Typed, Memory, MemAccounted
  <2> QED BY <1>2, <2>1, BufferPoolAssumption DEF Bufs
<1>6. b \notin MadeBufs /\ MadeBufs' = MadeBufs \cup {b}
  <2>1. \A c \in Caps : made[c] \in Nat /\ made'[c] = IF c = index THEN made[c] + 1 ELSE made[c]
    BY <1>1, <1>2 DEF Inv, Typed
  <2>2. \A x \in Bufs : x \in MadeBufs' <=> x \in MadeBufs \/ x = b
    BY <2>1, <1>2, NullIsNoBuffer DEF MadeBufs
  <2>3. MadeBufs' \subseteq Bufs /\ MadeBufs \subseteq Bufs
    BY DEF MadeBufs
  <2>4. b \notin MadeBufs
    BY <1>2, <2>1 DEF MadeBufs
  <2> HIDE DEF b
  <2> QED BY <1>5, <2>2, <2>3, <2>4
<1> HIDE DEF b
<1>7. Typed'
  BY <1>1, <1>2, <1>5 DEF Inv, Typed, Critical
<1>8. Locking'
  BY <1>1 DEF Inv, Locking, Critical
<1>9. Working'
  BY <1>1, <1>2 DEF Inv, Working, Locking, Allocating, Critical, b
<1>10. \A u \in Threads : Hands(u)' = IF u = t THEN Hands(t) \cup {b} ELSE Hands(u)
  BY <1>1 DEF Hands
<1>11. \A x : OnList(x)' <=> OnList(x)
  BY <1>1 DEF OnList
<1>12. \A u \in Threads : Hands(u) \subseteq MadeBufs
  BY DEF Inv, Owned, Hands, InHand
<1>13. ~OnList(b)
  BY <1>5, <1>6, NullIsNoBuffer DEF Inv, Lists, OnList
<1>14. Owned'
  <2>1. (\A u \in Threads : held[u] \subseteq MadeBufs)'
    BY <1>1, <1>6 DEF Inv, Owned
  <2>2. (\A u \in Threads : pc[u] \in InHand => buf[u] \in MadeBufs \ held[u])'
    BY <1>1, <1>6 DEF Inv, Owned, InHand
  <2>3. (\A u, v \in Threads : \A x \in Hands(u) : x \in Hands(v) => u = v)'
    BY <1>6, <1>10, <1>12 DEF Inv, Owned
  <2>4. (\A u \in Threads : \A x \in Hands(u) : ~OnList(x))'
    BY <1>10, <1>11, <1>13 DEF Inv, Owned
  <2>5. (\A x \in MadeBufs : OnList(x) \/ \E u \in Threads : x \in Hands(u))'
    BY <1>6, <1>10, <1>11 DEF Inv, Owned
  <2> QED BY <2>1, <2>2, <2>3, <2>4, <2>5 DEF Owned
<1>15. Lists'
  <2>1. \A c \in Caps : Linked(c)'
    BY <1>1 DEF Inv, Lists, Linked
  <2> QED BY <1>1, <1>6, <2>1 DEF Inv, Lists
<1>16. Clean'
  BY <1>1 DEF Inv, Clean
<1> QED
  BY <1>4, <1>7, <1>8, <1>9, <1>14, <1>15, <1>16 DEF Inv

(* _pool[index] = target->next takes the first buffer off the list, which  *)
(* is linked as before from its second buffer on, and into the hand of the *)
(* thread.                                                                 *)
LEMMA AllocRelink ==
    ASSUME Inv, NEW t \in Threads, alloc_relink(t)
    PROVE  Inv'
<1> DEFINE index == SizeClass(asked[t])
           b == buf[t]
           q == free[index]
<1>1. /\ pc[t] = "alloc_relink" /\ pc'[t] = "alloc_unlock"
      /\ \A u \in Threads : u # t => pc'[u] = pc[u]
      /\ pc' = [pc EXCEPT ![t] = "alloc_unlock"]
      /\ pool' = [pool EXCEPT ![index] = next[b]]
      /\ free' = [free EXCEPT ![index] = Tail(q)]
      /\ UNCHANGED <<mutex, next, total_mem, dirty, exited, asked, buf, held, made>>
  BY DEF alloc_relink, Step, Inv, Typed
<1>2. index \in Caps /\ b = pool[index] /\ b # NULL
  BY <1>1, SizeClassFits DEF Inv, Typed, Working, Allocating
<1>3. q \in Seq(Bufs) /\ q # << >> /\ b = q[1] /\ b \in MadeBufs /\ b[1] = index
  <2>1. q \in Seq(Bufs) /\ pool[index] = IF q = << >> THEN NULL ELSE q[1]
    BY <1>2 DEF Inv, Typed, Lists, Linked
  <2>2. q # << >> /\ b = q[1] /\ Len(q) >= 1
    BY <1>2, <2>1
  <2>3. 1 \in 1..Len(q)
    BY <2>1, <2>2
  <2> QED BY <1>2, <2>1, <2>2, <2>3 DEF Inv, Lists
<1> HIDE DEF b, q
<1> DEFINE r == Tail(q)
<1>4. /\ Len(r) = Len(q) - 1 /\ Len(q) \in Nat /\ Len(q) >= 1
      /\ r \in Seq(Bufs)
      /\ \A i \in 1..Len(r) : r[i] = q[i + 1] /\ i + 1 \in 1..Len(q)
  BY <1>3
<1>a. (r = << >>) <=> (Len(r) = 0)
  BY <1>4
<1>5. /\ \A i \in 1..Len(q) : q[i] \in MadeBufs /\ q[i][1] = index
      /\ \A i, j \in 1..Len(q) : q[i] = q[j] => i = j
      /\ \A i \in 1..Len(q) : next[q[i]] = IF i = Len(q) THEN NULL ELSE q[i + 1]
  BY <1>2 DEF Inv, Lists, Linked, q
<1>6. MadeBufs' = MadeBufs
  BY <1>1 DEF MadeBufs
<1>7. /\ \A c \in Caps : c # index => free'[c] = free[c] /\ pool'[c] = pool[c]
      /\ free'[index] = r /\ pool'[index] = next[b]
  BY <1>1, <1>2 DEF Inv, Typed
<1> HIDE DEF r
<1>8. Typed'
  <2>1. b \in Bufs
    BY <1>3 DEF MadeBufs
  <2> QED BY <1>1, <1>2, <1>4, <2>1 DEF Inv, Typed, Critical, r
<1>9. Locking'
  BY <1>1 DEF Inv, Locking, Critical
<1>10. Working'
  <2>1. \A u \in Threads : u # t => pc[u] \notin Critical
    BY <1>1 DEF Inv, Locking, Critical
  <2> QED BY <1>1, <1>3, <2>1 DEF Inv, Working, Allocating, Critical, b
<1>11. \A x \in Bufs : OnList(x)' <=> OnList(x) /\ x # b
  <2>1. ASSUME NEW x \in Bufs, x[1] # index PROVE OnList(x)' <=> OnList(x) /\ x # b
    BY <1>3, <1>7, <2>1, NullIsNoBuffer DEF OnList
  <2>2. ASSUME NEW x \in Bufs, x[1] = index PROVE OnList(x)' <=> OnList(x) /\ x # b
    <3>1. OnList(x) <=> \E i \in 1..Len(q) : q[i] = x
      BY <2>2 DEF OnList, q
    <3>2. OnList(x)' <=> \E i \in 1..Len(r) : r[i] = x
      BY <2>2, <1>7 DEF OnList
    <3>3. ASSUME NEW i \in 1..Len(r), r[i] = x PROVE OnList(x) /\ x # b
      BY <1>3, <1>4, <1>5, <3>1, <3>3
    <3>4. ASSUME NEW i \in 1..Len(q), q[i] = x, x # b
          PROVE  \E j \in 1..Len(r) : r[j] = x
      <4>1. i - 1 \in 1..Len(r) /\ r[i - 1] = q[i - 1 + 1] /\ i - 1 + 1 = i
        BY <1>3, <1>4, <3>4
      <4> QED BY <3>4, <4>1
    <3> QED BY <3>1, <3>2, <3>3, <3>4
  <2> QED BY <2>1, <2>2
<1>12. OnList(b) /\ b \in Bufs
  <2>1. 1 \in 1..Len(q)
    BY <1>4
  <2> QED BY <1>3, <2>1 DEF OnList, q, MadeBufs
<1>13. \A u \in Threads : Hands(u)' = IF u = t THEN Hands(t) \cup {b} ELSE Hands(u)
  BY <1>1 DEF Hands, b
<1>14. \A u \in Threads : Hands(u) \subseteq MadeBufs
  BY DEF Inv, Owned, Hands, InHand
<1>15. MadeBufs \subseteq Bufs
  BY DEF MadeBufs
<1>16. Owned'
  <2>1. (\A u \in Threads : held[u] \subseteq MadeBufs)'
    BY <1>1, <1>6 DEF Inv, Owned
  <2>2. (\A u \in Threads : pc[u] \in InHand => buf[u] \in MadeBufs \ held[u])'
    <3>1. b \notin Hands(t)
      BY <1>12 DEF Inv, Owned
    <3>2. b \notin held[t]
      BY <3>1 DEF Hands
    <3> QED BY <1>1, <1>3, <1>6, <3>2 DEF Inv, Owned, InHand, b
  <2>3. (\A u, v \in Threads : \A x \in Hands(u) : x \in Hands(v) => u = v)'
    BY <1>12, <1>13 DEF Inv, Owned
  <2>4. (\A u \in Threads : \A x \in Hands(u) : ~OnList(x))'
    BY <1>11, <1>12, <1>13, <1>14, <1>15 DEF Inv, Owned
  <2>5. (\A x \in MadeBufs : OnList(x) \/ \E u \in Threads : x \in Hands(u))'
    BY <1>6, <1>11, <1>13, <1>15 DEF Inv, Owned
  <2> QED BY <2>1, <2>2, <2>3, <2>4, <2>5 DEF Owned
<1>17. Lists'
  <2>0. PICK k \in Caps : k = index
    BY <1>2
  <2>a. free'[k] = r /\ pool'[k] = next[b] /\ next' = next
    BY <1>1, <1>7, <2>0
  <2>1. ASSUME NEW c \in Caps, c # k
        PROVE  /\ \A i \in 1..Len(free'[c]) : free'[c][i] \in MadeBufs' /\ free'[c][i][1] = c
               /\ \A i, j \in 1..Len(free'[c]) : free'[c][i] = free'[c][j] => i = j
               /\ Linked(c)'
    BY <1>1, <1>6, <1>7, <2>0, <2>1 DEF Inv, Lists, Linked
  <2>2. /\ \A i \in 1..Len(free'[k]) : free'[k][i] \in MadeBufs' /\ free'[k][i][1] = k
        /\ \A i, j \in 1..Len(free'[k]) : free'[k][i] = free'[k][j] => i = j
    <3>1. \A i \in 1..Len(r) : r[i] \in MadeBufs /\ r[i][1] = k
      <4>1. \A i \in 1..Len(r) : r[i] \in MadeBufs /\ r[i][1] = index
        BY <1>4, <1>5
      <4> QED BY <4>1, <2>0
    <3>2. \A i, j \in 1..Len(r) : r[i] = r[j] => i = j
      <4> SUFFICES ASSUME NEW i \in 1..Len(r), NEW j \in 1..Len(r),
                          r[i] = r[j]
                   PROVE  i = j
        OBVIOUS
      <4>1. i + 1 = j + 1
        BY <1>4, <1>5
      <4> QED BY <4>1
    <3> QED BY <1>6, <2>a, <3>1, <3>2
  <2>3. Linked(k)'
    <3>1. next[b] = IF r = << >> THEN NULL ELSE r[1]
      <4>1. CASE Len(q) = 1
        <5>1. r = << >>
          BY <4>1, <1>4, <1>a
        <5> QED BY <1>3, <1>5, <4>1, <5>1
      <4>2. CASE Len(q) > 1
        <5>1. r # << >> /\ r[1] = q[2]
          BY <4>2, <1>4, <1>a
        <5> QED BY <1>3, <1>5, <4>2, <5>1
      <4> QED BY <1>4, <4>1, <4>2
    <3>2. ASSUME NEW i \in 1..Len(r)
          PROVE  next[r[i]] = IF i = Len(r) THEN NULL ELSE r[i + 1]
      <4>1. next[q[i + 1]] = IF i + 1 = Len(q) THEN NULL ELSE q[i + 2]
        BY <1>4, <1>5
      <4>2. i # Len(r) => r[i + 1] = q[i + 2]
        BY <1>4
      <4> QED BY <1>4, <4>1, <4>2
    <3>3. pool'[k] = IF free'[k] = << >> THEN NULL ELSE free'[k][1]
      BY <2>a, <3>1
    <3>4. \A i \in 1..Len(free'[k]) :
             next'[free'[k][i]] = IF i = Len(free'[k]) THEN NULL ELSE free'[k][i + 1]
      BY <2>a, <3>2
    <3> QED BY <3>3, <3>4 DEF Linked
  <2> QED BY <2>1, <2>2, <2>3 DEF Lists
<1>18. Clean' /\ Memory'
  BY <1>1 DEF Inv, Clean, Memory, MemAccounted
<1> QED
  BY <1>8, <1>9, <1>10, <1>16, <1>17, <1>18 DEF Inv

(* alloc leaves the critical section with the buffer in hand.              *)
LEMMA AllocUnlock ==
    ASSUME Inv, NEW t \in Threads, alloc_unlock(t)
    PROVE  Inv'
<1>1. /\ pc[t] = "alloc_unlock" /\ pc'[t] = "alloc_next"
      /\ \A u \in Threads : u # t => pc'[u] = pc[u]
      /\ pc' = [pc EXCEPT ![t] = "alloc_next"]
      /\ mutex' = {}
      /\ UNCHANGED <<pool, next, total_mem, dirty, exited, asked, buf, held, made, free>>
  BY DEF alloc_unlock, Step, Inv, Typed, poolVars, ghosts
<1>2. Typed'
  BY <1>1 DEF Inv, Typed, Allocating
<1>3. Locking'
  BY <1>1 DEF Inv, Locking, Critical
<1>4. Working'
  BY <1>1 DEF Inv, Working, Allocating
<1>5. \A u \in Threads : Hands(u)' = Hands(u)
  BY <1>1 DEF Hands
<1>6. Owned'
  BY <1>1, <1>5, SameOwners DEF Inv, Owned, InHand
<1>7. Lists'
  BY <1>1, SameLists
<1>8. Clean' /\ Memory'
  BY <1>1 DEF Inv, Clean, Memory, MemAccounted
<1> QED
  BY <1>2, <1>3, <1>4, <1>6, <1>7, <1>8 DEF Inv

(* The buffer that a thread works on is on no list and in no other hand:   *)
(* this is what lets alloc and revert write its fields outside the         *)
(* critical section.                                                       *)
LEMMA InHandIsOffList ==
    ASSUME Inv, NEW t \in Threads, pc[t] \in InHand
    PROVE  /\ buf[t] \in Hands(t) /\ buf[t] \in Bufs /\ buf[t] \in MadeBufs \ held[t]
           /\ \A c \in Caps : \A i \in 1..Len(free[c]) : free[c][i] # buf[t]
           /\ \A u \in Threads : pc[u] \in InHand /\ buf[u] = buf[t] => u = t
<1>1. \A u \in Threads : pc[u] \in InHand => buf[u] \in Hands(u)
  BY DEF Hands, InHand
<1>2. ~OnList(buf[t])
  BY <1>1 DEF Inv, Owned
<1>3. buf[t] \in MadeBufs \ held[t] /\ MadeBufs \subseteq Bufs
  BY DEF Inv, Owned, MadeBufs
<1>4. ASSUME NEW c \in Caps, NEW i \in 1..Len(free[c]), free[c][i] = buf[t] PROVE FALSE
  <2>1. buf[t][1] = c
    BY <1>4 DEF Inv, Lists
  <2> QED BY <1>2, <1>4, <2>1 DEF OnList
<1> QED
  BY <1>1, <1>3, <1>4 DEF Inv, Owned

(* target->next = NULL after the unlock writes no link of a list and not   *)
(* the link that another thread's revert has just set.                     *)
LEMMA AllocReturn ==
    ASSUME Inv, NEW t \in Threads, alloc_return(t)
    PROVE  Inv'
<1>1. /\ pc[t] = "alloc_next" /\ pc'[t] = "idle"
      /\ \A u \in Threads : u # t => /\ pc'[u] = pc[u] /\ asked'[u] = asked[u]
                                     /\ buf'[u] = buf[u] /\ held'[u] = held[u]
      /\ pc' = [pc EXCEPT ![t] = "idle"]
      /\ next' = [next EXCEPT ![buf[t]] = NULL]
      /\ held' = [held EXCEPT ![t] = @ \cup {buf[t]}]
      /\ held'[t] = held[t] \cup {buf[t]}
      /\ asked' = [asked EXCEPT ![t] = 0]
      /\ buf' = [buf EXCEPT ![t] = NULL]
      /\ UNCHANGED <<mutex, pool, total_mem, dirty, exited, made, free>>
  BY DEF alloc_return, Step, Inv, Typed, ghosts
<1>2. pc[t] \in InHand
  BY <1>1 DEF InHand
<1>3. \A c \in Caps : \A i \in 1..Len(free[c]) : next'[free[c][i]] = next[free[c][i]]
  <2>1. \A x \in Bufs : x # buf[t] => next'[x] = next[x]
    BY <1>1 DEF Inv, Typed
  <2>2. \A c \in Caps : \A i \in 1..Len(free[c]) : free[c][i] \in Bufs
    BY DEF Inv, Lists, MadeBufs
  <2> QED BY <1>2, <2>1, <2>2, InHandIsOffList
<1>4. Typed'
  BY <1>1, <1>2, InHandIsOffList DEF Inv, Typed
<1>5. Locking'
  BY <1>1 DEF Inv, Locking, Critical
<1>6. Working'
  <2>1. \A u \in Threads : u # t /\ pc[u] = "revert_first" => next'[buf[u]] = next[buf[u]]
    <3>1. ASSUME NEW u \in Threads, u # t, pc[u] = "revert_first"
          PROVE  next'[buf[u]] = next[buf[u]]
      <4>1. pc[u] \in InHand
        BY <3>1 DEF InHand
      <4>2. buf[u] # buf[t] /\ buf[u] \in Bufs
        BY <1>2, <3>1, <4>1, InHandIsOffList
      <4> QED BY <1>1, <4>2 DEF Inv, Typed
    <3> QED BY <3>1
  <2> QED BY <1>1, <2>1 DEF Inv, Working, Allocating
<1>7. \A u \in Threads : Hands(u)' = Hands(u)
  BY <1>1, <1>2 DEF Hands
<1>8. Owned'
  <2>1. \A u \in Threads : held'[u] \subseteq MadeBufs
    BY <1>1, <1>2, InHandIsOffList DEF Inv, Owned
  <2>2. \A u \in Threads : pc'[u] \in InHand => buf'[u] \in MadeBufs \ held'[u]
    BY <1>1 DEF Inv, Owned, InHand
  <2> QED BY <1>1, <1>7, <2>1, <2>2, SameOwners
<1>9. Lists'
  BY <1>1, <1>3, SameLists
<1>10. Clean'
  <2>1. \A u \in Threads : held[u] \subseteq held'[u]
    BY <1>1
  <2> QED BY <1>1, <2>1 DEF Inv, Clean
<1>11. Memory'
  BY <1>1 DEF Inv, Memory, MemAccounted
<1> QED
  BY <1>4, <1>5, <1>6, <1>8, <1>9, <1>10, <1>11 DEF Inv

(* A connection puts data into a buffer it holds.                          *)
LEMMA Fill ==
    ASSUME Inv, NEW t \in Threads, NEW b \in held[t], fill(t, b)
    PROVE  Inv'
<1>1. /\ dirty' = dirty \cup {b}
      /\ UNCHANGED <<mutex, pool, next, total_mem, pc, asked, buf, held, made, free>>
  BY DEF fill, Step, Inv, Typed, poolVars, ghosts
<1>2. Typed' /\ Locking' /\ Working' /\ Memory'
  BY <1>1 DEF Inv, Typed, Locking, Working, Memory, MemAccounted
<1>3. Owned'
  <2>1. \A u \in Threads : Hands(u)' = Hands(u)
    BY <1>1 DEF Hands
  <2> QED BY <1>1, <2>1, SameOwners DEF Inv, Owned
<1>4. Lists'
  BY <1>1, SameLists
<1>5. Clean'
  BY <1>1 DEF Inv, Clean
<1> QED
  BY <1>2, <1>3, <1>4, <1>5 DEF Inv

(* revert takes the buffer from the connection and empties it.             *)
LEMMA RevertCall ==
    ASSUME Inv, NEW t \in Threads, NEW b \in held[t], revert_call(t, b)
    PROVE  Inv'
<1>1. /\ pc[t] = "idle" /\ pc'[t] = "revert_lock"
      /\ \A u \in Threads : u # t => /\ pc'[u] = pc[u] /\ buf'[u] = buf[u]
                                     /\ held'[u] = held[u]
      /\ pc' = [pc EXCEPT ![t] = "revert_lock"]
      /\ held' = [held EXCEPT ![t] = @ \ {b}] /\ held'[t] = held[t] \ {b}
      /\ buf' = [buf EXCEPT ![t] = b] /\ buf'[t] = b
      /\ dirty' = dirty \ {b}
      /\ UNCHANGED <<mutex, pool, next, total_mem, exited, asked, made, free>>
  BY DEF revert_call, Step, Inv, Typed, poolVars, ghosts
<1>2. b \in MadeBufs /\ b \in Bufs
  BY DEF Inv, Owned, MadeBufs
<1>3. Typed'
  BY <1>1, <1>2 DEF Inv, Typed
<1>4. Locking'
  BY <1>1 DEF Inv, Locking, Critical
<1>5. Working'
  BY <1>1 DEF Inv, Working, Allocating
<1>6. \A u \in Threads : Hands(u)' = Hands(u)
  BY <1>1 DEF Hands
<1>7. Owned'
  <2>1. \A u \in Threads : held'[u] \subseteq MadeBufs
    BY <1>1 DEF Inv, Owned
  <2>2. \A u \in Threads : pc'[u] \in InHand => buf'[u] \in MadeBufs \ held'[u]
    BY <1>1, <1>2 DEF Inv, Owned, InHand
  <2> QED BY <1>1, <1>6, <2>1, <2>2, SameOwners
<1>8. Lists'
  BY <1>1, SameLists
<1>9. Clean'
  BY <1>1 DEF Inv, Clean
<1>10. Memory'
  BY <1>1 DEF Inv, Memory, MemAccounted
<1> QED
  BY <1>3, <1>4, <1>5, <1>7, <1>8, <1>9, <1>10 DEF Inv

(* revert enters the critical section: no thread was in it.                *)
LEMMA RevertLock ==
    ASSUME Inv, NEW t \in Threads, revert_lock(t)
    PROVE  Inv'
<1>1. /\ pc[t] = "revert_lock" /\ pc'[t] = "revert_link"
      /\ \A u \in Threads : u # t => pc'[u] = pc[u]
      /\ pc' = [pc EXCEPT ![t] = "revert_link"]
      /\ mutex = {} /\ mutex' = {t}
      /\ UNCHANGED <<pool, next, total_mem, dirty, exited, asked, buf, held, made, free>>
  BY DEF revert_lock, Step, Unlocked, Inv, Typed, poolVars, ghosts
<1>2. Typed'
  BY <1>1 DEF Inv, Typed, Critical
<1>3. Locking'
  BY <1>1 DEF Inv, Locking, Critical
<1>4. Working'
  BY <1>1 DEF Inv, Working, Allocating
<1>5. \A u \in Threads : Hands(u)' = Hands(u)
  BY <1>1 DEF Hands
<1>6. Owned'
  BY <1>1, <1>5, SameOwners DEF Inv, Owned, InHand
<1>7. Lists'
  BY <1>1, SameLists
<1>8. Clean' /\ Memory'
  BY <1>1 DEF Inv, Clean, Memory, MemAccounted
<1> QED
  BY <1>2, <1>3, <1>4, <1>6, <1>7, <1>8 DEF Inv

(* buffer->next = _pool[index]: the buffer is on no list yet.              *)
LEMMA RevertLink ==
    ASSUME Inv, NEW t \in Threads, revert_link(t)
    PROVE  Inv'
<1> DEFINE c == buf[t][1]
<1>1. /\ pc[t] = "revert_link" /\ pc'[t] = "revert_first"
      /\ \A u \in Threads : u # t => pc'[u] = pc[u]
      /\ pc' = [pc EXCEPT ![t] = "revert_first"]
      /\ next' = [next EXCEPT ![buf[t]] = pool[c]]
      /\ UNCHANGED <<mutex, pool, total_mem, dirty, exited, asked, buf, held, made, free>>
  BY DEF revert_link, Step, Inv, Typed, ghosts
<1>2. pc[t] \in InHand
  BY <1>1 DEF InHand
<1>3. buf[t] \in Bufs /\ c \in Caps
  BY <1>2, InHandIsOffList, NullIsNoBuffer
<1>4. \A d \in Caps : \A i \in 1..Len(free[d]) : next'[free[d][i]] = next[free[d][i]]
  <2>1. \A x \in Bufs : x # buf[t] => next'[x] = next[x]
    BY <1>1 DEF Inv, Typed
  <2>2. \A d \in Caps : \A i \in 1..Len(free[d]) : free[d][i] \in Bufs
    BY DEF Inv, Lists, MadeBufs
  <2> QED BY <1>2, <2>1, <2>2, InHandIsOffList
<1>5. Typed'
  BY <1>1, <1>3 DEF Inv, Typed, Critical
<1>6. Locking'
  BY <1>1 DEF Inv, Locking, Critical
<1>7. Working'
  <2>1. \A u \in Threads : u # t => pc[u] \notin Critical
    BY <1>1 DEF Inv, Locking, Critical
  <2>2. next'[buf[t]] = pool[buf[t][1]]
    BY <1>1, <1>3 DEF Inv, Typed
  <2> QED BY <1>1, <2>1, <2>2 DEF Inv, Working, Allocating, Critical
<1>8. \A u \in Threads : Hands(u)' = Hands(u)
  BY <1>1 DEF Hands
<1>9. Owned'
  BY <1>1, <1>8, SameOwners DEF Inv, Owned, InHand
<1>10. Lists'
  BY <1>1, <1>4, SameLists
<1>11. Clean' /\ Memory'
  BY <1>1 DEF Inv, Clean, Memory, MemAccounted
<1> QED
  BY <1>5, <1>6, <1>7, <1>9, <1>10, <1>11 DEF Inv

(* revert leaves the critical section.                                     *)
LEMMA RevertUnlock ==
    ASSUME Inv, NEW t \in Threads, revert_unlock(t)
    PROVE  Inv'
<1>1. /\ pc[t] = "revert_unlock" /\ pc'[t] = "idle"
      /\ \A u \in Threads : u # t => pc'[u] = pc[u] /\ buf'[u] = buf[u]
      /\ pc' = [pc EXCEPT ![t] = "idle"]
      /\ buf' = [buf EXCEPT ![t] = NULL]
      /\ mutex' = {}
      /\ UNCHANGED <<pool, next, total_mem, dirty, exited, asked, held, made, free>>
  BY DEF revert_unlock, Step, Inv, Typed, poolVars, ghosts
<1>2. Typed'
  BY <1>1 DEF Inv, Typed
<1>3. Locking'
  BY <1>1 DEF Inv, Locking, Critical
<1>4. Working'
  BY <1>1 DEF Inv, Working, Allocating
<1>5. \A u \in Threads : Hands(u)' = Hands(u)
  BY <1>1 DEF Hands
<1>6. Owned'
  BY <1>1, <1>5, SameOwners DEF Inv, Owned, InHand
<1>7. Lists'
  BY <1>1, SameLists
<1>8. Clean' /\ Memory'
  BY <1>1 DEF Inv, Clean, Memory, MemAccounted
<1> QED
  BY <1>2, <1>3, <1>4, <1>6, <1>7, <1>8 DEF Inv

(* _pool[index] = buffer makes the buffer the first of the list, in front  *)
(* of what it was linked to.                                               *)
LEMMA RevertFirst ==
    ASSUME Inv, NEW t \in Threads, revert_first(t)
    PROVE  Inv'
<1> DEFINE b == buf[t]
<1>1. pc[t] \in InHand /\ pc[t] = "revert_first"
  BY DEF revert_first, Step, InHand
<1>2. b \in Bufs /\ b[1] \in Caps /\ b \in MadeBufs \ held[t]
  BY <1>1, InHandIsOffList, NullIsNoBuffer
<1>3. PICK k \in Caps : k = b[1]
  BY <1>2
<1> DEFINE q == free[k]
           r == <<b>> \o q
<1>4. /\ pc'[t] = "revert_unlock"
      /\ \A u \in Threads : u # t => pc'[u] = pc[u]
      /\ pc' = [pc EXCEPT ![t] = "revert_unlock"]
      /\ pool' = [pool EXCEPT ![k] = b]
      /\ free' = [free EXCEPT ![k] = r]
      /\ UNCHANGED <<mutex, next, total_mem, dirty, exited, asked, buf, held, made>>
  BY <1>3 DEF revert_first, Step, Inv, Typed
<1>5. q \in Seq(Bufs) /\ Len(q) \in Nat
  BY DEF Inv, Typed
<1>6. /\ r \in Seq(Bufs) /\ Len(r) = Len(q) + 1 /\ r[1] = b
      /\ \A i \in 1..Len(q) : r[i + 1] = q[i]
      /\ \A i \in 2..Len(r) : r[i] = q[i - 1] /\ i - 1 \in 1..Len(q)
      /\ r # << >>
  BY <1>2, <1>5
<1>7. /\ \A c \in Caps : c # k => free'[c] = free[c] /\ pool'[c] = pool[c]
      /\ free'[k] = r /\ pool'[k] = b
  BY <1>4 DEF Inv, Typed
<1>8. /\ \A i \in 1..Len(q) : q[i] \in MadeBufs /\ q[i][1] = k /\ q[i] # b
      /\ \A i, j \in 1..Len(q) : q[i] = q[j] => i = j
      /\ \A i \in 1..Len(q) : next[q[i]] = IF i = Len(q) THEN NULL ELSE q[i + 1]
  <2>1. /\ \A i \in 1..Len(q) : q[i] \in MadeBufs /\ q[i][1] = k
        /\ \A i, j \in 1..Len(q) : q[i] = q[j] => i = j
        /\ \A i \in 1..Len(q) : next[q[i]] = IF i = Len(q) THEN NULL ELSE q[i + 1]
    BY DEF Inv, Lists, Linked
  <2>2. \A i \in 1..Len(q) : q[i] # b
    BY <1>1, InHandIsOffList
  <2> QED BY <2>1, <2>2
<1>9. next[b] = IF q = << >> THEN NULL ELSE q[1]
  BY <1>1, <1>3 DEF Inv, Working, Lists, Linked
<1>10. MadeBufs' = MadeBufs /\ MadeBufs \subseteq Bufs
  BY <1>4 DEF MadeBufs
<1>11. Typed'
  BY <1>2, <1>4, <1>6 DEF Inv, Typed, Critical
<1> HIDE DEF r
<1>12. Locking'
  BY <1>1, <1>4 DEF Inv, Locking, Critical
<1>13. Working'
  <2>1. \A u \in Threads : u # t => pc[u] \notin Critical
    BY <1>1 DEF Inv, Locking, Critical
  <2> QED BY <1>4, <2>1 DEF Inv, Working, Allocating, Critical
<1>14. \A x \in Bufs : OnList(x)' <=> OnList(x) \/ x = b
  <2>1. ASSUME NEW x \in Bufs, x[1] # k PROVE OnList(x)' <=> OnList(x) \/ x = b
    BY <1>3, <1>7, <2>1, NullIsNoBuffer DEF OnList
  <2>2. ASSUME NEW x \in Bufs, x[1] = k PROVE OnList(x)' <=> OnList(x) \/ x = b
    <3>1. OnList(x) <=> \E i \in 1..Len(q) : q[i] = x
      BY <2>2 DEF OnList
    <3>2. OnList(x)' <=> \E i \in 1..Len(r) : r[i] = x
      BY <2>2, <1>7 DEF OnList
    <3>3. ASSUME NEW i \in 1..Len(r), r[i] = x, x # b PROVE OnList(x)
      <4>1. i \in 2..Len(r)
        BY <1>5, <1>6, <3>3
      <4> QED BY <1>6, <3>1, <3>3, <4>1
    <3>4. ASSUME NEW i \in 1..Len(q), q[i] = x PROVE \E j \in 1..Len(r) : r[j] = x
      <4>1. i + 1 \in 1..Len(r) /\ r[i + 1] = x
        BY <1>5, <1>6, <3>4
      <4> QED BY <4>1
    <3>5. x = b => \E j \in 1..Len(r) : r[j] = x
      <4>1. 1 \in 1..Len(r)
        BY <1>5, <1>6
      <4> QED BY <1>6, <4>1
    <3> QED BY <3>1, <3>2, <3>3, <3>4, <3>5
  <2> QED BY <2>1, <2>2
<1>15. \A u \in Threads : Hands(u)' = IF u = t THEN Hands(t) \ {b} ELSE Hands(u)
  BY <1>1, <1>2, <1>4 DEF Hands
<1>16. \A u \in Threads : Hands(u) \subseteq MadeBufs
  BY DEF Inv, Owned, Hands, InHand
<1>17. b \in Hands(t)
  BY <1>1, InHandIsOffList
<1>18. Owned'
  <2>1. (\A u \in Threads : held[u] \subseteq MadeBufs)'
    BY <1>4, <1>10 DEF Inv, Owned
  <2>2. (\A u \in Threads : pc[u] \in InHand => buf[u] \in MadeBufs \ held[u])'
    BY <1>4, <1>10 DEF Inv, Owned, InHand
  <2>3. (\A u, v \in Threads : \A x \in Hands(u) : x \in Hands(v) => u = v)'
    BY <1>15 DEF Inv, Owned
  <2>4. (\A u \in Threads : \A x \in Hands(u) : ~OnList(x))'
    <3>1. ASSUME NEW u \in Threads, NEW x \in Hands(u)' PROVE ~OnList(x)'
      <4>1. x \in Hands(u) /\ x # b
        BY <1>15, <1>17, <3>1 DEF Inv, Owned
      <4>2. x \in Bufs /\ ~OnList(x)
        BY <4>1, <1>10, <1>16 DEF Inv, Owned
      <4> QED BY <4>1, <4>2, <1>14
    <3> QED BY <3>1
  <2>5. (\A x \in MadeBufs : OnList(x) \/ \E u \in Threads : x \in Hands(u))'
    <3>1. ASSUME NEW x \in MadeBufs PROVE OnList(x)' \/ \E u \in Threads : x \in Hands(u)'
      <4>1. x \in Bufs
        BY <1>10
      <4> QED BY <4>1, <1>14, <1>15 DEF Inv, Owned
    <3> QED BY <1>10, <3>1
  <2> QED BY <2>1, <2>2, <2>3, <2>4, <2>5 DEF Owned
<1>19. Lists'
  <2>1. ASSUME NEW c \in Caps, c # k
        PROVE  /\ \A i \in 1..Len(free'[c]) : free'[c][i] \in MadeBufs' /\ free'[c][i][1] = c
               /\ \A i, j \in 1..Len(free'[c]) : free'[c][i] = free'[c][j] => i = j
               /\ Linked(c)'
    BY <1>4, <1>7, <1>10, <2>1 DEF Inv, Lists, Linked
  <2> HIDE DEF q, b
  <2>2. ASSUME NEW i \in 1..Len(r) PROVE i = 1 \/ i \in 2..Len(r)
    BY <1>5, <1>6
  <2>3. \A i \in 1..Len(r) : r[i] \in MadeBufs /\ r[i][1] = k
    BY <1>2, <1>3, <1>6, <1>8, <2>2
  <2>4. ASSUME NEW i \in 1..Len(r), NEW j \in 1..Len(r), r[i] = r[j] PROVE i = j
    <3>1. ASSUME i \in 2..Len(r), j \in 2..Len(r) PROVE i = j
      <4>1. /\ i - 1 \in 1..Len(q) /\ r[i] = q[i - 1]
            /\ j - 1 \in 1..Len(q) /\ r[j] = q[j - 1]
        BY <1>6, <3>1
      <4>2. i - 1 = j - 1
        BY <1>8, <2>4, <4>1
      <4> QED BY <4>2
    <3>2. ASSUME i = 1, j \in 2..Len(r) PROVE FALSE
      BY <1>6, <1>8, <2>4, <3>2
    <3>3. ASSUME j = 1, i \in 2..Len(r) PROVE FALSE
      BY <1>6, <1>8, <2>4, <3>3
    <3> QED BY <2>2, <3>1, <3>2, <3>3
  <2>5. ASSUME NEW i \in 1..Len(r)
        PROVE  next[r[i]] = IF i = Len(r) THEN NULL ELSE r[i + 1]
    <3>1. CASE i = 1
      <4>1. CASE Len(q) = 0
        BY <1>5, <1>6, <1>9, <3>1, <4>1
      <4>2. CASE Len(q) > 0
        <5>1. q # << >> /\ r[2] = q[1]
          BY <1>5, <1>6, <4>2
        <5> QED BY <1>5, <1>6, <1>9, <3>1, <4>2, <5>1
      <4> QED BY <1>5, <4>1, <4>2
    <3>2. CASE i \in 2..Len(r)
      <4>1. i - 1 \in 1..Len(q) /\ r[i] = q[i - 1]
        BY <1>6, <3>2
      <4>2. next[r[i]] = IF i - 1 = Len(q) THEN NULL ELSE q[i]
        BY <1>8, <4>1
      <4>3. i - 1 # Len(q) => r[i + 1] = q[i]
        BY <1>5, <1>6, <4>1
      <4> QED BY <1>5, <1>6, <4>1, <4>2, <4>3
    <3> QED BY <2>2, <3>1, <3>2
  <2>6. Linked(k)'
    <3>1. \A i \in 1..Len(free'[k]) :
             next'[free'[k][i]] = IF i = Len(free'[k]) THEN NULL ELSE free'[k][i + 1]
      BY <1>4, <1>7, <2>5
    <3>2. pool'[k] = IF free'[k] = << >> THEN NULL ELSE free'[k][1]
      BY <1>6, <1>7
    <3> QED BY <3>1, <3>2 DEF Linked
  <2>7. /\ \A i \in 1..Len(free'[k]) : free'[k][i] \in MadeBufs' /\ free'[k][i][1] = k
        /\ \A i, j \in 1..Len(free'[k]) : free'[k][i] = free'[k][j] => i = j
    BY <1>7, <1>10, <2>3, <2>4
  <2> QED BY <2>1, <2>6, <2>7 DEF Lists
<1>20. Clean' /\ Memory'
  BY <1>4 DEF Inv, Clean, Memory, MemAccounted
<1> QED
  BY <1>11, <1>12, <1>13, <1>18, <1>19, <1>20 DEF Inv

(* The invariant holds when the constructor has made the first buffers:    *)
(* they are on the lists, in the order of their links.                     *)
LEMMA InitInv == Init => Inv
<1> SUFFICES ASSUME Init PROVE Inv
  OBVIOUS
<1>1. /\ Caps \subseteq Nat \ {0} /\ IsFiniteSet(Caps) /\ MemLimit \in Nat
      /\ Preset \in [Caps -> 1..MemLimit] /\ Preset \in [Caps -> Nat]
  BY BufferPoolAssumption
<1>2. Memory /\ total_mem \in Nat
  <2>1. Weighted(Preset, Caps)
    BY <1>1 DEF Weighted
  <2>2. Sum(Preset) \in Nat
    BY <1>1, <2>1, SumCovers
  <2> QED BY <2>2, BufferPoolAssumption DEF Init, Memory, MemAccounted
<1>3. ASSUME NEW c \in Caps
      PROVE  /\ Preset[c] \in 1..MemLimit /\ Preset[c] \in Nat
             /\ free[c] \in Seq(Bufs) /\ Len(free[c]) = Preset[c] /\ free[c] # << >>
             /\ \A i \in 1..Preset[c] : free[c][i] = <<c, i>> /\ <<c, i>> \in Bufs
             /\ pool[c] = <<c, 1>> /\ <<c, 1>> \in Bufs /\ made[c] = Preset[c]
  <2> DEFINE n == Preset[c]
             f == [i \in 1..n |-> <<c, i>>]
  <2>1. n \in 1..MemLimit /\ n \in Nat /\ n >= 1
    BY <1>1
  <2>2. \A i \in 1..n : <<c, i>> \in Bufs
    BY <2>1, <1>1 DEF Bufs
  <2>3. 1 \in 1..n
    BY <2>1
  <2> HIDE DEF n
  <2>4. f \in Seq(Bufs) /\ Len(f) = n /\ f # << >> /\ \A i \in 1..n : f[i] = <<c, i>>
    BY <2>1, <2>2, <2>3
  <2>5. free[c] = f /\ pool[c] = <<c, 1>> /\ made[c] = n
    BY DEF Init, n
  <2> HIDE DEF f
  <2> QED BY <2>1, <2>2, <2>3, <2>4, <2>5 DEF f, n
<1>4. Typed
  <2>1. next \in [Bufs -> Bufs \cup {NULL}]
    <3>1. ASSUME NEW b \in Bufs, b[2] < Preset[b[1]] PROVE <<b[1], b[2] + 1>> \in Bufs
      <4>1. b[1] \in Caps /\ b[2] \in 1..MemLimit /\ Preset[b[1]] \in 1..MemLimit
        BY <1>1, NullIsNoBuffer
      <4>2. b[2] + 1 \in 1..MemLimit
        BY <1>1, <3>1, <4>1
      <4> QED BY <4>1, <4>2 DEF Bufs
    <3> QED BY <3>1 DEF Init
  <2>2. pool \in [Caps -> Bufs \cup {NULL}] /\ free \in [Caps -> Seq(Bufs)]
    BY <1>3 DEF Init
  <2>3. buf \in [Threads -> Bufs \cup {NULL}] /\ held \in [Threads -> SUBSET Bufs]
    BY DEF Init
  <2> QED BY <1>1, <1>2, <2>1, <2>2, <2>3 DEF Init, Typed
<1>5. Locking /\ Working /\ Clean
  BY DEF Init, Locking, Working, Clean, Critical, Allocating
<1>6. \A t \in Threads : Hands(t) = {} /\ pc[t] \notin InHand
  BY DEF Init, Hands, InHand
<1>7. Owned
  <2>1. ASSUME NEW b \in MadeBufs PROVE OnList(b)
    <3>1. b[1] \in Caps /\ b[2] \in 1..MemLimit /\ b = <<b[1], b[2]>> /\ b[2] <= made[b[1]]
      BY NullIsNoBuffer DEF MadeBufs
    <3>2. PICK c \in Caps, i \in 1..MemLimit : b[1] = c /\ b[2] = i
      BY <3>1
    <3>a. Preset[c] \in Nat /\ made[c] = Preset[c] /\ Len(free[c]) = Preset[c]
      BY <1>3
    <3>b. i \in 1..Preset[c]
      BY <3>1, <3>2, <3>a, <1>1
    <3>3. i \in 1..Len(free[c])
      BY <3>a, <3>b
    <3>4. free[c][i] = b
      BY <3>1, <3>2, <3>b, <1>3
    <3> QED BY <3>2, <3>3, <3>4 DEF OnList
  <2> QED BY <1>6, <2>1 DEF Owned, Init
<1>8. Lists
  <2>1. ASSUME NEW c \in Caps
        PROVE  /\ \A i \in 1..Len(free[c]) : free[c][i] \in MadeBufs /\ free[c][i][1] = c
               /\ \A i, j \in 1..Len(free[c]) : free[c][i] = free[c][j] => i = j
               /\ Linked(c)
    <3> DEFINE n == Preset[c]
               q == free[c]
    <3>1. /\ n \in Nat /\ Len(q) = n /\ made[c] = n /\ q # << >>
          /\ pool[c] = <<c, 1>>
      BY <1>3
    <3>a. n >= 1
      BY <1>1
    <3>b. \A i \in 1..n : q[i] = <<c, i>>
      BY <1>3
    <3>c. \A i \in 1..n : <<c, i>> \in Bufs
      BY <1>3
    <3>2. \A i \in 1..n : next[<<c, i>>] = IF i < n THEN <<c, i + 1>> ELSE NULL
      BY <3>1, <3>c DEF Init
    <3> HIDE DEF n, q
    <3>3. \A i \in 1..n : q[i] \in MadeBufs /\ q[i][1] = c
      <4>1. ASSUME NEW i \in 1..n PROVE <<c, i>> \in MadeBufs
        BY <3>1, <3>c DEF MadeBufs
      <4> QED BY <3>b, <4>1
    <3>4. \A i, j \in 1..n : q[i] = q[j] => i = j
      BY <3>1, <3>b
    <3>5. ASSUME NEW i \in 1..n PROVE next[q[i]] = IF i = n THEN NULL ELSE q[i + 1]
      <4>1. q[i] = <<c, i>> /\ next[<<c, i>>] = IF i < n THEN <<c, i + 1>> ELSE NULL
        BY <3>2, <3>b
      <4>2. i < n => q[i + 1] = <<c, i + 1>>
        BY <3>1, <3>b
      <4> QED BY <3>1, <4>1, <4>2
    <3>6. Linked(c)
      <4>1. q[1] = <<c, 1>>
        BY <3>1, <3>a, <3>b
      <4> QED BY <3>1, <3>5, <4>1 DEF Linked, q
    <3> QED BY <3>1, <3>3, <3>4, <3>6 DEF q
  <2> QED BY <2>1 DEF Lists
<1> QED
  BY <1>2, <1>4, <1>5, <1>7, <1>8 DEF Inv

(* Nothing happens in a step that changes no variable.                     *)
LEMMA StutterInv ==
    ASSUME Inv, UNCHANGED vars
    PROVE  Inv'
<1>1. UNCHANGED <<mutex, pool, next, total_mem, dirty, pc, asked, buf, held, made, free>>
  BY DEF vars, poolVars, ghosts
<1>2. Typed' /\ Locking' /\ Working' /\ Clean' /\ Memory'
  BY <1>1 DEF Inv, Typed, Locking, Working, Clean, Memory, MemAccounted
<1>3. Owned'
  <2>1. \A u \in Threads : Hands(u)' = Hands(u)
    BY <1>1 DEF Hands
  <2> QED BY <1>1, <2>1, SameOwners DEF Inv, Owned
<1>4. Lists'
  BY <1>1, SameLists
<1> QED
  BY <1>2, <1>3, <1>4 DEF Inv

(* Every step keeps the invariant.                                         *)
LEMMA NextInv ==
    ASSUME Inv, [Next]_vars
    PROVE  Inv'
<1>1. CASE UNCHANGED vars
  BY <1>1, StutterInv
<1>2. CASE Next
  <2>1. PICK t \in Threads : Calls(t) \/ alloc(t) \/ revert(t)
    BY <1>2 DEF Next
  <2>2. CASE Calls(t)
    BY <2>2, AllocCall, Fill, RevertCall DEF Calls
  <2>3. CASE alloc(t)
    BY <2>3, AllocLock, AllocFound, AllocExit, AllocNew, AllocRelink, AllocUnlock,
       AllocReturn DEF alloc
  <2>4. CASE revert(t)
    BY <2>4, RevertLock, RevertLink, RevertFirst, RevertUnlock DEF revert
  <2> QED BY <2>1, <2>2, <2>3, <2>4
<1> QED
  BY <1>1, <1>2

(* The invariant holds in every reachable state.                           *)
THEOREM PoolInvariant == Spec => []Inv
BY InitInv, NextInv, PTL DEF Spec

(* In a state of the invariant each buffer is in exactly one place.        *)
LEMMA InvOneOwner == Inv => OneOwner
<1> SUFFICES ASSUME Inv PROVE OneOwner
  OBVIOUS
<1>1. ASSUME NEW b \in Bufs, b[2] <= made[b[1]] PROVE Places(b) = 1
  <2> DEFINE q == free[b[1]]
             A == {t \in Threads : b \in Hands(t)}
             B == {i \in 1..Len(q) : q[i] = b}
  <2>1. b \in MadeBufs /\ b[1] \in Caps
    BY <1>1, NullIsNoBuffer DEF MadeBufs
  <2>2. CASE OnList(b)
    <3>1. A = {}
      BY <2>2 DEF Inv, Owned
    <3>2. PICK i \in 1..Len(q) : q[i] = b
      BY <2>2 DEF OnList
    <3>3. B = {i}
      BY <2>1, <3>2 DEF Inv, Lists
    <3> HIDE DEF A, B
    <3>4. Cardinality(A) = 0 /\ Cardinality(B) = 1
      BY <3>1, <3>3, FS_EmptySet, FS_Singleton
    <3> QED BY <3>4 DEF Places, A, B
  <2>3. CASE ~OnList(b)
    <3>1. B = {}
      BY <2>3 DEF OnList
    <3>2. PICK t \in Threads : b \in Hands(t)
      BY <2>1, <2>3 DEF Inv, Owned
    <3>3. A = {t}
      BY <3>2 DEF Inv, Owned
    <3> HIDE DEF A, B
    <3>4. Cardinality(A) = 1 /\ Cardinality(B) = 0
      BY <3>1, <3>3, FS_EmptySet, FS_Singleton
    <3> QED BY <3>4 DEF Places, A, B
  <2> QED BY <2>2, <2>3
<1>2. \A c \in Caps : Linked(c)
  BY DEF Inv, Lists
<1> QED
  BY <1>1, <1>2 DEF OneOwner

(* In a state of the invariant alloc returns what was asked for.           *)
LEMMA InvHandsOut == Inv => HandsOut
<1> SUFFICES ASSUME Inv, NEW t \in Threads, pc[t] = "alloc_next"
             PROVE  /\ buf[t] \notin dirty
                    /\ asked[t] <= buf[t][1]
                    /\ \A c \in Caps : asked[t] <= c => buf[t][1] <= c
  BY DEF HandsOut
<1>1. buf[t] \notin dirty
  <2>1. pc[t] \in InHand
    BY DEF InHand
  <2>2. \A u \in Threads : buf[t] \in held[u] => u = t
    BY <2>1, InHandIsOffList DEF Inv, Owned, Hands
  <2> QED BY <2>1, <2>2, InHandIsOffList DEF Inv, Clean
<1>2. Fits(asked[t]) /\ asked[t] \in Nat /\ buf[t][1] = SizeClass(asked[t])
  BY DEF Inv, Typed, Working, Allocating
<1> QED
  BY <1>1, <1>2, SizeClassFits

(* However many threads call alloc and revert, every buffer is in one      *)
(* thread's hands or once on the list of its capacity, and the links make  *)
(* up these lists.                                                         *)
THEOREM EveryBufferHasOneOwner == Spec => []OneOwner
BY PoolInvariant, InvOneOwner, PTL

(* alloc returns an empty buffer of the smallest capacity that suffices,   *)
(* though it reads and writes it after the unlock.                         *)
THEOREM AllocHandsOutCleanBuffers == Spec => []HandsOut
BY PoolInvariant, InvHandsOut, PTL

(* _total_mem is the memory of all buffers there are and stays below the   *)
(* limit, on every interleaving of the threads that allocate.              *)
THEOREM MemoryIsAccounted == Spec => []MemAccounted
<1>1. Inv => MemAccounted
  BY DEF Inv, Memory
<1> QED
  BY <1>1, PoolInvariant, PTL
=============================================================================
