---------------------------- MODULE KListProofs ----------------------------
(***************************************************************************)
(* Proofs about the lists of include/os/list.h: that their pointers always *)
(* form rings, and that they implement the sequences of SeqLists.          *)
(*                                                                         *)
(* The invariant says that the pointers show some sequences (Shows): the   *)
(* pointers of each position lead to its neighbours, no item is at two     *)
(* positions, and the linked items are those at a position.  The chain     *)
(* that ChainFrom follows is the sequence shown (ChainIsShown); this is    *)
(* the one place that takes induction, which rests on LeastNumber.  After  *)
(* that each operation is a matter of the few positions it touches.        *)
(***************************************************************************)
EXTENDS KListUse, FiniteSetTheorems, SequenceTheorems, WellFoundedInduction,
        TLAPS

-----------------------------------------------------------------------------
(* Sequences and the pointers that represent them *)

\* Position i of the sequence s of head h; the head is before and behind it.
Place(s, h, i) == IF i \in 1 .. Len(s) THEN s[i] ELSE h

Heaps == [next : [Nodes -> Nodes], pre : [Nodes -> Nodes]]

\* No item is twice on the lists.
Distinct(L) ==
  \A h, g \in Heads : \A i \in 1 .. Len(L[h]), j \in 1 .. Len(L[g]) :
    L[h][i] = L[g][j] => h = g /\ i = j

\* The pointers lead along the lists, forwards and backwards.
Threads(hp, L) ==
  \A h \in Heads : \A i \in 0 .. Len(L[h]) :
    /\ hp.next[Place(L[h], h, i)] = Place(L[h], h, i + 1)
    /\ hp.pre[Place(L[h], h, i + 1)] = Place(L[h], h, i)

\* The items of S are those on the lists.
Holds(S, L) ==
  \A n \in Items :
    n \in S <=> \E h \in Heads : \E i \in 1 .. Len(L[h]) : L[h][i] = n

\* The heap hp, with the items of S linked, shows the sequences L.
Shows(hp, S, L) ==
  /\ L \in [Heads -> Seq(Items)]
  /\ Distinct(L)
  /\ Threads(hp, L)
  /\ Holds(S, L)

-----------------------------------------------------------------------------
(* Induction, and the chain of a head *)

\* Every set of numbers that is not empty has a least one.
LEMMA LeastNumber ==
  ASSUME NEW T \in SUBSET Nat, T # {}
  PROVE  \E x \in T : \A y \in T : x <= y
<1> DEFINE R == {ss \in Nat \X Nat : ss[1] < ss[2]}
<1>1. IsWellFoundedOn(R, Nat)
  BY NatLessThanWellFounded DEF OpToRel
<1>2. PICK x \in T : \A y \in T : ~(<<y, x>> \in R)
  <2> HIDE DEF R
  <2> QED BY <1>1, WFMin
<1>3. \A y \in T : ~(y < x)
  BY <1>2
<1> QED
  BY <1>3

\* The recursive function of ChainFrom.
IsWalk(f, next, h, N) ==
  f = [k \in 0 .. N |-> next[IF k = 0 THEN h ELSE f[k - 1]]]

LEMMA WalkExists ==
  ASSUME NEW next \in [Nodes -> Nodes], NEW h \in Nodes, NEW N \in Nat
  PROVE  \E f \in [0 .. N -> Nodes] : IsWalk(f, next, h, N)
<1> DEFINE T == {m \in Nat : ~ \E f \in [0 .. m -> Nodes] : IsWalk(f, next, h, m)}
<1>1. SUFFICES ASSUME T # {} PROVE FALSE
  OBVIOUS
<1>2. PICK m \in T : \A y \in T : m <= y
  BY <1>1, LeastNumber
<1>3. CASE m = 0
  <2> DEFINE f == [k \in 0 .. 0 |-> next[h]]
  <2>1. f \in [0 .. 0 -> Nodes]
    OBVIOUS
  <2>2. IsWalk(f, next, h, 0)
    BY DEF IsWalk
  <2> QED
    BY <1>2, <1>3, <2>1, <2>2
<1>4. CASE m # 0
  <2>1. m - 1 \in Nat /\ m - 1 \notin T
    BY <1>2, <1>4
  <2>2. PICK g \in [0 .. m - 1 -> Nodes] : IsWalk(g, next, h, m - 1)
    BY <2>1
  <2> DEFINE f == [k \in 0 .. m |-> IF k = m THEN next[g[m - 1]] ELSE g[k]]
  <2>3. m \in Nat
    BY <1>2
  <2>4. f \in [0 .. m -> Nodes]
    BY <2>1, <2>2, <2>3
  <2>5. \A k \in 0 .. m : f[k] = next[IF k = 0 THEN h ELSE f[k - 1]]
    <3> TAKE k \in 0 .. m
    <3>1. CASE k = m
      BY <2>1, <2>3, <3>1, <1>4
    <3>2. CASE k # m
      <4>1. k \in 0 .. m - 1 /\ f[k] = g[k]
        BY <2>3, <3>2
      <4>2. g[k] = next[IF k = 0 THEN h ELSE g[k - 1]]
        BY <2>2, <4>1 DEF IsWalk
      <4>3. k # 0 => f[k - 1] = g[k - 1]
        BY <2>3, <4>1
      <4> QED BY <4>1, <4>2, <4>3
    <3> QED BY <3>1, <3>2
  <2>6. IsWalk(f, next, h, m)
    <3> DEFINE e == [k \in 0 .. m |-> next[IF k = 0 THEN h ELSE f[k - 1]]]
    <3>1. DOMAIN f = 0 .. m /\ f = [k \in DOMAIN f |-> f[k]]
      BY <2>4
    <3> HIDE DEF f
    <3>2. f = e
      BY <3>1, <2>5
    <3> QED BY <3>2 DEF IsWalk
  <2> QED
    <3> HIDE DEF f
    <3> QED BY <1>2, <2>4, <2>6
<1> QED
  BY <1>3, <1>4

\* The chain of a head is the sequence that the pointers show.
LEMMA ChainIsShown ==
  ASSUME KListAssumption,
         NEW hp \in Heaps, NEW S, NEW L, Shows(hp, S, L), NEW h \in Heads
  PROVE  ChainFrom(hp.next, h) = L[h]
<1> DEFINE N == Cardinality(Items)
           s == L[h]
           next == hp.next
           node == CHOOSE f : IsWalk(f, next, h, N)
<1>1. N \in Nat /\ s \in Seq(Items) /\ Len(s) \in Nat
  BY FS_CardinalityType DEF KListAssumption, Shows
<1>2. next \in [Nodes -> Nodes] /\ h \in Nodes /\ h \notin Items
  BY DEF Heaps, Nodes, KListAssumption
<1>3. Len(s) <= N
  <2>1. s \in Injection(1 .. Len(s), Items)
    <3>1. s \in [1 .. Len(s) -> Items]
      BY <1>1
    <3>2. \A i, j \in 1 .. Len(s) : s[i] = s[j] => i = j
      BY DEF Shows, Distinct
    <3> QED BY <3>1, <3>2 DEF Injection, IsInjective
  <2>2. Cardinality(1 .. Len(s)) <= N
    BY <2>1, FS_Injection DEF KListAssumption
  <2>3. Cardinality(1 .. Len(s)) = Len(s)
    <3>1. Len(s) \in Nat
      BY <1>1
    <3> DEFINE m == Len(s)
    <3> HIDE DEF m
    <3>2. m \in Nat => Cardinality(1 .. m) = m
      <4>1. ASSUME m \in Nat PROVE Cardinality(1 .. m) = m
        <5>1. Cardinality(1 .. m) = IF 1 > m THEN 0 ELSE m - 1 + 1
          BY <4>1, FS_Interval
        <5> QED BY <4>1, <5>1
      <4> QED BY <4>1
    <3> QED BY <3>1, <3>2 DEF m
  <2> QED BY <2>2, <2>3
<1>4. IsWalk(node, next, h, N)
  <2>1. \E f : IsWalk(f, next, h, N)
    BY <1>1, <1>2, WalkExists
  <2> QED BY <2>1
<1> HIDE DEF N, node
<1>5. \A k \in 0 .. N : node[k] = next[IF k = 0 THEN h ELSE node[k - 1]]
  BY <1>4 DEF IsWalk
<1>6. \A k \in 0 .. Len(s) : next[Place(s, h, k)] = Place(s, h, k + 1)
  BY DEF Shows, Threads
<1>7. \A k \in 0 .. Len(s) : node[k] = Place(s, h, k + 1)
  <2> DEFINE T == {k \in 0 .. Len(s) : node[k] # Place(s, h, k + 1)}
  <2>1. SUFFICES ASSUME T # {} PROVE FALSE
    OBVIOUS
  <2>2. T \in SUBSET Nat
    BY <1>1
  <2>3. PICK m \in T : \A y \in T : m <= y
    BY <2>1, <2>2, LeastNumber
  <2>4. m \in 0 .. Len(s) /\ m \in 0 .. N /\ node[m] # Place(s, h, m + 1)
    BY <2>3, <1>1, <1>3
  <2>5. CASE m = 0
    <3>1. Place(s, h, 0) = h
      BY DEF Place
    <3> QED BY <2>4, <2>5, <3>1, <1>5, <1>6, <1>1
  <2>6. CASE m # 0
    <3>1. m - 1 \in 0 .. Len(s) /\ m - 1 \notin T
      BY <2>3, <2>4, <2>6, <1>1
    <3>2. node[m - 1] = Place(s, h, m - 1 + 1)
      BY <3>1
    <3>3. m - 1 + 1 = m
      BY <2>4, <1>1
    <3> QED BY <2>4, <2>6, <3>2, <3>3, <1>5, <1>6
  <2> QED BY <2>5, <2>6
<1>8. /\ node[Len(s)] = h
      /\ \A j \in 0 .. Len(s) - 1 : node[j] = s[j + 1] /\ node[j] # h
  <2>1. node[Len(s)] = h
    BY <1>1, <1>7 DEF Place
  <2>2. ASSUME NEW j \in 0 .. Len(s) - 1
        PROVE  node[j] = s[j + 1] /\ s[j + 1] \in Items
    <3>1. j + 1 \in 1 .. Len(s) /\ j \in 0 .. Len(s)
      BY <1>1
    <3> QED BY <3>1, <1>1, <1>7 DEF Place
  <2> QED BY <2>1, <2>2, <1>2
<1> DEFINE P(k) == node[k] = h /\ \A j \in 0 .. k - 1 : node[j] # h
           n == CHOOSE k \in 0 .. N : P(k)
<1>9. n = Len(s)
  <2>1. Len(s) \in 0 .. N /\ P(Len(s))
    BY <1>1, <1>3, <1>8
  <2>2. \A k \in 0 .. N : P(k) => k = Len(s)
    <3> SUFFICES ASSUME NEW k \in 0 .. N, P(k), k # Len(s) PROVE FALSE
      OBVIOUS
    <3>1. k \in 0 .. Len(s) - 1 \/ Len(s) \in 0 .. k - 1
      BY <1>1
    <3> QED BY <3>1, <1>8
  <2> QED BY <2>1, <2>2
<1>10. ChainFrom(next, h) = [i \in 1 .. n |-> node[i - 1]]
  BY DEF ChainFrom, IsWalk, N, node
<1> HIDE DEF n
<1>11. \A i \in 1 .. Len(s) : node[i - 1] = s[i]
  <2> TAKE i \in 1 .. Len(s)
  <2>1. i - 1 \in 0 .. Len(s) - 1 /\ i - 1 + 1 = i
    BY <1>1
  <2> QED BY <2>1, <1>8
<1>12. s = [i \in 1 .. Len(s) |-> s[i]]
  BY <1>1
<1> HIDE DEF s, next
<1>13. [i \in 1 .. Len(s) |-> node[i - 1]] = s
  BY <1>11, <1>12
<1> QED
  BY <1>9, <1>10, <1>13 DEF s, next

-----------------------------------------------------------------------------
(* What the operations of list.h do to the two pointers of a node *)

LEMMA AddPointers ==
  ASSUME NEW hp \in Heaps, NEW h \in Nodes, NEW n \in Nodes, h # n
  PROVE  /\ K!list_add(hp, h, n) \in Heaps
         /\ \A x \in Nodes : K!list_add(hp, h, n).next[x] =
              IF x = h THEN n ELSE IF x = n THEN hp.next[h] ELSE hp.next[x]
         /\ \A x \in Nodes : K!list_add(hp, h, n).pre[x] =
              IF x = n THEN h ELSE IF x = hp.next[h] THEN n ELSE hp.pre[x]
BY DEF Heaps, K!list_add

LEMMA AddTailPointers ==
  ASSUME NEW hp \in Heaps, NEW h \in Nodes, NEW n \in Nodes, h # n
  PROVE  /\ K!list_add_tail(hp, h, n) \in Heaps
         /\ \A x \in Nodes : K!list_add_tail(hp, h, n).next[x] =
              IF x = n THEN h ELSE IF x = hp.pre[h] THEN n ELSE hp.next[x]
         /\ \A x \in Nodes : K!list_add_tail(hp, h, n).pre[x] =
              IF x = h THEN n ELSE IF x = n THEN hp.pre[h] ELSE hp.pre[x]
BY DEF Heaps, K!list_add_tail

LEMMA DelPointers ==
  ASSUME NEW hp \in Heaps, NEW n \in Nodes
  PROVE  /\ K!list_del(hp, n) \in Heaps
         /\ \A x \in Nodes : K!list_del(hp, n).next[x] =
              IF x = hp.pre[n] THEN hp.next[n] ELSE hp.next[x]
         /\ \A x \in Nodes : K!list_del(hp, n).pre[x] =
              IF x = hp.next[n] THEN hp.pre[n] ELSE hp.pre[x]
BY DEF Heaps, K!list_del

-----------------------------------------------------------------------------
(* What they do to the sequences *)

LEMMA PlaceTyped ==
  ASSUME NEW L \in [Heads -> Seq(Items)], NEW h \in Heads, NEW i
  PROVE  Place(L[h], h, i) \in Nodes /\ Len(L[h]) \in Nat
BY DEF Place, Nodes

LEMMA PlaceEnds ==
  ASSUME NEW L \in [Heads -> Seq(Items)], NEW h \in Heads
  PROVE  Place(L[h], h, 0) = h /\ Place(L[h], h, Len(L[h]) + 1) = h
BY DEF Place

\* Different positions hold different nodes; the two ends are the same one.
LEMMA PlaceDistinct ==
  ASSUME KListAssumption, NEW L \in [Heads -> Seq(Items)], Distinct(L),
         NEW h \in Heads, NEW g \in Heads,
         NEW i \in 0 .. Len(L[h]) + 1, NEW j \in 0 .. Len(L[g]) + 1,
         Place(L[h], h, i) = Place(L[g], g, j)
  PROVE  /\ h = g
         /\ \/ i = j
            \/ i = 0 /\ j = Len(L[h]) + 1
            \/ j = 0 /\ i = Len(L[h]) + 1
<1>1. Len(L[h]) \in Nat /\ Len(L[g]) \in Nat
  OBVIOUS
<1>2. \A k \in 1 .. Len(L[h]) : L[h][k] \in Items /\ L[h][k] \notin Heads
  BY DEF KListAssumption
<1>3. \A k \in 1 .. Len(L[g]) : L[g][k] \in Items /\ L[g][k] \notin Heads
  BY DEF KListAssumption
<1>4. CASE i \in 1 .. Len(L[h]) /\ j \in 1 .. Len(L[g])
  BY <1>4 DEF Place, Distinct
<1>5. CASE i \in 1 .. Len(L[h]) /\ j \notin 1 .. Len(L[g])
  BY <1>2, <1>5 DEF Place
<1>6. CASE i \notin 1 .. Len(L[h]) /\ j \in 1 .. Len(L[g])
  BY <1>3, <1>6 DEF Place
<1>7. CASE i \notin 1 .. Len(L[h]) /\ j \notin 1 .. Len(L[g])
  BY <1>1, <1>7 DEF Place
<1> QED
  BY <1>4, <1>5, <1>6, <1>7

\* The same as a fact about one assignment of sequences.
LEMMA PlacesApart ==
  ASSUME KListAssumption, NEW L \in [Heads -> Seq(Items)], Distinct(L)
  PROVE  \A h, g \in Heads :
         \A i \in 0 .. Len(L[h]) + 1, j \in 0 .. Len(L[g]) + 1 :
            \/ Place(L[h], h, i) # Place(L[g], g, j)
            \/ h = g /\ i = j
            \/ h = g /\ i = 0 /\ j = Len(L[h]) + 1
            \/ h = g /\ j = 0 /\ i = Len(L[h]) + 1
<1> TAKE h, g \in Heads
<1> TAKE i \in 0 .. Len(L[h]) + 1, j \in 0 .. Len(L[g]) + 1
<1>1. ASSUME Place(L[h], h, i) = Place(L[g], g, j)
      PROVE  h = g /\ \/ i = j
                      \/ i = 0 /\ j = Len(L[h]) + 1
                      \/ j = 0 /\ i = Len(L[h]) + 1
  BY <1>1, PlaceDistinct
<1> QED BY <1>1

\* An item on no list is at no position.
LEMMA PlaceLinked ==
  ASSUME KListAssumption, NEW L \in [Heads -> Seq(Items)],
         NEW S, Holds(S, L), NEW n \in Items \ S, NEW h \in Heads, NEW i
  PROVE  Place(L[h], h, i) # n
BY DEF Place, Holds, KListAssumption

LEMMA AddFirstShows ==
  ASSUME KListAssumption, NEW hp \in Heaps, NEW S, NEW L, Shows(hp, S, L),
         NEW h \in Heads, NEW n \in Items \ S
  PROVE  Shows(K!list_add(hp, h, n), S \cup {n}, [L EXCEPT ![h] = <<n>> \o @])
<1> DEFINE s == L[h]
           t == <<n>> \o s
           M == [L EXCEPT ![h] = t]
           hq == K!list_add(hp, h, n)
<1>1. /\ L \in [Heads -> Seq(Items)] /\ s \in Seq(Items) /\ Len(s) \in Nat
      /\ Distinct(L) /\ Threads(hp, L) /\ Holds(S, L)
  BY DEF Shows
<1>2. h \in Nodes /\ n \in Nodes /\ h # n /\ n \notin Heads
  BY DEF Nodes, KListAssumption
<1>3. /\ t \in Seq(Items) /\ Len(t) = Len(s) + 1
      /\ t[1] = n /\ \A i \in 1 .. Len(s) : t[i + 1] = s[i]
  BY <1>1
<1> HIDE DEF t, hq
<1>4. /\ M \in [Heads -> Seq(Items)] /\ M[h] = t
      /\ \A g \in Heads : g # h => M[g] = L[g]
  BY <1>1, <1>3
<1>5. /\ \A x \in Nodes : hq.next[x] =
            IF x = h THEN n ELSE IF x = n THEN hp.next[h] ELSE hp.next[x]
      /\ \A x \in Nodes : hq.pre[x] =
            IF x = n THEN h ELSE IF x = hp.next[h] THEN n ELSE hp.pre[x]
  BY <1>2, AddPointers DEF hq
<1> HIDE DEF M
<1>6. \A g \in Heads : \A i \in 1 .. Len(L[g]) : L[g][i] # n /\ L[g][i] \in Items
  BY <1>1 DEF Holds
<1>7. \A i \in 1 .. Len(t) : i # 1 => i - 1 \in 1 .. Len(s) /\ t[i] = s[i - 1]
  <2> TAKE i \in 1 .. Len(t)
  <2>1. i # 1 => i - 1 \in 1 .. Len(s) /\ i - 1 + 1 = i
    BY <1>1, <1>3
  <2> QED BY <2>1, <1>3
<1>8. Distinct(M)
  <2> SUFFICES ASSUME NEW a \in Heads, NEW b \in Heads,
                      NEW i \in 1 .. Len(M[a]), NEW j \in 1 .. Len(M[b]),
                      M[a][i] = M[b][j]
               PROVE  a = b /\ i = j
    BY DEF Distinct
  <2>1. \A c, d \in Heads : \A x \in 1 .. Len(L[c]), y \in 1 .. Len(L[d]) :
          L[c][x] = L[d][y] => c = d /\ x = y
    BY <1>1 DEF Distinct
  <2>2. CASE a # h /\ b # h
    BY <2>1, <2>2, <1>4
  <2>3. CASE a = h /\ b # h
    <3>1. i # 1
      BY <2>3, <1>3, <1>4, <1>6
    <3>2. i - 1 \in 1 .. Len(L[h]) /\ L[h][i - 1] = L[b][j]
      BY <2>3, <3>1, <1>4, <1>7
    <3> QED BY <2>1, <2>3, <3>2, <1>4
  <2>4. CASE a # h /\ b = h
    <3>1. j # 1
      BY <2>4, <1>3, <1>4, <1>6
    <3>2. j - 1 \in 1 .. Len(L[h]) /\ L[h][j - 1] = L[a][i]
      BY <2>4, <3>1, <1>4, <1>7
    <3> QED BY <2>1, <2>4, <3>2, <1>4
  <2>5. CASE a = h /\ b = h
    <3>1. i # 1 => i - 1 \in 1 .. Len(L[h]) /\ L[h][i - 1] = t[i] /\ t[i] # n
      BY <2>5, <1>4, <1>6, <1>7
    <3>2. j # 1 => j - 1 \in 1 .. Len(L[h]) /\ L[h][j - 1] = t[j] /\ t[j] # n
      BY <2>5, <1>4, <1>6, <1>7
    <3>3. t[i] = t[j] /\ t[1] = n
      BY <2>5, <1>3, <1>4
    <3>4. i = 1 <=> j = 1
      BY <3>1, <3>2, <3>3
    <3>5. i # 1 => i - 1 = j - 1
      BY <3>1, <3>2, <3>3, <3>4, <2>1, SMTT(30)
    <3>6. i \in Int /\ j \in Int
      BY <2>5, <1>1, <1>3, <1>4
    <3> QED BY <3>4, <3>5, <3>6, <2>5
  <2> QED BY <2>2, <2>3, <2>4, <2>5
<1>9. Holds(S \cup {n}, M)
  <2> SUFFICES ASSUME NEW x \in Items
               PROVE  x \in S \cup {n} <=>
                        \E g \in Heads : \E i \in 1 .. Len(M[g]) : M[g][i] = x
    BY DEF Holds
  <2>1. ASSUME x = n PROVE \E g \in Heads : \E i \in 1 .. Len(M[g]) : M[g][i] = x
    <3>1. 1 \in 1 .. Len(M[h]) /\ M[h][1] = x
      BY <2>1, <1>1, <1>3, <1>4
    <3> QED BY <3>1
  <2>2. ASSUME x \in S PROVE \E g \in Heads : \E i \in 1 .. Len(M[g]) : M[g][i] = x
    <3>1. PICK g \in Heads : \E i \in 1 .. Len(L[g]) : L[g][i] = x
      BY <2>2, <1>1 DEF Holds
    <3>2. PICK i \in 1 .. Len(L[g]) : L[g][i] = x
      BY <3>1
    <3>3. CASE g = h
      <4>1. i + 1 \in 1 .. Len(M[h]) /\ M[h][i + 1] = x
        BY <3>2, <3>3, <1>1, <1>3, <1>4
      <4> QED BY <4>1
    <3>4. CASE g # h
      BY <3>2, <3>4, <1>4
    <3> QED BY <3>3, <3>4
  <2>3. ASSUME NEW g \in Heads, NEW i \in 1 .. Len(M[g]), M[g][i] = x
        PROVE  x \in S \cup {n}
    <3>1. CASE g # h
      BY <2>3, <3>1, <1>1, <1>4 DEF Holds
    <3>2. CASE g = h /\ i = 1
      BY <2>3, <3>2, <1>3, <1>4
    <3>3. CASE g = h /\ i # 1
      <4>1. i - 1 \in 1 .. Len(L[h]) /\ L[h][i - 1] = x
        BY <2>3, <3>3, <1>4, <1>7
      <4> QED BY <4>1, <1>1 DEF Holds
    <3> QED BY <3>1, <3>2, <3>3
  <2> QED BY <2>1, <2>2, <2>3
<1>10. Threads(hq, M)
  <2> SUFFICES ASSUME NEW g \in Heads, NEW i \in 0 .. Len(M[g])
               PROVE  /\ hq.next[Place(M[g], g, i)] = Place(M[g], g, i + 1)
                      /\ hq.pre[Place(M[g], g, i + 1)] = Place(M[g], g, i)
    BY DEF Threads
  <2>1. /\ \A a \in Heads : \A k : Place(L[a], a, k) # n /\ Place(L[a], a, k) \in Nodes
        /\ \A a \in Heads : Place(L[a], a, 0) = a
    <3>1. ASSUME NEW a \in Heads, NEW k
          PROVE  Place(L[a], a, k) # n /\ Place(L[a], a, k) \in Nodes
      BY <1>1, PlaceLinked, PlaceTyped
    <3> QED BY <3>1, <1>1, PlaceEnds
  <2>2. /\ \A a \in Heads : \A k \in 0 .. Len(L[a]) :
             /\ hp.next[Place(L[a], a, k)] = Place(L[a], a, k + 1)
             /\ hp.pre[Place(L[a], a, k + 1)] = Place(L[a], a, k)
        /\ hp.next[h] = Place(L[h], h, 1)
    <3>1. 0 \in 0 .. Len(L[h]) /\ 0 + 1 = 1
      BY <1>1
    <3> QED BY <3>1, <2>1, <1>1 DEF Threads
  <2>3. CASE g # h
    <3>1. M[g] = L[g] /\ i \in 0 .. Len(L[g]) /\ i + 1 \in 0 .. Len(L[g]) + 1
          /\ i \in 0 .. Len(L[g]) + 1
      BY <2>3, <1>4, <1>1
    <3>2. Place(L[g], g, i) # h
      <4>1. 0 \in 0 .. Len(L[h]) + 1
        BY <1>1
      <4> QED BY <3>1, <4>1, <2>1, <2>3, <1>1, PlaceDistinct
    <3>3. Place(L[g], g, i + 1) # Place(L[h], h, 1)
      <4>1. 1 \in 0 .. Len(L[h]) + 1
        BY <1>1
      <4> QED BY <3>1, <4>1, <2>3, <1>1, PlaceDistinct
    <3> DEFINE x == Place(L[g], g, i)
               y == Place(L[g], g, i + 1)
    <3>4. /\ x \in Nodes /\ x # h /\ x # n
          /\ y \in Nodes /\ y # n /\ y # hp.next[h]
      BY <3>2, <3>3, <2>1, <2>2, ZenonT(40)
    <3>5. hp.next[x] = y /\ hp.pre[y] = x
      BY <3>1, <2>2
    <3> HIDE DEF x, y
    <3>6. hq.next[x] = y /\ hq.pre[y] = x
      BY <3>4, <3>5, <1>5
    <3> QED BY <3>1, <3>6 DEF x, y
  <2>4. CASE g = h
    <3>1. /\ Place(M[h], h, 0) = h /\ Place(M[h], h, 1) = n
          /\ \A k \in 1 .. Len(s) + 1 : Place(M[h], h, k + 1) = Place(s, h, k)
      BY <1>1, <1>3, <1>4 DEF Place
    <3>2. CASE i = 0
      BY <3>1, <3>2, <2>4, <1>2, <1>5
    <3>3. CASE i = 1
      <4>1. 1 \in 1 .. Len(s) + 1
        BY <1>1
      <4>2. Place(M[h], h, i + 1) = Place(s, h, 1)
        BY <3>1, <3>3, <4>1
      <4> QED BY <3>1, <3>3, <4>2, <2>1, <2>2, <2>4, <1>2, <1>5
    <3>4. CASE i > 1
      <4>1. /\ i - 1 \in 0 .. Len(s) /\ i - 1 \in 1 .. Len(s) + 1
            /\ i \in 1 .. Len(s) + 1 /\ i - 1 + 1 = i
            /\ i - 1 \in 0 .. Len(s) + 1 /\ i \in 0 .. Len(s) + 1
            /\ 0 \in 0 .. Len(s) + 1 /\ 1 \in 0 .. Len(s) + 1
            /\ i - 1 # 0 /\ i - 1 # Len(s) + 1 /\ i # 1
            /\ i # 0 /\ ~(1 = 0) /\ i \in Nat
        BY <3>4, <2>4, <1>1, <1>3, <1>4
      <4>2. /\ Place(M[h], h, i) = Place(s, h, i - 1)
            /\ Place(M[h], h, i + 1) = Place(s, h, i)
        BY <4>1, <3>1
      <4>3. Place(s, h, i - 1) # h
        <5>1. Place(s, h, i - 1) # Place(s, h, 0)
          BY <4>1, <1>1, PlaceDistinct
        <5> QED BY <5>1, <2>1
      <4>4. Place(s, h, i) # Place(s, h, 1)
        BY <4>1, <1>1, PlaceDistinct
      <4>5. /\ hp.next[Place(s, h, i - 1)] = Place(s, h, i)
            /\ hp.pre[Place(s, h, i)] = Place(s, h, i - 1)
        BY <4>1, <2>2
      <4> DEFINE x == Place(s, h, i - 1)
                 y == Place(s, h, i)
      <4>6. /\ x \in Nodes /\ x # h /\ x # n
            /\ y \in Nodes /\ y # n /\ y # hp.next[h]
        BY <4>3, <4>4, <2>1, <2>2, ZenonT(40)
      <4>7. hp.next[x] = y /\ hp.pre[y] = x
        BY <4>5
      <4> HIDE DEF x, y
      <4>8. hq.next[x] = y /\ hq.pre[y] = x
        BY <4>6, <4>7, <1>5
      <4> QED BY <4>2, <4>8, <2>4 DEF x, y
    <3> QED BY <3>2, <3>3, <3>4, <2>4, <1>1, <1>3, <1>4
  <2> QED BY <2>3, <2>4
<1> QED
  BY <1>4, <1>8, <1>9, <1>10 DEF Shows, hq, M, t

LEMMA AddLastShows ==
  ASSUME KListAssumption, NEW hp \in Heaps, NEW S, NEW L, Shows(hp, S, L),
         NEW h \in Heads, NEW n \in Items \ S
  PROVE  Shows(K!list_add_tail(hp, h, n), S \cup {n},
               [L EXCEPT ![h] = Append(@, n)])
<1> DEFINE s == L[h]
           t == Append(s, n)
           M == [L EXCEPT ![h] = t]
           hq == K!list_add_tail(hp, h, n)
<1>1. /\ L \in [Heads -> Seq(Items)] /\ s \in Seq(Items) /\ Len(s) \in Nat
      /\ Distinct(L) /\ Threads(hp, L) /\ Holds(S, L)
  BY DEF Shows
<1>2. h \in Nodes /\ n \in Nodes /\ h # n /\ n \notin Heads
  BY DEF Nodes, KListAssumption
<1>3. /\ t \in Seq(Items) /\ Len(t) = Len(s) + 1
      /\ t[Len(s) + 1] = n /\ \A i \in 1 .. Len(s) : t[i] = s[i]
  BY <1>1
<1> HIDE DEF t, hq
<1>4. /\ M \in [Heads -> Seq(Items)] /\ M[h] = t
      /\ \A g \in Heads : g # h => M[g] = L[g]
  BY <1>1, <1>3
<1>5. /\ \A x \in Nodes : hq.next[x] =
            IF x = n THEN h ELSE IF x = hp.pre[h] THEN n ELSE hp.next[x]
      /\ \A x \in Nodes : hq.pre[x] =
            IF x = h THEN n ELSE IF x = n THEN hp.pre[h] ELSE hp.pre[x]
  BY <1>2, AddTailPointers DEF hq
<1> HIDE DEF M
<1>6. \A g \in Heads : \A i \in 1 .. Len(L[g]) : L[g][i] # n /\ L[g][i] \in Items
  BY <1>1 DEF Holds
<1>7. \A i \in 1 .. Len(t) : i # Len(s) + 1 => i \in 1 .. Len(s) /\ t[i] = s[i]
  BY <1>1, <1>3
<1>8. Distinct(M)
  <2> SUFFICES ASSUME NEW a \in Heads, NEW b \in Heads,
                      NEW i \in 1 .. Len(M[a]), NEW j \in 1 .. Len(M[b]),
                      M[a][i] = M[b][j]
               PROVE  a = b /\ i = j
    BY DEF Distinct
  <2>1. \A c, d \in Heads : \A x \in 1 .. Len(L[c]), y \in 1 .. Len(L[d]) :
          L[c][x] = L[d][y] => c = d /\ x = y
    BY <1>1 DEF Distinct
  <2>2. \A c \in Heads : \A x \in 1 .. Len(M[c]) :
          /\ M[c][x] # n => x \in 1 .. Len(L[c]) /\ M[c][x] = L[c][x]
          /\ M[c][x] = n => c = h /\ x = Len(s) + 1
    <3> TAKE c \in Heads
    <3> TAKE x \in 1 .. Len(M[c])
    <3>1. CASE c # h
      BY <3>1, <1>4, <1>6
    <3>2. CASE c = h
      <4>1. M[c] = t /\ x \in 1 .. Len(t) /\ L[c] = s
        BY <3>2, <1>4
      <4>2. CASE x = Len(s) + 1
        BY <4>1, <4>2, <3>2, <1>3
      <4>3. CASE x # Len(s) + 1
        <5>1. x \in 1 .. Len(s) /\ t[x] = s[x]
          BY <4>1, <4>3, <1>7
        <5> QED BY <4>1, <5>1, <3>2, <1>6
      <4> QED BY <4>2, <4>3
    <3> QED BY <3>1, <3>2
  <2>3. CASE M[a][i] = n
    BY <2>2, <2>3
  <2>4. CASE M[a][i] # n
    BY <2>1, <2>2, <2>4
  <2> QED BY <2>3, <2>4
<1>9. Holds(S \cup {n}, M)
  <2> SUFFICES ASSUME NEW x \in Items
               PROVE  x \in S \cup {n} <=>
                        \E g \in Heads : \E i \in 1 .. Len(M[g]) : M[g][i] = x
    BY DEF Holds
  <2>1. ASSUME x = n PROVE \E g \in Heads : \E i \in 1 .. Len(M[g]) : M[g][i] = x
    <3>1. Len(s) + 1 \in 1 .. Len(M[h]) /\ M[h][Len(s) + 1] = x
      BY <2>1, <1>1, <1>3, <1>4
    <3> QED BY <3>1
  <2>2. ASSUME x \in S PROVE \E g \in Heads : \E i \in 1 .. Len(M[g]) : M[g][i] = x
    <3>1. PICK g \in Heads : \E i \in 1 .. Len(L[g]) : L[g][i] = x
      BY <2>2, <1>1 DEF Holds
    <3>2. PICK i \in 1 .. Len(L[g]) : L[g][i] = x
      BY <3>1
    <3>3. i \in 1 .. Len(M[g]) /\ M[g][i] = x
      <4>1. CASE g # h
        BY <3>2, <4>1, <1>4
      <4>2. CASE g = h
        <5>1. i \in 1 .. Len(s) /\ i \in 1 .. Len(t)
          BY <3>2, <4>2, <1>1, <1>3
        <5> QED BY <3>2, <4>2, <5>1, <1>3, <1>4
      <4> QED BY <4>1, <4>2
    <3> QED BY <3>3
  <2>3. ASSUME NEW g \in Heads, NEW i \in 1 .. Len(M[g]), M[g][i] = x
        PROVE  x \in S \cup {n}
    <3>1. CASE g # h
      BY <2>3, <3>1, <1>1, <1>4 DEF Holds
    <3>2. CASE g = h /\ i = Len(s) + 1
      BY <2>3, <3>2, <1>3, <1>4
    <3>3. CASE g = h /\ i # Len(s) + 1
      <4>1. i \in 1 .. Len(L[h]) /\ L[h][i] = x
        BY <2>3, <3>3, <1>4, <1>7
      <4> QED BY <4>1, <1>1 DEF Holds
    <3> QED BY <3>1, <3>2, <3>3
  <2> QED BY <2>1, <2>2, <2>3
<1>10. Threads(hq, M)
  <2> SUFFICES ASSUME NEW g \in Heads, NEW i \in 0 .. Len(M[g])
               PROVE  /\ hq.next[Place(M[g], g, i)] = Place(M[g], g, i + 1)
                      /\ hq.pre[Place(M[g], g, i + 1)] = Place(M[g], g, i)
    BY DEF Threads
  <2>1. /\ \A a \in Heads : \A k : Place(L[a], a, k) # n /\ Place(L[a], a, k) \in Nodes
        /\ \A a \in Heads : Place(L[a], a, 0) = a /\ Place(L[a], a, Len(L[a]) + 1) = a
    <3>1. ASSUME NEW a \in Heads, NEW k
          PROVE  Place(L[a], a, k) # n /\ Place(L[a], a, k) \in Nodes
      BY <1>1, PlaceLinked, PlaceTyped
    <3> QED BY <3>1, <1>1, PlaceEnds
  <2>2. /\ \A a \in Heads : \A k \in 0 .. Len(L[a]) :
             /\ hp.next[Place(L[a], a, k)] = Place(L[a], a, k + 1)
             /\ hp.pre[Place(L[a], a, k + 1)] = Place(L[a], a, k)
        /\ hp.pre[h] = Place(L[h], h, Len(s))
    <3>1. Len(s) \in 0 .. Len(L[h])
      BY <1>1
    <3> QED BY <3>1, <2>1, <1>1 DEF Threads
  <2>a. \A c, d \in Heads : \A j \in 0 .. Len(L[c]) + 1, k \in 0 .. Len(L[d]) + 1 :
          \/ Place(L[c], c, j) # Place(L[d], d, k)
          \/ c = d /\ j = k
          \/ c = d /\ j = 0 /\ k = Len(L[c]) + 1
          \/ c = d /\ k = 0 /\ j = Len(L[c]) + 1
    BY <1>1, PlacesApart
  <2>3. ASSUME NEW x, NEW y,
               x \in Nodes, x # n, x # hp.pre[h],
               y \in Nodes, y # n, y # h,
               hp.next[x] = y, hp.pre[y] = x
        PROVE  hq.next[x] = y /\ hq.pre[y] = x
    BY <2>3, <1>5
  <2>4. CASE g # h
    <3>1. M[g] = L[g] /\ i \in 0 .. Len(L[g]) /\ i + 1 \in 0 .. Len(L[g]) + 1
          /\ i \in 0 .. Len(L[g]) + 1
      BY <2>4, <1>4, <1>1
    <3>2. Place(L[g], g, i) # Place(L[h], h, Len(s))
      <4>1. Len(s) \in 0 .. Len(L[h]) + 1
        BY <1>1
      <4> QED BY <3>1, <4>1, <2>4, <2>a
    <3>3. Place(L[g], g, i + 1) # h
      <4>1. 0 \in 0 .. Len(L[h]) + 1
        BY <1>1
      <4> QED BY <3>1, <4>1, <2>1, <2>4, <2>a
    <3>4. /\ hp.next[Place(L[g], g, i)] = Place(L[g], g, i + 1)
          /\ hp.pre[Place(L[g], g, i + 1)] = Place(L[g], g, i)
      BY <3>1, <2>2
    <3> DEFINE x == Place(L[g], g, i)
               y == Place(L[g], g, i + 1)
    <3>5. /\ x \in Nodes /\ x # n /\ x # hp.pre[h]
          /\ y \in Nodes /\ y # n /\ y # h
          /\ hp.next[x] = y /\ hp.pre[y] = x
      <4>1. hp.pre[h] = Place(L[h], h, Len(s))
        BY <2>2
      <4>2. x \in Nodes /\ x # n /\ y \in Nodes /\ y # n
        BY <2>1
      <4> QED BY <3>2, <3>3, <3>4, <4>1, <4>2
    <3> HIDE DEF x, y
    <3>6. hq.next[x] = y /\ hq.pre[y] = x
      BY <3>5, <2>3
    <3> QED BY <3>1, <3>6 DEF x, y
  <2>5. CASE g = h
    <3>1. /\ Place(M[h], h, Len(s) + 1) = n /\ Place(M[h], h, Len(s) + 2) = h
          /\ \A k \in 0 .. Len(s) : Place(M[h], h, k) = Place(s, h, k)
      BY <1>1, <1>3, <1>4 DEF Place
    <3>2. CASE i = Len(s) + 1
      <4>1. i + 1 = Len(s) + 2
        BY <3>2, <1>1
      <4> QED BY <3>1, <3>2, <4>1, <2>5, <1>2, <1>5
    <3>3. CASE i = Len(s)
      <4>1. Place(M[h], h, i) = Place(s, h, Len(s)) /\ Place(M[h], h, i + 1) = n
        BY <3>1, <3>3, <1>1
      <4>2. Place(s, h, Len(s)) \in Nodes /\ Place(s, h, Len(s)) # n
        BY <2>1
      <4> QED BY <4>1, <4>2, <2>2, <2>5, <1>2, <1>5
    <3>4. CASE i < Len(s)
      <4>1. /\ i \in 0 .. Len(s) /\ i + 1 \in 0 .. Len(s)
            /\ i \in 0 .. Len(s) + 1 /\ i + 1 \in 0 .. Len(s) + 1
            /\ 0 \in 0 .. Len(s) + 1 /\ Len(s) \in 0 .. Len(s) + 1
            /\ i + 1 # 0 /\ i + 1 # Len(s) + 1 /\ i # Len(s)
            /\ i # Len(s) + 1 /\ Len(s) # Len(s) + 1
        BY <3>4, <2>5, <1>1, <1>3, <1>4
      <4>2. /\ Place(M[h], h, i) = Place(s, h, i)
            /\ Place(M[h], h, i + 1) = Place(s, h, i + 1)
        BY <4>1, <3>1
      <4>3. Place(s, h, i + 1) # h
        <5>1. Place(s, h, i + 1) # Place(s, h, 0)
          BY <4>1, <2>a
        <5> QED BY <5>1, <2>1
      <4>4. Place(s, h, i) # Place(s, h, Len(s))
        BY <4>1, <2>a
      <4>5. /\ hp.next[Place(s, h, i)] = Place(s, h, i + 1)
            /\ hp.pre[Place(s, h, i + 1)] = Place(s, h, i)
        BY <4>1, <2>2
      <4> DEFINE x == Place(s, h, i)
                 y == Place(s, h, i + 1)
      <4>6. /\ x \in Nodes /\ x # n /\ x # hp.pre[h]
            /\ y \in Nodes /\ y # n /\ y # h
            /\ hp.next[x] = y /\ hp.pre[y] = x
        <5>1. hp.pre[h] = Place(s, h, Len(s))
          BY <2>2
        <5>2. x \in Nodes /\ x # n /\ y \in Nodes /\ y # n
          BY <2>1
        <5> QED BY <4>3, <4>4, <4>5, <5>1, <5>2
      <4> HIDE DEF x, y
      <4>7. hq.next[x] = y /\ hq.pre[y] = x
        BY <4>6, <2>3
      <4> QED BY <4>2, <4>7, <2>5 DEF x, y
    <3> QED BY <3>2, <3>3, <3>4, <2>5, <1>1, <1>3, <1>4
  <2> QED BY <2>4, <2>5
<1> QED
  BY <1>4, <1>8, <1>9, <1>10 DEF Shows, hq, M, t

LEMMA DropAt ==
  ASSUME NEW s \in Seq(Items), NEW k \in 1 .. Len(s)
  PROVE  /\ Abs!Drop(s, k) \in Seq(Items)
         /\ Len(Abs!Drop(s, k)) = Len(s) - 1
         /\ \A i \in 1 .. Len(s) - 1 :
              Abs!Drop(s, k)[i] = IF i < k THEN s[i] ELSE s[i + 1]
<1> DEFINE a == SubSeq(s, 1, k - 1)
           b == SubSeq(s, k + 1, Len(s))
<1>1. Len(s) \in Nat /\ k \in Nat /\ k >= 1 /\ k <= Len(s)
  OBVIOUS
<1>2. /\ a \in Seq(Items) /\ Len(a) = k - 1
      /\ \A i \in 1 .. k - 1 : a[i] = s[i]
  BY <1>1
<1>3. /\ b \in Seq(Items) /\ Len(b) = Len(s) - k
      /\ \A i \in 1 .. Len(s) - k : b[i] = s[i + k]
  BY <1>1
<1> HIDE DEF a, b
<1>4. /\ a \o b \in Seq(Items) /\ Len(a \o b) = Len(s) - 1
      /\ \A i \in 1 .. Len(s) - 1 :
           (a \o b)[i] = IF i <= k - 1 THEN a[i] ELSE b[i - (k - 1)]
  <2>1. Len(a) + Len(b) = Len(s) - 1
    BY <1>1, <1>2, <1>3
  <2>2. /\ a \o b \in Seq(Items) /\ Len(a \o b) = Len(a) + Len(b)
        /\ \A i \in 1 .. Len(a) + Len(b) :
             (a \o b)[i] = IF i <= Len(a) THEN a[i] ELSE b[i - Len(a)]
    BY <1>2, <1>3, ConcatProperties
  <2> QED BY <2>1, <2>2, <1>2
<1>5. ASSUME NEW i \in 1 .. Len(s) - 1
      PROVE  (a \o b)[i] = IF i < k THEN s[i] ELSE s[i + 1]
  <2>1. CASE i < k
    BY <2>1, <1>1, <1>2, <1>4
  <2>2. CASE ~(i < k)
    <3> DEFINE j == i - (k - 1)
    <3>1. j \in 1 .. Len(s) - k /\ j + k = i + 1
      BY <2>2, <1>1
    <3>2. ~(i <= k - 1) /\ ~(i < k)
      BY <2>2, <1>1
    <3>3. (a \o b)[i] = b[j]
      BY <3>2, <1>4
    <3> HIDE DEF j
    <3>4. b[j] = s[i + 1]
      BY <3>1, <1>3
    <3> QED BY <3>2, <3>3, <3>4
  <2> QED BY <2>1, <2>2
<1> QED
  BY <1>4, <1>5 DEF Abs!Drop, a, b

LEMMA DropShows ==
  ASSUME KListAssumption, NEW hp \in Heaps, NEW S, NEW L, Shows(hp, S, L),
         NEW h \in Heads, NEW k \in 1 .. Len(L[h]), NEW n, n = L[h][k]
  PROVE  Shows(K!list_del(hp, n), S \ {n}, [L EXCEPT ![h] = Abs!Drop(@, k)])
<1> DEFINE s == L[h]
           t == Abs!Drop(s, k)
           M == [L EXCEPT ![h] = t]
           hq == K!list_del(hp, n)
<1>1. /\ L \in [Heads -> Seq(Items)] /\ s \in Seq(Items) /\ Len(s) \in Nat
      /\ Distinct(L) /\ Threads(hp, L) /\ Holds(S, L)
      /\ k \in Nat /\ 1 <= k /\ k <= Len(s)
  BY DEF Shows
<1>2. n \in Items /\ n \in Nodes
  BY <1>1 DEF Nodes
<1>3. /\ t \in Seq(Items) /\ Len(t) = Len(s) - 1
      /\ \A i \in 1 .. Len(s) - 1 : t[i] = IF i < k THEN s[i] ELSE s[i + 1]
  BY <1>1, DropAt
<1> HIDE DEF t, hq
<1>4. /\ M \in [Heads -> Seq(Items)] /\ M[h] = t
      /\ \A g \in Heads : g # h => M[g] = L[g]
  BY <1>1, <1>3
<1>5. /\ \A x \in Nodes : hq.next[x] = IF x = hp.pre[n] THEN hp.next[n] ELSE hp.next[x]
      /\ \A x \in Nodes : hq.pre[x] = IF x = hp.next[n] THEN hp.pre[n] ELSE hp.pre[x]
  BY <1>2, DelPointers DEF hq
<1> HIDE DEF M
<1>6. \A c, d \in Heads : \A x \in 1 .. Len(L[c]), y \in 1 .. Len(L[d]) :
        L[c][x] = L[d][y] => c = d /\ x = y
  BY <1>1 DEF Distinct
\* Where a position of the new lists was.
<1> DEFINE From(c, x) == IF c = h /\ ~(x < k) THEN x + 1 ELSE x
<1>7. \A c \in Heads : \A x \in 1 .. Len(M[c]) :
        /\ From(c, x) \in 1 .. Len(L[c]) /\ L[c][From(c, x)] = M[c][x]
        /\ c = h => From(c, x) # k
        /\ x \in Int
  <2> TAKE c \in Heads
  <2> TAKE x \in 1 .. Len(M[c])
  <2>1. CASE c # h
    BY <2>1, <1>1, <1>4
  <2>2. CASE c = h
    <3>1. x \in 1 .. Len(s) - 1 /\ x \in 1 .. Len(s) /\ x + 1 \in 1 .. Len(s)
      BY <2>2, <1>1, <1>3, <1>4
    <3>2. CASE x < k
      BY <2>2, <3>1, <3>2, <1>1, <1>3, <1>4
    <3>3. CASE ~(x < k)
      BY <2>2, <3>1, <3>3, <1>1, <1>3, <1>4
    <3> QED BY <3>2, <3>3
  <2> QED BY <2>1, <2>2
<1>8. Distinct(M)
  <2> SUFFICES ASSUME NEW a \in Heads, NEW b \in Heads,
                      NEW i \in 1 .. Len(M[a]), NEW j \in 1 .. Len(M[b]),
                      M[a][i] = M[b][j]
               PROVE  a = b /\ i = j
    BY DEF Distinct
  <2>1. /\ From(a, i) \in 1 .. Len(L[a]) /\ L[a][From(a, i)] = M[a][i]
        /\ From(b, j) \in 1 .. Len(L[b]) /\ L[b][From(b, j)] = M[b][j]
    BY <1>7
  <2>2. a = b /\ From(a, i) = From(b, j)
    <3> HIDE DEF From
    <3> QED BY <2>1, <1>6
  <2>3. i \in Int /\ j \in Int
    BY <1>7
  <2> QED BY <2>2, <2>3, <1>1
<1>9. Holds(S \ {n}, M)
  <2> SUFFICES ASSUME NEW x \in Items
               PROVE  x \in S \ {n} <=>
                        \E g \in Heads : \E i \in 1 .. Len(M[g]) : M[g][i] = x
    BY DEF Holds
  <2>1. ASSUME x \in S, x # n
        PROVE  \E g \in Heads : \E i \in 1 .. Len(M[g]) : M[g][i] = x
    <3>1. PICK g \in Heads : \E i \in 1 .. Len(L[g]) : L[g][i] = x
      BY <2>1, <1>1 DEF Holds
    <3>2. PICK i \in 1 .. Len(L[g]) : L[g][i] = x
      BY <3>1
    <3>3. CASE g # h
      BY <3>2, <3>3, <1>4
    <3>4. CASE g = h /\ i < k
      <4>1. i \in 1 .. Len(M[h]) /\ M[h][i] = s[i]
        BY <3>2, <3>4, <1>1, <1>3, <1>4
      <4> QED BY <4>1, <3>2, <3>4
    <3>5. CASE g = h /\ ~(i < k)
      <4>1. i # k
        BY <2>1, <3>2, <3>5
      <4>2. i - 1 \in 1 .. Len(s) - 1 /\ ~(i - 1 < k) /\ i - 1 + 1 = i
        BY <3>2, <3>5, <4>1, <1>1
      <4>3. i - 1 \in 1 .. Len(M[h]) /\ M[h][i - 1] = s[i]
        BY <4>2, <1>3, <1>4
      <4> QED BY <4>3, <3>2, <3>5
    <3> QED BY <3>3, <3>4, <3>5
  <2>2. ASSUME NEW g \in Heads, NEW i \in 1 .. Len(M[g]), M[g][i] = x
        PROVE  x \in S \ {n}
    <3>1. /\ From(g, i) \in 1 .. Len(L[g]) /\ L[g][From(g, i)] = x
          /\ g = h => From(g, i) # k
      BY <2>2, <1>7
    <3> HIDE DEF From
    <3>2. x # n
      BY <3>1, <1>6
    <3>3. x \in S
      BY <3>1, <1>1 DEF Holds
    <3> QED BY <3>2, <3>3
  <2> QED BY <2>1, <2>2
<1>10. \A a \in Heads : \A i \in 0 .. Len(L[a]) :
         /\ hp.next[Place(L[a], a, i)] = Place(L[a], a, i + 1)
         /\ hp.pre[Place(L[a], a, i + 1)] = Place(L[a], a, i)
  BY <1>1 DEF Threads
<1>11. hp.next[n] = Place(s, h, k + 1) /\ hp.pre[n] = Place(s, h, k - 1)
  <2>1. /\ k \in 0 .. Len(L[h]) /\ k - 1 \in 0 .. Len(L[h]) /\ k - 1 + 1 = k
        /\ Place(s, h, k) = n
    BY <1>1 DEF Place
  <2> QED BY <2>1, <1>10
<1>12. Threads(hq, M)
  <2> SUFFICES ASSUME NEW g \in Heads, NEW i \in 0 .. Len(M[g])
               PROVE  /\ hq.next[Place(M[g], g, i)] = Place(M[g], g, i + 1)
                      /\ hq.pre[Place(M[g], g, i + 1)] = Place(M[g], g, i)
    BY DEF Threads
  <2>1. ASSUME NEW a \in Heads, NEW j
        PROVE  Place(L[a], a, j) \in Nodes
    BY <1>1, PlaceTyped
  <2>a. \A c, d \in Heads : \A u \in 0 .. Len(L[c]) + 1, v \in 0 .. Len(L[d]) + 1 :
          \/ Place(L[c], c, u) # Place(L[d], d, v)
          \/ c = d /\ u = v
          \/ c = d /\ u = 0 /\ v = Len(L[c]) + 1
          \/ c = d /\ v = 0 /\ u = Len(L[c]) + 1
    BY <1>1, PlacesApart
  \* A link that neither of the two assignments touches.
  <2>2. ASSUME NEW a \in Heads, NEW j \in 0 .. Len(L[a]),
               a # h \/ (j # k - 1 /\ j # k)
        PROVE  /\ hq.next[Place(L[a], a, j)] = Place(L[a], a, j + 1)
               /\ hq.pre[Place(L[a], a, j + 1)] = Place(L[a], a, j)
    <3>1. /\ j \in 0 .. Len(L[a]) + 1 /\ j + 1 \in 0 .. Len(L[a]) + 1
          /\ k - 1 \in 0 .. Len(L[h]) + 1 /\ k + 1 \in 0 .. Len(L[h]) + 1
          /\ j + 1 # 0 /\ j # Len(L[a]) + 1 /\ k - 1 # Len(L[h]) + 1 /\ k + 1 # 0
          /\ Len(L[a]) \in Nat /\ j \in Nat
      BY <1>1
    <3> DEFINE lo == k - 1
               hi == k + 1
               up == j + 1
    <3>2. /\ lo \in 0 .. Len(L[h]) + 1 /\ hi \in 0 .. Len(L[h]) + 1
          /\ up \in 0 .. Len(L[a]) + 1
          /\ up # 0 /\ lo # Len(L[h]) + 1 /\ hi # 0
          /\ a # h \/ (j # lo /\ up # hi)
          /\ hp.pre[n] = Place(L[h], h, lo) /\ hp.next[n] = Place(L[h], h, hi)
      BY <3>1, <2>2, <1>1, <1>11
    <3> HIDE DEF lo, hi, up
    <3>3. Place(L[a], a, j) # hp.pre[n]
      <4>1. SUFFICES ASSUME Place(L[a], a, j) = Place(L[h], h, lo) PROVE FALSE
        BY <3>2
      <4>2. j \in 0 .. Len(L[a]) + 1 /\ j # Len(L[a]) + 1
        BY <3>1
      <4>3. /\ a = h
            /\ \/ j = lo
               \/ j = 0 /\ lo = Len(L[a]) + 1
               \/ lo = 0 /\ j = Len(L[a]) + 1
        BY <4>1, <4>2, <3>2, <2>a
      <4> QED BY <4>2, <4>3, <3>2
    <3>4. Place(L[a], a, up) # hp.next[n]
      <4>1. SUFFICES ASSUME Place(L[a], a, up) = Place(L[h], h, hi) PROVE FALSE
        BY <3>2
      <4> QED BY <4>1, <3>2, <2>a
    <3> DEFINE x == Place(L[a], a, j)
               y == Place(L[a], a, j + 1)
    <3>5. /\ x \in Nodes /\ x # hp.pre[n] /\ y \in Nodes /\ y # hp.next[n]
          /\ hp.next[x] = y /\ hp.pre[y] = x
      BY <3>3, <3>4, <2>1, <1>10 DEF up
    <3> HIDE DEF x, y
    <3>6. hq.next[x] = y /\ hq.pre[y] = x
      BY <3>5, <1>5
    <3> QED BY <3>6 DEF x, y
  <2>3. CASE g # h
    <3>1. M[g] = L[g] /\ i \in 0 .. Len(L[g])
      BY <2>3, <1>4
    <3> QED BY <3>1, <2>2, <2>3
  <2>4. CASE g = h
    <3>1. /\ \A j \in 0 .. k - 1 : Place(M[h], h, j) = Place(s, h, j)
          /\ \A j \in k .. Len(s) : Place(M[h], h, j) = Place(s, h, j + 1)
      <4>1. ASSUME NEW j \in 0 .. k - 1 PROVE Place(t, h, j) = Place(s, h, j)
        <5>1. CASE j = 0
          BY <5>1 DEF Place
        <5>2. CASE j # 0
          <6>1. j \in 1 .. Len(s) /\ j \in 1 .. Len(t) /\ t[j] = s[j]
            BY <5>2, <1>1, <1>3
          <6> QED BY <6>1 DEF Place
        <5> QED BY <5>1, <5>2
      <4>2. ASSUME NEW j \in k .. Len(s) PROVE Place(t, h, j) = Place(s, h, j + 1)
        <5>1. CASE j = Len(s)
          <6>1. j \notin 1 .. Len(t) /\ j + 1 \notin 1 .. Len(s)
            BY <5>1, <1>1, <1>3
          <6> QED BY <6>1 DEF Place
        <5>2. CASE j # Len(s)
          <6>1. j \in 1 .. Len(t) /\ j + 1 \in 1 .. Len(s) /\ t[j] = s[j + 1]
            BY <5>2, <1>1, <1>3
          <6> QED BY <6>1 DEF Place
        <5> QED BY <5>1, <5>2
      <4> QED BY <4>1, <4>2, <1>4
    <3>2. i \in 0 .. Len(s) - 1 /\ i \in Nat
      BY <2>4, <1>1, <1>3, <1>4
    <3>3. CASE i < k - 1
      <4>1. /\ i \in 0 .. k - 1 /\ i + 1 \in 0 .. k - 1 /\ i \in 0 .. Len(L[h])
            /\ i # k - 1 /\ i # k
        BY <3>2, <3>3, <1>1
      <4>2. /\ hq.next[Place(L[h], h, i)] = Place(L[h], h, i + 1)
            /\ hq.pre[Place(L[h], h, i + 1)] = Place(L[h], h, i)
        BY <4>1, <2>2
      <4> QED BY <4>1, <4>2, <3>1, <2>4
    <3>4. CASE i = k - 1
      <4>1. i \in 0 .. k - 1 /\ i + 1 = k /\ k \in k .. Len(s)
        BY <3>4, <1>1
      <4>2. /\ Place(M[h], h, i) = hp.pre[n]
            /\ Place(M[h], h, i + 1) = hp.next[n]
        BY <4>1, <3>1, <3>4, <1>11
      <4>3. hp.pre[n] \in Nodes /\ hp.next[n] \in Nodes
        BY <1>2 DEF Heaps
      <4>4. hq.next[hp.pre[n]] = hp.next[n] /\ hq.pre[hp.next[n]] = hp.pre[n]
        BY <4>3, <1>5
      <4> QED BY <4>2, <4>4, <2>4
    <3>5. CASE i > k - 1
      <4>1. /\ i \in k .. Len(s) /\ i + 1 \in k .. Len(s) /\ i + 1 \in 0 .. Len(L[h])
            /\ i + 1 # k - 1 /\ i + 1 # k
        BY <3>2, <3>5, <1>1
      <4>2. /\ hq.next[Place(L[h], h, i + 1)] = Place(L[h], h, i + 1 + 1)
            /\ hq.pre[Place(L[h], h, i + 1 + 1)] = Place(L[h], h, i + 1)
        BY <4>1, <2>2
      <4> QED BY <4>1, <4>2, <3>1, <2>4
    <3> QED BY <3>2, <3>3, <3>4, <3>5, <1>1
  <2> QED BY <2>3, <2>4
<1> QED
  BY <1>4, <1>8, <1>9, <1>12 DEF Shows, hq, M, t

-----------------------------------------------------------------------------
(* The inductive invariant *)

Lists == [h \in Heads |-> Chain(h)]

\* Where the walk goes on.
Succ == IF cur \in linked \cup Heads THEN cur ELSE heap.next[cur]

UseTypeOK ==
  /\ heap \in Heaps
  /\ linked \subseteq Items
  /\ head \in Heads
  /\ cur \in Nodes

\* The walk is at, or has before it, a node of its own list.
WalkPart ==
  Succ = head \/ \E i \in 1 .. Len(Lists[head]) : Lists[head][i] = Succ

KLInv == UseTypeOK /\ Shows(heap, linked, Lists) /\ WalkPart

LEMMA ListsAreShown ==
  ASSUME KListAssumption, NEW hp \in Heaps, NEW S, NEW M, Shows(hp, S, M)
  PROVE  [h \in Heads |-> ChainFrom(hp.next, h)] = M
<1>1. \A h \in Heads : ChainFrom(hp.next, h) = M[h]
  BY ChainIsShown
<1>2. M = [h \in Heads |-> M[h]]
  BY DEF Shows
<1> QED
  BY <1>1, <1>2

\* The lists of the next state, once the sequences it shows are known.
LEMMA NextLists ==
  ASSUME KListAssumption, heap' \in Heaps, NEW M, Shows(heap', linked', M)
  PROVE  Lists' = M /\ Shows(heap', linked', Lists')
<1>1. Lists' = [h \in Heads |-> ChainFrom(heap'.next, h)]
  BY DEF Lists, Chain
<1>2. [h \in Heads |-> ChainFrom(heap'.next, h)] = M
  BY ListsAreShown
<1> QED
  BY <1>1, <1>2

\* A node at a position is linked or the head.
LEMMA PlaceIsLinked ==
  ASSUME KListAssumption, NEW L \in [Heads -> Seq(Items)], NEW S, Holds(S, L),
         NEW h \in Heads, NEW i
  PROVE  /\ Place(L[h], h, i) \in S \cup Heads
         /\ Place(L[h], h, i) = h \/ \E j \in 1 .. Len(L[h]) : L[h][j] = Place(L[h], h, i)
BY DEF Place, Holds

\* From the invariant: the links of the list of a head.
LEMMA RingsFollow ==
  ASSUME KListAssumption, KLInv
  PROVE  Rings
<1> DEFINE L == Lists
<1>1. /\ L \in [Heads -> Seq(Items)] /\ Threads(heap, L) /\ Holds(linked, L)
      /\ linked \subseteq Items
  BY DEF KLInv, Shows, UseTypeOK
<1> HIDE DEF L
<1> SUFFICES ASSUME NEW n \in linked \cup Heads
             PROVE  /\ heap.pre[heap.next[n]] = n /\ heap.next[heap.pre[n]] = n
                    /\ heap.next[n] \in linked \cup Heads
  BY DEF Rings
<1>2. \A h \in Heads : Place(L[h], h, 0) = h /\ Place(L[h], h, Len(L[h]) + 1) = h
  BY <1>1, PlaceEnds
<1>3. PICK h \in Heads : \E i \in 0 .. Len(L[h]) : n = Place(L[h], h, i)
  <2>1. CASE n \in Heads
    <3>1. 0 \in 0 .. Len(L[n])
      BY <1>1, <2>1
    <3> QED BY <2>1, <3>1, <1>2
  <2>2. CASE n \in linked
    <3>1. PICK h \in Heads : \E i \in 1 .. Len(L[h]) : L[h][i] = n
      BY <2>2, <1>1 DEF Holds
    <3>2. PICK i \in 1 .. Len(L[h]) : L[h][i] = n
      BY <3>1
    <3>3. i \in 0 .. Len(L[h]) /\ n = Place(L[h], h, i)
      BY <3>2 DEF Place
    <3> QED BY <3>3
  <2> QED BY <2>1, <2>2
<1>4. PICK i \in 0 .. Len(L[h]) : n = Place(L[h], h, i)
  BY <1>3
<1>5. \A k \in 0 .. Len(L[h]) :
        /\ heap.next[Place(L[h], h, k)] = Place(L[h], h, k + 1)
        /\ heap.pre[Place(L[h], h, k + 1)] = Place(L[h], h, k)
  BY <1>1 DEF Threads
<1>6. Len(L[h]) \in Nat
  BY <1>1
<1>7. PICK k \in 0 .. Len(L[h]) : n = Place(L[h], h, k + 1)
  <2>1. CASE i = 0
    <3>1. Len(L[h]) \in 0 .. Len(L[h])
      BY <1>6
    <3> QED BY <2>1, <3>1, <1>2, <1>4
  <2>2. CASE i # 0
    <3>1. i - 1 \in 0 .. Len(L[h]) /\ i - 1 + 1 = i
      BY <2>2, <1>4, <1>6
    <3> QED BY <3>1, <1>4
  <2> QED BY <2>1, <2>2
<1>8. Place(L[h], h, i + 1) \in linked \cup Heads
  BY <1>1, PlaceIsLinked
<1> QED
  BY <1>4, <1>5, <1>7, <1>8

-----------------------------------------------------------------------------
(* Every step keeps the invariant and is a step of the sequences *)

\* The initial heap shows empty sequences.
LEMMA InitShows ==
  ASSUME KListAssumption, UseInit
  PROVE  KLInv /\ Abs!AbsInit
<1> DEFINE M == [h \in Heads |-> <<>>]
<1>1. heap \in Heaps
  BY DEF UseInit, K!init_list, Heaps
<1>2. Shows(heap, linked, M)
  <2>1. M \in [Heads -> Seq(Items)] /\ \A h \in Heads : M[h] = <<>> /\ Len(M[h]) = 0
    OBVIOUS
  <2> HIDE DEF M
  <2>2. Distinct(M)
    BY <2>1 DEF Distinct
  <2>3. Threads(heap, M)
    <3> SUFFICES ASSUME NEW h \in Heads, NEW i \in 0 .. Len(M[h])
                 PROVE  /\ heap.next[Place(M[h], h, i)] = Place(M[h], h, i + 1)
                        /\ heap.pre[Place(M[h], h, i + 1)] = Place(M[h], h, i)
      BY DEF Threads
    <3>1. Place(M[h], h, i) = h /\ Place(M[h], h, i + 1) = h
      BY <2>1 DEF Place
    <3>2. heap.next[h] = h /\ heap.pre[h] = h
      BY DEF UseInit, K!init_list, Nodes
    <3> QED BY <3>1, <3>2
  <2>4. Holds(linked, M)
    BY <2>1 DEF Holds, UseInit
  <2> QED BY <2>1, <2>2, <2>3, <2>4 DEF Shows
<1>3. Lists = M
  <2> HIDE DEF M
  <2> QED BY <1>1, <1>2, ListsAreShown DEF Lists, Chain
<1>4. Succ = head
  BY DEF Succ, UseInit
<1>5. KLInv
  <2> HIDE DEF M
  <2> QED BY <1>1, <1>2, <1>3, <1>4 DEF KLInv, UseTypeOK, WalkPart, UseInit, Nodes
<1>6. Abs!AbsInit
  BY <1>3, <1>4 DEF Abs!AbsInit, UseInit, Lists, Succ
<1> QED
  BY <1>5, <1>6

\* What the invariant says of the lists, for the steps below.
LEMMA Known ==
  ASSUME KListAssumption, KLInv
  PROVE  /\ heap \in Heaps /\ linked \subseteq Items /\ head \in Heads /\ cur \in Nodes
         /\ Lists \in [Heads -> Seq(Items)] /\ Distinct(Lists)
         /\ Threads(heap, Lists) /\ Holds(linked, Lists)
         /\ \A h \in Heads : Len(Lists[h]) \in Nat
         /\ \A n \in Items :
              n \in linked <=> \E h \in Heads : \E i \in 1 .. Len(Lists[h]) :
                                 i \in 1 .. Len(Lists[h]) /\ Lists[h][i] = n
         /\ Succ \in linked \cup Heads
<1>1. /\ heap \in Heaps /\ linked \subseteq Items /\ head \in Heads /\ cur \in Nodes
      /\ Lists \in [Heads -> Seq(Items)] /\ Distinct(Lists)
      /\ Threads(heap, Lists) /\ Holds(linked, Lists)
  BY DEF KLInv, UseTypeOK, Shows
<1>2. \A h \in Heads : Len(Lists[h]) \in Nat
  BY <1>1
<1>3. \A n \in Items :
        n \in linked <=> \E h \in Heads : \E i \in 1 .. Len(Lists[h]) :
                           i \in 1 .. Len(Lists[h]) /\ Lists[h][i] = n
  BY <1>1 DEF Holds
<1>4. Succ \in linked \cup Heads
  <2>1. CASE Succ = head
    BY <2>1, <1>1
  <2>2. CASE Succ # head
    <3>1. PICK i \in 1 .. Len(Lists[head]) : Lists[head][i] = Succ
      BY <2>2 DEF KLInv, WalkPart
    <3>2. Lists[head][i] \in Items
      BY <3>1, <1>1
    <3> QED BY <3>1, <3>2, <1>1, <1>3
  <2> QED BY <2>1, <2>2
<1> QED
  BY <1>1, <1>2, <1>3, <1>4

LEMMA FilesFirst ==
  ASSUME KListAssumption, KLInv, NEW h \in Heads, NEW n \in Items,
         n \notin linked, n # cur, h \notin Fifo,
         heap' = K!list_add(heap, h, n), linked' = linked \cup {n},
         UNCHANGED <<cur, head>>
  PROVE  KLInv' /\ Abs!AddFirst(h, n)
<1> DEFINE M == [Lists EXCEPT ![h] = <<n>> \o @]
<1>1. /\ heap \in Heaps /\ linked \subseteq Items /\ head \in Heads /\ cur \in Nodes
      /\ Lists \in [Heads -> Seq(Items)] /\ Shows(heap, linked, Lists)
      /\ h \in Nodes /\ n \in Nodes /\ h # n /\ n \notin Heads
  BY Known DEF KLInv, Nodes, KListAssumption
<1>2. heap' \in Heaps
  BY <1>1, AddPointers
<1>3. Shows(heap', linked', M)
  BY <1>1, AddFirstShows
<1>4. Lists' = M /\ Shows(heap', linked', Lists')
  <2> HIDE DEF M
  <2> QED BY <1>2, <1>3, NextLists
<1>5. Succ' = Succ
  <2>1. CASE cur \in linked \cup Heads
    BY <2>1 DEF Succ
  <2>2. CASE cur \notin linked \cup Heads
    <3>1. cur' \notin linked' \cup Heads
      BY <2>2
    <3>2. heap'.next[cur] = heap.next[cur]
      BY <2>2, <1>1, AddPointers
    <3> QED BY <2>2, <3>1, <3>2 DEF Succ
  <2> QED BY <2>1, <2>2
<1>6. UseTypeOK'
  BY <1>1, <1>2 DEF UseTypeOK
<1>7. WalkPart'
  <2>1. CASE Succ = head
    BY <2>1, <1>5 DEF WalkPart
  <2>2. CASE Succ # head
    <3>1. PICK i \in 1 .. Len(Lists[head]) : Lists[head][i] = Succ
      BY <2>2 DEF KLInv, WalkPart
    <3>2. \E j \in 1 .. Len(M[head]) : M[head][j] = Succ
      <4>1. CASE head # h
        <5>1. M[head] = Lists[head]
          BY <4>1, <1>1
        <5> QED BY <3>1, <5>1
      <4>2. CASE head = h
        <5>1. M[head] = <<n>> \o Lists[head] /\ Lists[head] \in Seq(Items)
          BY <4>2, <1>1
        <5>2. i + 1 \in 1 .. Len(M[head]) /\ M[head][i + 1] = Lists[head][i]
          <6> HIDE DEF M
          <6> QED BY <5>1, <3>1
        <5> QED BY <5>2, <3>1
      <4> QED BY <4>1, <4>2
    <3> HIDE DEF M
    <3> QED BY <3>2, <1>4, <1>5 DEF WalkPart
  <2> QED BY <2>1, <2>2
<1>8. KLInv'
  BY <1>4, <1>6, <1>7 DEF KLInv
<1>9. ~ \E g \in Heads : \E i \in 1 .. Len(Lists[g]) :
          i \in 1 .. Len(Lists[g]) /\ Lists[g][i] = n
  BY Known
<1>10. Lists' = [Lists EXCEPT ![h] = <<n>> \o @]
  BY <1>4
<1> QED
  BY <1>5, <1>8, <1>9, <1>10
     DEF Abs!AddFirst, Abs!Linked, Abs!IsAt, Lists, Succ

LEMMA FilesLast ==
  ASSUME KListAssumption, KLInv, NEW h \in Heads, NEW n \in Items,
         n \notin linked, n # cur,
         heap' = K!list_add_tail(heap, h, n), linked' = linked \cup {n},
         UNCHANGED <<cur, head>>
  PROVE  KLInv' /\ Abs!AddLast(h, n)
<1> DEFINE M == [Lists EXCEPT ![h] = Append(@, n)]
<1>1. /\ heap \in Heaps /\ linked \subseteq Items /\ head \in Heads /\ cur \in Nodes
      /\ Lists \in [Heads -> Seq(Items)] /\ Shows(heap, linked, Lists)
      /\ h \in Nodes /\ n \in Nodes /\ h # n /\ n \notin Heads
  BY Known DEF KLInv, Nodes, KListAssumption
<1>2. heap' \in Heaps
  BY <1>1, AddTailPointers
<1>3. Shows(heap', linked', M)
  BY <1>1, AddLastShows
<1>4. Lists' = M /\ Shows(heap', linked', Lists')
  <2> HIDE DEF M
  <2> QED BY <1>2, <1>3, NextLists
<1>5. Succ' = Succ
  <2>1. CASE cur \in linked \cup Heads
    BY <2>1 DEF Succ
  <2>2. CASE cur \notin linked \cup Heads
    <3>1. cur' \notin linked' \cup Heads
      BY <2>2
    <3>2. heap.pre[h] \in linked \cup Heads
      <4>1. /\ Len(Lists[h]) \in 0 .. Len(Lists[h])
            /\ Place(Lists[h], h, Len(Lists[h]) + 1) = h
        BY <1>1, PlaceEnds
      <4>2. heap.pre[h] = Place(Lists[h], h, Len(Lists[h]))
        BY <4>1, Known DEF Threads
      <4>3. Holds(linked, Lists)
        BY Known
      <4>4. Place(Lists[h], h, Len(Lists[h])) \in linked \cup Heads
        BY <4>3, <1>1, PlaceIsLinked
      <4> QED BY <4>2, <4>4
    <3>3. heap'.next[cur] = heap.next[cur]
      BY <2>2, <3>2, <1>1, AddTailPointers
    <3> QED BY <2>2, <3>1, <3>3 DEF Succ
  <2> QED BY <2>1, <2>2
<1>6. UseTypeOK'
  BY <1>1, <1>2 DEF UseTypeOK
<1>7. WalkPart'
  <2>1. CASE Succ = head
    BY <2>1, <1>5 DEF WalkPart
  <2>2. CASE Succ # head
    <3>1. PICK i \in 1 .. Len(Lists[head]) : Lists[head][i] = Succ
      BY <2>2 DEF KLInv, WalkPart
    <3>2. \E j \in 1 .. Len(M[head]) : M[head][j] = Succ
      <4>1. CASE head # h
        <5>1. M[head] = Lists[head]
          BY <4>1, <1>1
        <5> QED BY <3>1, <5>1
      <4>2. CASE head = h
        <5>1. M[head] = Append(Lists[head], n) /\ Lists[head] \in Seq(Items)
          BY <4>2, <1>1
        <5>2. i \in 1 .. Len(M[head]) /\ M[head][i] = Lists[head][i]
          <6> HIDE DEF M
          <6> QED BY <5>1, <3>1
        <5> QED BY <5>2, <3>1
      <4> QED BY <4>1, <4>2
    <3> HIDE DEF M
    <3> QED BY <3>2, <1>4, <1>5 DEF WalkPart
  <2> QED BY <2>1, <2>2
<1>8. KLInv'
  BY <1>4, <1>6, <1>7 DEF KLInv
<1>9. ~ \E g \in Heads : \E i \in 1 .. Len(Lists[g]) :
          i \in 1 .. Len(Lists[g]) /\ Lists[g][i] = n
  BY Known
<1>10. Lists' = [Lists EXCEPT ![h] = Append(@, n)]
  BY <1>4
<1> QED
  BY <1>5, <1>8, <1>9, <1>10
     DEF Abs!AddLast, Abs!Linked, Abs!IsAt, Lists, Succ

LEMMA UnfileStep ==
  ASSUME KListAssumption, KLInv, NEW n \in Items, Unfile(n)
  PROVE  KLInv' /\ Abs!Remove(n)
<1>1. /\ heap \in Heaps /\ linked \subseteq Items /\ head \in Heads /\ cur \in Nodes
      /\ Lists \in [Heads -> Seq(Items)] /\ Shows(heap, linked, Lists)
      /\ n \in Nodes /\ cur = head
  BY Known DEF KLInv, Nodes, Unfile, Walking
<1>2. PICK h \in Heads : \E k \in 1 .. Len(Lists[h]) : Lists[h][k] = n
  BY Known DEF Unfile
<1>3. PICK k \in 1 .. Len(Lists[h]) : Lists[h][k] = n
  BY <1>2
<1> DEFINE M == [Lists EXCEPT ![h] = Abs!Drop(@, k)]
<1>4. heap' \in Heaps
  BY <1>1, DelPointers DEF Unfile
<1>5. Shows(heap', linked', M)
  BY <1>1, <1>3, DropShows DEF Unfile
<1>6. Lists' = M /\ Shows(heap', linked', Lists')
  <2> HIDE DEF M
  <2> QED BY <1>4, <1>5, NextLists
<1>7. Succ = cur /\ Succ' = cur /\ cur' = cur /\ head' = head
  BY <1>1 DEF Succ, Unfile
<1>8. KLInv'
  <2>1. UseTypeOK' /\ WalkPart'
    BY <1>1, <1>4, <1>7 DEF UseTypeOK, WalkPart, Unfile
  <2> QED BY <2>1, <1>6 DEF KLInv
<1>9. \E g \in Heads : \E i \in 1 .. Len(Lists[g]) :
        /\ i \in 1 .. Len(Lists[g]) /\ Lists[g][i] = n
        /\ Lists' = [Lists EXCEPT ![g] = Abs!Drop(@, i)]
  BY <1>3, <1>6
<1> QED
  BY <1>1, <1>7, <1>8, <1>9
     DEF Abs!Remove, Abs!Idle, Abs!IsAt, Lists, Succ

LEMMA DeleteVisitedStep ==
  ASSUME KListAssumption, KLInv, DeleteVisited
  PROVE  KLInv' /\ Abs!WalkDelete
<1>1. /\ heap \in Heaps /\ linked \subseteq Items /\ head \in Heads /\ cur \in Nodes
      /\ Lists \in [Heads -> Seq(Items)] /\ Distinct(Lists)
      /\ Shows(heap, linked, Lists)
      /\ cur \in linked /\ cur # head /\ cur \in Items /\ cur \notin Heads
      /\ cur' = cur /\ head' = head /\ linked' = linked \ {cur}
  BY Known DEF KLInv, DeleteVisited, Walking, KListAssumption
<1>2. Succ = cur
  BY <1>1 DEF Succ
<1>3. PICK k \in 1 .. Len(Lists[head]) : Lists[head][k] = cur
  BY <1>1, <1>2 DEF KLInv, WalkPart
<1> DEFINE M == [Lists EXCEPT ![head] = Abs!Drop(@, k)]
           s == Lists[head]
<1>4. heap' \in Heaps
  BY <1>1, DelPointers DEF DeleteVisited
<1>5. Shows(heap', linked', M)
  <2>1. ASSUME NEW g \in Heads, NEW j \in 1 .. Len(Lists[g]), NEW n,
               n = Lists[g][j]
        PROVE  Shows(K!list_del(heap, n), linked \ {n},
                     [Lists EXCEPT ![g] = Abs!Drop(@, j)])
    BY <2>1, <1>1, DropShows
  <2>2. Shows(K!list_del(heap, cur), linked \ {cur}, M)
    BY <2>1, <1>1, <1>3
  <2> QED BY <2>2 DEF DeleteVisited
<1>6. Lists' = M /\ Shows(heap', linked', Lists')
  <2> HIDE DEF M
  <2> QED BY <1>4, <1>5, NextLists
<1>7. s \in Seq(Items) /\ Len(s) \in Nat /\ k \in Nat /\ k >= 1 /\ k <= Len(s)
  BY <1>1, <1>3
<1>8. heap.pre[cur] # cur /\ heap.next[cur] = Place(s, head, k + 1)
  <2>1. /\ k - 1 \in 0 .. Len(s) /\ k - 1 + 1 = k
        /\ k - 1 \in 0 .. Len(s) + 1 /\ k \in 0 .. Len(s) + 1
        /\ k # k - 1 /\ k # 0 /\ k # Len(s) + 1 /\ k - 1 # Len(s) + 1
        /\ Place(s, head, k) = cur
    BY <1>3, <1>7 DEF Place
  <2>2. /\ heap.pre[Place(s, head, k - 1 + 1)] = Place(s, head, k - 1)
        /\ heap.next[Place(s, head, k)] = Place(s, head, k + 1)
    BY <2>1, <1>1, <1>7 DEF Shows, Threads
  <2>3. Place(s, head, k - 1) # Place(s, head, k)
    BY <2>1, <1>1, PlaceDistinct, SMTT(30)
  <2> QED BY <2>1, <2>2, <2>3
<1>9. Succ' = Place(s, head, k + 1)
  <2>1. heap'.next[cur] = heap.next[cur]
    BY <1>1, <1>8, DelPointers DEF DeleteVisited
  <2>2. cur' \notin linked' \cup Heads
    BY <1>1
  <2> QED BY <2>1, <2>2, <1>1, <1>8 DEF Succ
<1>10. WalkPart'
  <2>1. M[head] = Abs!Drop(s, k)
    BY <1>1
  <2>2. CASE k = Len(s)
    <3>1. Succ' = head
      BY <2>2, <1>9, <1>7 DEF Place
    <3> QED BY <3>1, <1>1 DEF WalkPart
  <2>3. CASE k # Len(s)
    <3>1. /\ k + 1 \in 1 .. Len(s) /\ k \in 1 .. Len(s) - 1 /\ ~(k < k)
      BY <2>3, <1>7
    <3>2. Succ' = s[k + 1]
      BY <3>1, <1>9 DEF Place
    <3>3. k \in 1 .. Len(M[head]) /\ M[head][k] = s[k + 1]
      <4>1. /\ Len(Abs!Drop(s, k)) = Len(s) - 1
            /\ \A i \in 1 .. Len(s) - 1 :
                 Abs!Drop(s, k)[i] = IF i < k THEN s[i] ELSE s[i + 1]
        BY <1>3, <1>7, DropAt
      <4> HIDE DEF M, s
      <4>2. Abs!Drop(s, k)[k] = s[k + 1]
        BY <3>1, <4>1
      <4> QED BY <3>1, <2>1, <4>1, <4>2
    <3> HIDE DEF M
    <3> QED BY <3>2, <3>3, <1>1, <1>6 DEF WalkPart
  <2> QED BY <2>2, <2>3
<1>11. KLInv'
  <2>1. UseTypeOK'
    BY <1>1, <1>4 DEF UseTypeOK
  <2> QED BY <2>1, <1>6, <1>10 DEF KLInv
<1>12. \E i \in 1 .. Len(Lists[head]) :
         /\ i \in 1 .. Len(Lists[head]) /\ Lists[head][i] = cur
         /\ Lists' = [Lists EXCEPT ![head] = Abs!Drop(@, i)]
         /\ Succ' = IF i + 1 \in 1 .. Len(Lists[head])
                    THEN Lists[head][i + 1] ELSE head
  BY <1>3, <1>6, <1>9 DEF Place
<1> QED
  BY <1>1, <1>11, <1>12
     DEF Abs!WalkDelete, Abs!Idle, Abs!IsAt, Abs!NodeAt, Lists, Succ

LEMMA StartStep ==
  ASSUME KListAssumption, KLInv, NEW h \in Heads, Start(h)
  PROVE  KLInv' /\ Abs!WalkStart(h)
<1>1. /\ heap \in Heaps /\ linked \subseteq Items /\ cur = head
      /\ Lists \in [Heads -> Seq(Items)] /\ Shows(heap, linked, Lists)
      /\ Threads(heap, Lists) /\ Holds(linked, Lists)
      /\ heap' = heap /\ linked' = linked /\ head' = h /\ cur' = heap.next[h]
  BY Known DEF KLInv, Start, Walking
<1> DEFINE x == Place(Lists[h], h, 1)
<1>2. cur' = x
  <2>1. 0 \in 0 .. Len(Lists[h]) /\ 0 + 1 = 1 /\ Place(Lists[h], h, 0) = h
    BY <1>1, PlaceEnds
  <2> QED BY <2>1, <1>1 DEF Threads
<1>3. /\ x \in linked \cup Heads /\ x \in Nodes
      /\ x = h \/ \E j \in 1 .. Len(Lists[h]) : Lists[h][j] = x
  BY <1>1, PlaceIsLinked, PlaceTyped
<1>4. Lists' = Lists /\ Shows(heap', linked', Lists')
  BY <1>1, NextLists
<1>5. Succ' = x /\ Succ = cur
  BY <1>1, <1>2, <1>3, Known DEF Succ
<1>6. KLInv'
  <2>1. UseTypeOK'
    BY <1>1, <1>2, <1>3 DEF UseTypeOK
  <2>2. WalkPart'
    <3> HIDE DEF x
    <3> QED BY <1>1, <1>3, <1>4, <1>5 DEF WalkPart
  <2> QED BY <2>1, <2>2, <1>4 DEF KLInv
<1>7. cur' = IF 1 \in 1 .. Len(Lists[h]) THEN Lists[h][1] ELSE h
  BY <1>2 DEF Place
<1>8. Succ' = cur'
  BY <1>2, <1>5
<1> QED
  BY <1>1, <1>4, <1>6, <1>7, <1>8
     DEF Abs!WalkStart, Abs!Idle, Abs!NodeAt, Lists, Succ

LEMMA StepStep ==
  ASSUME KListAssumption, KLInv, Step
  PROVE  KLInv' /\ Abs!WalkNext
<1>1. /\ heap \in Heaps /\ linked \subseteq Items /\ head \in Heads /\ cur \in Nodes
      /\ Lists \in [Heads -> Seq(Items)] /\ Shows(heap, linked, Lists)
      /\ Threads(heap, Lists) /\ Holds(linked, Lists) /\ Distinct(Lists)
      /\ Succ \in linked \cup Heads
      /\ cur # head /\ cur' = heap.next[cur]
      /\ heap' = heap /\ linked' = linked /\ head' = head
  BY Known DEF KLInv, Step, Walking
<1>2. Lists' = Lists /\ Shows(heap', linked', Lists')
  BY <1>1, NextLists
<1> DEFINE s == Lists[head]
           At(i) == i \in 1 .. Len(s) /\ s[i] = cur
<1>3. /\ cur' \in linked \cup Heads
      /\ cur' = head \/ \E j \in 1 .. Len(Lists[head]) : Lists[head][j] = cur'
      /\ cur' = IF Succ # cur THEN Succ
                ELSE LET i == 1 + CHOOSE i \in 1 .. Len(s) : At(i)
                     IN  IF i \in 1 .. Len(s) THEN s[i] ELSE head
  <2>1. CASE cur \in linked \cup Heads
    <3>1. Succ = cur
      BY <2>1 DEF Succ
    <3>2. PICK k \in 1 .. Len(s) : s[k] = cur
      BY <3>1, <1>1 DEF KLInv, WalkPart
    <3>3. (CHOOSE i \in 1 .. Len(s) : At(i)) = k
      <4>1. \A i \in 1 .. Len(s) : At(i) => i = k
        BY <3>2, <1>1 DEF Distinct
      <4>2. At(k)
        BY <3>2
      <4> HIDE DEF At
      <4> QED BY <3>2, <4>1, <4>2
    <3>4. cur' = Place(s, head, k + 1)
      <4>1. k \in 0 .. Len(s) /\ Place(s, head, k) = cur
        BY <3>2, <1>1 DEF Place
      <4> QED BY <4>1, <1>1 DEF Threads
    <3>5. /\ Place(s, head, k + 1) \in linked \cup Heads
          /\ \/ Place(s, head, k + 1) = head
             \/ \E j \in 1 .. Len(Lists[head]) :
                  Lists[head][j] = Place(s, head, k + 1)
      BY <1>1, PlaceIsLinked, ZenonT(40)
    <3>6. k + 1 = 1 + k
      BY <3>2, <1>1
    <3> QED BY <3>1, <3>3, <3>4, <3>5, <3>6 DEF Place
  <2>2. CASE cur \notin linked \cup Heads
    <3>1. Succ = cur' /\ Succ # cur
      BY <2>2, <1>1 DEF Succ
    <3>2. cur' = head \/ \E j \in 1 .. Len(Lists[head]) : Lists[head][j] = cur'
      BY <3>1 DEF KLInv, WalkPart
    <3> QED BY <3>1, <3>2, <1>1
  <2> QED BY <2>1, <2>2
<1>4. Succ' = cur'
  BY <1>1, <1>3 DEF Succ
<1>5. KLInv'
  <2>1. UseTypeOK'
    BY <1>1, <1>3 DEF UseTypeOK, Nodes
  <2>2. WalkPart'
    BY <1>1, <1>2, <1>3, <1>4 DEF WalkPart
  <2> QED BY <2>1, <2>2, <1>2 DEF KLInv
<1> QED
  BY <1>1, <1>2, <1>3, <1>4, <1>5
     DEF Abs!WalkNext, Abs!Idle, Abs!NodeAt, Abs!IsAt, Lists, Succ

LEMMA UseStep ==
  ASSUME KListAssumption, KLInv, [UseNext]_uvars
  PROVE  KLInv' /\ [Abs!AbsNext]_(Abs!absVars)
<1>1. ASSUME NEW h \in Heads, NEW n \in Items, File(h, n)
      PROVE  KLInv' /\ Abs!AbsNext
  <2>1. CASE h \notin Fifo /\ heap' = K!list_add(heap, h, n)
    BY <1>1, <2>1, FilesFirst DEF File, Abs!AbsNext
  <2>2. CASE heap' = K!list_add_tail(heap, h, n)
    BY <1>1, <2>2, FilesLast DEF File, Abs!AbsNext
  <2> QED BY <1>1, <2>1, <2>2 DEF File
<1>2. ASSUME NEW n \in Items, Unfile(n)
      PROVE  KLInv' /\ Abs!AbsNext
  BY <1>2, UnfileStep DEF Abs!AbsNext
<1>3. ASSUME NEW h \in Heads, Start(h)
      PROVE  KLInv' /\ Abs!AbsNext
  BY <1>3, StartStep DEF Abs!AbsNext
<1>4. CASE DeleteVisited
  BY <1>4, DeleteVisitedStep DEF Abs!AbsNext
<1>5. CASE Step
  BY <1>5, StepStep DEF Abs!AbsNext
<1>6. CASE UNCHANGED uvars
  <2>1. heap' = heap /\ linked' = linked /\ cur' = cur /\ head' = head
    BY <1>6 DEF uvars
  <2>2. Lists' = Lists /\ Succ' = Succ
    BY <2>1 DEF Lists, Chain, Succ
  <2>3. KLInv'
    BY <2>1, <2>2 DEF KLInv, UseTypeOK, WalkPart
  <2>4. UNCHANGED Abs!absVars
    BY <2>1, <2>2 DEF Abs!absVars, Lists, Succ
  <2> QED BY <2>3, <2>4
<1> QED
  BY <1>1, <1>2, <1>3, <1>4, <1>5, <1>6 DEF UseNext

-----------------------------------------------------------------------------
(* Theorems *)

\* The pointers of list.h form rings for any number of heads and task_structs:
\* both pointers of a linked node lead back to it and no list reaches an
\* unlinked one, whatever list_add, list_add_tail and list_del have done, and
\* also while a walk deletes what it visits.
THEOREM RingsHold == UseSpec => []Rings
<1>1. UseInit => KLInv
  BY KListAssumption, InitShows
<1>2. KLInv /\ [UseNext]_uvars => KLInv'
  BY KListAssumption, UseStep
<1>3. KLInv => Rings
  BY KListAssumption, RingsFollow
<1> QED
  BY <1>1, <1>2, <1>3, PTL DEF UseSpec

\* The pointer lists implement sequences: every assignment of list_add,
\* list_add_tail and list_del that the scheduler's use of them can make is a
\* step of the sequences, and a walk visits what the sequences say, deletion
\* of the visited node and additions during the walk included.
THEOREM ListsAreSequences == UseSpec => ImplementsSequences
<1>1. UseInit => KLInv /\ Abs!AbsInit
  BY KListAssumption, InitShows
<1>2. KLInv /\ [UseNext]_uvars => KLInv' /\ [Abs!AbsNext]_(Abs!absVars)
  BY KListAssumption, UseStep
<1> QED
  BY <1>1, <1>2, PTL DEF UseSpec, ImplementsSequences, Abs!AbsSpec

=============================================================================
