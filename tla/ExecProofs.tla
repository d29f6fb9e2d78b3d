----------------------------- MODULE ExecProofs -----------------------------
(***************************************************************************)
(* Proofs about Exec, for any directories of programs that fit their image, *)
(* any number of processes and any pages they may be given.                *)
(***************************************************************************)
EXTENDS Exec, FiniteSetTheorems, SequenceTheorems, WellFoundedInduction, TLAPS

-----------------------------------------------------------------------------
(* Recursive functions *)

\* Every set of numbers that is not empty has a least one.
LEMMA LeastOf ==
  ASSUME NEW T \in SUBSET Nat, T # {}
  PROVE  \E x \in T : \A y \in T : x <= y
<1> DEFINE R == {ss \in Nat \X Nat : ss[1] < ss[2]}
<1>1. IsWellFoundedOn(R, Nat)
  BY NatLessThanWellFounded DEF OpToRel
<1>2. PICK x \in T : \A y \in T : ~(<<y, x>> \in R)
  <2> HIDE DEF R
  <2> QED BY <1>1, WFMin
<1>3. \A y \in T : ~(y < x)
  BY <1>2
<1> QED
  BY <1>3

\* The recursive function of Total.
IsSum(f, s, n) == f = [i \in 0 .. n |-> IF i = 0 THEN 0 ELSE f[i - 1] + s[i]]

LEMMA SumExists ==
  ASSUME NEW s, NEW N \in Nat
  PROVE  \E f : IsSum(f, s, N)
<1> DEFINE T == {m \in Nat : ~ \E f : IsSum(f, s, m)}
<1>1. SUFFICES ASSUME T # {} PROVE FALSE
  OBVIOUS
<1>2. PICK m \in T : \A y \in T : m <= y
  BY <1>1, LeastOf
<1>3. CASE m = 0
  <2>1. IsSum([i \in 0 .. 0 |-> 0], s, 0)
    BY DEF IsSum
  <2> QED
    BY <1>2, <1>3, <2>1
<1>4. CASE m # 0
  <2>1. m \in Nat /\ m - 1 \in Nat /\ m - 1 \notin T
    BY <1>2, <1>4
  <2>2. PICK g : IsSum(g, s, m - 1)
    BY <2>1
  <2> DEFINE f == [i \in 0 .. m |-> IF i = m THEN g[m - 1] + s[m] ELSE g[i]]
  <2>3. \A i \in 0 .. m : f[i] = IF i = 0 THEN 0 ELSE f[i - 1] + s[i]
    <3> TAKE i \in 0 .. m
    <3>1. CASE i = m
      BY <2>1, <3>1, <1>4
    <3>2. CASE i # m
      <4>1. i \in 0 .. m - 1 /\ f[i] = g[i]
        BY <2>1, <3>2
      <4>2. g[i] = IF i = 0 THEN 0 ELSE g[i - 1] + s[i]
        BY <2>2, <4>1 DEF IsSum
      <4>3. i # 0 => f[i - 1] = g[i - 1]
        BY <2>1, <4>1
      <4> QED BY <4>1, <4>2, <4>3
    <3> QED BY <3>1, <3>2
  <2>4. IsSum(f, s, m)
    <3> DEFINE e == [i \in 0 .. m |-> IF i = 0 THEN 0 ELSE f[i - 1] + s[i]]
    <3>1. f = [i \in 0 .. m |-> f[i]]
      OBVIOUS
    <3> HIDE DEF f
    <3>2. f = e
      BY <3>1, <2>3
    <3> QED BY <3>2 DEF IsSum
  <2> QED
    <3> HIDE DEF f
    <3> QED BY <1>2, <2>4
<1> QED
  BY <1>3, <1>4

\* The sums do not depend on how far they are taken.
LEMMA SumsAgree ==
  ASSUME NEW s, NEW m \in Nat, NEW n \in Nat, m <= n,
         NEW f, NEW g, IsSum(f, s, m), IsSum(g, s, n),
         NEW k \in 0 .. m
  PROVE  f[k] = g[k]
<1> DEFINE T == {i \in 0 .. m : f[i] # g[i]}
<1>1. SUFFICES ASSUME T # {} PROVE FALSE
  OBVIOUS
<1>2. PICK i \in T : \A y \in T : i <= y
  <2>1. T \in SUBSET Nat
    OBVIOUS
  <2> HIDE DEF T
  <2> QED BY <1>1, <2>1, LeastOf
<1>3. /\ f[i] = IF i = 0 THEN 0 ELSE f[i - 1] + s[i]
      /\ g[i] = IF i = 0 THEN 0 ELSE g[i - 1] + s[i]
  BY <1>2 DEF IsSum
<1>4. i # 0 => f[i - 1] = g[i - 1]
  <2>1. i # 0 => i - 1 \in 0 .. m /\ i - 1 \notin T
    BY <1>2
  <2> QED BY <2>1
<1> QED
  BY <1>2, <1>3, <1>4

LEMMA TotalIsSum ==
  ASSUME NEW s, NEW n \in Nat
  PROVE  \E f : IsSum(f, s, n) /\ Total(s, n) = f[n]
<1> DEFINE sum == CHOOSE f : IsSum(f, s, n)
<1>1. IsSum(sum, s, n)
  <2>1. \E f : IsSum(f, s, n)
    BY SumExists
  <2> QED BY <2>1
<1>2. Total(s, n) = sum[n]
  BY DEF Total, IsSum, sum
<1> QED BY <1>1, <1>2

LEMMA TotalStep ==
  ASSUME NEW s, NEW n \in Nat
  PROVE  Total(s, 0) = 0 /\ Total(s, n + 1) = Total(s, n) + s[n + 1]
<1>1. Total(s, 0) = 0
  <2>1. PICK f : IsSum(f, s, 0) /\ Total(s, 0) = f[0]
    BY TotalIsSum
  <2> QED BY <2>1 DEF IsSum
<1>2. Total(s, n + 1) = Total(s, n) + s[n + 1]
  <2> DEFINE m == n + 1
  <2>1. m \in Nat /\ m # 0 /\ m - 1 = n /\ n \in 0 .. n /\ n <= m /\ m \in 0 .. m
    OBVIOUS
  <2> HIDE DEF m
  <2>2. PICK f : IsSum(f, s, n) /\ Total(s, n) = f[n]
    BY TotalIsSum
  <2>3. PICK g : IsSum(g, s, m) /\ Total(s, m) = g[m]
    BY <2>1, TotalIsSum
  <2>4. f[n] = g[n]
    BY <2>1, <2>2, <2>3, SumsAgree
  <2>5. g[m] = g[n] + s[m]
    BY <2>1, <2>3 DEF IsSum
  <2> QED BY <2>2, <2>3, <2>4, <2>5 DEF m
<1> QED BY <1>1, <1>2

LEMMA TotalNat ==
  ASSUME NEW N \in Nat, NEW s \in [1 .. N -> Nat], NEW n \in 0 .. N
  PROVE  Total(s, n) \in Nat
<1> DEFINE T == {i \in 0 .. N : Total(s, i) \notin Nat}
<1>1. SUFFICES ASSUME T # {} PROVE FALSE
  OBVIOUS
<1>2. PICK i \in T : \A y \in T : i <= y
  <2>1. T \in SUBSET Nat
    OBVIOUS
  <2> HIDE DEF T
  <2> QED BY <1>1, <2>1, LeastOf
<1>3. i # 0
  BY <1>2, TotalStep
<1> DEFINE j == i - 1
<1>4. j \in Nat /\ j \in 0 .. N /\ i = j + 1 /\ j \notin T /\ i \in 1 .. N
  BY <1>2, <1>3
<1> HIDE DEF j
<1>5. Total(s, i) = Total(s, j) + s[i]
  BY <1>4, TotalStep
<1> QED BY <1>2, <1>4, <1>5

\* Sums of more numbers are no smaller.
LEMMA TotalMonotone ==
  ASSUME NEW N \in Nat, NEW s \in [1 .. N -> Nat], NEW n \in 0 .. N, NEW m \in n .. N
  PROVE  Total(s, n) <= Total(s, m)
<1> DEFINE T == {i \in n .. N : ~(Total(s, n) <= Total(s, i))}
<1>1. SUFFICES ASSUME T # {} PROVE FALSE
  OBVIOUS
<1>2. PICK i \in T : \A y \in T : i <= y
  <2>1. T \in SUBSET Nat
    OBVIOUS
  <2> HIDE DEF T
  <2> QED BY <1>1, <2>1, LeastOf
<1>3. i # n /\ Total(s, n) \in Nat /\ Total(s, i) \in Nat
  BY <1>2, TotalNat
<1> DEFINE j == i - 1
<1>4. j \in Nat /\ j \in n .. N /\ j \in 0 .. N /\ i = j + 1 /\ j \notin T /\ i \in 1 .. N
  BY <1>2, <1>3
<1> HIDE DEF j
<1>5. Total(s, i) = Total(s, j) + s[i] /\ Total(s, j) \in Nat /\ s[i] \in Nat
  BY <1>4, TotalStep, TotalNat
<1> QED BY <1>2, <1>3, <1>4, <1>5

LEMMA TotalGrows ==
  ASSUME NEW N \in Nat, NEW s \in [1 .. N -> Nat], NEW n \in 0 .. N
  PROVE  Total(s, n) <= Total(s, N)
<1>1. N \in n .. N
  OBVIOUS
<1> QED BY <1>1, TotalMonotone

-----------------------------------------------------------------------------
(* The ramdisk *)

\* The recursive function of Opened.
IsOpen(f, d, n) ==
  f = [i \in 0 .. n |->
         IF i = 0 THEN <<>>
         ELSE IF d[i].readable THEN Append(f[i - 1], d[i]) ELSE f[i - 1]]

LEMMA OpenExists ==
  ASSUME NEW d, NEW N \in Nat
  PROVE  \E f : IsOpen(f, d, N)
<1> DEFINE T == {m \in Nat : ~ \E f : IsOpen(f, d, m)}
           Next(x, i) == IF d[i].readable THEN Append(x, d[i]) ELSE x
<1>1. SUFFICES ASSUME T # {} PROVE FALSE
  OBVIOUS
<1>2. PICK m \in T : \A y \in T : m <= y
  BY <1>1, LeastOf
<1>3. CASE m = 0
  <2>1. IsOpen([i \in 0 .. 0 |-> <<>>], d, 0)
    BY DEF IsOpen
  <2> QED
    BY <1>2, <1>3, <2>1
<1>4. CASE m # 0
  <2>1. m \in Nat /\ m - 1 \in Nat /\ m - 1 \notin T
    BY <1>2, <1>4
  <2>2. PICK g : IsOpen(g, d, m - 1)
    BY <2>1
  <2>3. g = [i \in 0 .. m - 1 |-> IF i = 0 THEN <<>> ELSE Next(g[i - 1], i)]
    BY <2>2 DEF IsOpen
  <2> HIDE DEF Next
  <2> DEFINE f == [i \in 0 .. m |-> IF i = m THEN Next(g[m - 1], m) ELSE g[i]]
  <2>4. \A i \in 0 .. m : f[i] = IF i = 0 THEN <<>> ELSE Next(f[i - 1], i)
    <3> TAKE i \in 0 .. m
    <3>1. CASE i = m
      BY <2>1, <3>1, <1>4
    <3>2. CASE i # m
      <4>1. i \in 0 .. m - 1 /\ f[i] = g[i]
        BY <2>1, <3>2
      <4>2. g[i] = IF i = 0 THEN <<>> ELSE Next(g[i - 1], i)
        BY <2>3, <4>1
      <4>3. i # 0 => f[i - 1] = g[i - 1]
        BY <2>1, <4>1
      <4> QED BY <4>1, <4>2, <4>3
    <3> QED BY <3>1, <3>2
  <2>5. f = [i \in 0 .. m |-> IF i = 0 THEN <<>> ELSE Next(f[i - 1], i)]
    <3>1. f = [i \in 0 .. m |-> f[i]]
      OBVIOUS
    <3> HIDE DEF f
    <3> QED BY <3>1, <2>4
  <2>6. IsOpen(f, d, m)
    <3> HIDE DEF f
    <3> QED BY <2>5 DEF IsOpen, Next
  <2> QED
    <3> HIDE DEF f
    <3> QED BY <1>2, <2>6
<1> QED
  BY <1>3, <1>4

Readable(d) == {f \in ToSet(d) : f.readable}

LEMMA OpenedFiles ==
  ASSUME NEW d \in Seq(Files)
  PROVE  Opened(d) \in Seq(Readable(d))
<1> DEFINE N == Len(d)
           open == CHOOSE f : IsOpen(f, d, N)
<1>1. N \in Nat
  OBVIOUS
<1>2. IsOpen(open, d, N)
  <2>1. \E f : IsOpen(f, d, N)
    BY <1>1, OpenExists
  <2> QED BY <2>1
<1>3. Opened(d) = open[N]
  BY DEF Opened, IsOpen, open, N
<1> HIDE DEF open
<1> DEFINE T == {i \in 0 .. N : open[i] \notin Seq(Readable(d))}
<1>4. T = {}
  <2>1. SUFFICES ASSUME T # {} PROVE FALSE
    OBVIOUS
  <2>2. PICK i \in T : \A y \in T : i <= y
    <3>1. T \in SUBSET Nat
      BY <1>1
    <3> HIDE DEF T
    <3> QED BY <2>1, <3>1, LeastOf
  <2>3. i \in 0 .. N /\ open[i] \notin Seq(Readable(d))
    BY <2>2
  <2>4. open[i] = IF i = 0 THEN <<>>
                  ELSE IF d[i].readable THEN Append(open[i - 1], d[i]) ELSE open[i - 1]
    BY <2>3, <1>2 DEF IsOpen
  <2>5. i # 0
    BY <2>3, <2>4
  <2>6. i - 1 \in 0 .. N /\ i - 1 \notin T /\ i \in 1 .. N
    BY <2>2, <2>3, <2>5, <1>1
  <2>7. open[i - 1] \in Seq(Readable(d))
    BY <2>6
  <2>8. d[i].readable => d[i] \in Readable(d)
    BY <2>6 DEF Readable, ToSet
  <2> QED BY <2>3, <2>4, <2>5, <2>7, <2>8
<1> QED BY <1>1, <1>3, <1>4

\* A program that fits into an image.
Fits(f) ==
  /\ f \in Files
  /\ \A k \in 1 .. Len(f.secs) : f.secs[k].addr + f.secs[k].size <= ImagePages * PageSize
  /\ SumSizes(f.secs) + PageSize <= ImagePages * PageSize

\* What the rest of the proofs knows of the ramdisk.
DiskOK(D) ==
  /\ \A f \in D.files : Fits(f)
  /\ \A i \in DOMAIN D.head :
       D.head[i].name = "" \/ \E f \in D.files : f.name = D.head[i].name

LEMMA DiskIsOK ==
  ASSUME NEW d \in Directories
  PROVE  DiskOK(gen_ramdisk(d))
<1> DEFINE D == gen_ramdisk(d)
           ok == Opened(d)
<1>1. d \in Seq(Files) /\ \A i \in 1 .. Len(d) : Fits(d[i])
  BY ProgramAssumption DEF Fits
<1>2. ok \in Seq(Readable(d)) /\ Len(ok) \in Nat
  BY <1>1, OpenedFiles
<1>3. \A i \in 1 .. Len(ok) : ok[i] \in ToSet(d)
  BY <1>2 DEF Readable
<1>4. \A f \in ToSet(d) : Fits(f)
  BY <1>1 DEF ToSet
<1>5. /\ D.files = ToSet(ok)
      /\ D.head = [i \in DOMAIN d |->
                     IF i <= Len(ok)
                     THEN [name |-> ok[i].name, base |-> Base(d, ok, i), size |-> ok[i].size]
                     ELSE NoHead]
  BY DEF gen_ramdisk
<1> HIDE DEF D, ok
<1>6. \A f \in D.files : Fits(f)
  BY <1>2, <1>3, <1>4, <1>5 DEF ToSet
<1>7. ASSUME NEW i \in DOMAIN D.head
      PROVE  D.head[i].name = "" \/ \E f \in D.files : f.name = D.head[i].name
  <2>1. i \in 1 .. Len(d)
    BY <1>1, <1>5
  <2>2. CASE i <= Len(ok)
    <3>1. ok[i] \in ToSet(ok)
      BY <1>2, <2>1, <2>2 DEF ToSet
    <3>2. D.head[i].name = ok[i].name
      BY <1>5, <2>2
    <3> QED BY <3>1, <3>2, <1>5
  <2>3. CASE ~(i <= Len(ok))
    <3>1. D.head[i] = NoHead
      BY <1>1, <1>5, <2>1, <2>3
    <3>2. NoHead.name = ""
      BY DEF NoHead
    <3> QED BY <3>1, <3>2
  <2> QED BY <2>2, <2>3
<1> QED
  BY <1>6, <1>7 DEF DiskOK, D


-----------------------------------------------------------------------------
(* Arithmetic of pages *)

LEMMA DivMod ==
  ASSUME NEW P \in Nat \ {0}, NEW a \in Nat
  PROVE  /\ a \div P \in Nat /\ a % P \in 0 .. P - 1
         /\ a = (a \div P) * P + (a % P) /\ (a \div P) * P \in Nat
OBVIOUS

LEMMA MorePages ==
  ASSUME NEW P \in Nat \ {0}, NEW f \in Nat, NEW g \in Nat, f < g
  PROVE  f * P + P <= g * P
<1>1. PICK k \in Nat : g = f + 1 + k
  <2>1. g - f - 1 \in Nat /\ g = f + 1 + (g - f - 1)
    OBVIOUS
  <2> QED BY <2>1
<1>2. g * P = f * P + P + k * P /\ k * P \in Nat /\ f * P \in Nat
  BY <1>1
<1> QED BY <1>2

\* A word is on one page only.
LEMMA OnePage ==
  ASSUME NEW P \in Nat \ {0}, NEW f \in Nat, NEW g \in Nat,
         NEW q \in 0 .. P - 1, NEW r \in 0 .. P - 1, f * P + q = g * P + r
  PROVE  f = g
<1>1. f * P \in Nat /\ g * P \in Nat
  OBVIOUS
<1>2. CASE f < g
  BY <1>1, <1>2, MorePages
<1>3. CASE g < f
  BY <1>1, <1>3, MorePages
<1> QED BY <1>2, <1>3

LEMMA PageBelow ==
  ASSUME NEW P \in Nat \ {0}, NEW f \in Nat, NEW n \in Nat, NEW r \in Nat,
         f * P + r < n * P
  PROVE  f < n
<1>1. f * P \in Nat /\ n * P \in Nat
  OBVIOUS
<1>2. CASE n < f
  BY <1>1, <1>2, MorePages
<1> QED BY <1>1, <1>2

LEMMA PageInMemory ==
  ASSUME NEW P \in Nat \ {0}, NEW M \in Nat, NEW f \in 0 .. M, NEW r \in 0 .. P - 1
  PROVE  f * P + r \in 0 .. (1 + M) * P - 1
<1>1. f * P \in Nat /\ (1 + M) * P \in Nat /\ f < 1 + M /\ f \in Nat
  OBVIOUS
<1>2. f * P + P <= (1 + M) * P
  BY <1>1, MorePages
<1> QED BY <1>1, <1>2


-----------------------------------------------------------------------------
(* Which words an operation writes *)

\* The word p is on a page of the list l.
OnPages(p, l) ==
  \E i \in 1 .. Len(l) : \E r \in 0 .. PageSize - 1 : p = l[i] * PageSize + r

Frames == ImagePages * Cardinality(Tasks)

LEMMA Constants ==
  /\ PageSize \in Nat \ {0} /\ ImagePages \in Nat \ {0}
  /\ MAX_ARGV \in Nat \ {0} /\ 2 * MAX_ARGV < PageSize
  /\ IsFiniteSet(Tasks) /\ Frames \in Nat
  /\ \A l \in Placements :
       /\ l \in Seq(0 .. Frames) /\ Len(l) = ImagePages /\ l # <<>>
       /\ \A i \in 1 .. ImagePages : l[i] \in Nat
<1>1. /\ PageSize \in Nat \ {0} /\ ImagePages \in Nat \ {0}
      /\ MAX_ARGV \in Nat \ {0} /\ 2 * MAX_ARGV < PageSize
      /\ IsFiniteSet(Tasks)
  BY ExecAssumption
<1>2. Frames \in Nat
  <2>1. Cardinality(Tasks) \in Nat
    BY <1>1, FS_CardinalityType
  <2> QED BY <1>1, <2>1 DEF Frames
<1>3. \A l \in Placements : l \in Seq(0 .. Frames) /\ Len(l) = ImagePages
  BY ExecAssumption DEF Frames
<1>4. ASSUME NEW l \in Placements
      PROVE  l # <<>> /\ \A i \in 1 .. ImagePages : l[i] \in Nat
  BY <1>1, <1>2, <1>3
<1> QED BY <1>1, <1>2, <1>3, <1>4

LEMMA OnPagesInMemory ==
  ASSUME NEW l \in Placements, NEW p, OnPages(p, l)
  PROVE  p \in 0 .. (1 + Frames) * PageSize - 1
<1>1. PICK i \in 1 .. Len(l), r \in 0 .. PageSize - 1 : p = l[i] * PageSize + r
  BY DEF OnPages
<1>2. l[i] \in 0 .. Frames
  BY <1>1, Constants
<1> QED BY <1>1, <1>2, Constants, PageInMemory

LEMMA PageOfList ==
  ASSUME NEW l \in Placements, NEW i \in 1 .. Len(l)
  PROVE  l[i] \in Nat /\ l[i] \in ToSet(l)
<1>1. l \in Seq(0 .. Frames) /\ Frames \in Nat
  BY Constants
<1>2. i \in DOMAIN l /\ l[i] \in 0 .. Frames
  BY <1>1
<1>3. l[i] \in ToSet(l)
  BY <1>2 DEF ToSet
<1> QED BY <1>1, <1>2, <1>3

LEMMA ListsApart ==
  ASSUME NEW l \in Placements, NEW m \in Placements, ToSet(l) \cap ToSet(m) = {},
         NEW p, OnPages(p, l), OnPages(p, m)
  PROVE  FALSE
<1>1. PICK i \in 1 .. Len(l), q \in 0 .. PageSize - 1 : p = l[i] * PageSize + q
  BY DEF OnPages
<1>2. PICK j \in 1 .. Len(m), r \in 0 .. PageSize - 1 : p = m[j] * PageSize + r
  BY DEF OnPages
<1>3. l[i] \in Nat /\ m[j] \in Nat /\ l[i] \in ToSet(l) /\ m[j] \in ToSet(m)
  BY PageOfList
<1>4. l[i] = m[j]
  BY <1>1, <1>2, <1>3, Constants, OnePage
<1> QED BY <1>3, <1>4

LEMMA KvaOnPages ==
  ASSUME NEW l \in Placements, NEW a \in 0 .. ImagePages * PageSize - 1
  PROVE  OnPages(Kva(l, a), l)
<1> DEFINE f == a \div PageSize
           r == a % PageSize
<1>1. ImagePages * PageSize \in Nat /\ a \in Nat /\ a < ImagePages * PageSize
  BY Constants
<1>2. f \in Nat /\ r \in 0 .. PageSize - 1 /\ a = f * PageSize + r
  BY <1>1, Constants, DivMod
<1>3. Kva(l, a) = l[1 + f] * PageSize + r
  BY DEF Kva
<1> HIDE DEF f, r
<1>4. f < ImagePages
  BY <1>1, <1>2, Constants, PageBelow
<1>5. 1 + f \in 1 .. Len(l)
  BY <1>2, <1>4, Constants
<1> QED BY <1>2, <1>3, <1>5 DEF OnPages

LEMMA KvaOf ==
  ASSUME NEW l, NEW g \in Nat, NEW r \in 0 .. PageSize - 1
  PROVE  Kva(l, g * PageSize + r) = l[1 + g] * PageSize + r
<1> DEFINE P == PageSize
           a == g * P + r
           f == a \div P
           q == a % P
<1>1. P \in Nat \ {0} /\ g * P \in Nat /\ r \in Nat
  BY Constants
<1>2. a \in Nat
  BY <1>1
<1>3. f \in Nat /\ q \in 0 .. P - 1 /\ a = f * P + q /\ f * P \in Nat
  <2> HIDE DEF a, P
  <2> QED BY <1>1, <1>2, DivMod
<1>4. Kva(l, a) = l[1 + f] * P + q
  BY DEF Kva
<1>5. a = g * P + r
  OBVIOUS
<1> HIDE DEF f, q, a
<1>6. f = g
  BY <1>1, <1>3, <1>5, OnePage
<1>7. q = r
  <2>1. f * P + q = f * P + r
    BY <1>3, <1>5, <1>6
  <2>2. \A x \in Nat : \A y, z \in Nat : x + y = x + z => y = z
    OBVIOUS
  <2>3. q \in Nat
    BY <1>1, <1>3
  <2> QED BY <2>1, <2>2, <2>3, <1>1, <1>3
<1> QED BY <1>4, <1>6, <1>7 DEF a

\* A word of the image is in one place.
LEMMA KvaInjective ==
  ASSUME NEW l \in Placements, NEW a \in 0 .. ImagePages * PageSize - 1,
         NEW b \in 0 .. ImagePages * PageSize - 1, Kva(l, a) = Kva(l, b)
  PROVE  a = b
<1> DEFINE P == PageSize
           f == a \div P
           q == a % P
           g == b \div P
           r == b % P
<1>1. P \in Nat \ {0} /\ a \in Nat /\ b \in Nat /\ ImagePages \in Nat
      /\ ImagePages * P \in Nat
  BY Constants
<1>2. /\ f \in Nat /\ q \in 0 .. P - 1 /\ a = f * P + q
      /\ g \in Nat /\ r \in 0 .. P - 1 /\ b = g * P + r
  BY <1>1, DivMod
<1>3. Kva(l, a) = l[1 + f] * P + q /\ Kva(l, b) = l[1 + g] * P + r
  BY DEF Kva
<1>4. a < ImagePages * P /\ b < ImagePages * P
  <2> DEFINE Z == ImagePages * P
  <2>1. Z \in Nat /\ a \in 0 .. Z - 1 /\ b \in 0 .. Z - 1
    BY <1>1
  <2> HIDE DEF Z
  <2>2. a < Z /\ b < Z
    BY <2>1
  <2> QED BY <2>2 DEF Z
<1> HIDE DEF f, q, g, r, P
<1>5. f < ImagePages /\ g < ImagePages
  BY <1>1, <1>2, <1>4, PageBelow
<1>6. 1 + f \in 1 .. ImagePages /\ 1 + g \in 1 .. ImagePages
  BY <1>1, <1>2, <1>5
<1>7. l[1 + f] = l[1 + g]
  <2>1. l[1 + f] \in Nat /\ l[1 + g] \in Nat
    BY <1>6, Constants
  <2> QED BY <2>1, <1>1, <1>2, <1>3, OnePage, ZenonT(40)
<1>8. 1 + f = 1 + g
  <2>1. l \in Seq(0 .. Frames) /\ Len(l) = ImagePages
    BY Constants
  <2>2. DOMAIN l = 1 .. ImagePages
    BY <2>1
  <2> QED BY <1>6, <1>7, <2>2, ExecAssumption DEF IsInjective
<1>9. f = g
  BY <1>2, <1>8
<1>10. q = r
  <2>1. l[1 + f] * P \in Nat
    <3>1. l[1 + f] \in Nat
      BY <1>6, Constants
    <3> QED BY <3>1, <1>1
  <2>2. \A x, y, z \in Nat : x + y = x + z => y = z
    OBVIOUS
  <2>3. q \in Nat /\ r \in Nat
    BY <1>1, <1>2
  <2> QED BY <2>1, <2>2, <2>3, <1>3, <1>9
<1> QED BY <1>2, <1>9, <1>10

\* A section that ends within the image, and does not go on behind a page
\* unless the pages are neighbours, is put where it was linked to.
LEMMA PlaceIsKva ==
  ASSUME NEW l \in Placements, NEW s \in Sections,
         s.addr + s.size <= ImagePages * PageSize,
         ~Crosses(s) \/ \A i \in 1 .. ImagePages - 1 : l[i + 1] = l[i] + 1,
         NEW w \in 0 .. s.size - 1
  PROVE  Place(l, s, w) = Kva(l, s.addr + w)
<1> DEFINE P == PageSize
           i == s.addr \div P
           j == s.addr % P
           first == IF s.size >= P THEN P - j ELSE s.size
<1>1. /\ s.addr \in Nat /\ s.size \in Nat /\ ImagePages * P \in Nat
      /\ P \in Nat \ {0} /\ ImagePages \in Nat \ {0}
      /\ w \in Nat /\ w < s.size /\ Len(l) = ImagePages
  BY Constants DEF Sections
<1>2. i \in Nat /\ j \in 0 .. P - 1 /\ s.addr = i * P + j /\ i * P \in Nat
  BY <1>1, DivMod
<1>3. Place(l, s, w) = IF w < first THEN l[i + 1] * P + j + w
                       ELSE l[i + 2 + ((w - first) \div P)] * P + ((w - first) % P)
  BY DEF Place
<1>4. Crosses(s) <=> s.size < P /\ j + s.size > P
  BY DEF Crosses
<1> HIDE DEF i, j, P
<1>5. i < ImagePages
  <2>1. i * P + j < ImagePages * P
    BY <1>1, <1>2 DEF P
  <2> QED BY <2>1, <1>1, <1>2, PageBelow
<1>6. CASE w < first /\ j + w < P
  <2>1. i + 1 \in 1 .. ImagePages /\ i + 1 = 1 + i /\ j + w \in 0 .. P - 1
    BY <1>1, <1>2, <1>5, <1>6
  <2>2. l[i + 1] \in Nat
    BY <2>1, Constants
  <2>3. Place(l, s, w) = l[1 + i] * P + (j + w)
    <3>1. l[i + 1] * P \in Nat
      BY <2>2, <1>1
    <3> HIDE DEF first
    <3> QED BY <2>1, <3>1, <1>1, <1>2, <1>3, <1>6
  <2>4. s.addr + w = i * P + (j + w)
    BY <1>1, <1>2
  <2>5. Kva(l, i * P + (j + w)) = l[1 + i] * P + (j + w)
    BY <2>1, <1>2, KvaOf DEF P
  <2> QED BY <2>3, <2>4, <2>5
<1>7. CASE w < first /\ ~(j + w < P)
  <2>1. s.size < P /\ j + s.size > P
    BY <1>1, <1>2, <1>7
  <2>2. \A k \in 1 .. ImagePages - 1 : l[k + 1] = l[k] + 1
    BY <2>1, <1>4
  <2>3. i + 1 < ImagePages
    <3> DEFINE f == i + 1
               r == j + w - P
    <3>1. f \in Nat /\ r \in Nat /\ f * P + r < ImagePages * P
      <4>1. (i + 1) * P = i * P + P
        BY <1>1, <1>2
      <4> QED BY <4>1, <1>1, <1>2, <1>7 DEF P
    <3> HIDE DEF f, r
    <3>2. f < ImagePages
      BY <3>1, <1>1, PageBelow
    <3> QED BY <3>2 DEF f
  <2> DEFINE g == i + 1
             a == l[g]
             b == l[1 + g]
             r == j + w - P
  <2>4. g \in 1 .. ImagePages - 1 /\ r \in 0 .. P - 1 /\ g \in Nat
        /\ g \in 1 .. ImagePages /\ g + 1 = 1 + g
    BY <1>1, <1>2, <1>7, <2>1, <2>3
  <2>5. a \in Nat /\ b = a + 1
    <3> HIDE DEF g
    <3> QED BY <2>2, <2>4, Constants
  <2>6. Place(l, s, w) = a * P + j + w
    <3> HIDE DEF first
    <3> QED BY <1>3, <1>7
  <2>7. Place(l, s, w) = b * P + r
    <3> HIDE DEF a, b
    <3>1. b * P = a * P + P /\ a * P \in Nat
      BY <2>5, <1>1
    <3> QED BY <3>1, <2>6, <1>1, <1>2
  <2>8. s.addr + w = g * P + r
    <3>1. g * P = i * P + P
      BY <1>1, <1>2
    <3> HIDE DEF g
    <3> QED BY <3>1, <1>1, <1>2
  <2> HIDE DEF r, g
  <2>9. Kva(l, g * P + r) = l[1 + g] * P + r
    BY <2>4, KvaOf DEF P
  <2> QED BY <2>7, <2>8, <2>9
<1>8. CASE ~(w < first)
  <2>1. s.size >= P /\ first = P - j
    BY <1>1, <1>2, <1>8
  <2> DEFINE x == w - first
             f == x \div P
             r == x % P
             g == i + 1 + f
  <2>2. x \in Nat /\ x = j + w - P
    BY <2>1, <1>1, <1>2, <1>8
  <2>3. Place(l, s, w) = l[i + 2 + f] * P + r
    <3> HIDE DEF first
    <3> QED BY <1>3, <1>8
  <2> HIDE DEF first, x
  <2>4. f \in Nat /\ r \in 0 .. P - 1 /\ x = f * P + r /\ f * P \in Nat
    BY <2>2, <1>1, DivMod
  <2> HIDE DEF f, r
  <2>5. g \in Nat /\ g * P = i * P + P + f * P /\ i + 2 + f = 1 + g
    BY <1>1, <1>2, <2>4
  <2> HIDE DEF g
  <2>6. s.addr + w = g * P + r
    BY <2>2, <2>4, <2>5, <1>1, <1>2
  <2>7. Kva(l, g * P + r) = l[1 + g] * P + r
    BY <2>4, <2>5, KvaOf DEF P
  <2> QED BY <2>3, <2>5, <2>6, <2>7
<1> QED
  BY <1>6, <1>7, <1>8

LEMMA PlaceOnPages ==
  ASSUME NEW l \in Placements, NEW s \in Sections,
         s.addr + s.size <= ImagePages * PageSize,
         ~Crosses(s) \/ \A i \in 1 .. ImagePages - 1 : l[i + 1] = l[i] + 1,
         NEW w \in 0 .. s.size - 1
  PROVE  OnPages(Place(l, s, w), l)
<1>1. s.addr + w \in 0 .. ImagePages * PageSize - 1
  <2>1. s.addr \in Nat /\ s.size \in Nat /\ ImagePages * PageSize \in Nat
    BY Constants DEF Sections
  <2> QED BY <2>1
<1> QED BY <1>1, PlaceIsKva, KvaOnPages


-----------------------------------------------------------------------------
(* The inductive invariant *)

Fields == {"at", "name", "file", "secs", "nr", "argv", "kernel"}

CallOK(c) ==
  /\ DOMAIN c = Fields
  /\ c.at \in {"idle", "open", "header", "str", "parse", "load"}
  /\ c.secs \in Seq(Sections) /\ c.nr \in Nat /\ Len(c.argv) \in Nat

\* Images are lists of pages, and no page is on two of them.
ImagePart ==
  /\ img \in [Tasks -> Placements \cup {<<>>}]
  /\ \A t, u \in Tasks : t # u => ToSet(img[t]) \cap ToSet(img[u]) = {}

Sizes(secs) == [i \in 1 .. Len(secs) |-> secs[i].size]

\* How far the call c of a process is, which has the pages l and elf_size e.
\* While it loads, the sections to come are the last ones of the file, and
\* elf_size is the size of those before.
CallIs(D, c, l, e) ==
  LET f == CHOOSE g \in D.files : g.name = c.name
      n == Len(f.secs) - Len(c.secs)
  IN  /\ CallOK(c)
      /\ c.at # "idle" => l # <<>> /\ c.name # ""
      /\ c.at \in {"header", "str", "parse", "load"} => f \in D.files
      /\ e \in Nat /\ e + PageSize <= ImagePages * PageSize
      /\ c.at = "load" =>
           /\ n \in Nat
           /\ \A i \in 1 .. Len(c.secs) : c.secs[i] = f.secs[n + i]
           /\ e = Total(Sizes(f.secs), n)

CallPart == \A t \in Tasks : CallIs(disk, call[t], img[t], elf_size[t])

StatePart ==
  /\ DiskOK(disk)
  /\ DOMAIN mem = 0 .. (1 + Frames) * PageSize - 1
  /\ DOMAIN call = Tasks /\ DOMAIN elf_size = Tasks
  /\ DOMAIN was = {"prog", "argv", "short", "loaded"}

\* The calls at one of the stages S.
At(S) == {t \in Tasks : call[t].at \in S}

\* The section records of the calls that load.
Records == {r \in Tasks \X Nat : /\ call[r[1]].at = "load"
                                 /\ r[2] \in 1 .. call[r[1]].nr}

\* Every buffer is that of a call that still needs it.
HeapPart ==
  /\ heap \in [Kinds -> Int]
  /\ heap["header"] = Cardinality(At({"str", "parse"}))
  /\ heap["str"] = Cardinality(At({"parse"}))
  /\ heap["elf"] = Cardinality(At({"load"}))
  /\ IsFiniteSet(Records) /\ heap["section"] = Cardinality(Records)

EInv ==
  /\ StatePart
  /\ ImagePart
  /\ CallPart

HInv == EInv /\ HeapPart


-----------------------------------------------------------------------------
(* Every step keeps it *)

\* A step of t that gives it no page of another process.
LEMMA Frame ==
  ASSUME EInv, NEW t \in Tasks,
         disk' = disk, DOMAIN mem' = DOMAIN mem, DOMAIN was' = DOMAIN was,
         DOMAIN call' = Tasks, DOMAIN elf_size' = Tasks,
         img' \in [Tasks -> Placements \cup {<<>>}],
         \A u \in Tasks \ {t} : /\ call'[u] = call[u] /\ img'[u] = img[u]
                                /\ elf_size'[u] = elf_size[u],
         img'[t] = <<>> \/ img'[t] = img[t] \/ Free(img'[t]),
         CallIs(disk, call'[t], img'[t], elf_size'[t])
  PROVE  EInv'
<1>1. StatePart'
  BY DEF EInv, StatePart
<1>2. CallPart'
  BY DEF EInv, CallPart
<1>3. ASSUME NEW u \in Tasks, u # t
      PROVE  ToSet(img'[t]) \cap ToSet(img'[u]) = {}
  <2>1. img'[u] = img[u]
    BY <1>3
  <2>2. CASE img'[t] = <<>>
    <3>1. ToSet(<<>>) = {}
      BY DEF ToSet
    <3> QED BY <2>2, <3>1
  <2>3. CASE img'[t] = img[t]
    BY <2>1, <2>3, <1>3 DEF EInv, ImagePart
  <2>4. CASE Free(img'[t])
    BY <2>1, <2>4, <1>3 DEF Free
  <2> QED BY <2>2, <2>3, <2>4
<1>4. ImagePart'
  <2> SUFFICES ASSUME NEW u \in Tasks, NEW v \in Tasks, u # v
               PROVE  ToSet(img'[u]) \cap ToSet(img'[v]) = {}
    BY DEF ImagePart
  <2>1. CASE u = t
    BY <2>1, <1>3
  <2>2. CASE v = t
    BY <2>2, <1>3
  <2>3. CASE u # t /\ v # t
    BY <2>3 DEF EInv, ImagePart
  <2> QED BY <2>1, <2>2, <2>3
<1> QED BY <1>1, <1>2, <1>4 DEF EInv

LEMMA IdleIsOK ==
  ASSUME NEW D, NEW l, NEW e \in Nat, e + PageSize <= ImagePages * PageSize
  PROVE  CallIs(D, Idle, l, e)
<1>1. CallOK(Idle)
  BY DEF CallOK, Idle, Fields
<1>2. Idle.at = "idle"
  BY DEF Idle
<1> HIDE DEF Idle
<1> QED BY <1>1, <1>2 DEF CallIs

LEMMA FailedKeeps ==
  ASSUME EInv, NEW t \in Tasks, Failed(t), UNCHANGED <<disk, mem, elf_size, was>>
  PROVE  EInv'
<1>1. /\ DOMAIN call = Tasks /\ DOMAIN elf_size = Tasks
      /\ img \in [Tasks -> Placements \cup {<<>>}]
      /\ elf_size[t] \in Nat /\ elf_size[t] + PageSize <= ImagePages * PageSize
  BY DEF EInv, StatePart, ImagePart, CallPart, CallIs
<1>2. /\ DOMAIN call' = Tasks /\ call'[t] = Idle
      /\ \A u \in Tasks \ {t} : call'[u] = call[u]
  BY <1>1 DEF Failed
<1>3. /\ img' \in [Tasks -> Placements \cup {<<>>}]
      /\ img'[t] = <<>> \/ img'[t] = img[t]
      /\ \A u \in Tasks \ {t} : img'[u] = img[u]
  BY <1>1 DEF Failed
<1>4. CallIs(disk, call'[t], img'[t], elf_size'[t])
  BY <1>1, <1>2, IdleIsOK
<1> QED BY <1>1, <1>2, <1>3, <1>4, Frame


\* What the invariant says of the process that makes a step.
LEMMA OfCall ==
  ASSUME EInv, NEW t \in Tasks
  PROVE  /\ DOMAIN call = Tasks /\ DOMAIN elf_size = Tasks
         /\ img \in [Tasks -> Placements \cup {<<>>}]
         /\ DOMAIN call[t] = Fields /\ CallOK(call[t])
         /\ CallIs(disk, call[t], img[t], elf_size[t])
         /\ elf_size[t] \in Nat /\ elf_size[t] + PageSize <= ImagePages * PageSize
BY DEF EInv, StatePart, ImagePart, CallPart, CallIs, CallOK

LEMMA NamesNotEmpty ==
  ASSUME NEW name \in Names
  PROVE  name # ""
<1>1. ASSUME NEW d \in Directories, NEW f \in ToSet(d)
      PROVE  f.name # ""
  <2>1. d \in Seq(Files)
    BY ProgramAssumption
  <2>2. f \in Files
    BY <2>1 DEF ToSet
  <2> QED BY <2>2 DEF Files
<1>2. name = "none" \/ \E d \in Directories : \E f \in ToSet(d) : name = f.name
  BY DEF Names
<1> QED BY <1>1, <1>2

LEMMA NewCallOK ==
  ASSUME NEW c, DOMAIN c = Fields, c.at = "open", NEW s \in Seq(Sections), c.secs = s,
         NEW n \in Nat, c.nr = n, NEW k \in Nat, Len(c.argv) = k
  PROVE  CallOK(c)
BY DEF CallOK

\* A call that begins.
LEMMA BeginIsOK ==
  ASSUME NEW D, NEW l, l # <<>>, NEW e \in Nat, e + PageSize <= ImagePages * PageSize,
         NEW c, DOMAIN c = Fields, c.at = "open", c.name # "", c.secs = <<>>, c.nr = 0,
         Len(c.argv) \in Nat
  PROVE  CallIs(D, c, l, e)
<1>1. <<>> \in Seq(Sections) /\ 0 \in Nat
  BY EmptySeq
<1>2. CallOK(c)
  BY <1>1, NewCallOK
<1> QED BY <1>2 DEF CallIs

\* A call that goes on to a stage before the load.
LEMMA StageIsOK ==
  ASSUME NEW D, NEW l, l # <<>>, NEW e \in Nat, e + PageSize <= ImagePages * PageSize,
         NEW c, CallOK(c), c.at \in {"header", "str", "parse"},
         NEW name, name # "", c.name = name,
         (CHOOSE g \in D.files : g.name = name) \in D.files
  PROVE  CallIs(D, c, l, e)
BY DEF CallIs

LEMMA KernelExecKeeps ==
  ASSUME EInv, NEW t \in Tasks, NEW name \in Names, NEW argv \in Argvs,
         KernelExec(t, name, argv)
  PROVE  EInv'
<1>1. PICK l \in Placements : Free(l) /\ img' = [img EXCEPT ![t] = l]
  BY DEF KernelExec
<1>2. l # <<>> /\ name # "" /\ Len(argv) \in Nat
  <2>1. argv \in Seq(Args)
    BY ExecAssumption
  <2>2. l # <<>>
    BY <1>1, Constants
  <2>3. Len(argv) \in Nat
    BY <2>1
  <2> QED BY <2>2, <2>3, NamesNotEmpty
<1>3. /\ DOMAIN call' = Tasks
      /\ DOMAIN call'[t] = Fields /\ call'[t].at = "open" /\ call'[t].name = name
      /\ call'[t].secs = <<>> /\ call'[t].nr = 0 /\ call'[t].argv = argv
      /\ \A u \in Tasks \ {t} : call'[u] = call[u]
  BY OfCall DEF KernelExec, Begin, Idle, Fields
<1>4. /\ img' \in [Tasks -> Placements \cup {<<>>}] /\ img'[t] = l
      /\ \A u \in Tasks \ {t} : img'[u] = img[u]
  BY <1>1, OfCall
<1>5. CallIs(disk, call'[t], img'[t], elf_size[t])
  <2>1. elf_size[t] \in Nat /\ elf_size[t] + PageSize <= ImagePages * PageSize
    BY OfCall
  <2> QED BY <1>2, <1>3, <1>4, <2>1, BeginIsOK
<1>6. /\ disk' = disk /\ mem' = mem /\ elf_size' = elf_size
      /\ DOMAIN was' = DOMAIN was
  BY DEF KernelExec
<1> QED BY <1>1, <1>3, <1>4, <1>5, <1>6, OfCall, Frame

LEMMA UserExecKeeps ==
  ASSUME EInv, NEW t \in Tasks, NEW name \in Names, NEW argv \in Argvs,
         UserExec(t, name, argv)
  PROVE  EInv'
<1> DEFINE args == [i \in DOMAIN argv |->
                      IF argv[i].from = -1 THEN argv[i]
                      ELSE [argv[i] EXCEPT !.word = Peek(t, argv[i].from)]]
<1>1. name # "" /\ Len(args) \in Nat
  <2>1. argv \in Seq(Args)
    BY ExecAssumption
  <2>2. Len(argv) \in Nat /\ DOMAIN argv = 1 .. Len(argv)
    BY <2>1
  <2>3. Len(args) = Len(argv)
    BY <2>2
  <2> QED BY <2>2, <2>3, NamesNotEmpty
<1>2. img[t] # <<>> /\ Begin(t, name, args, FALSE)
  BY DEF UserExec, Alive
<1> HIDE DEF args
<1>3. /\ DOMAIN call' = Tasks
      /\ DOMAIN call'[t] = Fields /\ call'[t].at = "open" /\ call'[t].name = name
      /\ call'[t].secs = <<>> /\ call'[t].nr = 0 /\ call'[t].argv = args
      /\ \A u \in Tasks \ {t} : call'[u] = call[u]
  BY <1>2, OfCall DEF Begin, Idle, Fields
<1>4. disk' = disk /\ mem' = mem /\ elf_size' = elf_size /\ was' = was /\ img' = img
  BY DEF UserExec
<1>5. CallIs(disk, call'[t], img'[t], elf_size[t])
  <2>1. elf_size[t] \in Nat /\ elf_size[t] + PageSize <= ImagePages * PageSize
    BY OfCall
  <2> QED BY <1>1, <1>2, <1>3, <1>4, <2>1, BeginIsOK
<1> QED BY <1>3, <1>4, <1>5, OfCall, Frame

\* fs_open finds a header, so there is a file of that name.
LEMMA OpenKeeps ==
  ASSUME EInv, NEW t \in Tasks, Open(t)
  PROVE  EInv'
<1> DEFINE c == call[t]
           f == CHOOSE g \in disk.files : g.name = c.name
<1>1. PICK h \in Lookup(c.name) : call' = [call EXCEPT ![t].at = "header", ![t].file = h]
  BY DEF Open
<1>2. /\ c.at = "open" /\ img[t] # <<>> /\ c.name # "" /\ CallOK(c)
  BY OfCall DEF Open, CallIs
<1>3. PICK i \in DOMAIN disk.head : disk.head[i].name = c.name
  BY <1>1 DEF Lookup
<1>4. f \in disk.files
  <2>1. \E g \in disk.files : g.name = c.name
    BY <1>2, <1>3 DEF EInv, StatePart, DiskOK
  <2> QED BY <2>1
<1>5. /\ DOMAIN call' = Tasks
      /\ \A u \in Tasks \ {t} : call'[u] = call[u]
      /\ DOMAIN call'[t] = Fields /\ call'[t].at = "header" /\ call'[t].name = c.name
      /\ call'[t].secs = c.secs /\ call'[t].nr = c.nr /\ call'[t].argv = c.argv
  BY <1>1, OfCall DEF Fields
<1>6. CallOK(call'[t])
  BY <1>2, <1>5 DEF CallOK
<1>7. disk' = disk /\ mem' = mem /\ elf_size' = elf_size /\ was' = was /\ img' = img
  BY DEF Open
<1>8. CallIs(disk, call'[t], img'[t], elf_size[t])
  <2>1. elf_size[t] \in Nat /\ elf_size[t] + PageSize <= ImagePages * PageSize
    BY OfCall
  <2> QED BY <1>2, <1>4, <1>5, <1>6, <1>7, <2>1, StageIsOK
<1> QED BY <1>5, <1>7, <1>8, OfCall, Frame

\* Header and Str.
LEMMA StageKeeps ==
  ASSUME EInv, NEW t \in Tasks, NEW s \in {"str", "parse"},
         call[t].at \in {"header", "str"}, call' = [call EXCEPT ![t].at = s],
         UNCHANGED <<disk, mem, img, elf_size, was>>
  PROVE  EInv'
<1> DEFINE c == call[t]
           f == CHOOSE g \in disk.files : g.name = c.name
<1>1. /\ img[t] # <<>> /\ c.name # "" /\ CallOK(c) /\ f \in disk.files
  BY OfCall DEF CallIs
<1>2. /\ DOMAIN call' = Tasks
      /\ \A u \in Tasks \ {t} : call'[u] = call[u]
      /\ DOMAIN call'[t] = Fields /\ call'[t].at = s /\ call'[t].name = c.name
      /\ call'[t].secs = c.secs /\ call'[t].nr = c.nr /\ call'[t].argv = c.argv
  BY OfCall DEF Fields
<1>3. CallOK(call'[t])
  BY <1>1, <1>2 DEF CallOK
<1>4. CallIs(disk, call'[t], img'[t], elf_size[t])
  <2>1. elf_size[t] \in Nat /\ elf_size[t] + PageSize <= ImagePages * PageSize
    BY OfCall
  <2> QED BY <1>1, <1>2, <1>3, <2>1, StageIsOK, ZenonT(40)
<1> QED BY <1>2, <1>4, OfCall, Frame


\* The file that a call has opened.
LEMMA FileOfCall ==
  ASSUME EInv, NEW f \in disk.files
  PROVE  /\ f.secs \in Seq(Sections) /\ Len(f.secs) \in Nat
         /\ Sizes(f.secs) \in [1 .. Len(f.secs) -> Nat]
         /\ Total(Sizes(f.secs), Len(f.secs)) + PageSize <= ImagePages * PageSize
         /\ \A k \in 1 .. Len(f.secs) :
              /\ f.secs[k] \in Sections
              /\ f.secs[k].addr + f.secs[k].size <= ImagePages * PageSize
<1>1. Fits(f)
  BY DEF EInv, StatePart, DiskOK
<1>2. f.secs \in Seq(Sections)
  BY <1>1 DEF Fits, Files
<1>3. Len(f.secs) \in Nat /\ DOMAIN f.secs = 1 .. Len(f.secs)
      /\ \A k \in 1 .. Len(f.secs) : f.secs[k] \in Sections
  BY <1>2
<1>4. \A k \in 1 .. Len(f.secs) : f.secs[k].size \in Nat
  BY <1>3 DEF Sections
<1>5. Sizes(f.secs) \in [1 .. Len(f.secs) -> Nat]
  BY <1>4 DEF Sizes
<1>6. SumSizes(f.secs) = Total(Sizes(f.secs), Len(f.secs))
  BY <1>3 DEF SumSizes, Sizes
<1> QED BY <1>1, <1>2, <1>3, <1>5, <1>6 DEF Fits

\* load_elf_image begins with all the sections of the file.
LEMMA ParseKeeps ==
  ASSUME EInv, NEW t \in Tasks, Parse(t)
  PROVE  EInv'
<1> DEFINE c == call[t]
           d == call'[t]
           f == CHOOSE g \in disk.files : g.name = c.name
<1>1. /\ img[t] # <<>> /\ c.name # "" /\ CallOK(c) /\ f \in disk.files
  BY OfCall DEF Parse, CallIs
<1>2. f = Elf(c.name)
  BY DEF Elf
<1>3. f.secs \in Seq(Sections) /\ Len(f.secs) \in Nat
  BY <1>1, FileOfCall
<1>4. /\ DOMAIN call' = Tasks
      /\ \A u \in Tasks \ {t} : call'[u] = call[u]
      /\ DOMAIN d = Fields /\ d.at = "load" /\ d.name = c.name
      /\ d.secs = f.secs /\ d.nr = Len(f.secs) /\ d.argv = c.argv
  <2> HIDE DEF f
  <2> QED BY <1>2, OfCall DEF Parse, Fields
<1>5. /\ DOMAIN elf_size' = Tasks /\ elf_size'[t] = 0
      /\ \A u \in Tasks \ {t} : elf_size'[u] = elf_size[u]
  BY OfCall DEF Parse
<1>6. disk' = disk /\ mem' = mem /\ was' = was /\ img' = img
  BY DEF Parse
<1>7. CallOK(d)
  <2> HIDE DEF f, c, d
  <2> QED BY <1>1, <1>3, <1>4 DEF CallOK
<1>8. PageSize <= ImagePages * PageSize
  <2>1. elf_size[t] \in Nat /\ elf_size[t] + PageSize <= ImagePages * PageSize
    BY OfCall
  <2>2. ImagePages * PageSize \in Nat /\ PageSize \in Nat
    BY Constants
  <2> QED BY <2>1, <2>2
<1>9. CallIs(disk, d, img'[t], elf_size'[t])
  <2>1. (CHOOSE g \in disk.files : g.name = d.name) = f
    BY <1>4
  <2>2. Total(Sizes(f.secs), 0) = 0
    BY TotalStep
  <2>3. /\ Len(f.secs) - Len(d.secs) = 0
        /\ \A i \in 1 .. Len(d.secs) : d.secs[i] = f.secs[0 + i]
    BY <1>3, <1>4
  <2>4. 0 \in Nat /\ 0 + PageSize <= ImagePages * PageSize
    BY <1>8, Constants
  <2> HIDE DEF f, d
  <2> QED BY <1>1, <1>4, <1>5, <1>6, <1>7, <2>1, <2>2, <2>3, <2>4 DEF CallIs
<1> QED BY <1>4, <1>5, <1>6, <1>9, OfCall, Frame

\* The section that is loaded next.
LEMMA NextSection ==
  ASSUME EInv, NEW t \in Tasks, call[t].at = "load", call[t].secs # <<>>
  PROVE  LET f == Elf(call[t].name)
             n == Len(f.secs) - Len(call[t].secs)
             s == Head(call[t].secs)
         IN  /\ f \in disk.files /\ n \in Nat /\ n + 1 \in 1 .. Len(f.secs)
             /\ s = f.secs[n + 1] /\ s \in Sections
             /\ s.addr + s.size <= ImagePages * PageSize
             /\ elf_size[t] = Total(Sizes(f.secs), n)
             /\ elf_size[t] + s.size = Total(Sizes(f.secs), n + 1)
             /\ elf_size[t] + s.size \in Nat
             /\ elf_size[t] + s.size + PageSize <= ImagePages * PageSize
<1> DEFINE c == call[t]
           f == Elf(call[t].name)
           n == Len(f.secs) - Len(c.secs)
           s == Head(call[t].secs)
<1>1. /\ f \in disk.files /\ n \in Nat /\ elf_size[t] = Total(Sizes(f.secs), n)
      /\ \A i \in 1 .. Len(c.secs) : c.secs[i] = f.secs[n + i]
      /\ c.secs \in Seq(Sections)
  BY OfCall DEF CallIs, CallOK, Elf
<1>2. /\ f.secs \in Seq(Sections) /\ Len(f.secs) \in Nat
      /\ Sizes(f.secs) \in [1 .. Len(f.secs) -> Nat]
      /\ Total(Sizes(f.secs), Len(f.secs)) + PageSize <= ImagePages * PageSize
      /\ \A k \in 1 .. Len(f.secs) :
           /\ f.secs[k] \in Sections
           /\ f.secs[k].addr + f.secs[k].size <= ImagePages * PageSize
  BY <1>1, FileOfCall
<1>3. Len(c.secs) \in Nat /\ Len(c.secs) >= 1 /\ s = c.secs[1] /\ 1 \in 1 .. Len(c.secs)
  BY <1>1
<1>4. n + 1 \in 1 .. Len(f.secs) /\ n + 1 \in 0 .. Len(f.secs)
  <2>1. \A a, b \in Nat : a - b \in Nat /\ b >= 1 =>
          a - b + 1 \in 1 .. a /\ a - b + 1 \in 0 .. a
    OBVIOUS
  <2>2. Len(f.secs) \in Nat /\ Len(c.secs) \in Nat
    BY <1>2, <1>3
  <2> QED BY <2>1, <2>2, <1>1, <1>3
<1>5. s = f.secs[n + 1]
  BY <1>1, <1>3
<1> HIDE DEF f, n, s
<1>6. /\ s \in Sections /\ s.addr + s.size <= ImagePages * PageSize
  BY <1>2, <1>4, <1>5
<1>7. Sizes(f.secs)[n + 1] = s.size
  BY <1>4, <1>5 DEF Sizes
<1>8. elf_size[t] + s.size = Total(Sizes(f.secs), n + 1)
  <2>1. Total(Sizes(f.secs), n + 1) = Total(Sizes(f.secs), n) + Sizes(f.secs)[n + 1]
    BY <1>1, TotalStep
  <2> QED BY <2>1, <1>1, <1>7
<1>9. /\ Total(Sizes(f.secs), n + 1) \in Nat /\ Total(Sizes(f.secs), Len(f.secs)) \in Nat
      /\ Total(Sizes(f.secs), n + 1) <= Total(Sizes(f.secs), Len(f.secs))
  <2>1. Len(f.secs) \in 0 .. Len(f.secs)
    BY <1>2
  <2> QED BY <2>1, <1>2, <1>4, TotalNat, TotalGrows
<1>10. /\ elf_size[t] + s.size \in Nat
       /\ elf_size[t] + s.size + PageSize <= ImagePages * PageSize
  <2>1. ImagePages * PageSize \in Nat /\ PageSize \in Nat
    BY Constants
  <2> QED BY <2>1, <1>2, <1>8, <1>9
<1> QED BY <1>1, <1>4, <1>5, <1>6, <1>8, <1>10 DEF f, n, s


LEMMA LoadKeeps ==
  ASSUME EInv, NEW t \in Tasks, LoadSection(t)
  PROVE  EInv'
<1> DEFINE c == call[t]
           d == call'[t]
           f == Elf(c.name)
           n == Len(f.secs) - Len(c.secs)
           s == Head(c.secs)
<1>1. c.at = "load" /\ c.secs # <<>>
  BY DEF LoadSection
<1>2. /\ f \in disk.files /\ n \in Nat /\ n + 1 \in 1 .. Len(f.secs)
      /\ elf_size[t] + s.size = Total(Sizes(f.secs), n + 1)
      /\ elf_size[t] + s.size \in Nat
      /\ elf_size[t] + s.size + PageSize <= ImagePages * PageSize
  BY <1>1, NextSection
<1>3. /\ c.secs \in Seq(Sections) /\ c.nr \in Nat /\ Len(c.argv) \in Nat
      /\ img[t] # <<>> /\ c.name # ""
      /\ \A i \in 1 .. Len(c.secs) : c.secs[i] = f.secs[n + i]
  BY <1>1, OfCall DEF CallIs, CallOK, Elf
<1>4. /\ DOMAIN call' = Tasks
      /\ \A u \in Tasks \ {t} : call'[u] = call[u]
      /\ DOMAIN d = Fields /\ d.at = "load" /\ d.name = c.name
      /\ d.secs = Tail(c.secs) /\ d.nr = c.nr /\ d.argv = c.argv
  BY <1>1, OfCall DEF LoadSection, Fields
<1>5. /\ DOMAIN elf_size' = Tasks /\ elf_size'[t] = elf_size[t] + s.size
      /\ \A u \in Tasks \ {t} : elf_size'[u] = elf_size[u]
  BY OfCall DEF LoadSection
<1>6. /\ disk' = disk /\ img' = img /\ DOMAIN mem' = DOMAIN mem
      /\ DOMAIN was' = DOMAIN was
  BY DEF LoadSection, Loaded
<1>7. /\ d.secs \in Seq(Sections) /\ Len(d.secs) = Len(c.secs) - 1
      /\ Len(d.secs) \in Nat /\ Len(c.secs) \in Nat
      /\ \A i \in 1 .. Len(d.secs) : d.secs[i] = c.secs[i + 1]
  <2>1. ASSUME NEW q \in Seq(Sections), q # <<>>
        PROVE  /\ Tail(q) \in Seq(Sections) /\ Len(Tail(q)) = Len(q) - 1
               /\ Len(Tail(q)) \in Nat /\ Len(q) \in Nat
               /\ \A i \in 1 .. Len(Tail(q)) : Tail(q)[i] = q[i + 1]
    BY <2>1
  <2> DEFINE q == c.secs
             x == d.secs
  <2>2. q \in Seq(Sections) /\ q # <<>> /\ x = Tail(q)
    BY <1>1, <1>3, <1>4
  <2> HIDE DEF q, x
  <2>3. /\ x \in Seq(Sections) /\ Len(x) = Len(q) - 1 /\ Len(x) \in Nat /\ Len(q) \in Nat
        /\ \A i \in 1 .. Len(x) : x[i] = q[i + 1]
    BY <2>1, <2>2
  <2> QED BY <2>3 DEF q, x
<1>8. CallOK(d)
  <2> HIDE DEF c, d
  <2> QED BY <1>3, <1>4, <1>7 DEF CallOK
<1>9. Len(f.secs) - Len(d.secs) = n + 1 /\ Len(f.secs) \in Nat
  <2>1. Len(f.secs) \in Nat
    BY <1>2, FileOfCall
  <2>2. \A a, b, e \in Nat : e = b - 1 => a - e = (a - b) + 1
    OBVIOUS
  <2> QED BY <2>1, <2>2, <1>7
<1>10. ASSUME NEW i \in 1 .. Len(d.secs)
       PROVE  d.secs[i] = f.secs[n + 1 + i]
  <2>1. i + 1 \in 1 .. Len(c.secs) /\ n + (i + 1) = n + 1 + i
    <3> HIDE DEF n, d, c
    <3> QED BY <1>2, <1>7
  <2>2. d.secs[i] = c.secs[i + 1]
    BY <1>7
  <2>3. c.secs[i + 1] = f.secs[n + (i + 1)]
    BY <2>1, <1>3
  <2> QED BY <2>1, <2>2, <2>3
<1>11. CallIs(disk, d, img'[t], elf_size'[t])
  <2>1. (CHOOSE g \in disk.files : g.name = d.name) = f
    BY <1>4 DEF Elf
  <2>2. n + 1 \in Nat
    BY <1>2
  <2> HIDE DEF f, d, n, c, s
  <2>3. /\ elf_size'[t] \in Nat /\ elf_size'[t] + PageSize <= ImagePages * PageSize
        /\ elf_size'[t] = Total(Sizes(f.secs), n + 1)
    BY <1>2, <1>5
  <2> QED
    BY <1>2, <1>3, <1>4, <1>6, <1>8, <1>9, <1>10, <2>1, <2>2, <2>3 DEF CallIs
<1> QED BY <1>4, <1>5, <1>6, <1>11, OfCall, Frame

LEMMA FinishKeeps ==
  ASSUME EInv, NEW t \in Tasks, Finish(t)
  PROVE  EInv'
<1>1. /\ DOMAIN call' = Tasks /\ call'[t] = Idle
      /\ \A u \in Tasks \ {t} : call'[u] = call[u]
  BY OfCall DEF Finish
<1>2. /\ disk' = disk /\ img' = img /\ elf_size' = elf_size
      /\ DOMAIN mem' = DOMAIN mem /\ DOMAIN was' = DOMAIN was
  BY DEF Finish, Arguments
<1>3. CallIs(disk, call'[t], img'[t], elf_size'[t])
  BY <1>1, <1>2, OfCall, IdleIsOK
<1> QED BY <1>1, <1>2, <1>3, OfCall, Frame

LEMMA ForkKeeps ==
  ASSUME EInv, NEW t \in Tasks, NEW u \in Tasks, Fork(t, u)
  PROVE  EInv'
<1>1. PICK l \in Placements : /\ Free(l) /\ img' = [img EXCEPT ![u] = l]
                              /\ mem' = Copied(img[t], l, elf_size[t])
  BY DEF Fork
<1>2. call[u].at = "idle" /\ CallOK(call[u])
  BY OfCall DEF Fork, Alive, CallIs
<1>3. /\ img' \in [Tasks -> Placements \cup {<<>>}] /\ img'[u] = l
      /\ \A v \in Tasks \ {u} : img'[v] = img[v]
  BY <1>1, OfCall
<1>4. /\ DOMAIN elf_size' = Tasks /\ elf_size'[u] = elf_size[t]
      /\ \A v \in Tasks \ {u} : elf_size'[v] = elf_size[v]
  BY OfCall DEF Fork
<1>5. /\ disk' = disk /\ call' = call
      /\ DOMAIN mem' = DOMAIN mem /\ DOMAIN was' = DOMAIN was
  BY <1>1 DEF Fork, Copied
<1>6. CallIs(disk, call'[u], img'[u], elf_size'[u])
  BY <1>2, <1>4, <1>5, OfCall DEF CallIs
<1> QED BY <1>1, <1>3, <1>4, <1>5, <1>6, OfCall, Frame

LEMMA ExitKeeps ==
  ASSUME EInv, NEW t \in Tasks, Exit(t)
  PROVE  EInv'
<1>1. call[t].at = "idle" /\ CallOK(call[t])
  BY OfCall DEF Exit
<1>2. /\ img' \in [Tasks -> Placements \cup {<<>>}] /\ img'[t] = <<>>
      /\ \A v \in Tasks \ {t} : img'[v] = img[v]
  BY OfCall DEF Exit
<1>3. /\ disk' = disk /\ call' = call /\ mem' = mem /\ was' = was /\ elf_size' = elf_size
  BY DEF Exit
<1>4. CallIs(disk, call'[t], img'[t], elf_size'[t])
  BY <1>1, <1>3, OfCall DEF CallIs
<1> QED BY <1>2, <1>3, <1>4, OfCall, Frame

LEMMA EInvInit == ExecInit => EInv
<1> SUFFICES ASSUME ExecInit PROVE EInv
  OBVIOUS
<1>1. StatePart
  <2>1. DiskOK(disk)
    BY DiskIsOK DEF ExecInit
  <2> QED BY <2>1 DEF ExecInit, StatePart, Frames
<1>2. ImagePart
  <2>1. ToSet(<<>>) = {}
    BY DEF ToSet
  <2> QED BY <2>1 DEF ExecInit, ImagePart
<1>3. CallPart
  <2>1. 0 \in Nat /\ 0 + PageSize <= ImagePages * PageSize
    <3>1. PageSize \in Nat \ {0} /\ 0 \in Nat /\ ImagePages \in Nat /\ 0 < ImagePages
      BY Constants
    <3>2. 0 * PageSize + PageSize <= ImagePages * PageSize
      BY <3>1, MorePages
    <3> QED BY <3>1, <3>2
  <2> QED BY <2>1, IdleIsOK DEF ExecInit, CallPart
<1> QED BY <1>1, <1>2, <1>3 DEF EInv

LEMMA EInvStep == EInv /\ [ExecNext]_execVars => EInv'
<1> SUFFICES ASSUME EInv, [ExecNext]_execVars PROVE EInv'
  OBVIOUS
<1>1. CASE UNCHANGED execVars
  BY <1>1 DEF EInv, StatePart, ImagePart, CallPart, execVars
<1>2. ASSUME NEW t \in Tasks, NEW name \in Names, NEW argv \in Argvs,
             KernelExec(t, name, argv) \/ UserExec(t, name, argv)
      PROVE  EInv'
  BY <1>2, KernelExecKeeps, UserExecKeeps
<1>3. ASSUME NEW t \in Tasks, OpenFails(t) \/ HeaderFails(t) \/ StrFails(t)
                              \/ ParseFails(t) \/ LoadFails(t)
      PROVE  EInv'
  <2>1. Failed(t) /\ UNCHANGED <<disk, mem, elf_size, was>>
    BY <1>3 DEF OpenFails, HeaderFails, StrFails, ParseFails, LoadFails
  <2> QED BY <2>1, FailedKeeps
<1>4. ASSUME NEW t \in Tasks, Header(t)
      PROVE  EInv'
  BY <1>4, StageKeeps DEF Header
<1>5. ASSUME NEW t \in Tasks, Str(t)
      PROVE  EInv'
  BY <1>5, StageKeeps DEF Str
<1>6. ASSUME NEW t \in Tasks, Open(t) \/ Parse(t) \/ LoadSection(t) \/ Finish(t) \/ Exit(t)
      PROVE  EInv'
  BY <1>6, OpenKeeps, ParseKeeps, LoadKeeps, FinishKeeps, ExitKeeps
<1>7. ASSUME NEW t \in Tasks, NEW u \in Tasks, Fork(t, u)
      PROVE  EInv'
  BY <1>7, ForkKeeps
<1> QED
  BY <1>1, <1>2, <1>3, <1>4, <1>5, <1>6, <1>7 DEF ExecNext

LEMMA EInvAlways == ExecSpec => []EInv
BY EInvInit, EInvStep, PTL DEF ExecSpec


-----------------------------------------------------------------------------
(* Nobody writes to the pages of another *)

\* The section that is loaded, which stays on the pages of the image.
LEMMA LoadStays ==
  ASSUME EInv, NEW t \in Tasks, LoadSection(t), NoOverrun'
  PROVE  LET s == Head(call[t].secs)
         IN  /\ img[t] \in Placements /\ s \in Sections
             /\ s.addr + s.size <= ImagePages * PageSize
             /\ \/ ~Crosses(s)
                \/ \A i \in 1 .. ImagePages - 1 : img[t][i + 1] = img[t][i] + 1
<1> DEFINE f == Elf(call[t].name)
           s == Head(call[t].secs)
           l == img[t]
<1>1. call[t].at = "load" /\ call[t].secs # <<>>
  BY DEF LoadSection
<1>2. PICK k \in 1 .. Len(f.secs) : s = f.secs[k]
  BY <1>1, NextSection
<1>3. /\ f \in disk.files /\ s \in Sections
      /\ s.addr + s.size <= ImagePages * PageSize
  BY <1>1, NextSection
<1>4. l \in Placements
  BY <1>1, OfCall DEF CallIs
<1>5. <<call[t].name, l>> \in was'.loaded
  BY DEF LoadSection, EInv, StatePart
<1>6. ~Crosses(s) \/ \A i \in 1 .. ImagePages - 1 : l[i + 1] = l[i] + 1
  <2>1. disk' = disk
    BY DEF LoadSection
  <2>2. \/ \A i \in DOMAIN f.secs : ~Crosses(f.secs[i])
        \/ \A i \in 1 .. ImagePages - 1 : l[i + 1] = l[i] + 1
    <3> DEFINE x == <<call[t].name, l>>
    <3>1. x[1] = call[t].name /\ x[2] = l
      OBVIOUS
    <3>2. \/ \A i \in DOMAIN Elf(x[1]).secs : ~Crosses(Elf(x[1]).secs[i])
          \/ \A i \in 1 .. ImagePages - 1 : x[2][i + 1] = x[2][i] + 1
      BY <1>5, <2>1 DEF NoOverrun, Elf
    <3> QED BY <3>1, <3>2
  <2>3. k \in DOMAIN f.secs
    BY <1>2, <1>3, FileOfCall
  <2> QED BY <2>2, <2>3, <1>2
<1> QED BY <1>3, <1>4, <1>6

LEMMA LoadWrites ==
  ASSUME EInv, NEW t \in Tasks, LoadSection(t), NoOverrun',
         NEW p \in DOMAIN mem, ~OnPages(p, img[t])
  PROVE  mem'[p] = mem[p]
<1> DEFINE s == Head(call[t].secs)
           l == img[t]
<1>1. mem' = Loaded(l, call[t].file, s)
  BY DEF LoadSection
<1>2. \A w \in 0 .. s.size - 1 : Place(l, s, w) # p
  BY LoadStays, PlaceOnPages
<1> HIDE DEF s, l
<1> QED BY <1>1, <1>2 DEF Loaded

LEMMA FinishWrites ==
  ASSUME EInv, NEW t \in Tasks, Finish(t), NEW p \in DOMAIN mem, ~OnPages(p, img[t])
  PROVE  mem'[p] = mem[p]
<1> DEFINE l == img[t]
           argv == call[t].argv
           strings == Strings(t, argv)
           n == Len(strings)
           base == l[1] * PageSize
<1>1. call[t].at = "load" /\ mem' = Arguments(l, strings, argv)
  BY DEF Finish
<1>2. l \in Placements /\ Len(argv) \in Nat
  BY <1>1, OfCall DEF CallIs, CallOK
<1>3. n \in Nat /\ n <= MAX_ARGV
  <2> HIDE DEF argv
  <2> DEFINE m == IF Len(argv) < MAX_ARGV THEN Len(argv) ELSE MAX_ARGV
  <2>1. m \in Nat /\ m <= MAX_ARGV
    BY <1>2, Constants
  <2>2. Len(Strings(t, argv)) = m
    <3> HIDE DEF m
    <3>1. \A g : Len([i \in 1 .. m |-> g[i]]) = m
      BY <2>1
    <3>2. Strings(t, argv) = [i \in 1 .. m |->
             IF argv[i].from = -1 THEN argv[i].word ELSE Peek(t, argv[i].from)]
      BY DEF Strings, m
    <3> QED BY <3>2, <2>1
  <2> QED BY <2>1, <2>2
<1>4. ASSUME NEW r \in 0 .. PageSize - 1
      PROVE  p # base + r
  <2>1. 1 \in 1 .. Len(l)
    BY <1>2, Constants
  <2> QED BY <2>1 DEF OnPages
<1>5. p \in Int /\ base \in Nat
  <2>1. l[1] \in Nat /\ PageSize \in Nat
    BY <1>2, Constants
  <2>2. (1 + Frames) * PageSize \in Nat
    BY Constants
  <2>3. p \in Int
    BY <2>2 DEF EInv, StatePart
  <2> QED BY <2>1, <2>3
<1>6. mem' = [q \in DOMAIN mem |->
         CASE q - base \in 0 .. n - 1 -> <<"ptr", MAX_ARGV + q - base>>
           [] q - base - MAX_ARGV \in 0 .. n - 1 -> strings[1 + q - base - MAX_ARGV]
           [] n > 0 /\ argv[n].full /\ q - base = MAX_ARGV + n -> Nul
           [] OTHER -> mem[q]]
  BY <1>1, Zenon DEF Arguments
<1> HIDE DEF base, n, strings, argv, l
<1>7. \A r \in Int : p - base = r => ~(r \in 0 .. PageSize - 1)
  BY <1>4, <1>5
<1>8. /\ ~(p - base \in 0 .. n - 1)
      /\ ~(p - base - MAX_ARGV \in 0 .. n - 1)
      /\ ~(p - base = MAX_ARGV + n)
  <2>1. p - base \in Int /\ ~(p - base \in 0 .. PageSize - 1)
    BY <1>5, <1>7
  <2> DEFINE r == p - base
  <2> HIDE DEF r
  <2>2. r \in Int /\ ~(r \in 0 .. PageSize - 1)
    BY <2>1 DEF r
  <2>3. ~(r \in 0 .. n - 1) /\ ~(r - MAX_ARGV \in 0 .. n - 1) /\ ~(r = MAX_ARGV + n)
    BY <2>2, <1>3, Constants
  <2> QED BY <2>3 DEF r
<1> QED BY <1>6, <1>8

\* fork copies the first page at least, and stays in the image.
LEMMA CopyStays ==
  ASSUME EInv, NEW t \in Tasks
  PROVE  LET k == page_nr(elf_size[t] + PageSize)
         IN  /\ k \in Nat /\ k * PageSize \in Nat /\ ImagePages * PageSize \in Nat
             /\ PageSize <= k * PageSize /\ k * PageSize <= ImagePages * PageSize
<1> DEFINE P == PageSize
           x == elf_size[t] + P + P - 1
           k == page_nr(elf_size[t] + P)
<1>1. /\ elf_size[t] \in Nat /\ elf_size[t] + P <= ImagePages * P
      /\ P \in Nat \ {0} /\ ImagePages \in Nat /\ ImagePages * P \in Nat
  BY OfCall, Constants
<1>2. x \in Nat /\ k = x \div P
  BY <1>1 DEF page_nr
<1>3. k \in Nat /\ x = k * P + (x % P) /\ x % P \in 0 .. P - 1 /\ k * P \in Nat
  <2> HIDE DEF x, P, k
  <2> QED BY <1>1, <1>2, DivMod
<1>4. k * P <= ImagePages * P
  <2>1. SUFFICES ASSUME ImagePages < k PROVE FALSE
    <3>1. CASE k = ImagePages
      BY <3>1, <1>1
    <3>2. CASE k < ImagePages
      <4>1. k * P + P <= ImagePages * P
        BY <3>2, <1>1, <1>3, MorePages
      <4> QED BY <4>1, <1>1, <1>3
    <3> QED BY <3>1, <3>2, <1>1, <1>3
  <2>2. ImagePages * P + P <= k * P
    BY <2>1, <1>1, <1>3, MorePages
  <2>3. x < ImagePages * P + P
    BY <1>1
  <2> HIDE DEF x, k, P
  <2> QED BY <2>2, <2>3, <1>1, <1>2, <1>3
<1>5. P <= k * P
  <2> DEFINE y == k * P
             r == x % P
  <2>1. x = elf_size[t] + P + P - 1 /\ x = y + r /\ r \in 0 .. P - 1 /\ y \in Nat
    BY <1>3
  <2> HIDE DEF x, y, r, P
  <2>2. P <= y
    BY <1>1, <2>1
  <2> QED BY <2>2 DEF y
<1> QED BY <1>1, <1>3, <1>4, <1>5

LEMMA CopyRoom ==
  ASSUME EInv, NEW t \in Tasks,
         NEW a \in 0 .. page_nr(elf_size[t] + PageSize) * PageSize - 1
  PROVE  a \in 0 .. ImagePages * PageSize - 1
<1> DEFINE v == page_nr(elf_size[t] + PageSize) * PageSize
           w == ImagePages * PageSize
<1>1. v \in Nat /\ w \in Nat /\ v <= w /\ a \in 0 .. v - 1
  BY CopyStays
<1> HIDE DEF v, w
<1>2. a \in 0 .. w - 1
  BY <1>1
<1> QED BY <1>2 DEF w

LEMMA ForkWrites ==
  ASSUME EInv, NEW t \in Tasks, NEW l \in Placements, NEW m,
         NEW p \in DOMAIN mem, ~OnPages(p, l)
  PROVE  Copied(m, l, elf_size[t])[p] = mem[p]
<1> DEFINE Z == page_nr(elf_size[t] + PageSize) * PageSize
<1>1. \A a \in 0 .. Z - 1 : Kva(l, a) # p
  BY CopyRoom, KvaOnPages
<1>2. {a \in 0 .. Z - 1 : Kva(l, a) = p} = {}
  BY <1>1
<1> QED BY <1>2 DEF Copied

\* exec and fork write to the pages of the process they are about, which are
\* nobody else's: any number of calls, of any length, in any order.
THEOREM OthersAreUntouched == ExecSpec => OthersUntouched
<1> DEFINE Safe == NoOverrun' => \A u \in Tasks :
       Alive(u) /\ img'[u] = img[u] /\ call[u].at = "idle" /\ call'[u].at = "idle"
         => \A p \in Words(img[u]) : mem'[p] = mem[p]
<1>1. EInv /\ [ExecNext]_execVars => Safe
  <2> SUFFICES ASSUME EInv, [ExecNext]_execVars, NoOverrun', NEW u \in Tasks,
                      Alive(u), call[u].at = "idle",
                      NEW p \in Words(img[u])
               PROVE  mem'[p] = mem[p]
    OBVIOUS
  <2>1. img[u] \in Placements
    BY OfCall DEF Alive
  <2>2. OnPages(p, img[u])
    <3>1. PICK a \in 0 .. ImagePages * PageSize - 1 : p = Kva(img[u], a)
      BY DEF Words
    <3> QED BY <3>1, <2>1, KvaOnPages
  <2>3. p \in DOMAIN mem
    BY <2>1, <2>2, OnPagesInMemory DEF EInv, StatePart
  <2>4. ASSUME NEW t \in Tasks, t # u, img[t] \in Placements
        PROVE  ~OnPages(p, img[t])
    <3>1. ToSet(img[u]) \cap ToSet(img[t]) = {}
      BY <2>4 DEF EInv, ImagePart
    <3> QED BY <3>1, <2>1, <2>2, <2>4, ListsApart
  <2>5. ASSUME NEW t \in Tasks, call[t].at = "load"
        PROVE  ~OnPages(p, img[t])
    <3>1. t # u /\ img[t] \in Placements
      BY <2>5, OfCall DEF CallIs
    <3> QED BY <3>1, <2>4
  <2>6. CASE mem' = mem
    BY <2>6
  <2>7. ASSUME NEW t \in Tasks, LoadSection(t)
        PROVE  mem'[p] = mem[p]
    <3>1. call[t].at = "load"
      BY <2>7 DEF LoadSection
    <3> QED BY <3>1, <2>3, <2>5, <2>7, LoadWrites
  <2>8. ASSUME NEW t \in Tasks, Finish(t)
        PROVE  mem'[p] = mem[p]
    <3>1. call[t].at = "load"
      BY <2>8 DEF Finish
    <3> QED BY <3>1, <2>3, <2>5, <2>8, FinishWrites
  <2>9. ASSUME NEW t \in Tasks, NEW v \in Tasks, Fork(t, v)
        PROVE  mem'[p] = mem[p]
    <3>1. PICK l \in Placements : Free(l) /\ mem' = Copied(img[t], l, elf_size[t])
      BY <2>9 DEF Fork
    <3>2. ToSet(img[u]) \cap ToSet(l) = {}
      BY <3>1 DEF Free
    <3>3. ~OnPages(p, l)
      BY <3>1, <3>2, <2>1, <2>2, ListsApart
    <3> QED BY <3>1, <3>3, <2>3, ForkWrites
  <2> QED
    BY <2>6, <2>7, <2>8, <2>9, ZenonT(40)
    DEF ExecNext, execVars, KernelExec, UserExec, Open, OpenFails, Header, HeaderFails,
        Str, StrFails, Parse, ParseFails, LoadFails, Exit
<1> QED
  BY <1>1, EInvAlways, PTL DEF ExecSpec, OthersUntouched

-----------------------------------------------------------------------------
(* The objects on the heap *)

\* A step of t is counted at the stages it leaves and enters.
LEMMA Counts ==
  ASSUME NEW t \in Tasks, NEW S, \A u \in Tasks \ {t} : call'[u] = call[u]
  PROVE  /\ Cardinality(At(S)) \in Nat /\ Cardinality(At(S)') \in Nat
         /\ call[t].at \in S /\ call'[t].at \in S => Cardinality(At(S)') = Cardinality(At(S))
         /\ call[t].at \notin S /\ call'[t].at \notin S => Cardinality(At(S)') = Cardinality(At(S))
         /\ call[t].at \notin S /\ call'[t].at \in S => Cardinality(At(S)') = Cardinality(At(S)) + 1
         /\ call[t].at \in S /\ call'[t].at \notin S => Cardinality(At(S)') = Cardinality(At(S)) - 1
<1> DEFINE A == At(S)
           B == At(S)'
<1>1. IsFiniteSet(A) /\ IsFiniteSet(B)
  <2>1. A \in SUBSET Tasks /\ B \in SUBSET Tasks
    BY DEF At
  <2>2. IsFiniteSet(Tasks)
    BY ExecAssumption
  <2> HIDE DEF A, B
  <2> QED BY <2>1, <2>2, FS_Subset
<1>2. A \ {t} = B \ {t}
  BY DEF At
<1>3. (t \in A <=> call[t].at \in S) /\ (t \in B <=> call'[t].at \in S)
  BY DEF At
<1> HIDE DEF A, B
<1>4. Cardinality(A) \in Nat /\ Cardinality(B) \in Nat
  BY <1>1, FS_CardinalityType
<1>5. /\ t \in A => Cardinality(A \ {t}) = Cardinality(A) - 1
      /\ t \notin A => Cardinality(A \ {t}) = Cardinality(A)
      /\ t \in B => Cardinality(B \ {t}) = Cardinality(B) - 1
      /\ t \notin B => Cardinality(B \ {t}) = Cardinality(B)
  BY <1>1, FS_RemoveElement
<1> DEFINE n == Cardinality(A \ {t})
<1>6. /\ t \in A => n = Cardinality(A) - 1
      /\ t \notin A => n = Cardinality(A)
      /\ t \in B => n = Cardinality(B) - 1
      /\ t \notin B => n = Cardinality(B)
  BY <1>2, <1>5
<1> HIDE DEF n
<1>7. Cardinality(At(S)) = Cardinality(A) /\ Cardinality(At(S)') = Cardinality(B)
  BY DEF A, B
<1> QED BY <1>3, <1>4, <1>6, <1>7

\* The records of one call.
Own(t, n) == {t} \X (1 .. n)

LEMMA OwnRecords ==
  ASSUME NEW t, NEW n \in Nat
  PROVE  IsFiniteSet(Own(t, n)) /\ Cardinality(Own(t, n)) = n
<1> DEFINE f == [i \in 1 .. n |-> <<t, i>>]
           T == {t} \X (1 .. n)
<1>1. f \in Bijection(1 .. n, T)
  <2>1. f \in [1 .. n -> T]
    OBVIOUS
  <2>2. \A i, k \in 1 .. n : f[i] = f[k] => i = k
    OBVIOUS
  <2>3. \A r \in T : \E i \in 1 .. n : f[i] = r
    <3> SUFFICES ASSUME NEW r \in T
                 PROVE  \E i \in 1 .. n : f[i] = r
      OBVIOUS
    <3>1. r[2] \in 1 .. n /\ f[r[2]] = r
      OBVIOUS
    <3> QED BY <3>1
  <2> HIDE DEF f, T
  <2> QED BY <2>1, <2>2, <2>3 DEF Bijection, Injection, Surjection, IsInjective
<1>2. ExistsBijection(1 .. n, T)
  BY <1>1 DEF ExistsBijection
<1>3. IsFiniteSet(1 .. n) /\ Cardinality(1 .. n) = n
  BY FS_Interval
<1> HIDE DEF T, f
<1>4. IsFiniteSet(T) /\ Cardinality(T) = n
  BY <1>2, <1>3, FS_Bijection
<1> QED BY <1>4 DEF T, Own

LEMMA RecordsAdd ==
  ASSUME NEW A, NEW T, IsFiniteSet(A), IsFiniteSet(T), A \cap T = {}
  PROVE  /\ IsFiniteSet(A \cup T) /\ Cardinality(A) \in Nat
         /\ Cardinality(A \cup T) = Cardinality(A) + Cardinality(T)
<1>1. /\ IsFiniteSet(A \cup T)
      /\ Cardinality(A \cup T) = Cardinality(A) + Cardinality(T) - Cardinality(A \cap T)
  BY FS_Union
<1>2. Cardinality(A) \in Nat /\ Cardinality(T) \in Nat
  BY FS_CardinalityType
<1>3. Cardinality(A \cap T) = 0
  BY FS_EmptySet
<1> QED BY <1>1, <1>2, <1>3

\* A step that neither begins nor ends a load.
LEMMA SameRecords ==
  ASSUME NEW t \in Tasks, \A u \in Tasks \ {t} : call'[u] = call[u],
         \/ call[t].at # "load" /\ call'[t].at # "load"
         \/ call[t].at = call'[t].at /\ call[t].nr = call'[t].nr
  PROVE  Records' = Records
BY DEF Records

LEMMA MoreRecords ==
  ASSUME NEW t \in Tasks, \A u \in Tasks \ {t} : call'[u] = call[u],
         call[t].at # "load", call'[t].at = "load", NEW n \in Nat, call'[t].nr = n
  PROVE  /\ Records' = Records \cup Own(t, n)
         /\ Records \cap Own(t, n) = {}
BY DEF Records, Own

LEMMA FewerRecords ==
  ASSUME NEW t \in Tasks, \A u \in Tasks \ {t} : call'[u] = call[u],
         call[t].at = "load", call'[t].at # "load", NEW n \in Nat, call[t].nr = n
  PROVE  /\ Records = Records' \cup Own(t, n)
         /\ Records' \cap Own(t, n) = {}
BY DEF Records, Own


Outside == {"idle", "open", "header"}

\* A step that leaves the buffers and the records alone.
LEMMA HeapSame ==
  ASSUME HeapPart, NEW t \in Tasks, \A u \in Tasks \ {t} : call'[u] = call[u],
         \/ call[t].at \in Outside /\ call'[t].at \in Outside
         \/ call[t].at = call'[t].at /\ call[t].nr = call'[t].nr,
         heap' \in [Kinds -> Int], \A k \in Kinds \ {"file"} : heap'[k] = heap[k]
  PROVE  HeapPart'
<1>1. Records' = Records
  BY SameRecords DEF Outside
<1>2. ASSUME NEW S \in {{"str", "parse"}, {"parse"}, {"load"}}
      PROVE  Cardinality(At(S)') = Cardinality(At(S))
  <2>1. \/ call[t].at \in S /\ call'[t].at \in S
        \/ call[t].at \notin S /\ call'[t].at \notin S
    BY DEF Outside
  <2> QED BY <2>1, Counts
<1>3. {"header", "str", "elf", "section"} \subseteq Kinds \ {"file"}
  BY DEF Kinds
<1> QED BY <1>1, <1>2, <1>3 DEF HeapPart

\* The stages of a call before and after its load, counted.
LEMMA HeapMoves ==
  ASSUME HeapPart, NEW t \in Tasks, \A u \in Tasks \ {t} : call'[u] = call[u],
         call[t].at \in {"header", "str", "parse"}, call'[t].at \in {"idle", "str", "parse"},
         heap' \in [Kinds -> Int],
         heap'["elf"] = heap["elf"], heap'["section"] = heap["section"],
         heap'["header"] = heap["header"] + (IF call[t].at = "header" THEN 1 ELSE 0)
                                          - (IF call'[t].at = "idle" THEN 1 ELSE 0),
         heap'["str"] = heap["str"] + (IF call'[t].at = "parse" THEN 1 ELSE 0)
                                    - (IF call[t].at = "parse" THEN 1 ELSE 0),
         call'[t].at = "idle" => call[t].at # "header"
  PROVE  HeapPart'
<1>1. Records' = Records
  BY SameRecords
<1>2. Cardinality(At({"load"})') = Cardinality(At({"load"}))
  BY Counts
<1>3. heap'["header"] = Cardinality(At({"str", "parse"})')
  BY Counts DEF HeapPart
<1>4. heap'["str"] = Cardinality(At({"parse"})')
  BY Counts DEF HeapPart
<1> QED BY <1>1, <1>2, <1>3, <1>4 DEF HeapPart

\* A load begins with the buffers of its call given back.
LEMMA HeapBegins ==
  ASSUME HeapPart, NEW t \in Tasks, \A u \in Tasks \ {t} : call'[u] = call[u],
         call[t].at = "parse", call'[t].at = "load", NEW n \in Nat, call'[t].nr = n,
         heap' \in [Kinds -> Int],
         heap'["header"] = heap["header"] - 1, heap'["str"] = heap["str"] - 1,
         heap'["elf"] = heap["elf"] + 1, heap'["section"] = heap["section"] + n
  PROVE  HeapPart'
<1>1. /\ Records' = Records \cup Own(t, n)
      /\ Records \cap Own(t, n) = {}
  BY MoreRecords
<1>2. IsFiniteSet(Records') /\ Cardinality(Records') = Cardinality(Records) + n
  <2>1. IsFiniteSet(Records)
    BY DEF HeapPart
  <2>2. IsFiniteSet(Own(t, n)) /\ Cardinality(Own(t, n)) = n
    BY OwnRecords
  <2>3. /\ IsFiniteSet(Records \cup Own(t, n))
        /\ Cardinality(Records \cup Own(t, n)) = Cardinality(Records) + Cardinality(Own(t, n))
    BY <1>1, <2>1, <2>2, RecordsAdd
  <2> QED BY <1>1, <2>2, <2>3
<1>3. heap'["header"] = Cardinality(At({"str", "parse"})')
  BY Counts DEF HeapPart
<1>4. heap'["str"] = Cardinality(At({"parse"})')
  BY Counts DEF HeapPart
<1>5. heap'["elf"] = Cardinality(At({"load"})')
  BY Counts DEF HeapPart
<1> QED BY <1>2, <1>3, <1>4, <1>5 DEF HeapPart

\* A load ends with the records of its call given back.
LEMMA HeapEnds ==
  ASSUME HeapPart, NEW t \in Tasks, \A u \in Tasks \ {t} : call'[u] = call[u],
         call[t].at = "load", call'[t].at = "idle", NEW n \in Nat, call[t].nr = n,
         heap' \in [Kinds -> Int],
         heap'["header"] = heap["header"], heap'["str"] = heap["str"],
         heap'["elf"] = heap["elf"] - 1, heap'["section"] = heap["section"] - n
  PROVE  HeapPart'
<1>1. /\ Records = Records' \cup Own(t, n)
      /\ Records' \cap Own(t, n) = {}
  BY FewerRecords
<1>2. /\ IsFiniteSet(Records') /\ Cardinality(Records') \in Nat
      /\ Cardinality(Records) = Cardinality(Records') + n
  <2>1. IsFiniteSet(Records) /\ Records' \in SUBSET Records
    BY <1>1 DEF HeapPart
  <2>2. IsFiniteSet(Records')
    BY <2>1, FS_Subset
  <2>3. IsFiniteSet(Own(t, n)) /\ Cardinality(Own(t, n)) = n
    BY OwnRecords
  <2>4. /\ Cardinality(Records') \in Nat
        /\ Cardinality(Records' \cup Own(t, n)) = Cardinality(Records') + Cardinality(Own(t, n))
    BY <1>1, <2>2, <2>3, RecordsAdd
  <2> QED BY <1>1, <2>2, <2>3, <2>4
<1>3. heap'["section"] = Cardinality(Records')
  BY <1>2 DEF HeapPart
<1>4. heap'["header"] = Cardinality(At({"str", "parse"})')
  BY Counts DEF HeapPart
<1>5. heap'["str"] = Cardinality(At({"parse"})')
  BY Counts DEF HeapPart
<1>6. heap'["elf"] = Cardinality(At({"load"})')
  BY Counts DEF HeapPart
<1> QED BY <1>2, <1>3, <1>4, <1>5, <1>6 DEF HeapPart


LEMMA HeapPartInit == ExecInit => HeapPart
<1> SUFFICES ASSUME ExecInit PROVE HeapPart
  OBVIOUS
<1>1. \A t \in Tasks : call[t].at = "idle"
  <2>1. call = [t \in Tasks |-> Idle]
    BY Zenon DEF ExecInit
  <2>2. Idle.at = "idle"
    BY DEF Idle
  <2> QED BY <2>1, <2>2
<1>2. At({"str", "parse"}) = {} /\ At({"parse"}) = {} /\ At({"load"}) = {} /\ Records = {}
  BY <1>1 DEF At, Records
<1>3. heap = [k \in Kinds |-> 0]
  BY Zenon DEF ExecInit
<1>4. IsFiniteSet({}) /\ Cardinality({}) = 0
  BY FS_EmptySet
<1> QED BY <1>2, <1>3, <1>4 DEF HeapPart, Kinds

\* A process in a call has pages, and the file is on the disk once it is open.
LEMMA InCall ==
  ASSUME EInv, NEW t \in Tasks
  PROVE  /\ call[t].at # "idle" => img[t] # <<>>
         /\ call[t].at = "parse" => Elf(call[t].name) \in disk.files
<1>1. CallIs(disk, call[t], img[t], elf_size[t])
  BY DEF EInv, CallPart
<1>2. call[t].at # "idle" => img[t] # <<>>
  BY <1>1, Zenon DEF CallIs
<1>3. call[t].at = "parse" => (CHOOSE g \in disk.files : g.name = call[t].name) \in disk.files
  BY <1>1, Zenon DEF CallIs
<1> QED BY <1>2, <1>3 DEF Elf

\* Each step of do_exec moves one call on, and the heap with it.
LEMMA HeapPartStep == HInv /\ [ExecNext]_execVars => HeapPart'
<1> SUFFICES ASSUME EInv, HeapPart, [ExecNext]_execVars
             PROVE  HeapPart'
  BY DEF HInv
<1>1. CASE UNCHANGED execVars
  BY <1>1 DEF HeapPart, At, Records, execVars
<1>2. heap \in [Kinds -> Int]
  BY DEF HeapPart
<1>3. ASSUME NEW t \in Tasks, NEW name, NEW argv, NEW k,
             call[t].at = "idle", Begin(t, name, argv, k), heap' = heap
      PROVE  HeapPart'
  <2>1. /\ \A u \in Tasks \ {t} : call'[u] = call[u]
        /\ call'[t].at = "open"
    BY <1>3, OfCall DEF Begin, Idle
  <2> QED BY <2>1, <1>2, <1>3, HeapSame DEF Outside
<1>4. ASSUME NEW t \in Tasks, NEW name, NEW argv, KernelExec(t, name, argv)
      PROVE  HeapPart'
  <2>1. img[t] = <<>>
    BY <1>4 DEF KernelExec, Alive
  <2>2. call[t].at # "idle" => img[t] # <<>>
    BY InCall
  <2> QED BY <2>1, <2>2, <1>3, <1>4 DEF KernelExec
<1>5. ASSUME NEW t \in Tasks, NEW name, NEW argv, UserExec(t, name, argv)
      PROVE  HeapPart'
  BY <1>3, <1>5 DEF UserExec
<1>6. ASSUME NEW t \in Tasks, Failed(t)
      PROVE  /\ \A u \in Tasks \ {t} : call'[u] = call[u]
             /\ call'[t].at = "idle"
  <2>1. call' = [call EXCEPT ![t] = Idle]
    BY <1>6 DEF Failed
  <2>2. Idle.at = "idle"
    BY DEF Idle
  <2> QED BY <2>1, <2>2, OfCall
<1>7. ASSUME NEW t \in Tasks, OpenFails(t) \/ HeaderFails(t)
      PROVE  HeapPart'
  <2>1. Failed(t) /\ call[t].at \in Outside /\ heap' = heap
    BY <1>7 DEF OpenFails, HeaderFails, Outside
  <2> QED BY <2>1, <1>2, <1>6, HeapSame DEF Outside
<1>9. ASSUME NEW t \in Tasks, Open(t)
      PROVE  HeapPart'
  <2>1. PICK h : call' = [call EXCEPT ![t].at = "header", ![t].file = h]
    BY <1>9 DEF Open
  <2>2. (\A u \in Tasks \ {t} : call'[u] = call[u]) /\ call'[t].at = "header"
    BY <2>1, OfCall DEF Fields
  <2>3. heap' \in [Kinds -> Int] /\ \A k \in Kinds \ {"file"} : heap'[k] = heap[k]
    BY <1>9, <1>2 DEF Open, Take
  <2>4. call[t].at = "open"
    BY <1>9 DEF Open
  <2> QED BY <2>2, <2>3, <2>4, HeapSame DEF Outside
<1>10. ASSUME NEW t \in Tasks, Header(t)
       PROVE  HeapPart'
  <2>1. (\A u \in Tasks \ {t} : call'[u] = call[u]) /\ call'[t].at = "str"
    BY <1>10, OfCall DEF Header, Fields
  <2>2. call[t].at = "header"
    BY <1>10 DEF Header
  <2>3. /\ heap' \in [Kinds -> Int] /\ heap'["header"] = heap["header"] + 1
        /\ heap'["str"] = heap["str"] /\ heap["header"] \in Int /\ heap["str"] \in Int
        /\ heap'["elf"] = heap["elf"] /\ heap'["section"] = heap["section"]
    BY <1>10, <1>2 DEF Header, Take, Kinds
  <2> QED BY <2>1, <2>2, <2>3, HeapMoves
<1>11. ASSUME NEW t \in Tasks, StrFails(t)
       PROVE  HeapPart'
  <2>1. Failed(t) /\ call[t].at = "str"
    BY <1>11 DEF StrFails
  <2>2. /\ heap' \in [Kinds -> Int] /\ heap'["header"] = heap["header"] - 1
        /\ heap'["str"] = heap["str"] /\ heap["header"] \in Int /\ heap["str"] \in Int
        /\ heap'["elf"] = heap["elf"] /\ heap'["section"] = heap["section"]
    BY <1>11, <1>2 DEF StrFails, Give, Kinds
  <2> QED BY <2>1, <2>2, <1>6, HeapMoves
<1>12. ASSUME NEW t \in Tasks, Str(t)
       PROVE  HeapPart'
  <2>1. (\A u \in Tasks \ {t} : call'[u] = call[u]) /\ call'[t].at = "parse"
    BY <1>12, OfCall DEF Str, Fields
  <2>2. call[t].at = "str"
    BY <1>12 DEF Str
  <2>3. /\ heap' \in [Kinds -> Int] /\ heap'["header"] = heap["header"]
        /\ heap'["str"] = heap["str"] + 1 /\ heap["header"] \in Int /\ heap["str"] \in Int
        /\ heap'["elf"] = heap["elf"] /\ heap'["section"] = heap["section"]
    BY <1>12, <1>2 DEF Str, Take, Kinds
  <2> QED BY <2>1, <2>2, <2>3, HeapMoves
<1>13. ASSUME NEW t \in Tasks, ParseFails(t)
       PROVE  HeapPart'
  <2>1. Failed(t) /\ call[t].at = "parse"
    BY <1>13 DEF ParseFails
  <2>2. /\ heap' \in [Kinds -> Int] /\ heap'["header"] = heap["header"] - 1
        /\ heap'["str"] = heap["str"] - 1 /\ heap["header"] \in Int /\ heap["str"] \in Int
        /\ heap'["elf"] = heap["elf"] /\ heap'["section"] = heap["section"]
    BY <1>13, <1>2 DEF ParseFails, Give, Kinds
  <2> QED BY <2>1, <2>2, <1>6, HeapMoves
<1>14. ASSUME NEW t \in Tasks, Parse(t)
       PROVE  HeapPart'
  <2> DEFINE n == Len(Elf(call[t].name).secs)
  <2>1. /\ \A u \in Tasks \ {t} : call'[u] = call[u]
        /\ call'[t].at = "load" /\ call'[t].nr = n
    BY <1>14, OfCall DEF Parse, Fields
  <2>2. call[t].at = "parse"
    BY <1>14 DEF Parse
  <2>3. n \in Nat
    <3>1. Elf(call[t].name) \in disk.files
      BY <2>2, InCall
    <3> QED BY <3>1, FileOfCall
  <2>4. heap' = [Give({"header", "str"}) EXCEPT !["elf"] = @ + 1, !["section"] = @ + n]
    BY <1>14 DEF Parse
  <2> HIDE DEF n
  <2>5. /\ heap' \in [Kinds -> Int]
        /\ heap'["header"] = heap["header"] - 1 /\ heap'["str"] = heap["str"] - 1
        /\ heap'["elf"] = heap["elf"] + 1 /\ heap'["section"] = heap["section"] + n
    <3>1. /\ Give({"header", "str"}) \in [Kinds -> Int]
          /\ Give({"header", "str"})["header"] = heap["header"] - 1
          /\ Give({"header", "str"})["str"] = heap["str"] - 1
          /\ Give({"header", "str"})["elf"] = heap["elf"]
          /\ Give({"header", "str"})["section"] = heap["section"]
      BY <1>2 DEF Give, Kinds
    <3> QED BY <3>1, <2>3, <2>4 DEF Kinds
  <2> QED BY <2>1, <2>2, <2>3, <2>5, HeapBegins
<1>15. ASSUME NEW t \in Tasks, LoadSection(t)
       PROVE  HeapPart'
  <2>1. /\ \A u \in Tasks \ {t} : call'[u] = call[u]
        /\ call'[t].at = call[t].at /\ call'[t].nr = call[t].nr
    BY <1>15, OfCall DEF LoadSection, Fields
  <2>2. heap' = heap
    BY <1>15 DEF LoadSection
  <2> QED BY <2>1, <2>2, <1>2, HeapSame
<1>16. ASSUME NEW t \in Tasks, LoadFails(t) \/ Finish(t)
       PROVE  HeapPart'
  <2> DEFINE n == call[t].nr
  <2>1. n \in Nat
    BY OfCall DEF CallOK
  <2>2. call[t].at = "load" /\ heap' = ReleaseElf(t)
    BY <1>16 DEF LoadFails, Finish
  <2>3. (\A u \in Tasks \ {t} : call'[u] = call[u]) /\ call'[t].at = "idle"
    <3>1. call' = [call EXCEPT ![t] = Idle]
      BY <1>16 DEF LoadFails, Finish, Failed
    <3>2. Idle.at = "idle"
      BY DEF Idle
    <3> QED BY <3>1, <3>2, OfCall
  <2>4. heap' = [heap EXCEPT !["elf"] = @ - 1, !["section"] = @ - n]
    BY <2>2 DEF ReleaseElf
  <2>5. call[t].nr = n
    OBVIOUS
  <2> HIDE DEF n
  <2>6. /\ heap' \in [Kinds -> Int]
        /\ heap'["header"] = heap["header"] /\ heap'["str"] = heap["str"]
        /\ heap'["elf"] = heap["elf"] - 1 /\ heap'["section"] = heap["section"] - n
    BY <2>1, <2>4, <1>2 DEF Kinds
  <2> QED BY <2>1, <2>2, <2>3, <2>5, <2>6, HeapEnds
<1>17. ASSUME UNCHANGED <<call, heap>>
       PROVE  HeapPart'
  BY <1>17 DEF HeapPart, At, Records
<1>18. ASSUME NEW t \in Tasks, Exit(t)
       PROVE  HeapPart'
  BY <1>17, <1>18 DEF Exit
<1>19. ASSUME NEW t \in Tasks, NEW u \in Tasks, Fork(t, u)
       PROVE  HeapPart'
  <2>1. UNCHANGED <<call, heap>>
    BY Zenon, <1>19 DEF Fork
  <2> QED BY <2>1, <1>17
<1> QED
  BY <1>1, <1>4, <1>5, <1>7, <1>9, <1>10, <1>11, <1>12, <1>13, <1>14, <1>15, <1>16,
     <1>18, <1>19 DEF ExecNext

\* Whatever way do_exec ends, for any file and any number of calls at a time, of
\* what it has allocated only the file is left.
THEOREM NothingElseIsLeft == ExecSpec => []OnlyTheFileIsLeft
<1>1. ExecInit => HInv
  BY EInvInit, HeapPartInit DEF HInv
<1>2. HInv /\ [ExecNext]_execVars => HInv'
  BY EInvStep, HeapPartStep DEF HInv
<1>3. HInv => OnlyTheFileIsLeft
  <2> SUFFICES ASSUME HInv, \A t \in Tasks : call[t].at = "idle",
                      NEW k \in Kinds \ {"file"}
               PROVE  heap[k] = 0
    BY DEF OnlyTheFileIsLeft
  <2>1. At({"str", "parse"}) = {} /\ At({"parse"}) = {} /\ At({"load"}) = {} /\ Records = {}
    BY DEF At, Records
  <2>2. Cardinality({}) = 0
    BY FS_EmptySet
  <2> QED BY <2>1, <2>2 DEF HInv, HeapPart, Kinds
<1> QED
  BY <1>1, <1>2, <1>3, PTL DEF ExecSpec


-----------------------------------------------------------------------------
(* The words of the ramdisk *)

FileOf(D, name) == CHOOSE f \in D.files : f.name = name

\* The header h leads to the words of the file f.
HeadOK(D, h, f) ==
  /\ h.base \in Nat /\ h.size = f.size
  /\ \A k \in 0 .. f.size - 1 : D.word[h.base + k] = <<f.name, k>>

DiskWords(D) ==
  /\ DOMAIN D.head \in SUBSET Nat
  /\ \A f, g \in D.files : f.name = g.name => f = g
  /\ \A f \in D.files : \A i, j \in 1 .. Len(f.secs) :
       i # j => Extent(f.secs[i]) \cap Extent(f.secs[j]) = {}
  /\ \A i \in DOMAIN D.head : D.head[i].name # "" =>
       \E f \in D.files : f.name = D.head[i].name /\ HeadOK(D, D.head[i], f)

LEMMA RoundsUp ==
  ASSUME NEW n \in Nat
  PROVE  RoundUp(n) \in Nat /\ n <= RoundUp(n)
<1> DEFINE F == FileAlign
           x == n + F - 1
           y == (x \div F) * F
<1>1. F \in Nat \ {0} /\ x \in Nat
  BY ExecAssumption
<1>2. x % F \in 0 .. F - 1 /\ x = y + (x % F) /\ y \in Nat
  <2> HIDE DEF x, F
  <2> QED BY <1>1, DivMod
<1>3. RoundUp(n) = y
  BY DEF RoundUp
<1> DEFINE r == x % F
<1>4. r \in 0 .. F - 1 /\ n + F - 1 = y + r /\ y \in Nat
  BY <1>2
<1> HIDE DEF y, F, r
<1> QED BY <1>1, <1>3, <1>4

LEMMA FileSize ==
  ASSUME NEW ok \in Seq(Files), NEW k \in 1 .. Len(ok)
  PROVE  ok[k].size \in Nat
<1>1. ok[k] \in Files
  OBVIOUS
<1> QED BY <1>1 DEF Files

\* A file ends before the next one begins.
LEMMA FilesApart ==
  ASSUME NEW d \in Seq(Files), NEW ok \in Seq(Files), NEW i \in 1 .. Len(ok),
         NEW j \in i + 1 .. Len(ok) + 1
  PROVE  /\ Base(d, ok, i) \in Nat /\ Base(d, ok, j) \in Nat
         /\ Base(d, ok, i) + ok[i].size <= Base(d, ok, j)
<1> DEFINE N == Len(ok)
           r == [k \in DOMAIN ok |-> RoundUp(ok[k].size)]
           H == HeaderSize * (1 + Len(d))
<1>1. N \in Nat /\ H \in Nat /\ DOMAIN ok = 1 .. N
  <2>1. Len(d) \in Nat /\ HeaderSize \in Nat
    BY ExecAssumption
  <2> QED BY <2>1
<1>2. \A k \in 1 .. N : ok[k].size \in Nat
  BY FileSize
<1>3. r \in [1 .. N -> Nat] /\ ok[i].size <= r[i]
  BY <1>1, <1>2, RoundsUp
<1>4. /\ Base(d, ok, i) = H + Total(r, i - 1)
      /\ Base(d, ok, j) = H + Total(r, j - 1)
  BY DEF Base
<1> HIDE DEF r, H
<1>5. /\ i - 1 \in Nat /\ i - 1 \in 0 .. N /\ i \in 0 .. N /\ (i - 1) + 1 = i
      /\ j - 1 \in i .. N /\ j - 1 \in 0 .. N
  BY <1>1
<1>6. Total(r, i) = Total(r, i - 1) + r[i]
  <2> DEFINE k == i - 1
  <2>1. k \in Nat /\ k + 1 = i
    BY <1>5
  <2> HIDE DEF k
  <2>2. Total(r, k + 1) = Total(r, k) + r[k + 1]
    BY <2>1, TotalStep
  <2>3. Total(r, i) = Total(r, k) + r[i]
    BY <2>1, <2>2
  <2> QED BY <2>3 DEF k
<1>7. Total(r, i) <= Total(r, j - 1)
  BY <1>1, <1>3, <1>5, TotalMonotone
<1>8. Total(r, i - 1) \in Nat /\ Total(r, i) \in Nat /\ Total(r, j - 1) \in Nat
  BY <1>1, <1>3, <1>5, TotalNat
<1>9. \A a, b, c, h, x, y \in Nat : x <= y /\ b = a + y /\ b <= c =>
        h + a \in Nat /\ h + c \in Nat /\ h + a + x <= h + c
  OBVIOUS
<1>10. r[i] \in Nat
  BY <1>1, <1>3
<1>11. ok[i].size \in Nat
  BY <1>2
<1> DEFINE a == Total(r, i - 1)
           b == Total(r, i)
           c == Total(r, j - 1)
           x == ok[i].size
           y == r[i]
<1>12. /\ a \in Nat /\ b \in Nat /\ c \in Nat /\ x \in Nat /\ y \in Nat /\ H \in Nat
       /\ x <= y /\ b = a + y /\ b <= c
       /\ Base(d, ok, i) = H + a /\ Base(d, ok, j) = H + c
  BY <1>1, <1>3, <1>4, <1>6, <1>7, <1>8, <1>10, <1>11
<1> HIDE DEF a, b, c, x, y
<1>13. H + a \in Nat /\ H + c \in Nat /\ H + a + x <= H + c
  BY <1>9, <1>12
<1> QED BY <1>12, <1>13 DEF x

\* gen_ramdisk puts every file that it could open where its header says.
LEMMA DiskHasWords ==
  ASSUME NEW d \in Directories
  PROVE  DiskWords(gen_ramdisk(d))
<1> DEFINE D == gen_ramdisk(d)
           ok == Opened(d)
           N == Len(ok)
           B(i) == Base(d, ok, i)
           Here(p) == {i \in DOMAIN ok : p \in B(i) .. B(i) + ok[i].size - 1}
<1>1. /\ d \in Seq(Files)
      /\ \A i, j \in 1 .. Len(d) : d[i].name = d[j].name => i = j
      /\ \A i \in 1 .. Len(d) : \A k \in DOMAIN d[i].secs : \A n \in DOMAIN d[i].secs \ {k} :
           Extent(d[i].secs[k]) \cap Extent(d[i].secs[n]) = {}
  <2>1. d \in Seq(Files)
    BY ProgramAssumption
  <2>2. DOMAIN d = 1 .. Len(d)
    BY <2>1
  <2> QED BY <2>1, <2>2, ProgramAssumption
<1>2. ok \in Seq(Readable(d)) /\ N \in Nat /\ DOMAIN ok = 1 .. N
  BY <1>1, OpenedFiles
<1>3. \A i \in 1 .. N : ok[i] \in ToSet(d)
  BY <1>2 DEF Readable
<1>4. /\ D.files = ToSet(ok)
      /\ D.head = [i \in DOMAIN d |->
                     IF i <= N
                     THEN [name |-> ok[i].name, base |-> B(i), size |-> ok[i].size]
                     ELSE NoHead]
      /\ D.word = [p \in 0 .. B(N + 1) |->
                     IF Here(p) = {} THEN <<"pad", 0>>
                     ELSE LET i == CHOOSE x \in Here(p) : \A y \in Here(p) : y <= x
                          IN  <<ok[i].name, p - B(i)>>]
  BY DEF gen_ramdisk
<1>5. ok \in Seq(Files)
  <2>1. \A i \in 1 .. N : ok[i] \in Files
    BY <1>1, <1>3 DEF ToSet
  <2>2. ok = [i \in 1 .. N |-> ok[i]]
    BY <1>2
  <2> HIDE DEF ok
  <2> QED BY <1>2, <2>1, <2>2
<1> HIDE DEF D, ok
<1>6. \A f \in D.files : f \in ToSet(d)
  BY <1>2, <1>3, <1>4 DEF ToSet
<1>7. ASSUME NEW f \in D.files, NEW g \in D.files, f.name = g.name
      PROVE  f = g
  <2>1. PICK i \in 1 .. Len(d) : f = d[i]
    BY <1>1, <1>6 DEF ToSet
  <2>2. PICK j \in 1 .. Len(d) : g = d[j]
    BY <1>1, <1>6 DEF ToSet
  <2> QED BY <2>1, <2>2, <1>1, <1>7
<1>8. ASSUME NEW f \in D.files, NEW i \in 1 .. Len(f.secs), NEW j \in 1 .. Len(f.secs), i # j
      PROVE  Extent(f.secs[i]) \cap Extent(f.secs[j]) = {}
  <2>1. PICK k \in 1 .. Len(d) : f = d[k]
    BY <1>1, <1>6 DEF ToSet
  <2>2. f \in Files
    BY <2>1, <1>1
  <2>3. f.secs \in Seq(Sections)
    BY <2>2 DEF Files
  <2>4. DOMAIN f.secs = 1 .. Len(f.secs)
    BY <2>3
  <2> QED BY <2>1, <2>4, <1>1, <1>8
<1>9. ASSUME NEW i \in 1 .. N, NEW k \in 0 .. ok[i].size - 1
      PROVE  D.word[B(i) + k] = <<ok[i].name, k>>
  <2> DEFINE p == B(i) + k
  <2>1. ok[i].size \in Nat
    BY <1>5, FileSize
  <2>2. i + 1 \in i + 1 .. N + 1 /\ N + 1 \in i + 1 .. N + 1
    BY <1>2
  <2>3. B(i) \in Nat /\ B(N + 1) \in Nat /\ B(i) + ok[i].size <= B(N + 1)
    BY <1>1, <1>5, <2>2, FilesApart
  <2>4. p \in 0 .. B(N + 1) /\ p \in Nat /\ i \in Here(p) /\ p - B(i) = k
    <3> HIDE DEF B
    <3> QED BY <2>1, <2>3, <1>2, SMTT(30)
  <2>5. ASSUME NEW j \in 1 .. N, j # i
        PROVE  j \notin Here(p)
    <3>1. ok[j].size \in Nat
      BY <1>5, FileSize
    <3>2. CASE i < j
      <4>1. j \in i + 1 .. N + 1
        BY <1>2, <3>2
      <4>2. B(j) \in Nat /\ B(i) + ok[i].size <= B(j)
        BY <4>1, <1>1, <1>5, FilesApart
      <4> HIDE DEF B
      <4> QED BY <4>2, <2>1, <2>3, SMTT(30)
    <3>3. CASE j < i
      <4>1. i \in j + 1 .. N + 1
        BY <1>2, <3>3
      <4>2. B(j) \in Nat /\ B(j) + ok[j].size <= B(i)
        BY <4>1, <1>1, <1>5, FilesApart
      <4> HIDE DEF B
      <4> QED BY <4>2, <2>1, <2>3, <3>1, SMTT(30)
    <3> QED BY <3>2, <3>3, <2>5, <1>2
  <2>6. Here(p) = {i}
    BY <2>4, <2>5, <1>2
  <2>7. (CHOOSE x \in Here(p) : \A y \in Here(p) : y <= x) = i
    <3> HIDE DEF Here, p
    <3>1. i <= i
      BY <1>2
    <3> QED BY <2>6, <3>1
  <2> HIDE DEF Here, B, p
  <2>8. D.word[p] = <<ok[i].name, p - B(i)>>
    BY <2>4, <2>6, <2>7, <1>4
  <2> QED BY <2>4, <2>8 DEF p
<1>10. ASSUME NEW i \in DOMAIN D.head, D.head[i].name # ""
       PROVE  \E f \in D.files : f.name = D.head[i].name /\ HeadOK(D, D.head[i], f)
  <2> HIDE DEF Here, B
  <2>1. i \in 1 .. Len(d) /\ NoHead.name = ""
    <3>1. DOMAIN d = 1 .. Len(d)
      BY <1>1
    <3>2. DOMAIN D.head = DOMAIN d
      BY <1>4
    <3>3. NoHead.name = ""
      BY DEF NoHead
    <3> QED BY <3>1, <3>2, <3>3
  <2>2. i <= N
    BY <1>10, <1>4, <2>1
  <2>3. D.head[i] = [name |-> ok[i].name, base |-> B(i), size |-> ok[i].size]
    BY <1>4, <2>1, <2>2
  <2>4. i \in 1 .. N /\ ok[i] \in D.files
    <3>1. i \in 1 .. N
      <4>1. Len(d) \in Nat
        BY <1>1
      <4>2. \A a, b \in Nat : \A k \in 1 .. a : k <= b => k \in 1 .. b
        OBVIOUS
      <4> HIDE DEF N
      <4> QED BY <4>1, <4>2, <1>2, <2>1, <2>2
    <3>2. ok[i] \in ToSet(ok)
      BY <1>2, <3>1 DEF ToSet
    <3> QED BY <3>1, <3>2, <1>4
  <2>5. B(i) \in Nat
    <3>1. N + 1 \in i + 1 .. N + 1
      BY <1>2, <2>4
    <3> QED BY <3>1, <1>1, <1>5, <2>4, FilesApart DEF B
  <2>6. HeadOK(D, D.head[i], ok[i])
    BY <1>9, <2>3, <2>4, <2>5 DEF HeadOK
  <2> QED BY <2>3, <2>4, <2>6
<1>11. DOMAIN D.head \in SUBSET Nat
  <2>1. DOMAIN d = 1 .. Len(d) /\ DOMAIN D.head = DOMAIN d
    BY <1>1, <1>4
  <2> QED BY <2>1
<1> QED
  BY <1>7, <1>8, <1>10, <1>11 DEF DiskWords, D


-----------------------------------------------------------------------------
(* What is in the images: the inductive invariant *)

Room == 0 .. ImagePages * PageSize - 1

\* The image on the pages l, as the process sees it.
View(m, l) == [a \in Room |-> m[Kva(l, a)]]

ArgsTyped(argv) ==
  /\ Len(argv) \in Nat /\ DOMAIN argv = 1 .. Len(argv)
  /\ \A i \in 1 .. Len(argv) : argv[i].from \in -1 .. ImagePages * PageSize - 1

\* The name is one of a program.
Named(p) == p # ""

\* The sections that the call c has loaded, counted from the first.
Done(D, c) ==
  IF c.at = "load" THEN Len(FileOf(D, c.name).secs) - Len(c.secs) ELSE 0

\* The file of a call c is where its header says, and what has been loaded of it
\* is behind the first page; a process that runs a program p runs that of a file.
Static(D, c, p, argv) ==
  /\ ArgsTyped(c.argv) /\ ArgsTyped(argv)
  /\ c.at \in {"header", "str", "parse", "load"} =>
       HeadOK(D, c.file, FileOf(D, c.name))
  /\ \A i \in 1 .. Done(D, c) : ~Bad(FileOf(D, c.name).secs[i])
  /\ Named(p) => FileOf(D, p) \in D.files

SInv ==
  /\ EInv
  /\ DiskWords(disk)
  /\ DOMAIN argc = Tasks /\ DOMAIN was.prog = Tasks /\ DOMAIN was.argv = Tasks
  /\ \A t \in Tasks : Static(disk, call[t], was.prog[t], was.argv[t])

\* The image v shows the first n sections of the file f.
Shown(v, f, n) ==
  \A i \in 1 .. n : \A w \in 0 .. f.secs[i].size - 1 :
    f.secs[i].bss \/ f.secs[i].offset + w < f.size =>
      v[f.secs[i].addr + w] =
        IF f.secs[i].bss THEN Zero ELSE <<f.name, f.secs[i].offset + w>>

Cover(f, n, a) == \E i \in 1 .. n : a \in Extent(f.secs[i])

\* The arguments of a call are still where the caller has them, unless what has
\* been loaded covers them.
Kept(v, f, n, argv) ==
  \A i \in 1 .. Len(argv) :
    argv[i].from # -1 /\ ~Cover(f, n, argv[i].from) => v[argv[i].from] = argv[i].word

\* The arguments of a program are in the first page.
Placed(v, f, argv) ==
  \A i \in 1 .. Len(argv) :
    ~Cover(f, Len(f.secs), argv[i].from) /\ (argv[i].full => i = Len(argv)) =>
      /\ v[i - 1] = <<"ptr", MAX_ARGV + i - 1>>
      /\ v[MAX_ARGV + i - 1] = argv[i].word
      /\ argv[i].full => v[MAX_ARGV + i] = Nul

CallHas(D, v, c) ==
  c.at # "idle" => /\ Shown(v, FileOf(D, c.name), Done(D, c))
                   /\ Kept(v, FileOf(D, c.name), Done(D, c), c.argv)

ProgramHas(D, v, p) == Named(p) => Shown(v, FileOf(D, p), Len(FileOf(D, p).secs))

ArgumentsHas(D, v, p, argv, n) ==
  Named(p) /\ Len(argv) <= MAX_ARGV => n = Len(argv) /\ Placed(v, FileOf(D, p), argv)

ImageHas(t) ==
  LET v == View(mem, img[t])
  IN  /\ CallHas(disk, v, call[t])
      /\ t \notin was.short => ProgramHas(disk, v, was.prog[t])
      /\ ArgumentsHas(disk, v, was.prog[t], was.argv[t], argc[t])

\* An image that is loaded shows the sections so far, and the image of a process
\* that runs shows all of them and its arguments.
DInv == NoOverrun => \A t \in Tasks : img[t] # <<>> => ImageHas(t)



-----------------------------------------------------------------------------
(* Every step keeps what does not depend on memory *)

LEMMA OfStatic ==
  ASSUME SInv, NEW t \in Tasks
  PROVE  /\ EInv /\ DiskWords(disk)
         /\ DOMAIN argc = Tasks /\ DOMAIN was.prog = Tasks /\ DOMAIN was.argv = Tasks
         /\ DOMAIN was = {"prog", "argv", "short", "loaded"}
         /\ Static(disk, call[t], was.prog[t], was.argv[t])
BY DEF SInv, EInv, StatePart

\* A step of t.
LEMMA StaticFrame ==
  ASSUME SInv, EInv', NEW t \in Tasks, disk' = disk,
         DOMAIN argc' = Tasks, DOMAIN was'.prog = Tasks, DOMAIN was'.argv = Tasks,
         \A u \in Tasks \ {t} : /\ call'[u] = call[u] /\ was'.prog[u] = was.prog[u]
                                /\ was'.argv[u] = was.argv[u],
         Static(disk, call'[t], was'.prog[t], was'.argv[t])
  PROVE  SInv'
BY DEF SInv

LEMMA ArgRoom ==
  ASSUME NEW argv, ArgsTyped(argv), NEW i \in 1 .. Len(argv), argv[i].from # -1
  PROVE  argv[i].from \in Room
<1> DEFINE a == argv[i].from
           Z == ImagePages * PageSize
<1>1. Z \in Nat
  BY Constants
<1>2. a \in -1 .. Z - 1 /\ a # -1
  BY DEF ArgsTyped
<1> HIDE DEF a, Z
<1>3. a \in 0 .. Z - 1
  BY <1>1, <1>2
<1> QED BY <1>3 DEF a, Z, Room

LEMMA NoArgs == ArgsTyped(<<>>)
BY DEF ArgsTyped

\* A call that has loaded nothing.
LEMMA EarlyStatic ==
  ASSUME NEW D, NEW c, c.at \in {"idle", "open", "header", "str", "parse"},
         ArgsTyped(c.argv), NEW p, NEW argv, ArgsTyped(argv),
         Named(p) => FileOf(D, p) \in D.files,
         c.at \in {"header", "str", "parse"} => HeadOK(D, c.file, FileOf(D, c.name))
  PROVE  Static(D, c, p, argv)
<1>1. c.at # "load" /\ Done(D, c) = 0
  BY DEF Done
<1>2. \A i \in 1 .. 0 : FALSE
  OBVIOUS
<1>3. \A i \in 1 .. Done(D, c) : FALSE
  BY <1>1, <1>2
<1> QED BY <1>1, <1>3 DEF Static

LEMMA IdleStatic ==
  ASSUME NEW D, NEW p, NEW argv, ArgsTyped(argv), Named(p) => FileOf(D, p) \in D.files
  PROVE  Static(D, Idle, p, argv)
<1>1. Idle.at = "idle" /\ Idle.argv = <<>>
  BY DEF Idle
<1>2. /\ Idle.at \in {"idle", "open", "header", "str", "parse"} /\ ArgsTyped(Idle.argv)
      /\ ~(Idle.at \in {"header", "str", "parse"})
  BY <1>1, NoArgs
<1> HIDE DEF Idle
<1> QED BY <1>2, EarlyStatic

LEMMA FailedStatic ==
  ASSUME SInv, EInv', NEW t \in Tasks, Failed(t), UNCHANGED <<disk, argc, was>>
  PROVE  SInv'
<1>1. /\ call'[t] = Idle
      /\ \A u \in Tasks \ {t} : call'[u] = call[u]
  BY OfStatic, OfCall DEF Failed
<1>2. Static(disk, Idle, was.prog[t], was.argv[t])
  BY OfStatic, IdleStatic DEF Static
<1> QED BY <1>1, <1>2, OfStatic, StaticFrame

LEMMA CallersArgs ==
  ASSUME NEW argv \in Argvs
  PROVE  ArgsTyped(argv)
<1>1. argv \in Seq(Args)
  BY ExecAssumption
<1>2. Len(argv) \in Nat /\ DOMAIN argv = 1 .. Len(argv)
      /\ \A i \in 1 .. Len(argv) : argv[i] \in Args
  BY <1>1
<1>3. \A x \in Args : x.from \in -1 .. ImagePages * PageSize - 1
  BY DEF Args
<1> QED BY <1>2, <1>3 DEF ArgsTyped

LEMMA KernelExecStatic ==
  ASSUME SInv, EInv', NEW t \in Tasks, NEW name \in Names, NEW argv \in Argvs,
         KernelExec(t, name, argv)
  PROVE  SInv'
<1>1. /\ call'[t].at = "open" /\ call'[t].argv = argv
      /\ \A u \in Tasks \ {t} : call'[u] = call[u]
  BY OfStatic, OfCall DEF KernelExec, Begin, Idle
<1>2. disk' = disk /\ argc' = argc
  BY DEF KernelExec
<1>3. /\ DOMAIN was'.prog = Tasks /\ ~Named(was'.prog[t]) /\ was'.argv = was.argv
      /\ \A u \in Tasks \ {t} : was'.prog[u] = was.prog[u]
  BY OfStatic, Zenon DEF KernelExec, Named
<1>4. ArgsTyped(was.argv[t])
  BY OfStatic DEF Static
<1>5. Static(disk, call'[t], was'.prog[t], was'.argv[t])
  <2> DEFINE c == call'[t]
             p == was'.prog[t]
             v == was'.argv[t]
  <2>1. /\ c.at \in {"idle", "open", "header", "str", "parse"}
        /\ ~(c.at \in {"header", "str", "parse"}) /\ ~Named(p) /\ ArgsTyped(v)
    BY <1>1, <1>3, <1>4
  <2>2. ArgsTyped(c.argv)
    BY <1>1, CallersArgs
  <2> HIDE DEF c, p, v
  <2>3. Static(disk, c, p, v)
    BY <2>1, <2>2, EarlyStatic
  <2> QED BY <2>3 DEF c, p, v
<1> QED BY <1>1, <1>2, <1>3, <1>5, OfStatic, StaticFrame

\* The arguments of a process that calls, with the words it has for them.
Passed(t, argv) ==
  [i \in DOMAIN argv |-> IF argv[i].from = -1 THEN argv[i]
                         ELSE [argv[i] EXCEPT !.word = Peek(t, argv[i].from)]]

LEMMA PassedArgs ==
  ASSUME NEW t, NEW argv \in Argvs
  PROVE  /\ ArgsTyped(Passed(t, argv)) /\ Len(Passed(t, argv)) = Len(argv)
         /\ \A i \in 1 .. Len(argv) :
              Passed(t, argv)[i].from # -1 =>
                Passed(t, argv)[i].word = Peek(t, Passed(t, argv)[i].from)
<1> DEFINE args == Passed(t, argv)
<1>1. Len(argv) \in Nat /\ DOMAIN argv = 1 .. Len(argv)
      /\ \A i \in 1 .. Len(argv) : argv[i].from \in -1 .. ImagePages * PageSize - 1
  BY CallersArgs DEF ArgsTyped
<1>2. \A i \in 1 .. Len(argv) :
        args[i] = IF argv[i].from = -1 THEN argv[i]
                  ELSE [argv[i] EXCEPT !.word = Peek(t, argv[i].from)]
  BY <1>1 DEF Passed
<1>3. ASSUME NEW i \in 1 .. Len(argv)
      PROVE  /\ args[i].from = argv[i].from
             /\ args[i].from # -1 => args[i].word = Peek(t, args[i].from)
  <2>1. argv[i] \in Args
    <3>1. argv \in Seq(Args)
      BY ExecAssumption
    <3> QED BY <3>1
  <2> DEFINE x == argv[i]
             y == args[i]
             p == Peek(t, argv[i].from)
  <2>2. x \in Args /\ y = (IF x.from = -1 THEN x ELSE [x EXCEPT !.word = p])
        /\ p = Peek(t, x.from)
    BY <1>2, <2>1
  <2> HIDE DEF x, y, p
  <2>3. y.from = x.from /\ (x.from # -1 => y.word = p)
    BY <2>2 DEF Args
  <2>4. y.from # -1 => y.word = Peek(t, y.from)
    BY <2>2, <2>3
  <2> QED BY <2>3, <2>4 DEF x, y
<1>4. DOMAIN args = 1 .. Len(argv)
  BY <1>1 DEF Passed
<1>5. Len(args) = Len(argv)
  <2>1. args \in Seq({args[i] : i \in 1 .. Len(argv)})
    <3>1. args = [i \in 1 .. Len(argv) |-> args[i]]
      BY <1>1, <1>4 DEF Passed
    <3> HIDE DEF args
    <3> QED BY <1>1, <3>1
  <2> HIDE DEF args
  <2> QED BY <2>1, <1>1, <1>4
<1> QED BY <1>1, <1>3, <1>4, <1>5 DEF ArgsTyped

LEMMA UserExecStatic ==
  ASSUME SInv, EInv', NEW t \in Tasks, NEW name \in Names, NEW argv \in Argvs,
         UserExec(t, name, argv)
  PROVE  SInv'
<1>1. /\ call'[t].at = "open" /\ call'[t].argv = Passed(t, argv)
      /\ \A u \in Tasks \ {t} : call'[u] = call[u]
  BY OfStatic, OfCall DEF UserExec, Begin, Idle, Passed
<1>2. was' = was /\ disk' = disk /\ argc' = argc
  BY DEF UserExec
<1>3. Static(disk, call'[t], was'.prog[t], was'.argv[t])
  <2> DEFINE c == call'[t]
             p == was'.prog[t]
             v == was'.argv[t]
  <2>1. /\ c.at \in {"idle", "open", "header", "str", "parse"}
        /\ ~(c.at \in {"header", "str", "parse"})
        /\ Named(p) => FileOf(disk, p) \in disk.files
        /\ ArgsTyped(v)
    BY <1>1, <1>2, OfStatic DEF Static
  <2>2. ArgsTyped(c.argv)
    BY <1>1, PassedArgs
  <2> HIDE DEF c, p, v
  <2>3. Static(disk, c, p, v)
    BY <2>1, <2>2, EarlyStatic
  <2> QED BY <2>3 DEF c, p, v
<1> QED BY <1>1, <1>2, <1>3, OfStatic, StaticFrame


LEMMA FileIsFound ==
  ASSUME NEW D, DiskWords(D), NEW f \in D.files
  PROVE  FileOf(D, f.name) = f
<1>1. \A g \in D.files : g.name = f.name => g = f
  BY DEF DiskWords
<1> QED BY <1>1 DEF FileOf

\* fs_open: the header leads to the words of the file that was asked for.
LEMMA OpenStatic ==
  ASSUME SInv, EInv', NEW t \in Tasks, Open(t)
  PROVE  SInv'
<1> DEFINE c == call[t]
           d == call'[t]
<1>1. PICK h \in Lookup(c.name) : call' = [call EXCEPT ![t].at = "header", ![t].file = h]
  BY DEF Open
<1>2. c.at = "open" /\ c.name # ""
  BY OfStatic, OfCall DEF Open, CallIs
<1>3. PICK i \in DOMAIN disk.head : disk.head[i].name = c.name /\ h = disk.head[i]
  <2> DEFINE hits == {i \in DOMAIN disk.head : disk.head[i].name = c.name}
             k == CHOOSE i \in hits : \A j \in hits : i <= j
  <2>1. hits # {} /\ h = disk.head[k]
    BY DEF Lookup
  <2>2. k \in hits
    <3>1. \E i \in hits : \A j \in hits : i <= j
      <4>1. hits \in SUBSET Nat
        BY OfStatic, Zenon DEF DiskWords
      <4> HIDE DEF hits
      <4> QED BY <4>1, <2>1, LeastOf
    <3> HIDE DEF hits
    <3> QED BY <3>1
  <2> QED BY <2>1, <2>2
<1>4. PICK f \in disk.files : f.name = c.name /\ HeadOK(disk, h, f)
  BY <1>2, <1>3, OfStatic, Zenon DEF DiskWords
<1>5. FileOf(disk, c.name) = f
  BY <1>4, OfStatic, FileIsFound
<1>6. /\ \A u \in Tasks \ {t} : call'[u] = call[u]
      /\ d.at = "header" /\ d.name = c.name /\ d.file = h /\ d.argv = c.argv
  BY <1>1, OfStatic, OfCall DEF Fields
<1>7. disk' = disk /\ argc' = argc /\ was' = was
  BY DEF Open
<1>8. Static(disk, d, was.prog[t], was.argv[t])
  <2> DEFINE p == was.prog[t]
             v == was.argv[t]
  <2>1. /\ d.at \in {"idle", "open", "header", "str", "parse"}
        /\ ArgsTyped(d.argv) /\ ArgsTyped(v)
        /\ Named(p) => FileOf(disk, p) \in disk.files
    BY <1>6, OfStatic DEF Static
  <2>2. HeadOK(disk, d.file, FileOf(disk, d.name))
    BY <1>4, <1>5, <1>6
  <2> HIDE DEF p, v, d
  <2>3. Static(disk, d, p, v)
    BY <2>1, <2>2, EarlyStatic
  <2> QED BY <2>3 DEF p, v, d
<1> QED BY <1>6, <1>7, <1>8, OfStatic, StaticFrame

\* Header and Str.
LEMMA StageStatic ==
  ASSUME SInv, EInv', NEW t \in Tasks, NEW s \in {"str", "parse"},
         call[t].at \in {"header", "str"}, call' = [call EXCEPT ![t].at = s],
         UNCHANGED <<disk, argc, was>>
  PROVE  SInv'
<1> DEFINE c == call[t]
           d == call'[t]
<1>1. /\ \A u \in Tasks \ {t} : call'[u] = call[u]
      /\ d.at = s /\ d.name = c.name /\ d.file = c.file /\ d.argv = c.argv
  BY OfStatic, OfCall DEF Fields
<1>2. Static(disk, d, was.prog[t], was.argv[t])
  <2> DEFINE p == was.prog[t]
             v == was.argv[t]
  <2>1. Static(disk, c, p, v) /\ c.at \in {"header", "str"}
    BY OfStatic
  <2>2. /\ d.at \in {"idle", "open", "header", "str", "parse"}
        /\ ArgsTyped(d.argv) /\ ArgsTyped(v)
        /\ Named(p) => FileOf(disk, p) \in disk.files
        /\ HeadOK(disk, d.file, FileOf(disk, d.name))
    <3> HIDE DEF c, d
    <3> QED BY <1>1, <2>1 DEF Static
  <2> HIDE DEF p, v, d
  <2>3. Static(disk, d, p, v)
    BY <2>2, EarlyStatic
  <2> QED BY <2>3 DEF p, v, d
<1> QED BY <1>1, <1>2, OfStatic, StaticFrame

\* A call that loads.
LEMMA LoadingStatic ==
  ASSUME NEW D, NEW c, c.at = "load", ArgsTyped(c.argv), NEW p, NEW argv, ArgsTyped(argv),
         Named(p) => FileOf(D, p) \in D.files,
         HeadOK(D, c.file, FileOf(D, c.name)),
         \A i \in 1 .. Done(D, c) : ~Bad(FileOf(D, c.name).secs[i])
  PROVE  Static(D, c, p, argv)
BY DEF Static

LEMMA ParseStatic ==
  ASSUME SInv, EInv', NEW t \in Tasks, Parse(t)
  PROVE  SInv'
<1> DEFINE c == call[t]
           d == call'[t]
           p == was.prog[t]
           v == was.argv[t]
           f == FileOf(disk, c.name)
<1>1. f = Elf(c.name)
  BY DEF Elf, FileOf
<1>2. /\ \A u \in Tasks \ {t} : call'[u] = call[u]
      /\ d.at = "load" /\ d.name = c.name /\ d.file = c.file /\ d.argv = c.argv
      /\ d.secs = f.secs
  <2> HIDE DEF f
  <2> QED BY <1>1, OfStatic, OfCall DEF Parse, Fields
<1>3. disk' = disk /\ argc' = argc /\ was' = was /\ c.at = "parse"
  BY DEF Parse
<1>4. Static(disk, c, p, v)
  BY OfStatic
<1>5. Len(f.secs) \in Nat
  BY <1>1, <1>3, OfStatic, OfCall, FileOfCall DEF CallIs, Elf
<1>6. Done(disk, d) = 0
  <2>1. Done(disk, d) = Len(f.secs) - Len(f.secs)
    BY <1>2 DEF Done
  <2> HIDE DEF f
  <2> QED BY <2>1, <1>5
<1>7. Static(disk, d, p, v)
  <2>1. /\ d.at = "load" /\ ArgsTyped(d.argv) /\ ArgsTyped(v)
        /\ Named(p) => FileOf(disk, p) \in disk.files
        /\ HeadOK(disk, d.file, FileOf(disk, d.name))
    <3> HIDE DEF c, d
    <3> QED BY <1>2, <1>3, <1>4 DEF Static
  <2>2. \A i \in 1 .. Done(disk, d) : FALSE
    BY <1>6
  <2> HIDE DEF p, v, d
  <2> QED BY <2>1, <2>2, LoadingStatic
<1> QED BY <1>2, <1>3, <1>7, OfStatic, StaticFrame


\* The call and the file of the section that is loaded, before and after.
LEMMA LoadCall ==
  ASSUME SInv, NEW t \in Tasks, LoadSection(t)
  PROVE  LET c == call[t]
             d == call'[t]
             f == FileOf(disk, c.name)
             n == Done(disk, c)
         IN  /\ f \in disk.files /\ n \in Nat /\ n + 1 \in 1 .. Len(f.secs)
             /\ Head(c.secs) = f.secs[n + 1] /\ ~Bad(f.secs[n + 1])
             /\ c.at = "load" /\ d.at = "load" /\ d.name = c.name /\ d.file = c.file
             /\ d.argv = c.argv /\ Done(disk, d) = n + 1
             /\ \A u \in Tasks \ {t} : call'[u] = call[u]
<1> DEFINE c == call[t]
           d == call'[t]
           f == FileOf(disk, c.name)
           n == Done(disk, c)
<1>1. c.at = "load" /\ c.secs # <<>> /\ EInv /\ ~Bad(Head(c.secs))
  BY OfStatic DEF LoadSection
<1>2. f = Elf(c.name)
  BY DEF Elf, FileOf
<1>3. n = Len(f.secs) - Len(c.secs)
  BY <1>1 DEF Done
<1>4. /\ f \in disk.files /\ n \in Nat /\ n + 1 \in 1 .. Len(f.secs)
      /\ Head(c.secs) = f.secs[n + 1]
  BY <1>1, <1>2, <1>3, NextSection
<1>5. /\ \A u \in Tasks \ {t} : call'[u] = call[u]
      /\ d.at = "load" /\ d.name = c.name /\ d.file = c.file /\ d.argv = c.argv
      /\ d.secs = Tail(c.secs)
  BY <1>1, OfCall DEF LoadSection, Fields
<1>6. Done(disk, d) = n + 1
  <2>1. c.secs \in Seq(Sections) /\ Len(f.secs) \in Nat
    BY <1>1, <1>4, OfCall, FileOfCall DEF CallOK
  <2>2. Len(d.secs) = Len(c.secs) - 1 /\ Len(c.secs) \in Nat
    <3> DEFINE q == c.secs
    <3>1. q \in Seq(Sections) /\ q # <<>> /\ d.secs = Tail(q)
      BY <1>1, <1>5, <2>1
    <3> HIDE DEF q
    <3>2. Len(Tail(q)) = Len(q) - 1 /\ Len(q) \in Nat
      BY <3>1
    <3> QED BY <3>1, <3>2 DEF q
  <2>3. Done(disk, d) = Len(f.secs) - Len(d.secs)
    BY <1>5 DEF Done
  <2>4. \A x, y, z \in Int : z = y - 1 => x - z = (x - y) + 1
    OBVIOUS
  <2> DEFINE x == Len(f.secs)
             y == Len(c.secs)
             z == Len(d.secs)
  <2>5. x \in Int /\ y \in Int /\ z \in Int /\ z = y - 1 /\ n = x - y
        /\ Done(disk, d) = x - z
    BY <1>3, <2>1, <2>2, <2>3
  <2> HIDE DEF x, y, z, n
  <2> QED BY <2>4, <2>5
<1>7. ~Bad(f.secs[n + 1])
  BY <1>1, <1>4
<1> HIDE DEF c, d, f, n
<1>8. /\ f \in disk.files /\ n \in Nat /\ n + 1 \in 1 .. Len(f.secs)
      /\ Head(c.secs) = f.secs[n + 1] /\ ~Bad(f.secs[n + 1])
      /\ c.at = "load" /\ d.at = "load" /\ d.name = c.name /\ d.file = c.file
      /\ d.argv = c.argv /\ Done(disk, d) = n + 1
      /\ \A u \in Tasks \ {t} : call'[u] = call[u]
  BY <1>1, <1>4, <1>5, <1>6, <1>7
<1> QED BY <1>8 DEF c, d, f, n

LEMMA LoadStatic ==
  ASSUME SInv, EInv', NEW t \in Tasks, LoadSection(t)
  PROVE  SInv'
<1> DEFINE c == call[t]
           d == call'[t]
           p == was'.prog[t]
           v == was'.argv[t]
           f == FileOf(disk, c.name)
           n == Done(disk, c)
<1>1. /\ n \in Nat /\ ~Bad(f.secs[n + 1])
      /\ c.at = "load" /\ d.at = "load" /\ d.name = c.name /\ d.file = c.file
      /\ d.argv = c.argv /\ Done(disk, d) = n + 1
      /\ \A u \in Tasks \ {t} : call'[u] = call[u]
  BY LoadCall
<1>2. disk' = disk /\ argc' = argc
  BY DEF LoadSection
<1>3. /\ DOMAIN was'.prog = Tasks /\ ~Named(p) /\ was'.argv = was.argv
      /\ \A u \in Tasks \ {t} : was'.prog[u] = was.prog[u]
  BY OfStatic, Zenon DEF LoadSection, Named
<1>4. Static(disk, c, was.prog[t], v)
  BY <1>3, OfStatic
<1>5. Static(disk, d, p, v)
  <2> HIDE DEF c, d, p, v, n
  <2>1. /\ ArgsTyped(d.argv) /\ ArgsTyped(v)
        /\ HeadOK(disk, d.file, FileOf(disk, d.name))
        /\ \A i \in 1 .. n : ~Bad(f.secs[i])
    BY <1>1, <1>4 DEF Static, n
  <2>2. FileOf(disk, d.name) = f
    BY <1>1
  <2> HIDE DEF f
  <2>3. \A i \in 1 .. Done(disk, d) : ~Bad(FileOf(disk, d.name).secs[i])
    <3>1. \A i \in 1 .. n + 1 : i \in 1 .. n \/ i = n + 1
      BY <1>1
    <3> QED BY <1>1, <2>1, <2>2, <3>1
  <2> QED BY <1>1, <1>3, <2>1, <2>3, LoadingStatic
<1> QED BY <1>1, <1>2, <1>3, <1>5, OfStatic, StaticFrame

LEMMA FinishStatic ==
  ASSUME SInv, EInv', NEW t \in Tasks, Finish(t)
  PROVE  SInv'
<1> DEFINE c == call[t]
           p == was'.prog[t]
           v == was'.argv[t]
<1>1. c.at = "load" /\ disk' = disk
  BY DEF Finish
<1>2. call'[t] = Idle /\ \A u \in Tasks \ {t} : call'[u] = call[u]
  BY OfStatic, OfCall DEF Finish
<1>3. /\ DOMAIN was'.prog = Tasks /\ p = c.name /\ DOMAIN was'.argv = Tasks /\ v = c.argv
      /\ \A u \in Tasks \ {t} : was'.prog[u] = was.prog[u] /\ was'.argv[u] = was.argv[u]
      /\ DOMAIN argc' = Tasks
  BY OfStatic DEF Finish
<1>4. FileOf(disk, p) \in disk.files
  <2>1. FileOf(disk, c.name) \in disk.files
    <3>1. CallIs(disk, c, img[t], elf_size[t])
      BY OfStatic, OfCall
    <3>2. c.at \in {"header", "str", "parse", "load"}
      BY <1>1
    <3> QED BY <3>1, <3>2, Zenon DEF CallIs, FileOf
  <2> QED BY <1>3, <2>1
<1>5. ArgsTyped(v)
  BY <1>3, OfStatic DEF Static
<1>6. Static(disk, Idle, p, v)
  BY <1>4, <1>5, IdleStatic
<1> QED BY <1>1, <1>2, <1>3, <1>6, OfStatic, StaticFrame

LEMMA ForkStatic ==
  ASSUME SInv, EInv', NEW t \in Tasks, NEW u \in Tasks, Fork(t, u)
  PROVE  SInv'
<1> DEFINE p == was'.prog[u]
           v == was'.argv[u]
<1>1. call' = call /\ disk' = disk
  BY DEF Fork
<1>2. /\ DOMAIN was'.prog = Tasks /\ p = was.prog[t]
      /\ DOMAIN was'.argv = Tasks /\ v = was.argv[t] /\ DOMAIN argc' = Tasks
      /\ \A x \in Tasks \ {u} : was'.prog[x] = was.prog[x] /\ was'.argv[x] = was.argv[x]
  BY OfStatic DEF Fork
<1>3. ArgsTyped(v) /\ (Named(p) => FileOf(disk, p) \in disk.files)
  BY <1>2, OfStatic DEF Static
<1>4. Static(disk, call[u], p, v)
  <2>1. Static(disk, call[u], was.prog[u], was.argv[u])
    BY OfStatic
  <2> HIDE DEF p, v
  <2> QED BY <1>3, <2>1 DEF Static
<1> QED BY <1>1, <1>2, <1>4, OfStatic, StaticFrame

LEMMA SInvInit == ExecInit => SInv
<1> SUFFICES ASSUME ExecInit PROVE SInv
  OBVIOUS
<1>1. EInv
  BY EInvInit
<1>2. DiskWords(disk)
  BY DiskHasWords DEF ExecInit
<1>3. ASSUME NEW t \in Tasks
      PROVE  Static(disk, call[t], was.prog[t], was.argv[t])
  <2>1. call[t] = Idle /\ was.argv[t] = <<>> /\ ~Named(was.prog[t])
    BY Zenon DEF ExecInit, Named
  <2> QED BY <2>1, NoArgs, IdleStatic
<1>4. DOMAIN argc = Tasks /\ DOMAIN was.prog = Tasks /\ DOMAIN was.argv = Tasks
  BY Zenon DEF ExecInit
<1> QED BY <1>1, <1>2, <1>3, <1>4 DEF SInv

LEMMA SInvStep == SInv /\ [ExecNext]_execVars => SInv'
<1> SUFFICES ASSUME SInv, [ExecNext]_execVars PROVE SInv'
  OBVIOUS
<1>0. EInv'
  BY EInvStep DEF SInv
<1>1. CASE UNCHANGED execVars
  BY <1>0, <1>1 DEF SInv, execVars
<1>2. ASSUME NEW t \in Tasks, NEW name \in Names, NEW argv \in Argvs,
             KernelExec(t, name, argv) \/ UserExec(t, name, argv)
      PROVE  SInv'
  BY <1>0, <1>2, KernelExecStatic, UserExecStatic
<1>3. ASSUME NEW t \in Tasks, OpenFails(t) \/ HeaderFails(t) \/ StrFails(t)
                              \/ ParseFails(t) \/ LoadFails(t)
      PROVE  SInv'
  <2>1. Failed(t) /\ UNCHANGED <<disk, argc, was>>
    BY <1>3 DEF OpenFails, HeaderFails, StrFails, ParseFails, LoadFails
  <2> QED BY <1>0, <2>1, FailedStatic
<1>4. ASSUME NEW t \in Tasks, Header(t)
      PROVE  SInv'
  BY <1>0, <1>4, StageStatic DEF Header
<1>5. ASSUME NEW t \in Tasks, Str(t)
      PROVE  SInv'
  BY <1>0, <1>5, StageStatic DEF Str
<1>6. ASSUME NEW t \in Tasks, Open(t) \/ Parse(t) \/ LoadSection(t) \/ Finish(t)
      PROVE  SInv'
  BY <1>0, <1>6, OpenStatic, ParseStatic, LoadStatic, FinishStatic
<1>7. ASSUME NEW t \in Tasks, NEW u \in Tasks, Fork(t, u)
      PROVE  SInv'
  BY <1>0, <1>7, ForkStatic
<1>8. ASSUME NEW t \in Tasks, Exit(t)
      PROVE  SInv'
  <2>1. call' = call /\ disk' = disk /\ argc' = argc /\ was' = was
    BY <1>8 DEF Exit
  <2> QED BY <1>0, <2>1 DEF SInv
<1> QED
  BY <1>1, <1>2, <1>3, <1>4, <1>5, <1>6, <1>7, <1>8 DEF ExecNext


-----------------------------------------------------------------------------
(* Every step keeps what is in the images *)

LEMMA NoOverrunBefore ==
  ASSUME disk' = disk, was.loaded \in SUBSET was'.loaded, NoOverrun'
  PROVE  NoOverrun
<1>1. \A name : Elf(name)' = Elf(name)
  BY DEF Elf
<1> QED BY <1>1 DEF NoOverrun, Elf

\* Words that are not written.
LEMMA ViewKept ==
  ASSUME EInv, NEW l \in Placements,
         \A p \in DOMAIN mem : OnPages(p, l) => mem'[p] = mem[p]
  PROVE  View(mem', l) = View(mem, l)
<1>1. ASSUME NEW a \in Room
      PROVE  mem'[Kva(l, a)] = mem[Kva(l, a)]
  <2>1. OnPages(Kva(l, a), l)
    BY KvaOnPages DEF Room
  <2>2. Kva(l, a) \in DOMAIN mem
    BY <2>1, OnPagesInMemory DEF EInv, StatePart
  <2> QED BY <2>1, <2>2
<1> QED BY <1>1 DEF View

\* What a step of t leaves as it is for the process u.
Same(u) ==
  /\ img'[u] = img[u] /\ call'[u] = call[u]
  /\ was'.prog[u] = was.prog[u] /\ was'.argv[u] = was.argv[u]
  /\ u \in was'.short <=> u \in was.short
  /\ argc'[u] = argc[u]

\* A step of t.
LEMMA ImageFrame ==
  ASSUME SInv, DInv, NEW t \in Tasks, disk' = disk, was.loaded \in SUBSET was'.loaded,
         \A u \in Tasks \ {t} : Same(u),
         NoOverrun' => \A u \in Tasks \ {t} : img[u] # <<>> =>
                         View(mem', img[u]) = View(mem, img[u]),
         NoOverrun' /\ img'[t] # <<>> => ImageHas(t)'
  PROVE  DInv'
<1> SUFFICES ASSUME NoOverrun', NEW u \in Tasks, img'[u] # <<>>
             PROVE  ImageHas(u)'
  BY DEF DInv
<1>1. CASE u = t
  BY <1>1
<1>2. CASE u # t
  <2>1. Same(u)
    BY <1>2
  <2>2. img[u] # <<>>
    BY <2>1 DEF Same
  <2>3. View(mem', img[u]) = View(mem, img[u])
    BY <1>2, <2>2
  <2>4. NoOverrun
    BY NoOverrunBefore
  <2>5. ImageHas(u)
    BY <2>2, <2>4 DEF DInv
  <2>6. View(mem', img'[u]) = View(mem, img[u])
    BY <2>1, <2>3 DEF Same
  <2> QED BY <2>1, <2>5, <2>6 DEF ImageHas, Same
<1> QED BY <1>1, <1>2

\* A call that has loaded nothing, and has its arguments where the caller has them.
LEMMA EarlyCallHas ==
  ASSUME NEW D, NEW v, NEW c, Done(D, c) = 0,
         \A i \in 1 .. Len(c.argv) :
           c.argv[i].from # -1 => v[c.argv[i].from] = c.argv[i].word
  PROVE  CallHas(D, v, c)
<1>1. \A i \in 1 .. 0 : FALSE
  OBVIOUS
<1>2. Shown(v, FileOf(D, c.name), 0)
  BY <1>1 DEF Shown
<1>3. Kept(v, FileOf(D, c.name), 0, c.argv)
  BY DEF Kept
<1> QED BY <1>2, <1>3 DEF CallHas

\* What such a call has, so that a call with the same arguments has it too.
LEMMA EarlyCallKeeps ==
  ASSUME NEW D, NEW v, NEW c, c.at \in {"open", "header", "str", "parse"}, CallHas(D, v, c),
         NEW i \in 1 .. Len(c.argv), c.argv[i].from # -1
  PROVE  v[c.argv[i].from] = c.argv[i].word
<1>1. Done(D, c) = 0 /\ c.at # "idle"
  BY DEF Done
<1>2. Kept(v, FileOf(D, c.name), 0, c.argv)
  BY <1>1 DEF CallHas
<1>3. ~Cover(FileOf(D, c.name), 0, c.argv[i].from)
  BY DEF Cover
<1> QED BY <1>2, <1>3 DEF Kept

LEMMA FailedImage ==
  ASSUME SInv, DInv, NEW t \in Tasks, Failed(t), UNCHANGED <<disk, mem, argc, was>>
  PROVE  DInv'
<1>1. call'[t] = Idle /\ \A u \in Tasks \ {t} : call'[u] = call[u] /\ img'[u] = img[u]
  BY OfStatic, OfCall DEF Failed
<1>2. img'[t] = <<>> \/ img'[t] = img[t]
  BY OfStatic, OfCall DEF Failed
<1>3. ASSUME NoOverrun', img'[t] # <<>>
      PROVE  ImageHas(t)'
  <2>1. NoOverrun
    BY <1>3, NoOverrunBefore
  <2>2. img'[t] = img[t] /\ ImageHas(t)
    BY <1>2, <1>3, <2>1 DEF DInv
  <2>3. CallHas(disk, View(mem, img[t]), Idle)
    <3>1. Idle.at = "idle"
      BY DEF Idle
    <3> HIDE DEF Idle
    <3> QED BY <3>1 DEF CallHas
  <2> HIDE DEF Idle
  <2> QED BY <1>1, <2>2, <2>3 DEF ImageHas
<1>4. \A u \in Tasks \ {t} : Same(u)
  BY <1>1 DEF Same
<1> QED BY <1>3, <1>4, ImageFrame

\* Open, Header, Str and Parse.
LEMMA StageImage ==
  ASSUME SInv, DInv, NEW t \in Tasks, UNCHANGED <<disk, mem, img, argc, was>>,
         \A u \in Tasks \ {t} : call'[u] = call[u],
         call[t].at \in {"open", "header", "str", "parse"},
         call'[t].argv = call[t].argv,
         call'[t].at # "load" \/ Done(disk, call'[t]) = 0
  PROVE  DInv'
<1>1. \A u \in Tasks \ {t} : Same(u)
  BY DEF Same
<1>2. ASSUME NoOverrun', img'[t] # <<>>
      PROVE  ImageHas(t)'
  <2> DEFINE v == View(mem, img[t])
             c == call[t]
             d == call'[t]
  <2>1. NoOverrun
    BY <1>2, NoOverrunBefore
  <2>2. ImageHas(t)
    BY <1>2, <2>1 DEF DInv
  <2>3. CallHas(disk, v, c) /\ c.at \in {"open", "header", "str", "parse"}
    BY <2>2 DEF ImageHas
  <2>4. \A i \in 1 .. Len(c.argv) : c.argv[i].from # -1 => v[c.argv[i].from] = c.argv[i].word
    <3> HIDE DEF c, v
    <3> QED BY <2>3, EarlyCallKeeps
  <2>5. CallHas(disk, v, d)
    <3>1. \A i \in 1 .. Len(d.argv) : d.argv[i].from # -1 => v[d.argv[i].from] = d.argv[i].word
      BY <2>4
    <3>2. Done(disk, d) = 0
      BY DEF Done
    <3> HIDE DEF c, d, v
    <3> QED BY <3>1, <3>2, EarlyCallHas
  <2> QED BY <2>2, <2>5 DEF ImageHas
<1> QED BY <1>1, <1>2, ImageFrame


LEMMA KernelExecImage ==
  ASSUME SInv, DInv, NEW t \in Tasks, NEW name \in Names, NEW argv \in Argvs,
         KernelExec(t, name, argv)
  PROVE  DInv'
<1> DEFINE v == View(mem, img'[t])
           c == call'[t]
<1>1. /\ c.at = "open" /\ c.argv = argv
      /\ \A u \in Tasks \ {t} : call'[u] = call[u]
  BY OfStatic, OfCall DEF KernelExec, Begin, Idle
<1>2. disk' = disk /\ argc' = argc /\ mem' = mem
  BY DEF KernelExec
<1>3. /\ ~Named(was'.prog[t]) /\ was'.argv = was.argv /\ was'.loaded = was.loaded
      /\ was'.short = was.short \ {t}
      /\ \A u \in Tasks \ {t} : was'.prog[u] = was.prog[u]
  BY OfStatic, Zenon DEF KernelExec, Named
<1>4. \A u \in Tasks \ {t} : img'[u] = img[u]
  BY OfStatic, OfCall DEF KernelExec
<1>5. \A i \in 1 .. Len(argv) : argv[i].from = -1
  <2>1. DOMAIN argv = 1 .. Len(argv)
    BY CallersArgs DEF ArgsTyped
  <2> QED BY <2>1, Zenon DEF KernelExec
<1>6. CallHas(disk, v, c)
  <2>1. Done(disk, c) = 0
    BY <1>1 DEF Done
  <2>2. \A i \in 1 .. Len(c.argv) : c.argv[i].from = -1
    BY <1>1, <1>5
  <2> HIDE DEF c, v
  <2> QED BY <2>1, <2>2, EarlyCallHas
<1>7. ImageHas(t)'
  <2>1. ProgramHas(disk, v, was'.prog[t])
    BY <1>3 DEF ProgramHas
  <2>2. ArgumentsHas(disk, v, was'.prog[t], was'.argv[t], argc'[t])
    BY <1>3 DEF ArgumentsHas
  <2> QED BY <1>2, <1>6, <2>1, <2>2 DEF ImageHas
<1>8. \A u \in Tasks \ {t} : Same(u)
  BY <1>1, <1>2, <1>3, <1>4 DEF Same
<1> QED BY <1>2, <1>3, <1>7, <1>8, ImageFrame

LEMMA UserExecImage ==
  ASSUME SInv, DInv, NEW t \in Tasks, NEW name \in Names, NEW argv \in Argvs,
         UserExec(t, name, argv)
  PROVE  DInv'
<1> DEFINE v == View(mem, img[t])
           c == call'[t]
           args == Passed(t, argv)
<1>1. /\ c.at = "open" /\ c.argv = args
      /\ \A u \in Tasks \ {t} : call'[u] = call[u]
  BY OfStatic, OfCall DEF UserExec, Begin, Idle, Passed
<1>2. disk' = disk /\ argc' = argc /\ mem' = mem /\ was' = was /\ img' = img
  BY DEF UserExec
<1>3. ASSUME NEW i \in 1 .. Len(args), args[i].from # -1
      PROVE  v[args[i].from] = args[i].word
  <2>1. ArgsTyped(args) /\ Len(args) = Len(argv)
    BY PassedArgs
  <2>2. args[i].word = Peek(t, args[i].from)
    BY <1>3, <2>1, PassedArgs
  <2>3. args[i].from \in Room
    <3> HIDE DEF args
    <3> QED BY <1>3, <2>1, ArgRoom
  <2> QED BY <2>2, <2>3 DEF View, Peek
<1>4. CallHas(disk, v, c)
  <2>1. Done(disk, c) = 0
    BY <1>1 DEF Done
  <2>2. \A i \in 1 .. Len(c.argv) : c.argv[i].from # -1 => v[c.argv[i].from] = c.argv[i].word
    BY <1>1, <1>3
  <2> HIDE DEF c, v
  <2> QED BY <2>1, <2>2, EarlyCallHas
<1>5. ASSUME NoOverrun', img'[t] # <<>>
      PROVE  ImageHas(t)'
  <2>1. NoOverrun
    BY <1>2, <1>5, NoOverrunBefore
  <2>2. ImageHas(t)
    BY <1>2, <1>5, <2>1 DEF DInv
  <2> QED BY <1>2, <1>4, <2>2 DEF ImageHas
<1>6. \A u \in Tasks \ {t} : Same(u)
  BY <1>1, <1>2 DEF Same
<1> QED BY <1>2, <1>5, <1>6, ImageFrame

LEMMA ExitImage ==
  ASSUME SInv, DInv, NEW t \in Tasks, Exit(t)
  PROVE  DInv'
<1>1. img'[t] = <<>> /\ \A u \in Tasks \ {t} : img'[u] = img[u]
  BY OfStatic, OfCall DEF Exit
<1>2. disk' = disk /\ argc' = argc /\ mem' = mem /\ was' = was /\ call' = call
  BY DEF Exit
<1>3. \A u \in Tasks \ {t} : Same(u)
  BY <1>1, <1>2 DEF Same
<1> QED BY <1>1, <1>2, <1>3, ImageFrame

-----------------------------------------------------------------------------
(* load_elf_section *)

\* A word of the image, and where it is.
LEMMA ViewAt ==
  ASSUME EInv, NEW l \in Placements, NEW a \in Room
  PROVE  /\ Kva(l, a) \in DOMAIN mem
         /\ \A m : View(m, l)[a] = m[Kva(l, a)]
<1>1. OnPages(Kva(l, a), l)
  BY KvaOnPages DEF Room
<1>2. Kva(l, a) \in DOMAIN mem
  BY <1>1, OnPagesInMemory DEF EInv, StatePart
<1> QED BY <1>2 DEF View

LEMMA SectionRoom ==
  ASSUME NEW s \in Sections, s.addr + s.size <= ImagePages * PageSize,
         NEW w \in 0 .. s.size - 1
  PROVE  s.addr + w \in Room /\ s.addr + w \in Extent(s)
<1>1. s.addr \in Nat /\ s.size \in Nat /\ ImagePages * PageSize \in Nat
  BY Constants DEF Sections
<1>2. s.addr + w \in 0 .. ImagePages * PageSize - 1
  BY <1>1
<1>3. s.addr + w \in s.addr .. s.addr + s.size - 1
  BY <1>1
<1> QED BY <1>2, <1>3 DEF Room, Extent

\* The image x is v with one more section of a file in it.
Gains(v, x, f, s) ==
  /\ \A a \in Room \ Extent(s) : x[a] = v[a]
  /\ \A w \in 0 .. s.size - 1 :
       s.bss \/ s.offset + w < f.size =>
         x[s.addr + w] = IF s.bss THEN Zero ELSE <<f.name, s.offset + w>>

\* What load_elf_section does to the image.
LEMMA LoadView ==
  ASSUME SInv, NEW t \in Tasks, LoadSection(t), NoOverrun',
         NEW f, f = FileOf(disk, call[t].name), NEW s, s = Head(call[t].secs)
  PROVE  Gains(View(mem, img[t]), View(mem', img[t]), f, s)
<1> DEFINE l == img[t]
           file == call[t].file
           ws(p) == {w \in 0 .. s.size - 1 : Place(l, s, w) = p}
           new(p) == IF s.bss THEN {Zero} ELSE UNION {Read(file, s.offset, w) : w \in ws(p)}
<1>1. /\ l \in Placements /\ s \in Sections
      /\ s.addr + s.size <= ImagePages * PageSize
      /\ ~Crosses(s) \/ \A i \in 1 .. ImagePages - 1 : l[i + 1] = l[i] + 1
  BY OfStatic, LoadStays
<1>2. mem' = [p \in DOMAIN mem |->
                IF ws(p) # {} /\ new(p) # {} THEN CHOOSE x \in new(p) : TRUE ELSE mem[p]]
  BY DEF LoadSection, Loaded
<1>3. \A w \in 0 .. s.size - 1 : Place(l, s, w) = Kva(l, s.addr + w) /\ s.addr + w \in Room
  BY <1>1, PlaceIsKva, SectionRoom
<1>4. EInv
  BY OfStatic
<1> HIDE DEF l
<1>5. ASSUME NEW a \in Room \ Extent(s)
      PROVE  View(mem', l)[a] = View(mem, l)[a]
  <2>1. ws(Kva(l, a)) = {}
    <3>1. ASSUME NEW w \in 0 .. s.size - 1, Place(l, s, w) = Kva(l, a)
          PROVE  FALSE
      <4>1. Kva(l, s.addr + w) = Kva(l, a) /\ s.addr + w \in Room
        BY <1>3, <3>1
      <4>2. s.addr + w = a
        BY <4>1, <1>1, KvaInjective DEF Room
      <4>3. s.addr + w \in Extent(s)
        BY <1>1, SectionRoom
      <4> QED BY <4>2, <4>3
    <3> QED BY <3>1
  <2>2. Kva(l, a) \in DOMAIN mem /\ \A m : View(m, l)[a] = m[Kva(l, a)]
    BY <1>1, <1>4, ViewAt
  <2> HIDE DEF ws, new
  <2>3. mem'[Kva(l, a)] = mem[Kva(l, a)]
    BY <1>2, <2>1, <2>2
  <2> QED BY <2>2, <2>3
<1>6. ASSUME NEW w \in 0 .. s.size - 1, s.bss \/ s.offset + w < f.size
      PROVE  View(mem', l)[s.addr + w] = IF s.bss THEN Zero ELSE <<f.name, s.offset + w>>
  <2> DEFINE p == Kva(l, s.addr + w)
  <2>1. p \in DOMAIN mem /\ \A m : View(m, l)[s.addr + w] = m[p]
    BY <1>1, <1>3, <1>4, ViewAt
  <2>2. ws(p) = {w}
    <3>1. ASSUME NEW x \in 0 .. s.size - 1, Place(l, s, x) = p
          PROVE  x = w
      <4>1. s.addr + x \in Room /\ s.addr + w \in Room /\ Kva(l, s.addr + x) = p
        BY <1>3, <3>1
      <4>2. s.addr + x = s.addr + w
        BY <4>1, <1>1, KvaInjective DEF Room
      <4>3. s.addr \in Nat /\ s.size \in Nat
        BY <1>1 DEF Sections
      <4> QED BY <4>2, <4>3
    <3>2. Place(l, s, w) = p
      BY <1>3
    <3> HIDE DEF p
    <3> QED BY <3>1, <3>2
  <2>3. new(p) = IF s.bss THEN {Zero} ELSE Read(file, s.offset, w)
    <3> HIDE DEF p, ws
    <3> QED BY <2>2
  <2>4. ~s.bss => Read(file, s.offset, w) = {<<f.name, s.offset + w>>}
    <3> SUFFICES ASSUME ~s.bss
                 PROVE  Read(file, s.offset, w) = {<<f.name, s.offset + w>>}
      OBVIOUS
    <3>1. HeadOK(disk, file, f) /\ f \in disk.files
      <4>1. call[t].at = "load" /\ f \in disk.files
        BY LoadCall
      <4> QED BY <4>1, OfStatic DEF Static
    <3>2. f.size \in Nat /\ s.offset \in Nat /\ w \in Nat
      <4>1. f \in Files
        BY <3>1, <1>4 DEF EInv, StatePart, DiskOK, Fits
      <4>2. f.size \in Nat
        BY <4>1 DEF Files
      <4>3. s.offset \in Nat /\ s.size \in Nat
        BY <1>1 DEF Sections
      <4> QED BY <4>2, <4>3
    <3> DEFINE k == s.offset + w
    <3>3. k \in 0 .. f.size - 1 /\ k < f.size
      BY <1>6, <3>2
    <3>4. file.base \in Nat /\ file.size = f.size /\ disk.word[file.base + k] = <<f.name, k>>
      BY <3>1, <3>3 DEF HeadOK
    <3>5. file.base + s.offset + w = file.base + k
      BY <3>2, <3>4
    <3>6. s.offset + w < file.size
      BY <3>3, <3>4, Zenon
    <3>7. Read(file, s.offset, w) = {disk.word[file.base + s.offset + w]}
      BY <3>6, Zenon DEF Read
    <3> QED BY <3>4, <3>5, <3>7, Zenon
  <2> HIDE DEF ws, new, p
  <2>5. new(p) = {IF s.bss THEN Zero ELSE <<f.name, s.offset + w>>}
    BY <2>3, <2>4
  <2>6. mem'[p] = CHOOSE x \in new(p) : TRUE
    BY <1>2, <2>1, <2>2, <2>5
  <2>7. mem'[p] = IF s.bss THEN Zero ELSE <<f.name, s.offset + w>>
    BY <2>5, <2>6
  <2> QED BY <2>1, <2>7
<1>7. /\ \A a \in Room \ Extent(s) : View(mem', l)[a] = View(mem, l)[a]
      /\ \A w \in 0 .. s.size - 1 :
           s.bss \/ s.offset + w < f.size =>
             View(mem', l)[s.addr + w] = IF s.bss THEN Zero ELSE <<f.name, s.offset + w>>
  BY <1>5, <1>6
<1> QED BY <1>7, Zenon DEF Gains, l


\* The sections of a file do not overlap, so that loading one leaves the others.
LEMMA LoadImage ==
  ASSUME SInv, DInv, NEW t \in Tasks, LoadSection(t)
  PROVE  DInv'
<1> DEFINE c == call[t]
           d == call'[t]
           f == FileOf(disk, c.name)
           n == Done(disk, c)
           s == f.secs[n + 1]
           v == View(mem, img[t])
           x == View(mem', img[t])
<1>1. /\ f \in disk.files /\ n \in Nat /\ n + 1 \in 1 .. Len(f.secs) /\ Head(c.secs) = s
      /\ c.at = "load" /\ d.at = "load" /\ d.name = c.name /\ d.argv = c.argv
      /\ Done(disk, d) = n + 1
      /\ \A u \in Tasks \ {t} : call'[u] = call[u]
  BY LoadCall
<1>2. disk' = disk /\ argc' = argc /\ img' = img
  BY DEF LoadSection
<1>3. /\ ~Named(was'.prog[t]) /\ was'.argv = was.argv /\ was.loaded \in SUBSET was'.loaded
      /\ was'.short = was.short
      /\ \A u \in Tasks \ {t} : was'.prog[u] = was.prog[u]
  BY OfStatic, Zenon DEF LoadSection, Named
<1>4. /\ \A k \in 1 .. Len(f.secs) :
           /\ f.secs[k] \in Sections
           /\ f.secs[k].addr + f.secs[k].size <= ImagePages * PageSize
      /\ \A i, j \in 1 .. Len(f.secs) :
           i # j => Extent(f.secs[i]) \cap Extent(f.secs[j]) = {}
      /\ Len(f.secs) \in Nat
  <2>1. EInv /\ DiskWords(disk)
    BY OfStatic
  <2>2. \A i, j \in 1 .. Len(f.secs) :
           i # j => Extent(f.secs[i]) \cap Extent(f.secs[j]) = {}
    BY <1>1, <2>1, Zenon DEF DiskWords
  <2> QED BY <1>1, <2>1, <2>2, FileOfCall
<1>5. ArgsTyped(c.argv)
  BY OfStatic DEF Static
<1>6. ASSUME NoOverrun'
      PROVE  /\ CallHas(disk, x, d)
             /\ \A u \in Tasks \ {t} : img[u] # <<>> => View(mem', img[u]) = View(mem, img[u])
  <2>1. img[t] \in Placements
    BY <1>6, OfStatic, LoadStays
  <2>2. ASSUME NEW u \in Tasks \ {t}, img[u] # <<>>
        PROVE  View(mem', img[u]) = View(mem, img[u])
    <3>1. img[u] \in Placements /\ ToSet(img[u]) \cap ToSet(img[t]) = {} /\ EInv
      BY <2>2, OfStatic, OfCall DEF EInv, ImagePart
    <3>2. ASSUME NEW p \in DOMAIN mem, OnPages(p, img[u])
          PROVE  mem'[p] = mem[p]
      <4>1. ~OnPages(p, img[t])
        BY <2>1, <3>1, <3>2, ListsApart
      <4> QED BY <4>1, <1>6, <3>1, LoadWrites
    <3> QED BY <3>1, <3>2, ViewKept
  <2>3. CallHas(disk, v, c)
    <3>1. NoOverrun
      BY <1>2, <1>3, <1>6, NoOverrunBefore
    <3>2. img[t] # <<>>
      BY <2>1, Constants
    <3> QED BY <3>1, <3>2 DEF DInv, ImageHas
  <2>4. Shown(v, f, n) /\ Kept(v, f, n, c.argv)
    <3> HIDE DEF v
    <3> QED BY <1>1, <2>3 DEF CallHas
  <2>5. /\ \A a \in Room \ Extent(s) : x[a] = v[a]
        /\ \A w \in 0 .. s.size - 1 :
             s.bss \/ s.offset + w < f.size =>
               x[s.addr + w] = IF s.bss THEN Zero ELSE <<f.name, s.offset + w>>
    <3>1. Gains(v, x, f, s)
      BY <1>1, <1>6, LoadView
    <3> HIDE DEF v, x, f, s
    <3> QED BY <3>1, Zenon DEF Gains
  <2> HIDE DEF c, d, f, n, x, v
  <2>6. Shown(x, f, n + 1)
    <3> SUFFICES ASSUME NEW i \in 1 .. n + 1, NEW w \in 0 .. f.secs[i].size - 1,
                        f.secs[i].bss \/ f.secs[i].offset + w < f.size
                 PROVE  x[f.secs[i].addr + w] =
                          IF f.secs[i].bss THEN Zero ELSE <<f.name, f.secs[i].offset + w>>
      BY DEF Shown
    <3>1. CASE i = n + 1
      BY <3>1, <2>5
    <3>2. CASE i # n + 1
      <4>1. i \in 1 .. n /\ i \in 1 .. Len(f.secs)
        BY <1>1, <1>4, <3>2
      <4>2. /\ f.secs[i].addr + w \in Room
            /\ f.secs[i].addr + w \in Extent(f.secs[i])
        BY <1>4, <4>1, SectionRoom
      <4>3. Extent(f.secs[i]) \cap Extent(s) = {}
        BY <1>1, <1>4, <3>2, <4>1
      <4>4. x[f.secs[i].addr + w] = v[f.secs[i].addr + w]
        <5> HIDE DEF s
        <5> QED BY <2>5, <4>2, <4>3
      <4> QED BY <2>4, <4>1, <4>4 DEF Shown
    <3> QED BY <3>1, <3>2
  <2>7. Kept(x, f, n + 1, c.argv)
    <3> SUFFICES ASSUME NEW i \in 1 .. Len(c.argv), c.argv[i].from # -1,
                        ~Cover(f, n + 1, c.argv[i].from)
                 PROVE  x[c.argv[i].from] = c.argv[i].word
      BY DEF Kept
    <3> DEFINE a == c.argv[i].from
    <3>1. a \in Room
      BY <1>5, ArgRoom
    <3>2. \A k \in 1 .. n + 1 : ~(a \in Extent(f.secs[k]))
      BY DEF Cover
    <3>3. \A k \in 1 .. n : k \in 1 .. n + 1
      BY <1>1
    <3>4. n + 1 \in 1 .. n + 1
      BY <1>1
    <3>5. ~Cover(f, n, a)
      BY <3>2, <3>3 DEF Cover
    <3>6. a \in Room \ Extent(s)
      BY <3>1, <3>2, <3>4
    <3>7. v[a] = c.argv[i].word
      BY <2>4, <3>5 DEF Kept
    <3> QED BY <2>5, <3>6, <3>7
  <2>8. CallHas(disk, x, d)
    <3>1. FileOf(disk, d.name) = f
      BY <1>1 DEF f
    <3> QED BY <1>1, <2>6, <2>7, <3>1 DEF CallHas
  <2> QED BY <2>2, <2>8
<1>7. ASSUME NoOverrun', img'[t] # <<>>
      PROVE  ImageHas(t)'
  <2>1. CallHas(disk, x, d)
    BY <1>6, <1>7
  <2>2. ProgramHas(disk, x, was'.prog[t])
    BY <1>3 DEF ProgramHas
  <2>3. ArgumentsHas(disk, x, was'.prog[t], was'.argv[t], argc'[t])
    BY <1>3 DEF ArgumentsHas
  <2> QED BY <1>2, <2>1, <2>2, <2>3 DEF ImageHas
<1>8. \A u \in Tasks \ {t} : Same(u)
  BY <1>1, <1>2, <1>3 DEF Same
<1> QED BY <1>2, <1>3, <1>6, <1>7, <1>8, ImageFrame

-----------------------------------------------------------------------------
(* setup_task_argv *)

\* How many arguments are put into the image, and which words.
LEMMA StringsAre ==
  ASSUME NEW t, NEW argv, Len(argv) \in Nat
  PROVE  LET n == Len(Strings(t, argv))
         IN  /\ n \in Nat /\ n <= MAX_ARGV
             /\ Len(argv) <= MAX_ARGV => n = Len(argv)
             /\ \A i \in 1 .. n :
                  Strings(t, argv)[i] =
                    IF argv[i].from = -1 THEN argv[i].word ELSE Peek(t, argv[i].from)
<1> DEFINE m == IF Len(argv) < MAX_ARGV THEN Len(argv) ELSE MAX_ARGV
           g == [i \in 1 .. m |->
                   IF argv[i].from = -1 THEN argv[i].word ELSE Peek(t, argv[i].from)]
<1>1. m \in Nat /\ m <= MAX_ARGV /\ (Len(argv) <= MAX_ARGV => m = Len(argv))
  BY Constants
<1>2. Strings(t, argv) = g
  BY DEF Strings
<1> HIDE DEF m
<1>3. Len(g) = m
  BY <1>1
<1>4. \A i \in 1 .. m :
        g[i] = IF argv[i].from = -1 THEN argv[i].word ELSE Peek(t, argv[i].from)
  OBVIOUS
<1> HIDE DEF g
<1> QED BY <1>1, <1>2, <1>3, <1>4

\* What setup_task_argv does to the image.
LEMMA FinishView ==
  ASSUME SInv, NEW t \in Tasks, Finish(t),
         NEW argv, argv = call[t].argv, NEW strings, strings = Strings(t, argv),
         NEW n, n = Len(strings), NEW x, x = View(mem', img[t])
  PROVE  /\ \A a \in Room : a >= PageSize => x[a] = View(mem, img[t])[a]
         /\ \A i \in 1 .. n : /\ x[i - 1] = <<"ptr", MAX_ARGV + i - 1>>
                              /\ x[MAX_ARGV + i - 1] = strings[i]
         /\ n > 0 /\ argv[n].full => x[MAX_ARGV + n] = Nul
<1> DEFINE l == img[t]
           base == l[1] * PageSize
           v == View(mem, l)
<1>1. call[t].at = "load" /\ mem' = Arguments(l, strings, argv) /\ EInv
  BY OfStatic DEF Finish
<1>2. l \in Placements /\ Len(argv) \in Nat
  BY <1>1, OfCall DEF CallIs, CallOK
<1>3. n \in Nat /\ n <= MAX_ARGV
  BY <1>2, StringsAre
<1>4. base \in Nat /\ l[1] \in Nat
  <2>1. l[1] \in Nat /\ PageSize \in Nat
    BY <1>2, Constants
  <2> QED BY <2>1
<1>5. mem' = [q \in DOMAIN mem |->
         CASE q - base \in 0 .. n - 1 -> <<"ptr", MAX_ARGV + q - base>>
           [] q - base - MAX_ARGV \in 0 .. n - 1 -> strings[1 + q - base - MAX_ARGV]
           [] n > 0 /\ argv[n].full /\ q - base = MAX_ARGV + n -> Nul
           [] OTHER -> mem[q]]
  <2> DEFINE F(k) ==
        [q \in DOMAIN mem |->
           CASE q - base \in 0 .. k - 1 -> <<"ptr", MAX_ARGV + q - base>>
             [] q - base - MAX_ARGV \in 0 .. k - 1 -> strings[1 + q - base - MAX_ARGV]
             [] k > 0 /\ argv[k].full /\ q - base = MAX_ARGV + k -> Nul
             [] OTHER -> mem[q]]
  <2>1. mem' = F(Len(strings))
    BY <1>1, Zenon DEF Arguments
  <2> HIDE DEF F
  <2>2. mem' = F(n)
    BY <2>1, Zenon
  <2> QED BY <2>2, Zenon DEF F
<1>6. PageSize \in Nat /\ ImagePages * PageSize \in Nat /\ PageSize <= ImagePages * PageSize
  <2>1. PageSize \in Nat \ {0} /\ 0 \in Nat /\ ImagePages \in Nat /\ 0 < ImagePages
    BY Constants
  <2>2. 0 * PageSize + PageSize <= ImagePages * PageSize
    BY <2>1, MorePages
  <2> QED BY <2>1, <2>2
<1>7. ASSUME NEW r \in 0 .. PageSize - 1
      PROVE  /\ r \in Room /\ Kva(l, r) = base + r
             /\ base + r \in DOMAIN mem /\ x[r] = mem'[base + r]
  <2>1. r \in Room
    BY <1>6 DEF Room
  <2>2. Kva(l, 0 * PageSize + r) = l[1 + 0] * PageSize + r
    BY KvaOf
  <2>3. Kva(l, r) = base + r
    <3>1. 0 * PageSize + r = r /\ 1 + 0 = 1
      BY <1>6
    <3> QED BY <2>2, <3>1
  <2>4. Kva(l, r) \in DOMAIN mem /\ View(mem', l)[r] = mem'[Kva(l, r)]
    BY <1>1, <1>2, <2>1, ViewAt
  <2> HIDE DEF base
  <2> QED BY <2>1, <2>3, <2>4
<1>8. ASSUME NEW a \in Room, a >= PageSize
      PROVE  x[a] = v[a]
  <2> DEFINE p == Kva(l, a)
             z == p - base
  <2>1. p \in DOMAIN mem /\ x[a] = mem'[p] /\ v[a] = mem[p]
    BY <1>1, <1>2, ViewAt
  <2>2. p \in Int /\ z \in Int /\ base + z = p
    <3>1. (1 + Frames) * PageSize \in Nat
      BY Constants
    <3>2. p \in Int
      <4> HIDE DEF p
      <4> QED BY <1>1, <2>1, <3>1 DEF EInv, StatePart
    <3> HIDE DEF p, base
    <3> QED BY <1>4, <3>2
  <2>3. ~(z \in 0 .. PageSize - 1)
    <3> SUFFICES ASSUME z \in 0 .. PageSize - 1 PROVE FALSE
      OBVIOUS
    <3>1. z \in Room /\ Kva(l, z) = p
      <4> HIDE DEF z, p, base
      <4> QED BY <1>7, <2>2
    <3>2. z = a
      <4> HIDE DEF z
      <4> QED BY <1>2, <3>1, KvaInjective DEF Room, p
    <3>3. a \in Nat
      BY <1>6 DEF Room
    <3> HIDE DEF z
    <3> QED BY <1>6, <1>8, <3>2, <3>3
  <2>4. ~(z \in 0 .. n - 1) /\ ~(z - MAX_ARGV \in 0 .. n - 1) /\ ~(z = MAX_ARGV + n)
    <3>1. \A y \in Int : \A k, m, q \in Nat :
            k <= m /\ 2 * m < q /\ ~(y \in 0 .. q - 1) =>
              ~(y \in 0 .. k - 1) /\ ~(y - m \in 0 .. k - 1) /\ ~(y = m + k)
      OBVIOUS
    <3>2. MAX_ARGV \in Nat /\ PageSize \in Nat /\ 2 * MAX_ARGV < PageSize
      BY Constants
    <3>3. z \in Int
      BY <2>2
    <3> HIDE DEF z
    <3> QED BY <3>1, <3>2, <3>3, <1>3, <2>3
  <2> HIDE DEF p, base, v
  <2>5. mem'[p] = mem[p]
    BY <1>5, <2>1, <2>4, Zenon DEF z
  <2> QED BY <2>1, <2>5
<1>9. ASSUME NEW i \in 1 .. n
      PROVE  /\ x[i - 1] = <<"ptr", MAX_ARGV + i - 1>>
             /\ x[MAX_ARGV + i - 1] = strings[i]
  <2>1. i - 1 \in 0 .. PageSize - 1 /\ MAX_ARGV + i - 1 \in 0 .. PageSize - 1
        /\ i - 1 \in 0 .. n - 1 /\ MAX_ARGV \in Nat /\ i \in Nat
    BY <1>3, Constants
  <2> HIDE DEF base
  <2>2. x[i - 1] = mem'[base + (i - 1)] /\ base + (i - 1) \in DOMAIN mem
    BY <1>7, <2>1
  <2>3. x[MAX_ARGV + i - 1] = mem'[base + (MAX_ARGV + i - 1)]
        /\ base + (MAX_ARGV + i - 1) \in DOMAIN mem
    BY <1>7, <2>1
  <2>4. mem'[base + (i - 1)] = <<"ptr", MAX_ARGV + i - 1>>
    <3> DEFINE q == base + (i - 1)
    <3>1. /\ q - base \in 0 .. n - 1 /\ MAX_ARGV + q - base = MAX_ARGV + i - 1
          /\ ~(q - base - MAX_ARGV \in 0 .. n - 1) /\ q - base # MAX_ARGV + n
      BY <1>3, <1>4, <2>1
    <3> HIDE DEF q
    <3>2. q \in DOMAIN mem
      BY <2>2, SMTT(30) DEF q
    <3>3. mem'[q] = <<"ptr", MAX_ARGV + q - base>>
      BY <1>5, <3>1, <3>2, ZenonT(40)
    <3> QED BY <3>1, <3>3 DEF q
  <2>5. mem'[base + (MAX_ARGV + i - 1)] = strings[i]
    <3> DEFINE q == base + (MAX_ARGV + i - 1)
    <3>1. /\ ~(q - base \in 0 .. n - 1) /\ q - base - MAX_ARGV \in 0 .. n - 1
          /\ 1 + q - base - MAX_ARGV = i /\ q - base # MAX_ARGV + n
      BY <1>3, <1>4, <2>1
    <3> HIDE DEF q
    <3>2. q \in DOMAIN mem
      BY <2>3 DEF q
    <3>3. mem'[q] = strings[1 + q - base - MAX_ARGV]
      BY <1>5, <3>1, <3>2
    <3> QED BY <3>1, <3>3 DEF q
  <2> QED BY <2>2, <2>3, <2>4, <2>5
<1>10. ASSUME n > 0, argv[n].full
       PROVE  x[MAX_ARGV + n] = Nul
  <2>1. MAX_ARGV + n \in 0 .. PageSize - 1 /\ MAX_ARGV \in Nat
    BY <1>3, Constants
  <2> HIDE DEF base
  <2> DEFINE q == base + (MAX_ARGV + n)
  <2>2. x[MAX_ARGV + n] = mem'[q] /\ q \in DOMAIN mem
    BY <1>7, <2>1
  <2>3. /\ ~(q - base \in 0 .. n - 1) /\ ~(q - base - MAX_ARGV \in 0 .. n - 1)
        /\ q - base = MAX_ARGV + n
    BY <1>3, <1>4, <2>1
  <2> HIDE DEF q
  <2>4. mem'[q] = Nul
    BY <1>5, <1>10, <2>2, <2>3
  <2> QED BY <2>2, <2>4
<1> QED BY <1>8, <1>9, <1>10


LEMMA FinishImage ==
  ASSUME SInv, DInv, NEW t \in Tasks, Finish(t)
  PROVE  DInv'
<1> DEFINE c == call[t]
           f == FileOf(disk, c.name)
           v == View(mem, img[t])
           x == View(mem', img[t])
           argv == c.argv
           strings == Strings(t, argv)
           n == Len(strings)
<1>1. /\ c.at = "load" /\ c.secs = <<>> /\ disk' = disk /\ img' = img
      /\ EInv /\ Static(disk, c, was.prog[t], was.argv[t])
  BY OfStatic DEF Finish
<1>2. call'[t] = Idle /\ \A u \in Tasks \ {t} : call'[u] = call[u]
  BY OfStatic, OfCall DEF Finish
<1>3. /\ was'.prog[t] = c.name /\ was'.argv[t] = argv /\ was'.loaded = was.loaded
      /\ was'.short = was.short \ {t}
      /\ argc'[t] = Len(argv)
      /\ \A u \in Tasks \ {t} : /\ was'.prog[u] = was.prog[u] /\ was'.argv[u] = was.argv[u]
                                /\ argc'[u] = argc[u]
  BY OfStatic DEF Finish
<1>4. img[t] \in Placements /\ CallIs(disk, c, img[t], elf_size[t])
  BY <1>1, OfCall DEF CallIs
<1>5. f \in disk.files
  <2>1. c.at \in {"header", "str", "parse", "load"}
    BY <1>1
  <2> QED BY <1>4, <2>1, Zenon DEF CallIs, FileOf
<1>6. /\ \A k \in 1 .. Len(f.secs) :
           /\ f.secs[k] \in Sections
           /\ f.secs[k].addr + f.secs[k].size <= ImagePages * PageSize
      /\ Len(f.secs) \in Nat
  BY <1>1, <1>5, FileOfCall
<1>7. Done(disk, c) = Len(f.secs)
  <2>1. Len(c.secs) = 0
    BY <1>1
  <2>2. Done(disk, c) = Len(f.secs) - Len(c.secs)
    BY <1>1 DEF Done
  <2> HIDE DEF c, f
  <2> QED BY <1>6, <2>1, <2>2
<1>8. \A u \in Tasks \ {t} : Same(u)
  BY <1>1, <1>2, <1>3 DEF Same
<1>9. ASSUME NEW u \in Tasks \ {t}, img[u] # <<>>
      PROVE  View(mem', img[u]) = View(mem, img[u])
  <2>1. img[u] \in Placements /\ ToSet(img[u]) \cap ToSet(img[t]) = {}
    BY <1>1, <1>9, OfCall DEF EInv, ImagePart
  <2>2. ASSUME NEW p \in DOMAIN mem, OnPages(p, img[u])
        PROVE  mem'[p] = mem[p]
    <3>1. ~OnPages(p, img[t])
      BY <1>4, <2>1, <2>2, ListsApart
    <3> QED BY <1>1, <3>1, FinishWrites
  <2> QED BY <1>1, <2>1, <2>2, ViewKept
<1>10. ASSUME NoOverrun', img'[t] # <<>>
       PROVE  ImageHas(t)'
  <2>1. Shown(v, f, Len(f.secs)) /\ Kept(v, f, Len(f.secs), argv)
    <3>1. NoOverrun
      BY <1>1, <1>3, <1>10, NoOverrunBefore
    <3>2. CallHas(disk, v, c)
      BY <1>1, <1>10, <3>1 DEF DInv, ImageHas
    <3> HIDE DEF v
    <3> QED BY <1>1, <1>7, <3>2 DEF CallHas
  <2>2. /\ \A a \in Room : a >= PageSize => x[a] = v[a]
        /\ \A i \in 1 .. n : /\ x[i - 1] = <<"ptr", MAX_ARGV + i - 1>>
                             /\ x[MAX_ARGV + i - 1] = strings[i]
        /\ n > 0 /\ argv[n].full => x[MAX_ARGV + n] = Nul
    BY FinishView
  <2>3. ArgsTyped(argv) /\ Len(argv) \in Nat /\ \A i \in 1 .. Len(f.secs) : ~Bad(f.secs[i])
    <3> HIDE DEF c
    <3> QED BY <1>1, <1>7 DEF Static, ArgsTyped
  <2>4. /\ Len(argv) <= MAX_ARGV => n = Len(argv)
        /\ \A i \in 1 .. n :
             strings[i] = IF argv[i].from = -1 THEN argv[i].word ELSE Peek(t, argv[i].from)
    BY <2>3, StringsAre
  <2>5. \A a \in Room : Peek(t, a) = v[a]
    BY DEF Peek, View
  <2> HIDE DEF argv, f, v, x, strings, n
  <2>6. Shown(x, f, Len(f.secs))
    <3> SUFFICES ASSUME NEW i \in 1 .. Len(f.secs), NEW w \in 0 .. f.secs[i].size - 1,
                        f.secs[i].bss \/ f.secs[i].offset + w < f.size
                 PROVE  x[f.secs[i].addr + w] =
                          IF f.secs[i].bss THEN Zero ELSE <<f.name, f.secs[i].offset + w>>
      BY DEF Shown
    <3>1. f.secs[i].addr + w \in Room
      BY <1>6, SectionRoom
    <3>2. f.secs[i].addr + w >= PageSize
      <4>1. ~(f.secs[i].addr < PageSize)
        BY <2>3 DEF Bad
      <4>2. f.secs[i].addr \in Nat /\ f.secs[i].size \in Nat /\ PageSize \in Nat
        BY <1>6, Constants DEF Sections
      <4> QED BY <4>1, <4>2
    <3> QED BY <2>1, <2>2, <3>1, <3>2 DEF Shown
  <2>7. ASSUME Len(argv) <= MAX_ARGV
        PROVE  Placed(x, f, argv)
    <3>1. n = Len(argv)
      BY <2>4, <2>7
    <3> SUFFICES ASSUME NEW i \in 1 .. Len(argv), ~Cover(f, Len(f.secs), argv[i].from),
                        argv[i].full => i = Len(argv)
                 PROVE  /\ x[i - 1] = <<"ptr", MAX_ARGV + i - 1>>
                        /\ x[MAX_ARGV + i - 1] = argv[i].word
                        /\ argv[i].full => x[MAX_ARGV + i] = Nul
      BY DEF Placed
    <3>2. x[i - 1] = <<"ptr", MAX_ARGV + i - 1>> /\ x[MAX_ARGV + i - 1] = strings[i]
      BY <2>2, <3>1
    <3>3. strings[i] = argv[i].word
      <4>1. CASE argv[i].from = -1
        BY <2>4, <3>1, <4>1
      <4>2. CASE argv[i].from # -1
        <5>1. argv[i].from \in Room
          BY <2>3, <4>2, ArgRoom
        <5>2. v[argv[i].from] = argv[i].word
          BY <2>1, <4>2 DEF Kept
        <5> QED BY <2>4, <2>5, <3>1, <4>2, <5>1, <5>2
      <4> QED BY <4>1, <4>2
    <3>4. argv[i].full => x[MAX_ARGV + i] = Nul
      <4>1. n > 0
        BY <2>3, <3>1
      <4> QED BY <2>2, <3>1, <4>1
    <3> QED BY <3>2, <3>3, <3>4
  <2>8. ProgramHas(disk, x, c.name)
    BY <2>6 DEF ProgramHas, f
  <2>9. ArgumentsHas(disk, x, c.name, argv, Len(argv))
    BY <2>7 DEF ArgumentsHas, f
  <2>10. CallHas(disk, x, Idle)
    <3>1. Idle.at = "idle"
      BY DEF Idle
    <3> HIDE DEF Idle
    <3> QED BY <3>1 DEF CallHas
  <2> HIDE DEF Idle
  <2> QED BY <1>1, <1>2, <1>3, <2>8, <2>9, <2>10 DEF ImageHas, x
<1> QED BY <1>1, <1>3, <1>8, <1>9, <1>10, ImageFrame

-----------------------------------------------------------------------------
(* copy_process_memory *)

\* The child sees what its parent sees, as far as fork copies.
LEMMA ForkView ==
  ASSUME EInv, NEW t \in Tasks, img[t] \in Placements, NEW l \in Placements,
         mem' = Copied(img[t], l, elf_size[t]),
         NEW a \in 0 .. page_nr(elf_size[t] + PageSize) * PageSize - 1
  PROVE  View(mem', l)[a] = View(mem, img[t])[a]
<1> DEFINE Z == page_nr(elf_size[t] + PageSize) * PageSize
           p == Kva(l, a)
           as == {b \in 0 .. Z - 1 : Kva(l, b) = p}
<1>1. \A b \in 0 .. Z - 1 : b \in Room
  BY CopyRoom DEF Room
<1>2. a \in Room
  BY <1>1
<1>3. p \in DOMAIN mem /\ View(mem', l)[a] = mem'[p]
  BY <1>2, ViewAt
<1>4. View(mem, img[t])[a] = mem[Kva(img[t], a)]
  BY <1>2, ViewAt
<1>5. as = {a}
  <2>1. \A b \in 0 .. Z - 1 : Kva(l, b) = p => b = a
    BY <1>1, <1>2, KvaInjective DEF Room
  <2> HIDE DEF p
  <2>2. p = Kva(l, a)
    BY DEF p
  <2> HIDE DEF Z
  <2>3. a \in 0 .. Z - 1
    BY DEF Z
  <2> QED BY <2>1, <2>2, <2>3
<1>6. mem'[p] = IF as = {} THEN mem[p] ELSE mem[Kva(img[t], CHOOSE b \in as : TRUE)]
  <2> HIDE DEF p
  <2> QED BY <1>3 DEF Copied
<1> HIDE DEF as, p
<1>7. (CHOOSE b \in as : TRUE) = a /\ as # {}
  BY <1>5
<1> QED BY <1>3, <1>4, <1>6, <1>7

LEMMA ForkImage ==
  ASSUME SInv, DInv, NEW t \in Tasks, NEW u \in Tasks, Fork(t, u)
  PROVE  DInv'
<1> DEFINE Z == page_nr(elf_size[t] + PageSize) * PageSize
           p == was.prog[t]
           f == FileOf(disk, p)
           argv == was.argv[t]
           v == View(mem, img[t])
<1>1. PICK l \in Placements : /\ Free(l) /\ img' = [img EXCEPT ![u] = l]
                              /\ mem' = Copied(img[t], l, elf_size[t])
  BY DEF Fork
<1> DEFINE x == View(mem', l)
<1>2. /\ disk' = disk /\ call' = call /\ EInv /\ img[t] # <<>> /\ img[u] = <<>>
      /\ img[t] \in Placements
  BY OfStatic, OfCall DEF Fork, Alive
<1>3. img'[u] = l /\ \A y \in Tasks \ {u} : img'[y] = img[y]
  BY <1>1, <1>2, OfCall
<1>4. /\ was'.prog[u] = p /\ was'.argv[u] = argv /\ was'.loaded = was.loaded
      /\ was'.short = IF Short(t) THEN was.short \cup {u} ELSE was.short \ {u}
      /\ argc'[u] = argc[t]
      /\ \A y \in Tasks \ {u} : /\ was'.prog[y] = was.prog[y] /\ was'.argv[y] = was.argv[y]
                                /\ argc'[y] = argc[y]
  BY OfStatic DEF Fork
<1>5. \A y \in Tasks \ {u} : Same(y)
  BY <1>2, <1>3, <1>4 DEF Same
<1>6. ASSUME NEW y \in Tasks \ {u}, img[y] # <<>>
      PROVE  View(mem', img[y]) = View(mem, img[y])
  <2>1. img[y] \in Placements /\ ToSet(img[y]) \cap ToSet(l) = {}
    BY <1>1, <1>2, <1>6, OfCall DEF Free
  <2>2. ASSUME NEW q \in DOMAIN mem, OnPages(q, img[y])
        PROVE  mem'[q] = mem[q]
    <3>1. ~OnPages(q, l)
      BY <2>1, <2>2, ListsApart
    <3> QED BY <1>1, <1>2, <3>1, ForkWrites
  <2> QED BY <1>2, <2>1, <2>2, ViewKept
<1>7. \A a \in 0 .. Z - 1 : x[a] = v[a]
  BY <1>1, <1>2, ForkView
<1>8. ASSUME NoOverrun', img'[u] # <<>>
      PROVE  ImageHas(u)'
  <2>1. /\ t \notin was.short => ProgramHas(disk, v, p)
        /\ ArgumentsHas(disk, v, p, argv, argc[t])
    <3>1. NoOverrun
      BY <1>2, <1>4, <1>8, NoOverrunBefore
    <3> QED BY <1>2, <3>1 DEF DInv, ImageHas
  <2>2. CallHas(disk, x, call[u])
    <3>1. call[u].at = "idle"
      BY <1>2, OfCall, Zenon DEF CallIs
    <3> QED BY <3>1 DEF CallHas
  <2>3. Z \in Nat /\ PageSize <= Z /\ PageSize \in Nat
    BY <1>2, CopyStays, Constants
  <2>4. ASSUME ~Short(t), Named(p)
        PROVE  Shown(x, f, Len(f.secs))
    <3>1. t \notin was.short /\ f \in disk.files
      BY <2>4, OfStatic DEF Short, Static
    <3>2. Shown(v, f, Len(f.secs))
      BY <2>1, <2>4, <3>1 DEF ProgramHas
    <3>3. /\ \A k \in 1 .. Len(f.secs) : f.secs[k] \in Sections
          /\ Len(f.secs) \in Nat /\ DOMAIN f.secs = 1 .. Len(f.secs)
      <4>1. f.secs \in Seq(Sections)
        BY <1>2, <3>1, FileOfCall
      <4> HIDE DEF f
      <4> QED BY <4>1
    <3>4. \A k \in 1 .. Len(f.secs) : ~(f.secs[k].addr + f.secs[k].size > Z)
      <4>1. f = Elf(p)
        BY DEF Elf, FileOf
      <4>2. \A k \in DOMAIN f.secs : ~(f.secs[k].addr + f.secs[k].size > Z)
        <5> HIDE DEF f
        <5> QED BY <2>4, <4>1, Zenon DEF Short, Named
      <4> QED BY <3>3, <4>2
    <3> HIDE DEF f, v, x, Z
    <3> SUFFICES ASSUME NEW i \in 1 .. Len(f.secs), NEW w \in 0 .. f.secs[i].size - 1,
                        f.secs[i].bss \/ f.secs[i].offset + w < f.size
                 PROVE  x[f.secs[i].addr + w] =
                          IF f.secs[i].bss THEN Zero ELSE <<f.name, f.secs[i].offset + w>>
      BY DEF Shown
    <3>5. f.secs[i].addr + w \in 0 .. Z - 1
      <4>1. f.secs[i].addr \in Nat /\ f.secs[i].size \in Nat
        BY <3>3 DEF Sections
      <4>2. ~(f.secs[i].addr + f.secs[i].size > Z)
        BY <3>4
      <4>3. \A b, k, z \in Nat : ~(b + k > z) => \A y \in 0 .. k - 1 : b + y \in 0 .. z - 1
        OBVIOUS
      <4> QED BY <2>3, <4>1, <4>2, <4>3
    <3> QED BY <1>7, <3>2, <3>5 DEF Shown
  <2>5. u \notin was'.short => ProgramHas(disk, x, p)
    <3>1. u \notin was'.short => ~Short(t)
      BY <1>4
    <3> QED BY <2>4, <3>1 DEF ProgramHas
  <2>6. ASSUME Named(p), Len(argv) <= MAX_ARGV
        PROVE  argc[t] = Len(argv) /\ Placed(x, f, argv)
    <3>1. argc[t] = Len(argv) /\ Placed(v, f, argv)
      BY <2>1, <2>6 DEF ArgumentsHas
    <3>2. Len(argv) \in Nat
      BY OfStatic DEF Static, ArgsTyped
    <3> HIDE DEF f, v, x, Z, argv
    <3>3. ASSUME NEW i \in 1 .. Len(argv)
          PROVE  /\ x[i - 1] = v[i - 1] /\ x[MAX_ARGV + i - 1] = v[MAX_ARGV + i - 1]
                 /\ x[MAX_ARGV + i] = v[MAX_ARGV + i]
      <4>1. /\ i - 1 \in 0 .. Z - 1 /\ MAX_ARGV + i - 1 \in 0 .. Z - 1
            /\ MAX_ARGV + i \in 0 .. Z - 1
        BY <2>3, <2>6, <3>2, Constants
      <4> QED BY <1>7, <4>1
    <3> QED BY <3>1, <3>3 DEF Placed
  <2>7. ArgumentsHas(disk, x, p, argv, argc[t])
    BY <2>6 DEF ArgumentsHas
  <2> QED BY <1>2, <1>3, <1>4, <2>2, <2>5, <2>7 DEF ImageHas
<1> QED BY <1>2, <1>4, <1>5, <1>6, <1>8, ImageFrame


-----------------------------------------------------------------------------
(* The theorems about images *)

LEMMA DInvInit == ExecInit => DInv
BY DEF ExecInit, DInv

LEMMA DInvStep == SInv /\ DInv /\ [ExecNext]_execVars => DInv'
<1> SUFFICES ASSUME SInv, DInv, [ExecNext]_execVars PROVE DInv'
  OBVIOUS
<1>1. CASE UNCHANGED execVars
  BY <1>1 DEF DInv, ImageHas, NoOverrun, Elf, execVars
<1>2. ASSUME NEW t \in Tasks, NEW name \in Names, NEW argv \in Argvs,
             KernelExec(t, name, argv) \/ UserExec(t, name, argv)
      PROVE  DInv'
  BY <1>2, KernelExecImage, UserExecImage
<1>3. ASSUME NEW t \in Tasks, OpenFails(t) \/ HeaderFails(t) \/ StrFails(t)
                              \/ ParseFails(t) \/ LoadFails(t)
      PROVE  DInv'
  <2>1. Failed(t) /\ UNCHANGED <<disk, mem, argc, was>>
    BY <1>3 DEF OpenFails, HeaderFails, StrFails, ParseFails, LoadFails
  <2> QED BY <2>1, FailedImage
<1>4. ASSUME NEW t \in Tasks, Open(t)
      PROVE  DInv'
  <2>1. PICK h \in Lookup(call[t].name) :
               call' = [call EXCEPT ![t].at = "header", ![t].file = h]
    BY <1>4 DEF Open
  <2>2. /\ \A u \in Tasks \ {t} : call'[u] = call[u]
        /\ call'[t].at = "header" /\ call'[t].argv = call[t].argv
    BY <2>1, OfStatic, OfCall DEF Fields
  <2>3. call[t].at = "open" /\ UNCHANGED <<disk, mem, img, argc, was>>
    BY <1>4 DEF Open
  <2> QED BY <2>2, <2>3, StageImage
<1>5. ASSUME NEW t \in Tasks, Header(t) \/ Str(t)
      PROVE  DInv'
  <2>1. /\ UNCHANGED <<disk, mem, img, argc, was>> /\ call[t].at \in {"header", "str"}
        /\ \E s \in {"str", "parse"} : call' = [call EXCEPT ![t].at = s]
    BY <1>5 DEF Header, Str
  <2>2. /\ \A u \in Tasks \ {t} : call'[u] = call[u]
        /\ call'[t].at # "load" /\ call'[t].argv = call[t].argv
    BY <2>1, OfStatic, OfCall DEF Fields
  <2> QED BY <2>1, <2>2, StageImage
<1>6. ASSUME NEW t \in Tasks, Parse(t)
      PROVE  DInv'
  <2> DEFINE f == FileOf(disk, call[t].name)
  <2>1. f = Elf(call[t].name)
    BY DEF Elf, FileOf
  <2>2. call[t].at = "parse" /\ UNCHANGED <<disk, mem, img, argc, was>>
    BY <1>6 DEF Parse
  <2>3. /\ \A u \in Tasks \ {t} : call'[u] = call[u]
        /\ call'[t].at = "load" /\ call'[t].argv = call[t].argv
        /\ call'[t].name = call[t].name /\ call'[t].secs = f.secs
    <3> HIDE DEF f
    <3> QED BY <1>6, <2>1, OfStatic, OfCall DEF Parse, Fields
  <2>4. Len(f.secs) \in Nat
    BY <2>1, <2>2, OfStatic, OfCall, FileOfCall DEF CallIs, Elf
  <2>5. Done(disk, call'[t]) = 0
    <3>1. Done(disk, call'[t]) = Len(f.secs) - Len(f.secs)
      BY <2>3 DEF Done
    <3> HIDE DEF f
    <3> QED BY <2>4, <3>1
  <2> QED BY <2>2, <2>3, <2>5, StageImage
<1>7. ASSUME NEW t \in Tasks, LoadSection(t) \/ Finish(t) \/ Exit(t)
      PROVE  DInv'
  BY <1>7, LoadImage, FinishImage, ExitImage
<1>8. ASSUME NEW t \in Tasks, NEW u \in Tasks, Fork(t, u)
      PROVE  DInv'
  BY <1>8, ForkImage
<1> QED
  BY <1>1, <1>2, <1>3, <1>4, <1>5, <1>6, <1>7, <1>8 DEF ExecNext

LEMMA ImagesAlways == ExecSpec => [](SInv /\ DInv)
BY SInvInit, SInvStep, DInvInit, DInvStep, PTL DEF ExecSpec

\* What the invariant says of a process that runs.
LEMMA OfRunning ==
  ASSUME SInv, DInv, NoOverrun, NEW t \in Tasks, Running(t)
  PROVE  LET v == View(mem, img[t])
             f == Elf(was.prog[t])
         IN  /\ f \in disk.files /\ DOMAIN f.secs = 1 .. Len(f.secs)
             /\ \A i \in 1 .. Len(f.secs) : \A w \in 0 .. f.secs[i].size - 1 :
                  f.secs[i].addr + w \in Room
             /\ t \notin was.short => Shown(v, f, Len(f.secs))
             /\ Len(was.argv[t]) <= MAX_ARGV =>
                  argc[t] = Len(was.argv[t]) /\ Placed(v, f, was.argv[t])
             /\ \A a \in Room : Peek(t, a) = v[a]
<1> DEFINE v == View(mem, img[t])
           f == Elf(was.prog[t])
<1>1. img[t] # <<>> /\ Named(was.prog[t])
  BY Zenon DEF Running, Alive, Named
<1>2. f = FileOf(disk, was.prog[t])
  BY DEF Elf, FileOf
<1>3. f \in disk.files
  BY <1>1, <1>2, OfStatic DEF Static
<1>4. /\ f.secs \in Seq(Sections)
      /\ \A k \in 1 .. Len(f.secs) :
           /\ f.secs[k] \in Sections
           /\ f.secs[k].addr + f.secs[k].size <= ImagePages * PageSize
  BY <1>3, OfStatic, FileOfCall
<1>5. ImageHas(t)
  BY <1>1 DEF DInv
<1>6. /\ t \notin was.short => Shown(v, f, Len(f.secs))
      /\ Len(was.argv[t]) <= MAX_ARGV =>
           argc[t] = Len(was.argv[t]) /\ Placed(v, f, was.argv[t])
  BY <1>1, <1>2, <1>5 DEF ImageHas, ProgramHas, ArgumentsHas
<1>7. \A a \in Room : Peek(t, a) = v[a]
  BY DEF Peek, View
<1> HIDE DEF f, v
<1>8. DOMAIN f.secs = 1 .. Len(f.secs)
  BY <1>4
<1>9. \A i \in 1 .. Len(f.secs) : \A w \in 0 .. f.secs[i].size - 1 :
        f.secs[i].addr + w \in Room
  BY <1>4, SectionRoom
<1>10. /\ f \in disk.files /\ DOMAIN f.secs = 1 .. Len(f.secs)
       /\ \A i \in 1 .. Len(f.secs) : \A w \in 0 .. f.secs[i].size - 1 :
            f.secs[i].addr + w \in Room
       /\ t \notin was.short => Shown(v, f, Len(f.secs))
       /\ Len(was.argv[t]) <= MAX_ARGV =>
            argc[t] = Len(was.argv[t]) /\ Placed(v, f, was.argv[t])
       /\ \A a \in Room : Peek(t, a) = v[a]
  BY <1>3, <1>6, <1>7, <1>8, <1>9
<1> QED BY <1>10 DEF f, v

\* Whatever directory the ramdisk was made of and however many processes call exec,
\* fork and exit in whatever order: a process runs what is in its file.
THEOREM ProgramsRunAsLinked == ExecSpec => []ImageIsTheFile
<1>1. SInv /\ DInv => ImageIsTheFile
  <2> SUFFICES ASSUME SInv, DInv, NoOverrun, NEW t \in Tasks, Running(t), t \notin was.short,
                      NEW f, f = Elf(was.prog[t]),
                      NEW i \in DOMAIN f.secs, NEW w \in 0 .. f.secs[i].size - 1,
                      f.secs[i].bss \/ f.secs[i].offset + w < f.size
               PROVE  Peek(t, f.secs[i].addr + w) =
                        IF f.secs[i].bss THEN Zero ELSE <<f.name, f.secs[i].offset + w>>
    BY DEF ImageIsTheFile
  <2> DEFINE v == View(mem, img[t])
  <2>1. /\ i \in 1 .. Len(f.secs) /\ f.secs[i].addr + w \in Room
        /\ Shown(v, f, Len(f.secs)) /\ \A a \in Room : Peek(t, a) = v[a]
    BY OfRunning
  <2> HIDE DEF v
  <2>2. v[f.secs[i].addr + w] =
          IF f.secs[i].bss THEN Zero ELSE <<f.name, f.secs[i].offset + w>>
    BY <2>1, Zenon DEF Shown
  <2>3. Peek(t, f.secs[i].addr + w) = v[f.secs[i].addr + w]
    BY <2>1, Zenon
  <2> QED BY <2>2, <2>3, Zenon
<1> QED BY <1>1, ImagesAlways, PTL

\* A process finds the arguments of the call that made it, also in a child.
THEOREM ArgumentsAlwaysArrive == ExecSpec => []ArgumentsArrive
<1>1. SInv /\ DInv => ArgumentsArrive
  <2> SUFFICES ASSUME SInv, DInv, NoOverrun, NEW t \in Tasks, Running(t),
                      Len(was.argv[t]) <= MAX_ARGV,
                      NEW f, f = Elf(was.prog[t]), NEW argv, argv = was.argv[t]
               PROVE  /\ argc[t] = Len(argv)
                      /\ \A i \in DOMAIN argv :
                           ~(\E k \in DOMAIN f.secs : argv[i].from \in Extent(f.secs[k]))
                             /\ (argv[i].full => i = Len(argv)) =>
                           /\ Peek(t, i - 1) = <<"ptr", MAX_ARGV + i - 1>>
                           /\ Peek(t, MAX_ARGV + i - 1) = argv[i].word
                           /\ argv[i].full => Peek(t, MAX_ARGV + i) = Nul
    BY DEF ArgumentsArrive
  <2> DEFINE v == View(mem, img[t])
  <2>1. /\ DOMAIN f.secs = 1 .. Len(f.secs)
        /\ argc[t] = Len(argv) /\ Placed(v, f, argv)
        /\ \A a \in Room : Peek(t, a) = v[a]
    BY OfRunning
  <2>2. Len(argv) \in Nat /\ DOMAIN argv = 1 .. Len(argv)
    BY OfStatic DEF Static, ArgsTyped
  <2> HIDE DEF v
  <2>3. ASSUME NEW i \in DOMAIN argv
        PROVE  i - 1 \in Room /\ MAX_ARGV + i - 1 \in Room /\ MAX_ARGV + i \in Room
    <3>1. 0 * PageSize + PageSize <= ImagePages * PageSize
      <4>1. PageSize \in Nat \ {0} /\ 0 \in Nat /\ ImagePages \in Nat /\ 0 < ImagePages
        BY Constants
      <4> QED BY <4>1, MorePages
    <3>2. PageSize \in Nat /\ ImagePages * PageSize \in Nat /\ PageSize <= ImagePages * PageSize
      BY <3>1, Constants
    <3>3. i \in 1 .. MAX_ARGV
      BY <2>2, Constants
    <3> DEFINE Z == ImagePages * PageSize
    <3>4. Z \in Nat /\ PageSize \in Nat /\ PageSize <= Z
      BY <3>2
    <3> HIDE DEF Z
    <3>5. i - 1 \in 0 .. Z - 1 /\ MAX_ARGV + i - 1 \in 0 .. Z - 1 /\ MAX_ARGV + i \in 0 .. Z - 1
      BY <3>3, <3>4, Constants
    <3> QED BY <3>5 DEF Room, Z
  <2>4. ASSUME NEW i \in DOMAIN argv,
               ~(\E k \in DOMAIN f.secs : argv[i].from \in Extent(f.secs[k])),
               argv[i].full => i = Len(argv)
        PROVE  /\ Peek(t, i - 1) = <<"ptr", MAX_ARGV + i - 1>>
               /\ Peek(t, MAX_ARGV + i - 1) = argv[i].word
               /\ argv[i].full => Peek(t, MAX_ARGV + i) = Nul
    <3>1. ~Cover(f, Len(f.secs), argv[i].from)
      BY <2>1, <2>4 DEF Cover
    <3>2. /\ v[i - 1] = <<"ptr", MAX_ARGV + i - 1>>
          /\ v[MAX_ARGV + i - 1] = argv[i].word
          /\ argv[i].full => v[MAX_ARGV + i] = Nul
      BY <2>1, <2>2, <2>4, <3>1 DEF Placed
    <3> QED BY <2>1, <2>3, <3>2
  <2> QED BY <2>1, <2>4
<1> QED BY <1>1, ImagesAlways, PTL

=============================================================================
