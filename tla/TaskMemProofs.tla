--------------------------- MODULE TaskMemProofs ---------------------------
(***************************************************************************)
(* Proofs about PageAlloc, for requests of one page, the only ones that    *)
(* running tasks make, and about TaskMem, for any number of tasks, any     *)
(* sizes of stack and image and any memory.                                *)
(*                                                                         *)
(* The allocator.  NoSharing is not inductive alone: that freeing a block  *)
(* clears its own bit only rests on the count that init_pages left in      *)
(* struct page, and that a clear bit is not one of the kernel's on the     *)
(* bits of Fixed being set for good.  AInv adds the accounting: the page   *)
(* at the end of the zone is clear unless the search has passed it, so the *)
(* search always goes forward.                                             *)
(*                                                                         *)
(* The tasks.  A list loses its head or gains a page at its end, and       *)
(* nothing else happens to the lists (Gains, Loses).  A page is put on a   *)
(* list when init_pages hands it over and is freed when it leaves, so      *)
(* lists and allocator agree; a page on a list is then one the task holds, *)
(* whose header says 1 (PInv), so that every free is one PageAlloc allows. *)
(* That fork ends with everything or nothing needs the shape of the lists  *)
(* at each stage (Shape).                                                  *)
(***************************************************************************)
EXTENDS TaskMem, TLAPS, FiniteSetTheorems, WellFoundedInduction

-----------------------------------------------------------------------------
(* The page allocator *)

\* The inductive invariant.
PInv ==
  /\ PageTypeOK
  /\ NoSharing
  /\ Fixed \subseteq page_map
  /\ \A c \in Clients : \A b \in Has(c) : b[2] = 1
  /\ \A c \in Clients : \A b \in blocks[c] :
        page[b[1]] = [header |-> TRUE, count |-> 1]
  /\ \A c \in Clients : pending[c] \notin blocks[c]

\* A set of page numbers that is not empty has a least element.
LEMMA LeastPage ==
  ASSUME NEW S, S \subseteq Nat, S # {}
  PROVE  \E m \in S : \A y \in S : m <= y
<1>1. PICK x \in S : \A y \in S : ~(<<y, x>> \in OpToRel(<, Nat))
  BY NatLessThanWellFounded, WFMin
<1>2. \A y \in S : ~(y < x)
  BY <1>1 DEF OpToRel
<1> QED  BY <1>2

\* The first element of a set of page numbers with at least one element is
\* an element of it: find_continous_pages stops at a clear bit.
LEMMA NthOne ==
  ASSUME NEW S, S \subseteq Nat, IsFiniteSet(S), Cardinality(S) >= 1
  PROVE  Nth(S, 1) \in S
<1>1. S # {}
  BY FS_EmptySet
<1>2. PICK m \in S : \A y \in S : m <= y
  BY <1>1, LeastPage
<1>3. {j \in S : j <= m} = {m}
  <2>1. \A j \in S : j \in Nat /\ m \in Nat /\ m <= j
    BY <1>2
  <2>2. \A j \in S : j <= m <=> j = m
    BY <2>1
  <2> QED  BY <2>2
<1>4. Cardinality({j \in S : j <= m}) = 1
  BY <1>3, FS_Singleton
<1> QED  BY <1>4 DEF Nth

\* Arithmetic on the result of a search.
LEMMA MinusPlus == \A i \in Nat : i - 1 + 1 = i
OBVIOUS

\* A search for one page that does not fail returns a page whose bit is clear.
LEMMA SearchFindsClear ==
  ASSUME PageTypeOK, find_continous_pages(1) # 0
  PROVE  find_continous_pages(1) \in Bits \ page_map
<1> USE PageAssumption
<1>1. /\ FirstPass \subseteq Bits \ page_map
      /\ SecondPass \subseteq Bits \ page_map
  BY DEF PageTypeOK, FirstPass, SecondPass, Clear, Bits, bm_end, bm_start
<1>2. IsFiniteSet(Bits)
  BY FS_Interval DEF Bits
<1>3. IsFiniteSet(FirstPass) /\ IsFiniteSet(SecondPass)
  BY <1>1, <1>2, FS_Subset
<1>4. FirstPass \subseteq Nat /\ SecondPass \subseteq Nat
  BY <1>1 DEF Bits
<1>5. CASE Cardinality(FirstPass) >= 1
  <2>1. Nth(FirstPass, 1) \in FirstPass
    BY <1>3, <1>4, <1>5, NthOne
  <2>2. find_continous_pages(1) = Nth(FirstPass, 1) - 1 + 1
    BY <1>5 DEF find_continous_pages
  <2>3. Nth(FirstPass, 1) - 1 + 1 = Nth(FirstPass, 1)
    BY <2>1, <1>4, MinusPlus
  <2> QED  BY <2>1, <2>2, <2>3, <1>1
<1>6. CASE ~(Cardinality(FirstPass) >= 1)
  <2>1. Cardinality(SecondPass) >= 1
    BY <1>6 DEF find_continous_pages
  <2>2. Nth(SecondPass, 1) \in SecondPass
    BY <1>3, <1>4, <2>1, NthOne
  <2>3. find_continous_pages(1) = Nth(SecondPass, 1) - 1 + 1
    BY <1>6, <2>1 DEF find_continous_pages
  <2>4. Nth(SecondPass, 1) - 1 + 1 = Nth(SecondPass, 1)
    BY <2>2, <1>4, MinusPlus
  <2> QED  BY <2>2, <2>3, <2>4, <1>1
<1> QED  BY <1>5, <1>6

\* A block of one page.
LEMMA OnePage ==
  ASSUME NEW p \in Int
  PROVE  Block(p, 1) = {p}
BY DEF Block

\* The page of the vectors exists.
LEMMA VectorPage ==
  get_free_page_aligin \in Aligned /\ get_free_page_aligin >= Kernel
<1> DEFINE S == {p \in Aligned : p >= Kernel}
<1>0. \A p \in Aligned : p \in Nat
  <2>1. Aligned \subseteq 0 .. Normal - 1
    BY PageAssumption
  <2>2. \A p \in 0 .. Normal - 1 : p \in Nat
    OBVIOUS
  <2> QED  BY <2>1, <2>2
<1>1. S \subseteq Nat /\ S # {}
  BY <1>0, PageAssumption
<1>2. PICK m \in S : \A y \in S : m <= y
  BY <1>1, LeastPage
<1>3. m \in Aligned /\ m >= Kernel /\ \A r \in Aligned : r >= Kernel => m <= r
  BY <1>2
<1> QED  BY <1>3 DEF get_free_page_aligin

\* The pages of the kernel are pages.
LEMMA FixedBits == Fixed \subseteq Bits
BY VectorPage, PageAssumption DEF Fixed, Bits

\* The invariant holds at boot.
LEMMA PageInitPInv == PageInit => PInv
<1> SUFFICES ASSUME PageInit PROVE PInv
  OBVIOUS
<1> USE PageAssumption
<1>1. PICK junk \in SUBSET (Normal + Dma + 1 .. Top) : page_map = Fixed \cup junk
  BY DEF PageInit
<1>2. page_map \subseteq Bits /\ Fixed \subseteq page_map
  BY <1>1, FixedBits DEF Bits
<1>3. \A c \in Clients : Has(c) = {} /\ blocks[c] = {}
  BY DEF PageInit, Has
<1>4. bm_current \in 0 .. Top + 1 /\ free_pages \in Int
  BY DEF PageInit
<1>5. page \in [Bits -> [header : BOOLEAN, count : 0 .. 255]]
  BY DEF PageInit
<1>6. /\ pending \in [Clients -> Bits \X Nat]
      /\ blocks \in [Clients -> SUBSET (Bits \X Nat)]
  BY DEF PageInit, None, Bits
<1>7. \A c \in Clients : pending[c] \notin blocks[c]
  BY <1>3
<1> QED  BY <1>2, <1>3, <1>4, <1>5, <1>6, <1>7 DEF PInv, PageTypeOK, NoSharing

-----------------------------------------------------------------------------

\* What get_free_pages(1) does when it succeeds: one page whose bit was clear
\* is taken by client c.
LEMMA GetEffect ==
  ASSUME PInv, NEW c \in Clients, GetFreePages(c, 1)
  PROVE  LET i == find_continous_pages(1) IN
         /\ i \in Bits \ page_map /\ i # 0 /\ i \in Nat
         /\ Block(i, 1) = {i}
         /\ page_map' = page_map \cup {i}
         /\ bm_current' = i + 1
         /\ free_pages' = free_pages - 1
         /\ pending' = [pending EXCEPT ![c] = <<i, 1>>]
         /\ page' = page /\ blocks' = blocks
         /\ \A d \in Clients : d # c => Has(d)' = Has(d)
         /\ Has(c)' = Has(c) \cup {<<i, 1>>}
<1> USE PageAssumption
<1> DEFINE i == find_continous_pages(1)
<1>1. i \in Bits \ page_map /\ i # 0
  BY SearchFindsClear DEF PInv, GetFreePages
<1>2. i \in Nat /\ Block(i, 1) = {i}
  BY <1>1, OnePage DEF Bits
<1> HIDE DEF i
<1>3. /\ page_map' = page_map \cup {i}
      /\ bm_current' = i + 1
      /\ free_pages' = free_pages - 1
      /\ pending' = [pending EXCEPT ![c] = <<i, 1>>]
      /\ pending[c] = None
      /\ page' = page /\ blocks' = blocks
  BY <1>2 DEF GetFreePages, i
<1>4. /\ \A d \in Clients : d # c => Has(d)' = Has(d)
      /\ Has(c)' = Has(c) \cup {<<i, 1>>}
  <2>1. pending \in [Clients -> Bits \X Nat]
    BY DEF PInv, PageTypeOK
  <2>2. <<i, 1>> # None
    BY <1>2 DEF None
  <2> QED  BY <1>3, <2>1, <2>2 DEF Has
<1> QED  BY <1>1, <1>2, <1>3, <1>4 DEF i

\* get_free_pages(1) keeps the invariant: the page found is nobody's, since
\* the bit of every page somebody has is set.
LEMMA GetKeeps ==
  ASSUME PInv, NEW c \in Clients, GetFreePages(c, 1)
  PROVE  PInv'
<1> USE PageAssumption
<1> DEFINE i == find_continous_pages(1)
<1>0. /\ i \in Bits \ page_map /\ i # 0 /\ i \in Nat
      /\ Block(i, 1) = {i}
      /\ page_map' = page_map \cup {i}
      /\ bm_current' = i + 1
      /\ free_pages' = free_pages - 1
      /\ pending' = [pending EXCEPT ![c] = <<i, 1>>]
      /\ page' = page /\ blocks' = blocks
      /\ \A d \in Clients : d # c => Has(d)' = Has(d)
      /\ Has(c)' = Has(c) \cup {<<i, 1>>}
  BY GetEffect
<1> HIDE DEF i
<1>1. i \in Bits \ page_map /\ i # 0
  BY <1>0
<1>2. i \in Nat /\ Block(i, 1) = {i}
  BY <1>0
<1>3. /\ page_map' = page_map \cup {i}
      /\ bm_current' = i + 1
      /\ free_pages' = free_pages - 1
      /\ pending' = [pending EXCEPT ![c] = <<i, 1>>]
      /\ page' = page /\ blocks' = blocks
  BY <1>0
<1>4. PageTypeOK'
  BY <1>1, <1>2, <1>3 DEF PInv, PageTypeOK, Bits
<1>5. /\ \A d \in Clients : d # c => Has(d)' = Has(d)
      /\ Has(c)' = Has(c) \cup {<<i, 1>>}
  BY <1>0
<1>6. \A d \in Clients : \A b \in Has(d) :
         b[2] = 1 /\ Block(b[1], b[2]) \subseteq page_map \ Fixed
  BY DEF PInv, NoSharing
<1>7. \A d \in Clients : \A b \in Has(d)' :
         (b = <<i, 1>> /\ d = c) \/ b \in Has(d)
  BY <1>5
<1>8. i \notin Fixed
  BY <1>1 DEF PInv
<1>9. NoSharing'
  <2> SUFFICES ASSUME NEW d \in Clients, NEW b \in Has(d)',
                      NEW f \in Clients, NEW e \in Has(f)'
               PROVE  /\ Block(b[1], b[2]) \subseteq page_map' \ Fixed
                      /\ d # f \/ b # e =>
                           Block(b[1], b[2]) \cap Block(e[1], e[2]) = {}
    BY DEF NoSharing
  <2>1. CASE b = <<i, 1>> /\ e = <<i, 1>>
    <3>1. d = f
      BY <2>1, <1>7, <1>6, <1>2, <1>1
    <3> QED  BY <2>1, <3>1, <1>2, <1>3, <1>8
  <2>2. CASE b = <<i, 1>> /\ e \in Has(f)
    BY <2>2, <1>1, <1>2, <1>3, <1>6, <1>8
  <2>3. CASE b \in Has(d) /\ e = <<i, 1>>
    BY <2>3, <1>1, <1>2, <1>3, <1>6
  <2>4. CASE b \in Has(d) /\ e \in Has(f)
    BY <2>4, <1>3 DEF PInv, NoSharing
  <2> QED  BY <2>1, <2>2, <2>3, <2>4, <1>7
<1>10. Fixed \subseteq page_map'
  BY <1>3 DEF PInv
<1>11. \A d \in Clients : \A b \in Has(d)' : b[2] = 1
  BY <1>6, <1>7
<1>12. \A d \in Clients : pending'[d] \notin blocks'[d]
  <2>1. <<i, 1>> \notin blocks[c]
    BY <1>1, <1>2, <1>6 DEF Has
  <2> QED  BY <1>3, <2>1 DEF PInv, PageTypeOK
<1> QED  BY <1>3, <1>4, <1>9, <1>10, <1>11, <1>12 DEF PInv, Fixed

\* init_pages keeps the invariant: the client has the same blocks before and
\* after, and no other block holds the page it writes.
LEMMA InitKeeps ==
  ASSUME PInv, NEW c \in Clients, InitPages(c)
  PROVE  PInv'
<1> USE PageAssumption
<1> DEFINE p == pending[c][1]
<1>1. pending[c] \in Bits \X Nat /\ pending[c] # None /\ pending[c] \in Has(c)
  BY DEF PInv, PageTypeOK, InitPages, Has
<1>2. pending[c][2] = 1 /\ pending[c] = <<p, 1>> /\ p \in Nat /\ p \in Bits
  BY <1>1 DEF PInv, Bits
<1>3. Block(p, 1) = {p}
  BY <1>2, OnePage
<1>4. /\ page' = [r \in Bits |-> IF r = p THEN [header |-> TRUE, count |-> 1]
                                          ELSE page[r]]
      /\ pending' = [pending EXCEPT ![c] = None]
      /\ blocks' = [blocks EXCEPT ![c] = @ \cup {pending[c]}]
      /\ page_map' = page_map /\ bm_current' = bm_current
      /\ free_pages' = free_pages
  <2>1. 1 % 256 = 1
    OBVIOUS
  <2>2. page' = [r \in Bits |->
                   IF r \in Block(p, 1)
                   THEN [header |-> TRUE,
                         count  |-> IF r = p THEN 1 % 256 ELSE r % 256]
                   ELSE page[r]]
    BY <1>2 DEF InitPages
  <2>3. \A r \in Bits : page'[r] = IF r = p THEN [header |-> TRUE, count |-> 1]
                                            ELSE page[r]
    BY <2>1, <2>2, <1>3
  <2>4. page' = [r \in Bits |-> IF r = p THEN [header |-> TRUE, count |-> 1]
                                         ELSE page[r]]
    BY <2>2, <2>3, ZenonT(40)
  <2> QED  BY <2>4 DEF InitPages
<1>5. PageTypeOK'
  BY <1>1, <1>2, <1>4 DEF PInv, PageTypeOK, None, Bits
<1>6. \A d \in Clients : Has(d)' = Has(d)
  BY <1>1, <1>4 DEF PInv, PageTypeOK, Has
<1>7. NoSharing'
  BY <1>4, <1>6 DEF PInv, NoSharing, Fixed
<1>8. \A d \in Clients : \A b \in blocks'[d] :
         page'[b[1]] = [header |-> TRUE, count |-> 1]
  <2> SUFFICES ASSUME NEW d \in Clients, NEW b \in blocks'[d]
               PROVE  page'[b[1]] = [header |-> TRUE, count |-> 1]
    OBVIOUS
  <2>1. b \in blocks[d] \/ b = pending[c]
    BY <1>4 DEF PInv, PageTypeOK
  <2>2. b[1] \in Bits
    BY <2>1, <1>1 DEF PInv, PageTypeOK
  <2>3. CASE b \in blocks[d]
    BY <2>2, <2>3, <1>4 DEF PInv
  <2>4. CASE b = pending[c]
    BY <2>2, <2>4, <1>4
  <2> QED  BY <2>1, <2>3, <2>4
<1>9. \A d \in Clients : pending'[d] \notin blocks'[d]
  <2> SUFFICES ASSUME NEW d \in Clients PROVE pending'[d] \notin blocks'[d]
    OBVIOUS
  <2>1. CASE d = c
    <3>1. \A b \in blocks'[c] : b[2] = 1
      BY <1>2, <1>4 DEF PInv, PageTypeOK, Has, None
    <3>2. pending'[c] = None
      BY <1>4 DEF PInv, PageTypeOK
    <3> QED  BY <2>1, <3>1, <3>2 DEF None
  <2>2. CASE d # c
    BY <2>2, <1>4 DEF PInv, PageTypeOK
  <2> QED  BY <2>1, <2>2
<1> QED  BY <1>4, <1>5, <1>6, <1>7, <1>8, <1>9 DEF PInv, Fixed

\* free_pages keeps the invariant: the bit it clears is that of the block, so
\* the bits of all other blocks and of the kernel stay set.
LEMMA FreeKeeps ==
  ASSUME PInv, NEW c \in Clients, NEW b \in blocks[c], FreePages(c, b)
  PROVE  PInv'
<1> USE PageAssumption
<1> DEFINE p == b[1]
<1>1. b \in Bits \X Nat /\ b \in Has(c)
  BY DEF PInv, PageTypeOK, Has
<1>2. b = <<p, 1>> /\ p \in Nat /\ p \in Bits /\ page[p].count = 1
  BY <1>1 DEF PInv, Bits
<1>3. Block(p, 1) = {p}
  BY <1>2, OnePage
<1>4. /\ page_map' = page_map \ {p}
      /\ free_pages' = free_pages + 1
      /\ bm_current' \in {p, bm_current}
      /\ blocks' = [blocks EXCEPT ![c] = @ \ {b}]
      /\ page' = page /\ pending' = pending
  BY <1>2, <1>3 DEF FreePages
<1>5. PageTypeOK'
  <2>1. bm_current' \in 0 .. Top + 1
    BY <1>2, <1>4 DEF PInv, PageTypeOK, Bits
  <2>2. blocks' \in [Clients -> SUBSET (Bits \X Nat)]
    BY <1>4 DEF PInv, PageTypeOK
  <2>3. page_map' \subseteq Bits /\ free_pages' \in Int
    BY <1>4 DEF PInv, PageTypeOK
  <2>4. /\ page' \in [Bits -> [header : BOOLEAN, count : 0 .. 255]]
        /\ pending' \in [Clients -> Bits \X Nat]
    BY <1>4 DEF PInv, PageTypeOK
  <2> QED  BY <2>1, <2>2, <2>3, <2>4 DEF PageTypeOK, Bits
<1>6. \A d \in Clients : Has(d)' \subseteq Has(d)
  BY <1>4 DEF PInv, PageTypeOK, Has
<1>7. \A d \in Clients : \A e \in Has(d)' : d # c \/ e # b
  <2>1. pending[c] # b
    BY DEF PInv
  <2>2. b \notin blocks'[c] /\ pending'[c] = pending[c]
    BY <1>4 DEF PInv, PageTypeOK
  <2> QED  BY <2>1, <2>2 DEF Has
<1>8. \A d \in Clients : \A e \in Has(d)' : e \in Has(d) /\ p \notin Block(e[1], e[2])
  BY <1>1, <1>2, <1>3, <1>6, <1>7 DEF PInv, NoSharing
<1>9. NoSharing'
  BY <1>4, <1>8 DEF PInv, NoSharing, Fixed
<1>10. p \notin Fixed
  BY <1>1, <1>2, <1>3 DEF PInv, NoSharing
<1> QED  BY <1>4, <1>5, <1>6, <1>9, <1>10 DEF PInv, Fixed, PageTypeOK

\* Every step keeps the invariant if all requests are for one page.
LEMMA PageNextPInv ==
  ASSUME Counts = {1}, PInv, [PageNext]_pageVars
  PROVE  PInv'
<1>1. CASE UNCHANGED pageVars
  BY <1>1, ZenonT(40) DEF pageVars, PInv, PageTypeOK, NoSharing, Has, Fixed
<1>2. CASE PageNext
  <2>1. PICK c \in Clients :
           \/ GetFreePages(c, 1)
           \/ InitPages(c)
           \/ \E b \in blocks[c] : FreePages(c, b)
    BY <1>2 DEF PageNext
  <2> QED  BY <2>1, GetKeeps, InitKeeps, FreeKeeps
<1> QED  BY <1>1, <1>2

\* The page allocator never gives a page to two clients, nor one of the
\* kernel's pages, as long as every request is for one page (get_free_page),
\* for any number of clients and pages and any order of requests.
THEOREM PagesAreExclusive ==
  ASSUME Counts = {1}
  PROVE  PageSpec => []NoSharing
<1>1. PageInit => PInv
  BY PageInitPInv
<1>2. PInv /\ [PageNext]_pageVars => PInv'
  BY PageNextPInv
<1>3. PInv => NoSharing
  BY DEF PInv
<1> QED  BY <1>1, <1>2, <1>3, PTL DEF PageSpec


-----------------------------------------------------------------------------
(* The counters and the bits agree, and the search never turns back. *)

\* The second inductive invariant: that the bits in the zone are those of the
\* held pages is what makes bm_end clear whenever the search can reach it.
AInv == PInv /\ Accounting /\ AheadIsFree

\* The pages of a set of one-page blocks.
LEMMA BlocksArePages ==
  ASSUME NEW B, \A b \in B : b[1] \in Int /\ b[2] = 1
  PROVE  UNION {Block(b[1], b[2]) : b \in B} = {b[1] : b \in B}
<1>1. \A b \in B : Block(b[1], b[2]) = {b[1]}
  BY OnePage
<1>2. {Block(b[1], b[2]) : b \in B} = {{b[1]} : b \in B}
  BY <1>1
<1> QED  BY <1>2

\* The held pages are finitely many, all of them have their bit set, and they
\* are the first pages of the held blocks.
LEMMA HeldPages ==
  ASSUME PInv
  PROVE  /\ IsFiniteSet(Held) /\ Cardinality(Held) \in Nat
         /\ Held \subseteq page_map
         /\ Held = {b[1] : b \in UNION {Has(c) : c \in Clients}}
<1> DEFINE B == UNION {Has(c) : c \in Clients}
<1>1. \A b \in B : /\ b[1] \in Bits /\ b[1] \in Int /\ b[2] = 1
                   /\ Block(b[1], b[2]) \subseteq page_map
  BY DEF PInv, NoSharing, PageTypeOK, Has, Bits
<1>2. Held = {b[1] : b \in B}
  BY <1>1, BlocksArePages DEF Held
<1>3. Held \subseteq page_map
  BY <1>1 DEF Held
<1>4. IsFiniteSet(Bits)
  BY FS_Interval, PageAssumption DEF Bits
<1>5. Held \subseteq Bits
  BY <1>1, <1>2
<1>6. IsFiniteSet(Held)
  BY <1>4, <1>5, FS_Subset
<1> QED  BY <1>2, <1>3, <1>6, FS_CardinalityType

\* The kernel's pages are in the zone.
LEMMA FixedInZone == Fixed \subseteq 0 .. Normal - 1
BY VectorPage, PageAssumption DEF Fixed

\* A search for one page finds one in its first pass: bm_end is clear unless
\* bm_current is behind it, and then the search goes on until it finds one.
LEMMA SearchGoesForward ==
  ASSUME AInv, SearchEnds(1), find_continous_pages(1) # 0
  PROVE  find_continous_pages(1) >= bm_current
<1> USE PageAssumption
<1>1. /\ FirstPass \subseteq Bits \ page_map
      /\ FirstPass \subseteq Nat
      /\ \A i \in FirstPass : i >= bm_current
  BY DEF AInv, PInv, PageTypeOK, FirstPass, Clear, Bits, bm_end
<1>2. IsFiniteSet(FirstPass)
  <2>1. IsFiniteSet(Bits)
    BY FS_Interval DEF Bits
  <2> QED  BY <1>1, <2>1, FS_Subset
<1>3. bm_current \in Nat /\ bm_end \in Nat
  BY DEF AInv, PInv, PageTypeOK, bm_end
<1>4. ASSUME bm_current <= bm_end PROVE Cardinality(FirstPass) >= 1
  <2>1. bm_end \notin Fixed
    BY FixedInZone DEF bm_end
  <2>2. bm_end \notin Held
    <3>1. PInv
      BY DEF AInv
    <3>2. \A c \in Clients : \A b \in Has(c) :
             b[1] \in Int /\ b[2] = 1 /\ b[1] + b[2] <= bm_current
      BY DEF AInv, PInv, AheadIsFree, PageTypeOK, Has, Bits
    <3>3. \A c \in Clients : \A b \in Has(c) : b[1] # bm_end
      BY <3>2, <1>3, <1>4
    <3> QED  BY <3>1, <3>3, HeldPages
  <2>3. bm_end \in 0 .. Normal + Dma
    BY DEF bm_end
  <2>4. bm_end \notin page_map
    BY <2>1, <2>2, <2>3 DEF AInv, Accounting
  <2>5. bm_end \in FirstPass
    BY <2>4, <1>3, <1>4 DEF FirstPass, Clear
  <2>6. Cardinality(FirstPass) # 0 /\ Cardinality(FirstPass) \in Nat
    BY <2>5, <1>2, FS_EmptySet, FS_CardinalityType
  <2> QED  BY <2>6
<1>5. ASSUME ~(bm_current <= bm_end) PROVE Cardinality(FirstPass) >= 1
  <2>1. SecondPass = {}
    BY <1>5 DEF SecondPass
  <2>2. Cardinality(SecondPass) = 0
    BY <2>1, FS_EmptySet
  <2> QED  BY <2>2, <1>3, <1>5 DEF SearchEnds
<1>6. Cardinality(FirstPass) >= 1
  BY <1>4, <1>5
<1>7. Nth(FirstPass, 1) \in FirstPass
  BY <1>1, <1>2, <1>6, NthOne
<1>8. find_continous_pages(1) = Nth(FirstPass, 1) - 1 + 1
  BY <1>6 DEF find_continous_pages
<1>9. Nth(FirstPass, 1) - 1 + 1 = Nth(FirstPass, 1)
  BY <1>7, <1>1, MinusPlus
<1> QED  BY <1>1, <1>7, <1>8, <1>9

\* The second invariant holds at boot.
LEMMA PageInitAInv == PageInit => AInv
<1> SUFFICES ASSUME PageInit PROVE AInv
  OBVIOUS
<1>1. PInv
  BY PageInitPInv
<1>2. \A c \in Clients : Has(c) = {}
  BY DEF PageInit, Has
<1>3. Held = {}
  BY <1>2 DEF Held
<1>4. AheadIsFree
  BY <1>2 DEF AheadIsFree
<1>5. PICK junk \in SUBSET (Normal + Dma + 1 .. Top) : page_map = Fixed \cup junk
  BY DEF PageInit
<1>6. page_map \cap (0 .. Normal + Dma) = Fixed
  <2>1. Fixed \subseteq 0 .. Normal + Dma
    BY FixedInZone, PageAssumption
  <2>2. \A p \in junk : p \notin 0 .. Normal + Dma
    BY PageAssumption
  <2> QED  BY <1>5, <2>1, <2>2
<1>7. free_pages = Normal - Kernel - 1 - Cardinality(Held)
  BY <1>3, FS_EmptySet, PageAssumption DEF PageInit
<1> QED  BY <1>1, <1>3, <1>4, <1>6, <1>7 DEF AInv, Accounting

\* get_free_pages(1) keeps the second invariant: it moves one page from the
\* free ones to the held ones, and bm_current to the page after it.
LEMMA GetAccounts ==
  ASSUME AInv, NEW c \in Clients, GetFreePages(c, 1)
  PROVE  AInv'
<1> USE PageAssumption
<1> DEFINE i == find_continous_pages(1)
           B == UNION {Has(d) : d \in Clients}
<1>1. PInv /\ PInv'
  BY GetKeeps DEF AInv
<1>2. /\ i \in Bits \ page_map /\ i # 0 /\ i \in Nat
      /\ page_map' = page_map \cup {i}
      /\ bm_current' = i + 1
      /\ free_pages' = free_pages - 1
      /\ \A d \in Clients : d # c => Has(d)' = Has(d)
      /\ Has(c)' = Has(c) \cup {<<i, 1>>}
  BY <1>1, GetEffect
<1>3. i >= bm_current
  BY SearchGoesForward, <1>2 DEF GetFreePages
<1> HIDE DEF i
<1>4. bm_current \in Nat
  BY <1>1 DEF PInv, PageTypeOK
<1>5. \A d \in Clients : \A b \in Has(d) :
         b[1] \in Int /\ b[2] = 1 /\ b[1] + b[2] <= bm_current
  BY <1>1 DEF AInv, PInv, PageTypeOK, AheadIsFree, Has, Bits
<1>6. AheadIsFree'
  <2> SUFFICES ASSUME NEW d \in Clients, NEW b \in Has(d)'
               PROVE  b[1] + b[2] <= bm_current'
    BY DEF AheadIsFree
  <2>1. CASE b \in Has(d)
    BY <2>1, <1>2, <1>3, <1>4, <1>5
  <2>2. CASE b = <<i, 1>>
    BY <2>2, <1>2
  <2> QED  BY <2>1, <2>2, <1>2
<1>7. Held' = Held \cup {i}
  <2> DEFINE C == B \cup {<<i, 1>>}
  <2>1. UNION {Has(d)' : d \in Clients} = C
    BY <1>2
  <2> HIDE DEF C
  <2>2. Held' = UNION {Block(b[1], b[2]) : b \in C}
    BY <2>1 DEF Held
  <2>3. \A b \in C : b[1] \in Int /\ b[2] = 1
    BY <1>2, <1>5 DEF C
  <2>4. Held' = {b[1] : b \in C}
    BY <2>2, <2>3, BlocksArePages
  <2>5. Held = {b[1] : b \in B}
    BY <1>1, HeldPages
  <2> HIDE DEF B
  <2>6. \A x : x \in Held' <=> x \in Held \/ x = i
    <3>1. <<i, 1>>[1] = i
      OBVIOUS
    <3> QED  BY <2>4, <2>5, <3>1 DEF C
  <2> QED  BY <2>6
<1>8. IsFiniteSet(Held) /\ Cardinality(Held) \in Nat /\ i \notin Held
  BY <1>1, <1>2, HeldPages
<1>9. Cardinality(Held') = Cardinality(Held) + 1
  BY <1>7, <1>8, FS_AddElement
<1>10. free_pages' = Normal - Kernel - 1 - Cardinality(Held')
  BY <1>2, <1>8, <1>9 DEF AInv, Accounting
<1>11. page_map' \cap (0 .. Normal + Dma) =
          Fixed \cup (Held' \cap (0 .. Normal + Dma))
  BY <1>2, <1>7 DEF AInv, Accounting
<1>12. Accounting'
  BY <1>10, <1>11 DEF Accounting, Fixed
<1> QED  BY <1>1, <1>6, <1>12 DEF AInv

\* free_pages keeps the second invariant: bm_current moves back only over the
\* freed page itself.
LEMMA FreeAccounts ==
  ASSUME AInv, NEW c \in Clients, NEW b \in blocks[c], FreePages(c, b)
  PROVE  AInv'
<1> USE PageAssumption
<1> DEFINE p == b[1]
           B == UNION {Has(d) : d \in Clients}
<1>1. PInv /\ PInv'
  BY FreeKeeps DEF AInv
<1>2. b \in Has(c) /\ p \in Bits /\ p \in Int /\ b[2] = 1 /\ b = <<p, 1>>
      /\ page[p].count = 1
  BY <1>1 DEF PInv, PageTypeOK, Has, Bits
<1>3. Block(p, 1) = {p}
  BY <1>2, OnePage
<1>4. /\ page_map' = page_map \ {p}
      /\ free_pages' = free_pages + 1
      /\ bm_current' = IF bm_current = p + 1 THEN p ELSE bm_current
      /\ blocks' = [blocks EXCEPT ![c] = @ \ {b}]
      /\ pending' = pending
  BY <1>2, <1>3 DEF FreePages
<1>5. /\ \A d \in Clients : d # c => Has(d)' = Has(d)
      /\ Has(c)' = Has(c) \ {b}
  <2>1. pending[c] # b
    BY <1>1 DEF PInv
  <2>2. blocks'[c] = blocks[c] \ {b} /\ \A d \in Clients : d # c => blocks'[d] = blocks[d]
    BY <1>1, <1>4 DEF PInv, PageTypeOK
  <2> QED  BY <1>4, <2>1, <2>2 DEF Has
<1>6. \A d \in Clients : \A e \in Has(d) :
         e[1] \in Int /\ e[2] = 1 /\ e[1] + e[2] <= bm_current
  BY <1>1, SMTT(30) DEF AInv, PInv, PageTypeOK, AheadIsFree, Has, Bits
<1>7. \A d \in Clients : \A e \in Has(d)' : e \in Has(d) /\ e[1] # p
  <2> SUFFICES ASSUME NEW d \in Clients, NEW e \in Has(d)'
               PROVE  e \in Has(d) /\ e[1] # p
    OBVIOUS
  <2>1. e \in Has(d) /\ (d # c \/ e # b)
    BY <1>5
  <2>2. Block(e[1], e[2]) \cap Block(b[1], b[2]) = {}
    BY <2>1, <1>1, <1>2 DEF PInv, NoSharing
  <2>3. Block(e[1], e[2]) = {e[1]} /\ Block(b[1], b[2]) = {p}
    BY <2>1, <1>2, <1>3, <1>6, OnePage
  <2> QED  BY <2>1, <2>2, <2>3
<1>8. bm_current \in Nat
  BY <1>1 DEF PInv, PageTypeOK
<1>9. AheadIsFree'
  <2> SUFFICES ASSUME NEW d \in Clients, NEW e \in Has(d)'
               PROVE  e[1] + e[2] <= bm_current'
    BY DEF AheadIsFree
  <2>1. e[1] \in Int /\ e[2] = 1 /\ e[1] + 1 <= bm_current /\ e[1] # p
    BY <1>6, <1>7
  <2> QED  BY <2>1, <1>2, <1>4, <1>8
<1>10. Held' = Held \ {p}
  <2> DEFINE C == UNION {Has(d)' : d \in Clients}
  <2>1. \A e \in C : e \in B /\ e[1] # p /\ e[1] \in Int /\ e[2] = 1
    BY <1>6, <1>7
  <2>2. \A e \in B : e[1] # p => e \in C
    BY <1>5
  <2>3. Held' = UNION {Block(e[1], e[2]) : e \in C}
    BY DEF Held
  <2>4. Held = {e[1] : e \in B}
    BY <1>1, HeldPages
  <2> HIDE DEF C, B
  <2>5. Held' = {e[1] : e \in C}
    BY <2>1, <2>3, BlocksArePages
  <2> QED  BY <2>1, <2>2, <2>4, <2>5
<1>11. IsFiniteSet(Held) /\ Cardinality(Held) \in Nat
  BY <1>1, HeldPages
<1>12. p \in Held
  <2>1. Held = {e[1] : e \in B}
    BY <1>1, HeldPages
  <2>2. b \in B
    BY <1>2
  <2> QED  BY <2>1, <2>2
<1>13. Cardinality(Held') = Cardinality(Held) - 1
  BY <1>10, <1>11, <1>12, FS_RemoveElement
<1>14. free_pages' = Normal - Kernel - 1 - Cardinality(Held')
  BY <1>4, <1>11, <1>13 DEF AInv, Accounting
<1>15. p \notin Fixed
  BY <1>1, <1>2, <1>3 DEF PInv, NoSharing
<1>16. page_map' \cap (0 .. Normal + Dma) =
          Fixed \cup (Held' \cap (0 .. Normal + Dma))
  BY <1>4, <1>10, <1>15 DEF AInv, Accounting
<1>17. Accounting'
  BY <1>14, <1>16 DEF Accounting, Fixed
<1> QED  BY <1>1, <1>9, <1>17 DEF AInv

\* init_pages keeps the second invariant: it changes no block.
LEMMA InitAccounts ==
  ASSUME AInv, NEW c \in Clients, InitPages(c)
  PROVE  AInv'
<1>1. PInv /\ PInv'
  BY InitKeeps DEF AInv
<1>2. \A d \in Clients : Has(d)' = Has(d)
  BY <1>1 DEF PInv, PageTypeOK, InitPages, Has
<1>3. /\ page_map' = page_map /\ bm_current' = bm_current
      /\ free_pages' = free_pages
  BY DEF InitPages
<1>4. Held' = Held
  BY <1>2 DEF Held
<1>5. Accounting' /\ AheadIsFree'
  BY <1>2, <1>3, <1>4 DEF AInv, Accounting, AheadIsFree, Fixed
<1> QED  BY <1>1, <1>5 DEF AInv

\* Every step keeps the second invariant if all requests are for one page.
LEMMA PageNextAInv ==
  ASSUME Counts = {1}, AInv, [PageNext]_pageVars
  PROVE  AInv'
<1>1. CASE UNCHANGED pageVars
  <2>1. \A c \in Clients : Has(c)' = Has(c)
    BY <1>1 DEF pageVars, Has
  <2>2. Held' = Held
    BY <2>1 DEF Held
  <2>3. PInv'
    BY <1>1, PageNextPInv DEF AInv
  <2>4. Accounting' /\ AheadIsFree'
    BY <1>1, <2>1, <2>2 DEF pageVars, AInv, Accounting, AheadIsFree, Fixed
  <2> QED  BY <2>3, <2>4 DEF AInv
<1>2. CASE PageNext
  <2>1. PICK c \in Clients :
           \/ GetFreePages(c, 1)
           \/ InitPages(c)
           \/ \E b \in blocks[c] : FreePages(c, b)
    BY <1>2 DEF PageNext
  <2> QED  BY <2>1, GetAccounts, InitAccounts, FreeAccounts
<1> QED  BY <1>1, <1>2

\* No page leaks and the zone's counter is exact, however requests, the
\* initialisation of page headers and frees of any number of clients follow
\* one another, as long as every request is for one page.
THEOREM PagesAreAccounted ==
  ASSUME Counts = {1}
  PROVE  PageSpec => []Accounting
<1>1. PageInit => AInv
  BY PageInitAInv
<1>2. AInv /\ [PageNext]_pageVars => AInv'
  BY PageNextAInv
<1>3. AInv => Accounting
  BY DEF AInv
<1> QED  BY <1>1, <1>2, <1>3, PTL DEF PageSpec

\* No page from bm_current on is ever in use: with one-page requests the
\* search of find_continous_pages never makes its second pass.
THEOREM SearchNeverTurnsBack ==
  ASSUME Counts = {1}
  PROVE  PageSpec => []AheadIsFree
<1>1. PageInit => AInv
  BY PageInitAInv
<1>2. AInv /\ [PageNext]_pageVars => AInv'
  BY PageNextAInv
<1>3. AInv => AheadIsFree
  BY DEF AInv
<1> QED  BY <1>1, <1>2, <1>3, PTL DEF PageSpec

-----------------------------------------------------------------------------
(* The memory of tasks *)

Stages == Places \cup {"check", "made", "release", "refused"}

\* The pages that may be given: page 0 is the answer for none.
PageNrs == Bits \ {0}

\* What the places of a task may hold.
Memories == [Places -> Seq(PageNrs)]

\* The types of the variables TaskMem adds to those of PageAlloc.
TaskTypeOK ==
  /\ pc \in [Clients -> Stages]
  /\ mem \in [Clients -> Memories]
  /\ todo \in [Clients -> Seq(Places)]
  /\ walk \in [Clients -> Bits]
  /\ stale \subseteq Clients

\* The places that an order of release names.
Names(s, l) == \E i \in DOMAIN s : s[i] = l

\* The places that are full when l is being filled.
Before(l) ==
  CASE l = "stack_origin"   -> {}
    [] l = "stack_list"     -> {"stack_origin"}
    [] l = "elf_list"       -> {"stack_origin", "stack_list"}
    [] l = "elf_stack_list" -> {"stack_origin", "stack_list", "elf_list"}
    [] OTHER -> {"stack_origin", "stack_list", "elf_list", "elf_stack_list"}

\* The places in S are full and the others empty.
Full(t, S) == \A l \in Places : Len(mem[t][l]) = IF l \in S THEN Size[l] ELSE 0

\* What a task holds at each stage of its life.
Shape(t) ==
  /\ pc[t] \in Places =>
       /\ t \notin Users => pc[t] = "stack_origin"
       /\ \A l \in Places :
            IF l = pc[t] THEN Len(mem[t][l]) < Size[l]
            ELSE Len(mem[t][l]) = IF l \in Before(pc[t]) THEN Size[l] ELSE 0
  /\ pc[t] = "check" => t \in Users /\ Full(t, Before("elf_stack_list"))
  /\ pc[t] = "made" => Full(t, IF t \in Users THEN Places ELSE {"stack_origin"})
  /\ pc[t] = "release" =>
       \A l \in Places : mem[t][l] # <<>> => Names(todo[t], l)
  /\ pc[t] = "refused" =>
       /\ todo[t] = <<"stack_origin">>
       /\ \A l \in Places \ {"stack_origin"} :
            Len(mem[t][l]) = IF l \in {"stack_list", "elf_list"} THEN 1 ELSE 0
  /\ pc[t] \notin {"release", "refused"} => todo[t] = <<>>
  /\ Len(mem[t]["stack_origin"]) <= 1

\* A step of PageAlloc as TaskMem makes them: every request is for one page.
OnePageStep ==
  \E c \in Clients :
     GetFreePages(c, 1) \/ InitPages(c) \/ \E b \in blocks[c] : FreePages(c, b)

\* The inductive invariant.
TInv ==
  /\ PInv
  /\ TaskTypeOK
  /\ OwnsWhatItLists
  /\ \A t \in Clients : pending[t] # None => pc[t] \in Places
  /\ \A t \in Clients : Shape(t)

-----------------------------------------------------------------------------
(* Places and lists *)

\* Two sequences of the same length with the same elements are one.
LEMMA SeqEqual ==
  ASSUME NEW S, NEW s \in Seq(S), NEW r \in Seq(S), NEW n \in Nat,
         Len(s) = n, Len(r) = n, \A i \in 1 .. n : s[i] = r[i]
  PROVE  s = r
OBVIOUS

\* What is left when the head of a sequence is taken off.
LEMMA HeadAndTail ==
  ASSUME NEW S, NEW s \in Seq(S), s # <<>>
  PROVE  /\ Len(s) \in Nat \ {0} /\ Head(s) = s[1] /\ s[1] \in S
         /\ Tail(s) \in Seq(S) /\ Len(Tail(s)) = Len(s) - 1
         /\ DOMAIN Tail(s) = 1 .. Len(s) - 1
         /\ \A i \in 1 .. Len(s) - 1 : Tail(s)[i] = s[i + 1]
OBVIOUS

\* One element has no tail.
LEMMA TailOfOne ==
  ASSUME NEW S, NEW s \in Seq(S), s # <<>>, Len(s) <= 1
  PROVE  Tail(s) = <<>>
<1>1. Len(s) \in Nat \ {0} /\ Tail(s) \in Seq(S) /\ Len(Tail(s)) = Len(s) - 1
  BY HeadAndTail
<1>2. Tail(s) \in Seq(S) /\ Len(Tail(s)) = 0
  BY <1>1
<1>3. ASSUME NEW r \in Seq(S), Len(r) = 0 PROVE r = <<>>
  BY <1>3
<1> QED  BY <1>2, <1>3

\* The five places.
LEMMA FivePlaces ==
  /\ Lists = <<"elf_stack_list", "elf_image_list", "stack_list", "elf_list">>
  /\ Places = {"stack_origin", "elf_stack_list", "elf_image_list", "stack_list",
               "elf_list"}
<1>1. Lists = <<"elf_stack_list", "elf_image_list", "stack_list", "elf_list">>
  <2> DEFINE Q == {"elf_stack_list", "elf_image_list", "stack_list", "elf_list"}
             a == <<"elf_stack_list", "elf_image_list">>
             b == <<"stack_list", "elf_list">>
             c == <<"elf_stack_list", "elf_image_list", "stack_list", "elf_list">>
  <2>1. a \in Seq(Q) /\ b \in Seq(Q) /\ Len(a) = 2 /\ Len(b) = 2
    OBVIOUS
  <2>2. /\ a \o b \in Seq(Q) /\ Len(a \o b) = 4
        /\ (a \o b)[1] = c[1] /\ (a \o b)[2] = c[2]
        /\ (a \o b)[3] = c[3] /\ (a \o b)[4] = c[4]
    BY <2>1
  <2>3. c \in Seq(Q) /\ Len(c) = 4
    OBVIOUS
  <2>4. \A i \in 1 .. 4 : (a \o b)[i] = c[i]
    BY <2>2
  <2> HIDE DEF a, b, c, Q
  <2>5. a \o b = c
    BY <2>2, <2>3, <2>4, SeqEqual
  <2> QED  BY <2>5 DEF Lists, Tables, a, b, c
<1>2. DOMAIN Lists = 1 .. 4
  BY <1>1
<1>3. {Lists[i] : i \in DOMAIN Lists} =
        {"elf_stack_list", "elf_image_list", "stack_list", "elf_list"}
  BY <1>1, <1>2
<1> QED  BY <1>1, <1>3 DEF Places

\* What stands in one of two sequences stands in both put together.
LEMMA NamesJoined ==
  ASSUME NEW S, NEW a \in Seq(S), NEW b \in Seq(S), NEW l
  PROVE  a \o b \in Seq(S) /\ (Names(a, l) \/ Names(b, l) => Names(a \o b, l))
<1>1. /\ a \o b \in Seq(S) /\ Len(a) \in Nat /\ Len(b) \in Nat
      /\ DOMAIN a = 1 .. Len(a) /\ DOMAIN b = 1 .. Len(b)
      /\ DOMAIN (a \o b) = 1 .. Len(a) + Len(b)
      /\ \A i \in 1 .. Len(a) : (a \o b)[i] = a[i]
      /\ \A i \in 1 .. Len(b) : (a \o b)[Len(a) + i] = b[i]
  OBVIOUS
<1>2. \A i \in 1 .. Len(a) : i \in 1 .. Len(a) + Len(b)
  BY <1>1
<1>3. \A i \in 1 .. Len(b) : Len(a) + i \in 1 .. Len(a) + Len(b)
  BY <1>1
<1>4. Names(a, l) => Names(a \o b, l)
  BY <1>1, <1>2 DEF Names
<1>5. Names(b, l) => Names(a \o b, l)
  BY <1>1, <1>3 DEF Names
<1> QED  BY <1>1, <1>4, <1>5

\* The orders of release are sequences of places; the ones for a user task
\* name every place, the one of alloc_page_table all it may have filled.
LEMMA Orders ==
  /\ Tables \o <<"stack_origin">> \in Seq(Places)
  /\ Lists \o <<"stack_origin">> \in Seq(Places)
  /\ Lists \o <<"stack_origin", "stack_origin">> \in Seq(Places)
  /\ <<"stack_origin">> \in Seq(Places) /\ <<>> \in Seq(Places)
  /\ Names(<<"stack_origin">>, "stack_origin")
  /\ \A l \in {"stack_origin", "stack_list", "elf_list"} :
        Names(Tables \o <<"stack_origin">>, l)
  /\ \A l \in Places : /\ Names(Lists \o <<"stack_origin">>, l)
                        /\ Names(Lists \o <<"stack_origin", "stack_origin">>, l)
<1> DEFINE one == <<"stack_origin">>
           two == <<"stack_origin", "stack_origin">>
<1>1. one \in Seq(Places) /\ two \in Seq(Places) /\ <<>> \in Seq(Places)
  BY FivePlaces
<1>2. Tables \in Seq(Places) /\ Lists \in Seq(Places)
  BY FivePlaces DEF Tables
<1>3. Names(one, "stack_origin") /\ Names(two, "stack_origin")
  BY DEF Names
<1>4. Names(Tables, "stack_list") /\ Names(Tables, "elf_list")
  <2>1. Tables[1] = "stack_list" /\ Tables[2] = "elf_list" /\ DOMAIN Tables = 1 .. 2
    BY DEF Tables
  <2> QED  BY <2>1 DEF Names
<1>5. \A l \in Places : l = "stack_origin" \/ Names(Lists, l)
  BY DEF Places, Names
<1> HIDE DEF one, two
<1>6. /\ Tables \o one \in Seq(Places) /\ Lists \o one \in Seq(Places)
      /\ Lists \o two \in Seq(Places)
  BY <1>1, <1>2, NamesJoined
<1>7. \A l \in {"stack_origin", "stack_list", "elf_list"} : Names(Tables \o one, l)
  BY <1>1, <1>2, <1>3, <1>4, NamesJoined
<1>8. \A l \in Places : Names(Lists \o one, l) /\ Names(Lists \o two, l)
  BY <1>1, <1>2, <1>3, <1>5, NamesJoined
<1> QED  BY <1>1, <1>3, <1>6, <1>7, <1>8 DEF one, two

\* Every place takes at least one page, the kernel stack no more.
LEMMA Sizes ==
  /\ \A l \in Places : Size[l] \in Nat \ {0}
  /\ \A l \in {"stack_origin", "stack_list", "elf_list"} : Size[l] = 1
BY FivePlaces, TaskMemAssumption DEF Size

\* The lists of one task: a page is on one of them, no page is on them twice.
Listed(m, p) == \E l \in Places : \E i \in DOMAIN m[l] : m[l][i] = p

Distinct(m) ==
  \A l, k \in Places : \A i \in DOMAIN m[l] : \A j \in DOMAIN m[k] :
     m[l][i] = m[k][j] => l = k /\ i = j

\* Distinct, for one pair of places and positions.
LEMMA DistinctAt ==
  ASSUME NEW m, Distinct(m), NEW l \in Places, NEW k \in Places,
         NEW i \in DOMAIN m[l], NEW j \in DOMAIN m[k], m[l][i] = m[k][j]
  PROVE  l = k /\ i = j
BY DEF Distinct

\* A page that was on no list is put at the end of one.
LEMMA Gains ==
  ASSUME NEW m \in Memories, NEW l \in Places, NEW p \in PageNrs,
         Distinct(m), ~Listed(m, p),
         NEW n \in Memories, n[l] = Append(m[l], p),
         \A k \in Places \ {l} : n[k] = m[k]
  PROVE  /\ Distinct(n)
         /\ \A q : Listed(n, q) <=> Listed(m, q) \/ q = p
         /\ Len(n[l]) = Len(m[l]) + 1
<1>1. n[l] = Append(m[l], p) /\ \A k \in Places \ {l} : n[k] = m[k]
  OBVIOUS
<1>2. \A k \in Places : m[k] \in Seq(PageNrs) /\ Len(m[k]) \in Nat /\ DOMAIN m[k] = 1 .. Len(m[k])
  BY DEF Memories
<1>3. /\ Len(n[l]) = Len(m[l]) + 1 /\ DOMAIN n[l] = 1 .. Len(m[l]) + 1
      /\ \A i \in 1 .. Len(m[l]) : n[l][i] = m[l][i]
      /\ n[l][Len(m[l]) + 1] = p
  BY <1>1, <1>2
<1>4. ASSUME NEW k \in Places, NEW i \in DOMAIN n[k]
      PROVE  \/ i \in DOMAIN m[k] /\ n[k][i] = m[k][i] /\ n[k][i] # p
             \/ k = l /\ i = Len(m[l]) + 1 /\ n[k][i] = p
  BY <1>1, <1>2, <1>3 DEF Listed
<1>5. ASSUME NEW k \in Places, NEW i \in DOMAIN m[k]
      PROVE  i \in DOMAIN n[k] /\ n[k][i] = m[k][i]
  <2>1. CASE k = l
    BY <2>1, <1>2, <1>3
  <2>2. CASE k # l
    BY <2>2, <1>1
  <2> QED  BY <2>1, <2>2
<1>6. Distinct(n)
  <2> SUFFICES ASSUME NEW a \in Places, NEW b \in Places,
                      NEW i \in DOMAIN n[a], NEW j \in DOMAIN n[b],
                      n[a][i] = n[b][j]
               PROVE  a = b /\ i = j
    BY DEF Distinct
  <2>1. CASE n[a][i] = p
    BY <2>1, <1>4
  <2>2. CASE n[a][i] # p
    <3>1. i \in DOMAIN m[a] /\ n[a][i] = m[a][i]
      BY <2>2, <1>4
    <3>2. j \in DOMAIN m[b] /\ n[b][j] = m[b][j]
      BY <2>2, <1>4
    <3>3. m[a][i] = m[b][j]
      BY <3>1, <3>2
    <3> QED  BY <3>1, <3>2, <3>3, DistinctAt
  <2> QED  BY <2>1, <2>2
<1>7. ASSUME NEW q PROVE Listed(n, q) <=> Listed(m, q) \/ q = p
  <2>1. Listed(n, q) => Listed(m, q) \/ q = p
    BY <1>4 DEF Listed
  <2>2. Listed(m, q) => Listed(n, q)
    BY <1>5 DEF Listed
  <2>3. Listed(n, p)
    BY <1>2, <1>3 DEF Listed
  <2> QED  BY <2>1, <2>2, <2>3
<1> QED  BY <1>1, <1>3, <1>6, <1>7

\* The first page of a list is taken off.
LEMMA Loses ==
  ASSUME NEW m \in Memories, NEW l \in Places, m[l] # <<>>,
         Distinct(m), NEW p, p = Head(m[l]), NEW n \in Memories, n[l] = Tail(m[l]),
         \A k \in Places \ {l} : n[k] = m[k]
  PROVE  /\ p \in PageNrs /\ Listed(m, p)
         /\ Distinct(n)
         /\ \A q : Listed(n, q) <=> Listed(m, q) /\ q # p
         /\ Len(n[l]) = Len(m[l]) - 1
<1>1. n[l] = Tail(m[l]) /\ \A k \in Places \ {l} : n[k] = m[k]
  OBVIOUS
<1>2. \A k \in Places : m[k] \in Seq(PageNrs) /\ Len(m[k]) \in Nat /\ DOMAIN m[k] = 1 .. Len(m[k])
  BY DEF Memories
<1>3. /\ Len(m[l]) > 0 /\ p = m[l][1] /\ p \in PageNrs
      /\ Tail(m[l]) \in Seq(PageNrs) /\ Len(n[l]) = Len(m[l]) - 1
      /\ DOMAIN n[l] = 1 .. Len(m[l]) - 1
      /\ \A i \in 1 .. Len(m[l]) - 1 : n[l][i] = m[l][i + 1]
  <2>1. m[l] \in Seq(PageNrs) /\ m[l] # <<>>
    BY <1>2
  <2> QED  BY <1>1, <2>1, HeadAndTail
<1>5. ASSUME NEW k \in Places, NEW i \in DOMAIN n[k]
      PROVE  /\ IF k = l THEN i \in Nat /\ i + 1 \in DOMAIN m[k] /\ n[k][i] = m[k][i + 1]
                ELSE i \in DOMAIN m[k] /\ n[k][i] = m[k][i]
             /\ n[k][i] # p
  <2>1. CASE k = l
    <3>1. i \in Nat /\ i >= 1 /\ i + 1 \in DOMAIN m[k] /\ n[k][i] = m[k][i + 1]
      <4>1. i \in 1 .. Len(m[l]) - 1 /\ Len(m[l]) \in Nat
        BY <2>1, <1>2, <1>3
      <4>2. i \in Nat /\ i >= 1 /\ i + 1 \in 1 .. Len(m[l])
        BY <4>1
      <4>3. DOMAIN m[l] = 1 .. Len(m[l]) /\ n[l][i] = m[l][i + 1]
        BY <4>1, <1>2, <1>3
      <4> QED  BY <2>1, <4>2, <4>3
    <3>2. 1 \in DOMAIN m[l] /\ 1 # i + 1
      BY <3>1, <1>2, <1>3
    <3> QED  BY <2>1, <3>1, <3>2, <1>3 DEF Distinct
  <2>2. CASE k # l
    <3>1. i \in DOMAIN m[k] /\ n[k][i] = m[k][i]
      BY <2>2, <1>1
    <3>2. 1 \in DOMAIN m[l]
      BY <1>2, <1>3
    <3> QED  BY <2>2, <3>1, <3>2, <1>3 DEF Distinct
  <2> QED  BY <2>1, <2>2
<1>6. Distinct(n)
  <2> SUFFICES ASSUME NEW a \in Places, NEW b \in Places,
                      NEW i \in DOMAIN n[a], NEW j \in DOMAIN n[b],
                      n[a][i] = n[b][j]
               PROVE  a = b /\ i = j
    BY DEF Distinct
  <2> DEFINE x == IF a = l THEN i + 1 ELSE i
             y == IF b = l THEN j + 1 ELSE j
  <2>1. x \in DOMAIN m[a] /\ n[a][i] = m[a][x]
    BY <1>5
  <2>2. y \in DOMAIN m[b] /\ n[b][j] = m[b][y]
    BY <1>5
  <2> HIDE DEF x, y
  <2>3. m[a][x] = m[b][y]
    BY <2>1, <2>2
  <2>30. a = b /\ x = y
    BY <2>1, <2>2, <2>3, DistinctAt
  <2>4. a = l => i \in Nat /\ j \in Nat
    BY <2>30, <1>5
  <2> QED  BY <2>30, <2>4 DEF x, y
<1>7. ASSUME NEW q PROVE Listed(n, q) <=> Listed(m, q) /\ q # p
  <2>1. ASSUME Listed(n, q) PROVE Listed(m, q) /\ q # p
    <3>1. PICK k \in Places : \E i \in DOMAIN n[k] : n[k][i] = q
      BY <2>1 DEF Listed
    <3>2. PICK i \in DOMAIN n[k] : n[k][i] = q
      BY <3>1
    <3>3. q # p /\ \E j \in DOMAIN m[k] : m[k][j] = q
      BY <3>2, <1>5
    <3> QED  BY <3>3 DEF Listed
  <2>2. ASSUME Listed(m, q), q # p PROVE Listed(n, q)
    <3>0. PICK k \in Places : \E i \in DOMAIN m[k] : m[k][i] = q
      BY <2>2 DEF Listed
    <3>1. PICK i \in DOMAIN m[k] : m[k][i] = q
      BY <3>0
    <3>2. CASE k = l
      <4>1. i - 1 \in DOMAIN n[l] /\ n[l][i - 1] = q
        BY <3>1, <3>2, <2>2, <1>2, <1>3, SMTT(30)
      <4> QED  BY <4>1 DEF Listed
    <3>3. CASE k # l
      BY <3>1, <3>3, <1>1 DEF Listed
    <3> QED  BY <3>2, <3>3
  <2> QED  BY <2>1, <2>2
<1>8. Listed(m, p)
  BY <1>2, <1>3 DEF Listed
<1> QED  BY <1>3, <1>6, <1>7, <1>8

-----------------------------------------------------------------------------
(* OwnsWhatItLists, in terms of Listed and Distinct *)

\* The lists of a task and the page allocator agree.
Agree(t) ==
  /\ Distinct(mem[t])
  /\ \A b : b \in blocks[t] <=> \E p : Listed(mem[t], p) /\ b = <<p, 1>>

\* OwnsWhatItLists says that of every task.
LEMMA Agrees == OwnsWhatItLists <=> \A t \in Clients : Agree(t)
<1>1. \A t \in Clients : \A p : p \in PagesOf(t) <=> Listed(mem[t], p)
  BY DEF PagesOf, Listed
<1>2. \A t \in Clients :
        blocks[t] = {<<p, 1>> : p \in PagesOf(t)}
          <=> \A b : b \in blocks[t] <=> \E p : Listed(mem[t], p) /\ b = <<p, 1>>
  BY <1>1
<1> QED  BY <1>2 DEF OwnsWhatItLists, Agree, Distinct

\* The same of the next state.
LEMMA AgreesNext == OwnsWhatItLists' <=> \A t \in Clients : Agree(t)'
<1>1. \A t \in Clients : \A p : p \in PagesOf(t)' <=> Listed(mem'[t], p)
  BY DEF PagesOf, Listed
<1>2. \A t \in Clients :
        blocks'[t] = {<<p, 1>> : p \in PagesOf(t)'}
          <=> \A b : b \in blocks'[t] <=> \E p : Listed(mem'[t], p) /\ b = <<p, 1>>
  BY <1>1
<1> QED  BY <1>2 DEF OwnsWhatItLists, Agree, Distinct

\* What a step of one task leaves of the others.
LEMMA OthersKeep ==
  ASSUME NEW u \in Clients, pc'[u] = pc[u], mem'[u] = mem[u], todo'[u] = todo[u]
  PROVE  /\ Shape(u) => Shape(u)'
         /\ blocks'[u] = blocks[u] /\ Agree(u) => Agree(u)'
<1>1. Shape(u) => Shape(u)'
  BY DEF Shape, Full
<1>2. blocks'[u] = blocks[u] /\ Agree(u) => Agree(u)'
  BY DEF Agree
<1> QED  BY <1>1, <1>2

\* The initial states satisfy the invariant.
LEMMA TaskMemInitTInv == TaskMemInit => TInv
<1> SUFFICES ASSUME TaskMemInit PROVE TInv
  OBVIOUS
<1>1. PInv
  BY PageInitPInv DEF TaskMemInit
<1>2. TaskTypeOK
  BY FivePlaces, PageAssumption DEF TaskMemInit, TaskTypeOK, Memories, Stages, Bits
<1>3. \A t \in Clients : Agree(t)
  <2> TAKE t \in Clients
  <2>1. \A l \in Places : mem[t][l] = <<>> /\ DOMAIN mem[t][l] = {}
    BY DEF TaskMemInit
  <2>2. blocks[t] = {}
    BY DEF TaskMemInit, PageInit
  <2> QED  BY <2>1, <2>2 DEF Agree, Distinct, Listed
<1>4. \A t \in Clients : pending[t] = None
  BY DEF TaskMemInit, PageInit
<1>5. \A t \in Clients : Shape(t)
  BY FivePlaces, Sizes DEF TaskMemInit, Shape, Full, Before
<1> QED  BY <1>1, <1>2, <1>3, <1>4, <1>5, Agrees DEF TInv

-----------------------------------------------------------------------------
(* One lemma per kind of step: it keeps the invariant, and is a step of      *)
(* PageAlloc or leaves its variables alone.                                  *)

\* get_free_page for a place.
LEMMA GetPageKeeps ==
  ASSUME TInv, NEW t \in Clients, GetPage(t)
  PROVE  TInv' /\ OnePageStep
<1>1. GetFreePages(t, 1) /\ pc[t] \in Places /\ UNCHANGED taskVars
  BY DEF GetPage
<1>2. PInv'
  BY <1>1, GetKeeps DEF TInv
<1>3. OnePageStep
  BY <1>1 DEF OnePageStep
<1>4. /\ blocks' = blocks
      /\ \A u \in Clients \ {t} : pending'[u] = pending[u]
  BY <1>1 DEF GetFreePages, TInv, PInv, PageTypeOK
<1>5. TaskTypeOK'
  BY <1>1 DEF TInv, TaskTypeOK, taskVars
<1>6. \A u \in Clients : Agree(u)' /\ Shape(u)'
  BY <1>1, <1>4, OthersKeep, Agrees DEF TInv, taskVars
<1>7. \A u \in Clients : pending'[u] # None => pc'[u] \in Places
  BY <1>1, <1>4 DEF TInv, taskVars
<1> QED  BY <1>2, <1>3, <1>5, <1>6, <1>7, AgreesNext DEF TInv

\* A page that has been taken is on no list, and is not page 0.
LEMMA TakenPage ==
  ASSUME TInv, NEW t \in Clients, pending[t] # None
  PROVE  /\ pending[t] = <<pending[t][1], 1>>
         /\ pending[t][1] \in PageNrs
         /\ ~Listed(mem[t], pending[t][1])
<1> DEFINE p == pending[t][1]
<1>1. pending[t] \in Bits \X Nat /\ pending[t] \in Has(t)
  BY DEF TInv, PInv, PageTypeOK, Has
<1>2. pending[t][2] = 1
  BY <1>1 DEF TInv, PInv
<1>3. pending[t] = <<p, 1>> /\ p \in Bits
  BY <1>1, <1>2
<1>4. p \in page_map \ Fixed
  <2>1. Block(p, 1) \subseteq page_map \ Fixed
    BY <1>1, <1>3 DEF TInv, PInv, NoSharing
  <2> QED  BY <2>1, <1>3, OnePage DEF Bits
<1>5. 0 \in Fixed
  BY PageAssumption DEF Fixed
<1>6. ~Listed(mem[t], p)
  <2>1. pending[t] \notin blocks[t]
    BY DEF TInv, PInv
  <2> QED  BY <2>1, <1>3, Agrees DEF TInv, Agree
<1> QED  BY <1>3, <1>4, <1>5, <1>6 DEF PageNrs

\* init_pages, and the page goes to the end of its list.
LEMMA LinkPageKeeps ==
  ASSUME TInv, NEW t \in Clients, LinkPage(t)
  PROVE  TInv' /\ OnePageStep
<1> DEFINE l == pc[t]
           p == pending[t][1]
           m == mem[t]
           n == [m EXCEPT ![l] = Append(@, p)]
<1>1. /\ l \in Places /\ InitPages(t) /\ pending[t] # None
      /\ mem' = [mem EXCEPT ![t][l] = Append(@, p)]
      /\ pc' = [pc EXCEPT ![t] = IF Len(m[l]) + 1 = Size[l] THEN After(t, l) ELSE l]
      /\ stale' = stale \cup {u \in Clients : walk[u] = p}
      /\ todo' = todo /\ walk' = walk
  BY DEF LinkPage, InitPages
<1>2. PInv'
  BY <1>1, InitKeeps DEF TInv
<1>3. OnePageStep
  BY <1>1 DEF OnePageStep
<1>4. pending[t] = <<p, 1>> /\ p \in PageNrs /\ ~Listed(m, p)
  BY <1>1, TakenPage
<1>5. m \in Memories /\ Distinct(m) /\ Agree(t)
  BY Agrees DEF TInv, TaskTypeOK, Agree
<1>6. /\ n \in Memories
      /\ Distinct(n)
      /\ \A q : Listed(n, q) <=> Listed(m, q) \/ q = p
      /\ Len(n[l]) = Len(m[l]) + 1
  <2>1. /\ n \in Memories /\ n[l] = Append(m[l], p)
        /\ \A k \in Places \ {l} : n[k] = m[k]
    BY <1>1, <1>4, <1>5 DEF Memories
  <2> HIDE DEF l, p, m, n
  <2> QED  BY <2>1, <1>1, <1>4, <1>5, Gains
<1>7. /\ mem'[t] = n
      /\ \A u \in Clients \ {t} : mem'[u] = mem[u] /\ pc'[u] = pc[u]
      /\ \A k \in Places \ {l} : n[k] = m[k]
  BY <1>1, <1>5 DEF TInv, TaskTypeOK, Memories
<1>8. /\ blocks'[t] = blocks[t] \cup {<<p, 1>>}
      /\ \A u \in Clients \ {t} : blocks'[u] = blocks[u] /\ pending'[u] = pending[u]
      /\ pending'[t] = None
  BY <1>1, <1>4 DEF InitPages, TInv, PInv, PageTypeOK
<1> HIDE DEF n
<1>9. Agree(t)'
  BY <1>5, <1>6, <1>7, <1>8 DEF Agree
<1>10. pc'[t] = IF Len(m[l]) + 1 = Size[l] THEN After(t, l) ELSE l
  BY <1>1 DEF TInv, TaskTypeOK
<1>11. l = "stack_origin" \/ t \in Users
  BY <1>1 DEF TInv, Shape
<1>12. After(t, l) \in Stages
  BY <1>1, FivePlaces DEF After, Stages
<1>13. TaskTypeOK'
  <2>1. mem' \in [Clients -> Memories]
    BY <1>1, <1>6, <1>7 DEF TInv, TaskTypeOK, n
  <2>2. pc' \in [Clients -> Stages]
    BY <1>1, <1>12 DEF TInv, TaskTypeOK, Stages
  <2> QED  BY <2>1, <2>2, <1>1 DEF TInv, TaskTypeOK
<1>14. Shape(t)'
  <2>1. /\ \A k \in Places : k # l =>
             Len(m[k]) = IF k \in Before(l) THEN Size[k] ELSE 0
        /\ Len(m[l]) < Size[l] /\ Len(m[l]) \in Nat
        /\ todo'[t] = <<>> /\ Len(m["stack_origin"]) <= 1
    <3>1. Shape(t) /\ Len(m[l]) \in Nat
      BY <1>1, <1>5 DEF TInv, Memories
    <3> QED  BY <3>1, <1>1, FivePlaces DEF Shape
  <2>2. \A k \in Places : k # l => Len(mem'[t][k]) = Len(m[k])
    BY <1>7
  <2>3. Len(mem'[t][l]) = Len(m[l]) + 1
    BY <1>6, <1>7
  <2>4. Len(mem'[t]["stack_origin"]) <= 1
    <3>1. CASE l = "stack_origin"
      BY <3>1, <2>1, <2>3, Sizes
    <3>2. CASE l # "stack_origin"
      BY <3>2, <2>1, <2>2, FivePlaces
    <3> QED  BY <3>1, <3>2
  <2>5. CASE Len(m[l]) + 1 # Size[l]
    <3>1. pc'[t] = l /\ Len(m[l]) + 1 < Size[l]
      BY <1>1, <1>10, <2>5, <2>1, Sizes
    <3>2. \A k \in Places :
            IF k = l THEN Len(mem'[t][k]) < Size[k]
            ELSE Len(mem'[t][k]) = IF k \in Before(l) THEN Size[k] ELSE 0
      BY <3>1, <2>1, <2>2, <2>3
    <3>3. l \in Places /\ (t \notin Users => l = "stack_origin")
      BY <1>1 DEF TInv, Shape
    <3> QED  BY <3>1, <3>2, <3>3, <2>1, <2>4, FivePlaces DEF Shape
  <2>6. CASE Len(m[l]) + 1 = Size[l]
    <3>1. pc'[t] = After(t, l) /\ Len(mem'[t][l]) = Size[l]
      BY <1>10, <2>6, <2>3
    <3>2. CASE l = "stack_origin"
      BY <3>1, <3>2, <2>1, <2>2, <2>3, <2>4, FivePlaces, Sizes, SMTT(30) DEF Shape, After, Before, Full
    <3>3. CASE l = "stack_list"
      BY <3>1, <3>3, <2>1, <2>2, <2>3, <2>4, <1>11, FivePlaces, Sizes DEF Shape, After, Before, Full
    <3>4. CASE l = "elf_list"
      BY <3>1, <3>4, <2>1, <2>2, <2>3, <2>4, <1>11, FivePlaces, Sizes DEF Shape, After, Before, Full
    <3>5. CASE l = "elf_stack_list"
      BY <3>1, <3>5, <2>1, <2>2, <2>3, <2>4, <1>11, FivePlaces, Sizes DEF Shape, After, Before, Full
    <3>6. CASE l = "elf_image_list"
      BY <3>1, <3>6, <2>1, <2>2, <2>3, <2>4, <1>11, FivePlaces, Sizes DEF Shape, After, Before, Full
    <3> QED  BY <3>2, <3>3, <3>4, <3>5, <3>6, <1>1, FivePlaces
  <2> QED  BY <2>5, <2>6
<1>15. \A u \in Clients : Agree(u)' /\ Shape(u)'
  BY <1>1, <1>7, <1>8, <1>9, <1>14, OthersKeep, Agrees DEF TInv
<1>16. \A u \in Clients : pending'[u] # None => pc'[u] \in Places
  BY <1>7, <1>8 DEF TInv
<1> QED  BY <1>2, <1>3, <1>13, <1>15, <1>16, AgreesNext DEF TInv

\* A step that leaves the page allocator alone keeps its invariant.
LEMMA PagesStill ==
  ASSUME PInv, UNCHANGED pageVars
  PROVE  PInv'
<1>1. /\ page_map' = page_map /\ page' = page /\ blocks' = blocks
      /\ pending' = pending /\ \A c \in Clients : Has(c)' = Has(c)
  BY DEF pageVars, Has
<1>2. PageTypeOK'
  BY DEF pageVars, PInv, PageTypeOK
<1>3. NoSharing'
  BY <1>1 DEF PInv, NoSharing, Fixed
<1>4. Fixed' = Fixed
  BY DEF Fixed
<1> QED  BY <1>1, <1>2, <1>3, <1>4 DEF PInv

\* A step that touches no page: the task goes on to another stage.
LEMMA StageKeeps ==
  ASSUME TInv, NEW t \in Clients, NEW st \in Stages, NEW order \in Seq(Places),
         UNCHANGED <<pageVars, mem, walk, stale>>, pending[t] = None,
         pc' = [pc EXCEPT ![t] = st], todo' = [todo EXCEPT ![t] = order],
         pc'[t] = st /\ todo'[t] = order => Shape(t)'
  PROVE  TInv'
<1>1. PInv'
  BY PagesStill DEF TInv
<1>2. TaskTypeOK'
  BY DEF TInv, TaskTypeOK
<1>3. /\ pc'[t] = st /\ todo'[t] = order
      /\ \A u \in Clients \ {t} : pc'[u] = pc[u] /\ todo'[u] = todo[u]
      /\ mem' = mem /\ blocks' = blocks /\ pending' = pending
  BY DEF TInv, TaskTypeOK, pageVars
<1>4. \A u \in Clients \ {t} : Shape(u)'
  BY <1>3, OthersKeep DEF TInv
<1>5. \A u \in Clients : Agree(u)'
  BY <1>3, Agrees DEF TInv, Agree
<1>6. \A u \in Clients : pending'[u] # None => pc'[u] \in Places
  BY <1>3 DEF TInv
<1> QED  BY <1>1, <1>2, <1>3, <1>4, <1>5, <1>6, AgreesNext DEF TInv

\* The test of mm_free_page.
LEMMA CheckFreeKeeps ==
  ASSUME TInv, NEW t \in Clients, CheckFree(t)
  PROVE  TInv' /\ UNCHANGED pageVars
<1>1. /\ pc[t] = "check" /\ UNCHANGED <<pageVars, mem, walk, stale>>
      /\ Shape(t) /\ mem' = mem
  BY DEF CheckFree, TInv
<1>2. pending[t] = None
  BY <1>1, FivePlaces DEF TInv
<1>3. t \in Users /\ todo[t] = <<>> /\ Full(t, Before("elf_stack_list"))
  BY <1>1 DEF Shape
<1>4. \A l \in Places :
        Len(mem'[t][l]) = IF l \in Before("elf_stack_list") THEN Size[l] ELSE 0
  BY <1>1, <1>3 DEF Full
<1>5. Len(mem'[t]["stack_origin"]) <= 1
  BY <1>1 DEF Shape
<1>6. CASE free_pages >= StackPages + ImagePages
  <2>1. /\ pc' = [pc EXCEPT ![t] = "elf_stack_list"]
        /\ todo' = [todo EXCEPT ![t] = <<>>]
    BY <1>3, <1>6 DEF CheckFree, TInv, TaskTypeOK
  <2>2. "elf_stack_list" \in Stages /\ <<>> \in Seq(Places)
    BY FivePlaces, Orders DEF Stages
  <2>3. pc'[t] = "elf_stack_list" /\ todo'[t] = <<>> => Shape(t)'
    BY <1>3, <1>4, <1>5, FivePlaces, Sizes DEF Shape, Before
  <2> QED  BY <1>1, <1>2, <2>1, <2>2, <2>3, StageKeeps
<1>7. CASE ~(free_pages >= StackPages + ImagePages)
  <2>1. /\ pc' = [pc EXCEPT ![t] = "refused"]
        /\ todo' = [todo EXCEPT ![t] = <<"stack_origin">>]
    BY <1>7 DEF CheckFree
  <2>2. "refused" \in Stages /\ <<"stack_origin">> \in Seq(Places)
    BY Orders DEF Stages
  <2>3. pc'[t] = "refused" /\ todo'[t] = <<"stack_origin">> => Shape(t)'
    BY <1>4, <1>5, FivePlaces, Sizes DEF Shape, Before
  <2> QED  BY <1>1, <1>2, <2>1, <2>2, <2>3, StageKeeps
<1> QED  BY <1>1, <1>6, <1>7

\* get_free_page finds nothing, and fork gives back what it has taken.
LEMMA NoMemoryKeeps ==
  ASSUME TInv, NEW t \in Clients, NoMemory(t)
  PROVE  TInv' /\ UNCHANGED pageVars
<1> DEFINE order == OnNoMemory(pc[t])
<1>1. /\ pc[t] \in Places /\ UNCHANGED <<pageVars, mem, walk, stale>>
      /\ pending[t] = None /\ Shape(t) /\ mem' = mem
      /\ pc' = [pc EXCEPT ![t] = "release"] /\ todo' = [todo EXCEPT ![t] = order]
  BY DEF NoMemory, TInv
<1>2. /\ \A l \in Places : mem[t][l] \in Seq(PageNrs)
      /\ \A l \in Places : Len(mem[t][l]) = 0 => mem[t][l] = <<>>
  BY DEF TInv, TaskTypeOK, Memories
<1>3. order \in Seq(Places)
  BY <1>1, Orders DEF OnNoMemory
<1>4. \A l \in Places : mem[t][l] # <<>> => Names(order, l)
  <2>1. CASE pc[t] = "stack_origin"
    <3>1. \A l \in Places : Len(mem[t][l]) = 0
      BY <2>1, <1>1, <1>2, Sizes, FivePlaces DEF Shape, Before
    <3> QED  BY <3>1, <1>2
  <2>2. CASE pc[t] \in {"stack_list", "elf_list"}
    <3>1. \A l \in {"elf_stack_list", "elf_image_list"} : Len(mem[t][l]) = 0
      BY <2>2, <1>1, FivePlaces DEF Shape, Before
    <3>2. order = Tables \o <<"stack_origin">>
      BY <2>2 DEF OnNoMemory
    <3> QED  BY <3>1, <3>2, <1>2, Orders, FivePlaces
  <2>3. CASE pc[t] \notin {"stack_origin", "stack_list", "elf_list"}
    <3>1. order = Lists \o <<"stack_origin", "stack_origin">>
      BY <2>3 DEF OnNoMemory
    <3> QED  BY <3>1, Orders
  <2> QED  BY <2>1, <2>2, <2>3
<1>5. "release" \in Stages /\ "release" \notin Places
  BY FivePlaces DEF Stages
<1> HIDE DEF order
<1>6. pc'[t] = "release" /\ todo'[t] = order => Shape(t)'
  BY <1>1, <1>4, <1>5 DEF Shape
<1> QED  BY <1>1, <1>3, <1>5, <1>6, StageKeeps

\* release_task of a task that was made whole.
LEMMA ReleaseTaskKeeps ==
  ASSUME TInv, NEW t \in Clients, ReleaseTask(t)
  PROVE  TInv' /\ UNCHANGED pageVars
<1> DEFINE order == IF t \in Users THEN Lists \o <<"stack_origin">>
                    ELSE <<"stack_origin">>
<1>1. /\ pc[t] = "made" /\ UNCHANGED <<pageVars, mem, walk, stale>>
      /\ Shape(t) /\ mem' = mem
      /\ pc' = [pc EXCEPT ![t] = "release"] /\ todo' = [todo EXCEPT ![t] = order]
  BY DEF ReleaseTask, TInv
<1>2. pending[t] = None
  BY <1>1, FivePlaces DEF TInv
<1>3. order \in Seq(Places)
  BY Orders
<1>4. \A l \in Places : mem[t][l] # <<>> => Names(order, l)
  <2>1. CASE t \in Users
    BY <2>1, Orders
  <2>2. CASE t \notin Users
    <3>1. \A l \in Places \ {"stack_origin"} : Len(mem[t][l]) = 0
      BY <1>1, <2>2 DEF Shape, Full
    <3>2. \A l \in Places : mem[t][l] \in Seq(PageNrs)
      BY DEF TInv, TaskTypeOK, Memories
    <3>3. \A l \in Places \ {"stack_origin"} : mem[t][l] = <<>>
      BY <3>1, <3>2
    <3> QED  BY <2>2, <3>3, Orders
  <2> QED  BY <2>1, <2>2
<1>5. "release" \in Stages /\ "release" \notin Places
  BY FivePlaces DEF Stages
<1> HIDE DEF order
<1>6. pc'[t] = "release" /\ todo'[t] = order => Shape(t)'
  BY <1>1, <1>4, <1>5 DEF Shape
<1> QED  BY <1>1, <1>2, <1>3, <1>5, <1>6, StageKeeps

\* free_pages of a page on a list of the task is a free that PageAlloc allows:
\* the task holds the page, and its header says that it is one page.
LEMMA FreeIsAllowed ==
  ASSUME TInv, NEW t \in Clients, NEW p \in PageNrs, Listed(mem[t], p),
         FreePage(t, p)
  PROVE  /\ PInv' /\ OnePageStep
         /\ blocks'[t] = blocks[t] \ {<<p, 1>>}
         /\ \A u \in Clients \ {t} : blocks'[u] = blocks[u]
         /\ pending' = pending
<1> DEFINE b == <<p, 1>>
<1>1. b \in blocks[t]
  BY Agrees DEF TInv, Agree
<1>2. b[1] = p /\ page[p] = [header |-> TRUE, count |-> 1]
  BY <1>1 DEF TInv, PInv
<1>3. page[p].header /\ page[p].count = 1
  BY <1>2
<1>4. FreePages(t, b)
  BY <1>1, <1>2, <1>3 DEF FreePages, FreePage
<1>5. PInv'
  BY <1>1, <1>4, FreeKeeps DEF TInv
<1>6. OnePageStep
  BY <1>1, <1>4 DEF OnePageStep
<1>7. blocks' = [blocks EXCEPT ![t] = @ \ {b}] /\ pending' = pending
  BY <1>4 DEF FreePages
<1>8. blocks \in [Clients -> SUBSET (Bits \X Nat)]
  BY DEF TInv, PInv, PageTypeOK
<1> QED  BY <1>5, <1>6, <1>7, <1>8

\* A place is released only in a stage of release; it holds a page then.
LEMMA CurrentHolds ==
  ASSUME TInv, NEW t \in Clients, Left(t) # {}
  PROVE  /\ Current(t) \in Places /\ mem[t][Current(t)] # <<>>
         /\ pc[t] = "release" \/ (pc[t] = "refused" /\ Current(t) = "stack_origin")
<1> DEFINE P(i) == i \in Left(t) /\ \A j \in Left(t) : i <= j
<1>1. todo[t] \in Seq(Places)
  BY DEF TInv, TaskTypeOK
<1>2. DOMAIN todo[t] \subseteq Nat /\ \A i \in DOMAIN todo[t] : todo[t][i] \in Places
  BY <1>1
<1>3. Left(t) \subseteq Nat /\ Left(t) \subseteq DOMAIN todo[t]
  BY <1>2 DEF Left
<1>4. PICK i \in Left(t) : \A j \in Left(t) : i <= j
  BY <1>3, LeastPage
<1>5. PICK k \in Left(t) : Current(t) = todo[t][k]
  BY <1>4 DEF Current
<1>6. Current(t) \in Places /\ mem[t][Current(t)] # <<>>
  BY <1>2, <1>3, <1>5 DEF Left
<1>7. todo[t] # <<>>
  BY <1>3, <1>5
<1>8. pc[t] \in {"release", "refused"}
  BY <1>7 DEF TInv, Shape
<1>9. pc[t] = "refused" => Current(t) = "stack_origin"
  <2>1. pc[t] = "refused" => todo[t] = <<"stack_origin">>
    BY DEF TInv, Shape
  <2> QED  BY <2>1, <1>3, <1>5
<1> QED  BY <1>6, <1>8, <1>9

\* A step of a release takes the first page off a list and frees it.
LEMMA FreeHeadKeeps ==
  ASSUME TInv, NEW t \in Clients, NEW l \in Places, NEW p,
         mem[t][l] # <<>>, p = Head(mem[t][l]), FreePage(t, p),
         pc[t] = "release" \/ (pc[t] = "refused" /\ l = "stack_origin"),
         mem' = [mem EXCEPT ![t][l] = Tail(@)],
         UNCHANGED <<pc, todo, stale>>,
         p \in PageNrs => walk' \in [Clients -> Bits]
  PROVE  TInv' /\ OnePageStep
<1> DEFINE m == mem[t]
           n == [m EXCEPT ![l] = Tail(@)]
<1>1. m \in Memories /\ Distinct(m) /\ Agree(t)
  BY Agrees DEF TInv, TaskTypeOK, Agree
<1>2. m[l] \in Seq(PageNrs) /\ m[l] # <<>> /\ Tail(m[l]) \in Seq(PageNrs)
  BY <1>1, HeadAndTail DEF Memories
<1>3. n \in Memories /\ n[l] = Tail(m[l]) /\ \A k \in Places \ {l} : n[k] = m[k]
  BY <1>1, <1>2 DEF Memories
<1>4. mem'[t] = n /\ \A u \in Clients \ {t} : mem'[u] = mem[u]
  BY <1>1 DEF TInv, TaskTypeOK, Memories
<1>5. mem' \in [Clients -> Memories]
  BY <1>3, <1>4 DEF TInv, TaskTypeOK
<1>6. p = Head(m[l])
  OBVIOUS
<1> HIDE DEF m, n
<1>7. /\ p \in PageNrs /\ Listed(m, p)
      /\ Distinct(n)
      /\ \A q : Listed(n, q) <=> Listed(m, q) /\ q # p
      /\ Len(n[l]) = Len(m[l]) - 1
  BY <1>1, <1>2, <1>3, <1>6, Loses
<1>8. /\ PInv' /\ OnePageStep
      /\ blocks'[t] = blocks[t] \ {<<p, 1>>}
      /\ \A u \in Clients \ {t} : blocks'[u] = blocks[u]
      /\ pending' = pending
  BY <1>7, FreeIsAllowed DEF m
<1>9. Agree(t)'
  BY <1>1, <1>4, <1>7, <1>8 DEF Agree, m
<1>10. TaskTypeOK'
  BY <1>5, <1>7 DEF TInv, TaskTypeOK
<1>11. Shape(t)'
  <2>1. Shape(t) /\ pc'[t] = pc[t] /\ todo'[t] = todo[t]
    BY DEF TInv
  <2>2. pc[t] \notin Places /\ pc[t] \in {"release", "refused"}
    BY FivePlaces
  <2>3. Len(m["stack_origin"]) \in Nat /\ "stack_origin" \in Places
    BY <1>1, FivePlaces DEF Memories
  <2>4. Len(mem'[t]["stack_origin"]) <= 1
    <3>1. Len(m["stack_origin"]) <= 1
      BY <2>1 DEF Shape, m
    <3>2. CASE l = "stack_origin"
      <4>1. Len(mem'[t]["stack_origin"]) = Len(m["stack_origin"]) - 1
        BY <3>2, <1>4, <1>7
      <4> QED  BY <4>1, <3>1, <2>3
    <3>3. CASE l # "stack_origin"
      BY <3>1, <3>3, <2>3, <1>3, <1>4
    <3> QED  BY <3>2, <3>3
  <2>5. CASE pc[t] = "release"
    <3>1. \A k \in Places : mem'[t][k] # <<>> => Names(todo[t], k)
      BY <2>1, <2>5, <1>2, <1>3, <1>4 DEF Shape, m
    <3> QED  BY <3>1, <2>1, <2>2, <2>4, <2>5 DEF Shape
  <2>6. CASE pc[t] = "refused" /\ l = "stack_origin"
    <3>1. \A k \in Places \ {"stack_origin"} : mem'[t][k] = mem[t][k]
      BY <2>6, <1>3, <1>4 DEF m
    <3> QED  BY <3>1, <2>1, <2>2, <2>4, <2>6 DEF Shape
  <2> QED  BY <2>5, <2>6
<1>12. \A u \in Clients : Agree(u)' /\ Shape(u)'
  BY <1>4, <1>8, <1>9, <1>11, OthersKeep, Agrees DEF TInv
<1>13. \A u \in Clients : pending'[u] # None => pc'[u] \in Places
  BY <1>8 DEF TInv
<1> QED  BY <1>8, <1>10, <1>12, <1>13, AgreesNext DEF TInv

\* list_del and free_pages of a node.
LEMMA FreeNodeKeeps ==
  ASSUME TInv, NEW t \in Clients, FreeNode(t)
  PROVE  TInv' /\ OnePageStep
<1> DEFINE l == Current(t)
           p == Head(mem[t][l])
<1>1. /\ Left(t) # {} /\ FreePage(t, p)
      /\ mem' = [mem EXCEPT ![t][l] = Tail(@)]
      /\ walk' = [walk EXCEPT ![t] = p]
      /\ UNCHANGED <<pc, todo, stale>>
  BY DEF FreeNode
<1>2. /\ l \in Places /\ mem[t][l] # <<>>
      /\ pc[t] = "release" \/ (pc[t] = "refused" /\ l = "stack_origin")
  BY <1>1, CurrentHolds
<1>3. p \in PageNrs => walk' \in [Clients -> Bits]
  BY <1>1 DEF TInv, TaskTypeOK, PageNrs
<1> HIDE DEF l
<1> QED  BY <1>1, <1>2, <1>3, FreeHeadKeeps

\* release_kernel_stack: stack_origin holds one page, so clearing the pointer
\* forgets the page that was freed and no other.
LEMMA ReleaseKernelStackKeeps ==
  ASSUME TInv, NEW t \in Clients, ReleaseKernelStack(t)
  PROVE  TInv' /\ OnePageStep
<1> DEFINE l == "stack_origin"
           p == Head(mem[t][l])
<1>1. /\ Left(t) # {} /\ Current(t) = l /\ FreePage(t, p)
      /\ mem' = [mem EXCEPT ![t][l] = <<>>]
      /\ UNCHANGED <<pc, todo, walk, stale>>
  BY DEF ReleaseKernelStack
<1>2. /\ l \in Places /\ mem[t][l] # <<>>
      /\ pc[t] = "release" \/ (pc[t] = "refused" /\ l = "stack_origin")
  BY <1>1, CurrentHolds
<1>3. Tail(mem[t][l]) = <<>>
  <2>1. mem[t][l] \in Seq(PageNrs) /\ Len(mem[t][l]) <= 1
    BY <1>2 DEF TInv, TaskTypeOK, Memories, Shape
  <2> QED  BY <2>1, <1>2, TailOfOne
<1>4. mem' = [mem EXCEPT ![t][l] = Tail(@)]
  BY <1>1, <1>3
<1>5. walk' \in [Clients -> Bits]
  BY <1>1 DEF TInv, TaskTypeOK
<1> HIDE DEF l
<1> QED  BY <1>1, <1>2, <1>4, <1>5, FreeHeadKeeps

\* list_for_each goes on.
LEMMA NextNodeKeeps ==
  ASSUME TInv, NEW t \in Clients, NextNode(t)
  PROVE  TInv' /\ UNCHANGED pageVars
<1>1. UNCHANGED <<pageVars, pc, mem, todo, stale>> /\ walk' = [walk EXCEPT ![t] = 0]
  BY DEF NextNode
<1>2. PInv'
  BY <1>1, ZenonT(40) DEF TInv, pageVars, PInv, PageTypeOK, NoSharing, Has, Fixed
<1>3. TaskTypeOK'
  BY <1>1, PageAssumption DEF TInv, TaskTypeOK, Bits
<1>4. pending' = pending /\ blocks' = blocks
  BY <1>1 DEF pageVars
<1>5. \A u \in Clients : Agree(u)' /\ Shape(u)'
  BY <1>1, <1>4, OthersKeep, Agrees DEF TInv
<1> QED  BY <1>1, <1>2, <1>3, <1>4, <1>5, AgreesNext DEF TInv

-----------------------------------------------------------------------------
(* The theorems *)

\* Every step keeps the invariant, and is one of PageAlloc for one page or
\* leaves the page allocator alone.
LEMMA TaskMemNextTInv ==
  ASSUME TInv, [TaskMemNext]_tmVars
  PROVE  TInv' /\ [OnePageStep]_pageVars
<1>1. CASE TaskMemNext
  <2>1. PICK t \in Clients :
          \/ GetPage(t) \/ LinkPage(t) \/ CheckFree(t) \/ NoMemory(t)
          \/ ReleaseTask(t) \/ FreeNode(t) \/ NextNode(t) \/ ReleaseKernelStack(t)
    BY <1>1 DEF TaskMemNext
  <2> QED  BY <2>1, GetPageKeeps, LinkPageKeeps, CheckFreeKeeps, NoMemoryKeeps,
              ReleaseTaskKeeps, FreeNodeKeeps, NextNodeKeeps,
              ReleaseKernelStackKeeps
<1>2. CASE UNCHANGED tmVars
  <2>1. /\ UNCHANGED <<pageVars, pc, mem, todo, walk, stale>>
        /\ blocks' = blocks /\ pending' = pending
    BY <1>2 DEF tmVars, taskVars, pageVars
  <2>2. PInv'
    BY <2>1, PagesStill DEF TInv
  <2>3. TaskTypeOK'
    BY <2>1 DEF TInv, TaskTypeOK
  <2>4. \A u \in Clients : Agree(u)' /\ Shape(u)'
    BY <2>1, OthersKeep, Agrees DEF TInv
  <2>5. TInv'
    BY <2>1, <2>2, <2>3, <2>4, AgreesNext DEF TInv
  <2> QED  BY <2>1, <2>5
<1> QED  BY <1>1, <1>2

\* A step for one page is a step of PageAlloc.
LEMMA OnePageStepAllowed == [OnePageStep]_pageVars => [PageNext]_pageVars
BY TaskMemAssumption DEF OnePageStep, PageNext

\* What the invariant says of a task that has come to an end.
LEMMA TInvEndsWhole == TInv => EndsWhole
<1> SUFFICES ASSUME TInv, NEW t \in Clients, Left(t) = {}, walk[t] = 0
             PROVE  /\ pc[t] = "made" => \A l \in Places :
                         Len(mem[t][l]) =
                           IF t \in Users \/ l = "stack_origin" THEN Size[l] ELSE 0
                    /\ pc[t] = "release" => blocks[t] = {}
                    /\ pc[t] = "refused" => \A l \in Places :
                         Len(mem[t][l]) =
                           IF l \in {"stack_list", "elf_list"} THEN 1 ELSE 0
  BY DEF EndsWhole
<1>1. Shape(t) /\ Agree(t)
  BY Agrees DEF TInv
<1>2. \A l \in Places : Names(todo[t], l) => mem[t][l] = <<>>
  BY DEF Left, Names
<1>3. pc[t] = "made" => \A l \in Places :
        Len(mem[t][l]) = IF t \in Users \/ l = "stack_origin" THEN Size[l] ELSE 0
  BY <1>1 DEF Shape, Full
<1>4. ASSUME pc[t] = "release" PROVE blocks[t] = {}
  <2>1. \A l \in Places : mem[t][l] = <<>>
    BY <1>1, <1>2, <1>4 DEF Shape
  <2>2. \A p : ~Listed(mem[t], p)
    BY <2>1 DEF Listed
  <2> QED  BY <2>2, <1>1 DEF Agree
<1>5. ASSUME pc[t] = "refused"
      PROVE  \A l \in Places :
               Len(mem[t][l]) = IF l \in {"stack_list", "elf_list"} THEN 1 ELSE 0
  <2>1. todo[t] = <<"stack_origin">>
    BY <1>1, <1>5 DEF Shape
  <2>2. mem[t]["stack_origin"] = <<>>
    BY <2>1, <1>2, Orders, FivePlaces
  <2> QED  BY <2>2, <1>1, <1>5 DEF Shape
<1> QED  BY <1>3, <1>4, <1>5

\* The lists of every task and the page allocator agree at every moment on
\* the pages of the task, for any number of tasks that fork and release at the
\* same time: alloc_memory_for_task and release_task_memory neither forget nor
\* double a page.
THEOREM ListsAreWhatTasksHold == TaskMemSpec => []OwnsWhatItLists
<1>1. TaskMemInit => TInv
  BY TaskMemInitTInv
<1>2. TInv /\ [TaskMemNext]_tmVars => TInv'
  BY TaskMemNextTInv
<1>3. TInv => OwnsWhatItLists
  BY DEF TInv
<1> QED  BY <1>1, <1>2, <1>3, PTL DEF TaskMemSpec

\* fork gives a task all its pages or none, at whichever page memory runs out,
\* and a released task keeps none, except that the two page tables stay taken
\* when alloc_memory_and_map refuses: for all sizes of stack and image.
THEOREM ForkIsAllOrNothing == TaskMemSpec => []EndsWhole
<1>1. TaskMemInit => TInv
  BY TaskMemInitTInv
<1>2. TInv /\ [TaskMemNext]_tmVars => TInv'
  BY TaskMemNextTInv
<1> QED  BY <1>1, <1>2, TInvEndsWhole, PTL DEF TaskMemSpec

\* Tasks use the page allocator as PageAlloc allows: every free_pages of
\* task.c is for a page the task holds, the second release of the kernel stack
\* on the error path of fork included.
THEOREM TasksImplementPageAlloc == TaskMemSpec => UsesPagesAsAllowed
<1>1. TaskMemInit => TInv /\ PageInit
  BY TaskMemInitTInv DEF TaskMemInit
<1>2. TInv /\ [TaskMemNext]_tmVars => TInv' /\ [PageNext]_pageVars
  BY TaskMemNextTInv, OnePageStepAllowed
<1> QED  BY <1>1, <1>2, PTL DEF TaskMemSpec, PageSpec, UsesPagesAsAllowed

\* A step for one page keeps the counters of the zone exact.
LEMMA OnePageStepAInv ==
  ASSUME AInv, [OnePageStep]_pageVars
  PROVE  AInv'
<1>1. CASE UNCHANGED pageVars
  <2>1. \A c \in Clients : Has(c)' = Has(c)
    BY <1>1 DEF pageVars, Has
  <2>2. Held' = Held
    BY <2>1 DEF Held
  <2>3. PInv'
    BY <1>1, PagesStill DEF AInv
  <2>4. Accounting' /\ AheadIsFree'
    BY <1>1, <2>1, <2>2 DEF pageVars, AInv, Accounting, AheadIsFree, Fixed
  <2> QED  BY <2>3, <2>4 DEF AInv
<1>2. CASE OnePageStep
  BY <1>2, GetAccounts, InitAccounts, FreeAccounts DEF OnePageStep
<1> QED  BY <1>1, <1>2

\* Under tasks that fork, fail and release in any interleaving, the page
\* allocator gives no page to two of them and counts its free pages exactly.
\* PagesAreExclusive shows this for clients that ask for one page; here it
\* follows without that assumption, because task.c asks for no more.
THEOREM TasksNeverShare == TaskMemSpec => [](NoSharing /\ Accounting)
<1>1. TaskMemInit => TInv /\ AInv
  BY TaskMemInitTInv, PageInitAInv DEF TaskMemInit
<1>2. TInv /\ AInv /\ [TaskMemNext]_tmVars => TInv' /\ AInv'
  BY TaskMemNextTInv, OnePageStepAInv
<1>3. AInv => NoSharing /\ Accounting
  BY DEF AInv, PInv
<1> QED  BY <1>1, <1>2, <1>3, PTL DEF TaskMemSpec

=============================================================================
