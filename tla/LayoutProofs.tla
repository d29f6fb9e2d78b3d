---------------------------- MODULE LayoutProofs ----------------------------
(***************************************************************************)
(* Proofs about Layout for any size of a megabyte and of the address space, *)
(* any number of regions and any board whose regions do not overlap.       *)
(*                                                                         *)
(* The inductive invariant LInv follows boot: what the board registered     *)
(* lies apart (ParsePart), so the sections of the zones do and hold that    *)
(* memory (ZonePart, MemoryPart), so the addresses that map_zone_memory     *)
(* gives them lie apart too, zone behind zone (VirPart), so every entry of  *)
(* the table is that of one section (TlbPart) and the page numbers are the  *)
(* addresses (PagePart).  Each part is proved at the step that makes it and *)
(* kept by the steps behind it.                                             *)
(***************************************************************************)
EXTENDS Layout, TLAPS, FiniteSetTheorems, WellFoundedInduction

-----------------------------------------------------------------------------
(* The inductive invariant *)

Slots == Zones \X (1 .. ZONE_MAX_REGION)

\* The pages of physical memory of a section, and of a zone.
Phys(q) == Span(Sec(q).phy, Sec(q).size)

PhysIn(y) == UNION {Span(y.sec[i].phy, y.sec[i].size) : i \in 1 .. ZONE_MAX_REGION}

PhysOf(z) == PhysIn(zone[z])

\* The addresses of a section, and of the sections of a zone that are seen.
Virt(q) == Span(Sec(q).vir, Sec(q).size)

VirtOf(z) == UNION {Virt(<<z, i>>) : i \in 1 .. zone[z].nr}

IsSeen(q) == q \in Slots /\ q[2] <= zone[q[1]].nr

SectionSet == [phy : Nat, vir : Nat, size : Nat]

ZoneSet == [sec : [1 .. ZONE_MAX_REGION -> SectionSet], nr : 0 .. ZONE_MAX_REGION,
            pages : Nat, free : Int, bm_start : Nat, bm_end : Nat]

\* A whole number of megabytes.
Aligned(x) == \E m \in Int : x = m * SectionPages

MaxPage == PhysSections * SectionPages

RegionSet == [start : Nat, size : Nat, attr : Zones]

\* What a board has registered: regions apart from each other, whole megabytes
\* of them kept.
Kept(r, T) == /\ \E g \in T : r = Trimmed(g)
              /\ r.size > 0

ParsePart ==
  /\ table \subseteq Region
  /\ \A r, g \in table : r # g => Span(r.start, r.size) \cap Span(g.start, g.size) = {}
  /\ regions \in Seq(RegionSet)
  /\ \A i \in DOMAIN regions : Kept(regions[i], table)
  /\ \A i, j \in DOMAIN regions : i # j =>
       Span(regions[i].start, regions[i].size)
         \cap Span(regions[j].start, regions[j].size) = {}

\* The condition of KernelStaysMapped.
KernelLeads ==
  \A r \in table : r.attr = "normal" =>
      /\ r.start >= KernelPhys
      /\ \A g \in table : g.start = KernelPhys
           => Trimmed(r).size <= Trimmed(g).size

SectionOK(s) ==
  /\ s \in SectionSet
  /\ Aligned(s.phy) /\ Aligned(s.size)
  /\ s.phy + s.size <= MaxPage
  /\ s.size = 0 => s = NoSection

Cut == \A i \in DOMAIN regions : regions[i].attr # "dma"

ZonePart ==
  /\ zone \in [Zones -> ZoneSet]
  /\ \A q \in Slots : SectionOK(Sec(q))
  /\ \A p, q \in Slots : p # q => Phys(p) \cap Phys(q) = {}
  /\ \A z \in Zones : zone[z].pages = Cardinality(PhysOf(z))
  /\ \A q \in Slots : ~IsSeen(q) /\ q[1] # "normal" => Sec(q) = NoSection

\* What a zone holds is memory the board has registered for it.
MemoryPart ==
  /\ \A z \in Zones \ {"dma"} : PhysOf(z) \subseteq Memory(z)
  /\ PhysOf("dma") \subseteq IF Cut THEN Memory("normal") ELSE Memory("dma")
  /\ ~Dropped => /\ PhysOf("normal") \cup PhysOf("dma") = Memory("normal") \cup Memory("dma")
                 /\ PhysOf("res") = Memory("res")
  /\ total = zone["normal"].pages + zone["dma"].pages + zone["res"].pages

\* Before the DMA zone is cut off.
CarvePart ==
  LET n == zone["normal"]
  IN  /\ \A q \in Slots : ~IsSeen(q) => Sec(q) = NoSection
      /\ \A q \in Slots : IsSeen(q) => Sec(q).size > 0
      /\ \A B \in Nat : (\A i \in 1 .. n.nr : n.sec[i].size <= B) => n.pages <= n.nr * B
      /\ \E i \in 1 .. n.nr : n.sec[i].size >= 2 * SectionPages
      /\ zone["dma"].nr = 0 => Cut
      /\ KernelLeads => /\ n.nr >= 1 /\ n.sec[1].phy = KernelPhys
                        /\ \A i \in 1 .. n.nr : n.sec[i].size <= n.sec[1].size

KernelPart ==
  KernelLeads => /\ zone["normal"].nr >= 1
                 /\ Sec(<<"normal", 1>>).phy = KernelPhys
                 /\ Sec(<<"normal", 1>>).size >= SectionPages

Filled(q) == IsSeen(q) /\ Sec(q).size > 0

\* The addresses of the sections.
VirPart ==
  /\ \A q \in Slots : ~Filled(q) => Sec(q).vir = 0
  /\ \A q \in Slots : Filled(q) =>
       /\ Aligned(Sec(q).vir) /\ Sec(q).vir >= kernel_start
       /\ Sec(q).vir + Sec(q).size <= kernel_start + MaxPage
  /\ \A p, q \in Slots : Filled(p) /\ Filled(q) /\ p # q => Virt(p) \cap Virt(q) = {}
  /\ \E q \in Slots : Filled(q) /\ Sec(q).vir = kernel_start
  /\ \A j, k \in DOMAIN Seen : j < k /\ Filled(Seen[j]) /\ Filled(Seen[k]) =>
       Sec(Seen[j]).vir + Sec(Seen[j]).size < kernel_start + MaxPage
  /\ ~Hidden =>
       /\ VirtOf("normal") = Span(kernel_start, zone["normal"].pages)
       /\ VirtOf("dma") = Span(kernel_start + zone["normal"].pages, zone["dma"].pages)
       /\ VirtOf("res") = Span(kernel_start + zone["normal"].pages + zone["dma"].pages,
                               zone["res"].pages)
  /\ KernelLeads => Sec(<<"normal", 1>>).vir = kernel_start

\* What the table says of the addresses of the kernel.
EntryOK(e) ==
  \/ \E q \in Slots :
       /\ Filled(q) /\ e * SectionPages \in Virt(q)
       /\ tlb[e] = build_tlb_table_entry(e, Sec(q).vir, Sec(q).phy,
                                         q[1] \notin {"dma", "io"})
  \/ /\ tlb[e] = NoEntry
     /\ \A q \in Slots : Filled(q) => e * SectionPages \notin Virt(q)

TlbPart ==
  /\ DOMAIN tlb = 0 .. Entries - 1
  /\ \A e \in UserSections .. Entries - 2 : EntryOK(e)

PagePart ==
  LET n == zone["normal"].pages
      d == zone["dma"].pages
  IN  /\ zone["normal"].bm_start = 0 /\ zone["normal"].bm_end = n
      /\ zone["dma"].bm_start = n /\ zone["dma"].bm_end = n + d
      /\ zone["res"].bm_start = n + d /\ zone["res"].bm_end = n + d + zone["res"].pages

Steps == {"parse", "carve", "vmap", "map", "pages", "clear", "trap", "run"}

LInv ==
  /\ step \in Steps
  /\ ParsePart
  /\ step \in {"parse", "carve", "vmap", "map"} => tlb = Boot
  /\ step = "parse" => zone = EmptyBank
  /\ step # "parse" => ZonePart /\ MemoryPart /\ KernelPhys < MaxPage
  /\ step = "carve" => CarvePart
  /\ step \in {"carve", "vmap"} => \A q \in Slots : Sec(q).vir = 0
  /\ step \notin {"parse", "carve"} =>
       KernelPart /\ \E i \in 1 .. zone["dma"].nr : zone["dma"].sec[i].size > 0
  /\ step \notin {"parse", "carve", "vmap"} => VirPart
  /\ step \in {"pages", "clear", "trap", "run"} => TlbPart
  /\ step \in {"clear", "trap", "run"} => PagePart
  /\ Booted => \A e \in 0 .. UserSections - 1 : tlb[e] = NoEntry
  /\ VectorsReachable

-----------------------------------------------------------------------------
(* Megabytes *)

LEMMA Constants ==
  /\ SectionPages \in Nat \ {0} /\ SectionPages \in Nat /\ SectionPages >= 1
  /\ PhysSections \in Nat /\ UserSections \in Nat /\ Entries \in Nat
  /\ PhysSections <= UserSections /\ UserSections + PhysSections < Entries
  /\ KernelPhys \in Nat /\ KernelPhys >= SectionPages
  /\ ZONE_MAX_REGION \in 1 .. 8 /\ ImageSections = 1
  /\ VectorOffset \in 1 .. SectionPages - 1
  /\ KernelPages \in 1 .. SectionPages
BY LayoutAssumption

LEMMA DivMod ==
  ASSUME NEW P \in Nat \ {0}, NEW a \in Nat
  PROVE  /\ a \div P \in Nat /\ a % P \in 0 .. P - 1
         /\ a = (a \div P) * P + (a % P) /\ (a \div P) * P \in Nat
OBVIOUS

LEMMA Multiple ==
  ASSUME NEW P \in Nat \ {0}, NEW f \in Int, NEW g \in Int, f < g
  PROVE  f * P + P <= g * P
<1>1. PICK k \in Nat : g = f + 1 + k
  <2>1. g - f - 1 \in Nat /\ g = f + 1 + (g - f - 1)
    OBVIOUS
  <2> QED BY <2>1
<1>2. g * P = f * P + P + k * P /\ k * P \in Nat /\ f * P \in Int
  BY <1>1
<1> QED BY <1>2

LEMMA AlignedInt ==
  ASSUME NEW a, Aligned(a)
  PROVE  a \in Int
BY Constants DEF Aligned

LEMMA AlignedTimes ==
  ASSUME NEW m \in Int
  PROVE  Aligned(m * SectionPages) /\ m * SectionPages \in Int
BY Constants DEF Aligned

LEMMA AlignedSum ==
  ASSUME NEW a, NEW b, Aligned(a), Aligned(b)
  PROVE  Aligned(a + b) /\ Aligned(a - b)
<1>1. PICK m \in Int : a = m * SectionPages
  BY DEF Aligned
<1>2. PICK n \in Int : b = n * SectionPages
  BY DEF Aligned
<1>3. a + b = (m + n) * SectionPages /\ a - b = (m - n) * SectionPages
  BY <1>1, <1>2, Constants
<1> QED BY <1>3, m + n \in Int, m - n \in Int DEF Aligned

\* Between two different bounds of megabytes there is a megabyte.
LEMMA AlignedGap ==
  ASSUME NEW a, NEW b, Aligned(a), Aligned(b), a < b
  PROVE  a + SectionPages <= b
<1>1. PICK m \in Int : a = m * SectionPages
  BY DEF Aligned
<1>2. PICK n \in Int : b = n * SectionPages
  BY DEF Aligned
<1>3. m * SectionPages \in Int /\ n * SectionPages \in Int
  BY Constants
<1>4. CASE n = m
  BY <1>1, <1>2, <1>3, <1>4
<1>5. CASE n < m
  <2>1. n * SectionPages + SectionPages <= m * SectionPages
    BY <1>5, Multiple, Constants
  <2> QED BY <2>1, <1>1, <1>2, <1>3, Constants
<1>6. CASE m < n
  <2>1. m * SectionPages + SectionPages <= n * SectionPages
    BY <1>6, Multiple, Constants
  <2> QED BY <2>1, <1>1, <1>2
<1> QED BY <1>4, <1>5, <1>6

LEMMA AlignedConstants ==
  /\ Aligned(0) /\ Aligned(SectionPages) /\ Aligned(KernelPhys)
  /\ Aligned(MaxPage) /\ Aligned(kernel_start)
  /\ MaxPage \in Nat /\ kernel_start \in Nat /\ MaxPage <= kernel_start
  /\ kernel_start + MaxPage <= (Entries - 1) * SectionPages
  /\ (Entries - 1) * SectionPages \in Nat
<1>1. Aligned(0) /\ Aligned(SectionPages)
  <2>1. 0 = 0 * SectionPages /\ SectionPages = 1 * SectionPages
    BY Constants
  <2> QED BY <2>1, 0 \in Int, 1 \in Int DEF Aligned
<1>2. Aligned(KernelPhys)
  <2>1. KernelPhys = (KernelPhys \div SectionPages) * SectionPages
        /\ KernelPhys \div SectionPages \in Int
    BY DivMod, Constants, LayoutAssumption
  <2> QED BY <2>1 DEF Aligned
<1>3. /\ Aligned(MaxPage) /\ MaxPage \in Nat
      /\ Aligned(kernel_start) /\ kernel_start \in Nat
  BY Constants DEF Aligned, MaxPage, kernel_start
<1>4. MaxPage <= kernel_start
  <2>1. CASE PhysSections = UserSections
    BY <2>1, <1>3 DEF MaxPage, kernel_start
  <2>2. CASE PhysSections < UserSections
    <3>1. PhysSections * SectionPages + SectionPages <= UserSections * SectionPages
      BY <2>2, Constants, Multiple
    <3> QED BY <3>1, <1>3, Constants DEF MaxPage, kernel_start
  <2> QED BY <2>1, <2>2, Constants
<1>5. /\ kernel_start + MaxPage <= (Entries - 1) * SectionPages
      /\ (Entries - 1) * SectionPages \in Nat
  <2> DEFINE a == UserSections + PhysSections
             b == Entries - 1
  <2>1. a \in Nat /\ b \in Nat /\ a <= b /\ a * SectionPages \in Nat /\ b * SectionPages \in Nat
    BY Constants
  <2>2. kernel_start + MaxPage = a * SectionPages
    BY Constants DEF MaxPage, kernel_start
  <2> HIDE DEF a, b
  <2>3. CASE a = b
    BY <2>1, <2>2, <2>3 DEF b
  <2>4. CASE a < b
    <3>1. a * SectionPages + SectionPages <= b * SectionPages
      BY <2>1, <2>4, Constants, Multiple
    <3> QED BY <2>1, <2>2, <3>1, Constants DEF b
  <2> QED BY <2>1, <2>3, <2>4
<1> QED BY <1>1, <1>2, <1>3, <1>4, <1>5

LEMMA InSpan ==
  ASSUME NEW a \in Int, NEW n \in Int, NEW x
  PROVE  x \in Span(a, n) <=> x \in Int /\ a <= x /\ x < a + n
BY DEF Span

LEMMA SpansApart ==
  ASSUME NEW a \in Int, NEW m \in Int, NEW b \in Int, NEW n \in Int,
         a + m <= b \/ b + n <= a
  PROVE  Span(a, m) \cap Span(b, n) = {}
<1> SUFFICES ASSUME NEW x \in Span(a, m), x \in Span(b, n) PROVE FALSE
  OBVIOUS
<1>1. x \in Int /\ a <= x /\ x < a + m /\ b <= x /\ x < b + n
  BY InSpan
<1> QED BY <1>1

\* A span cut in two.
LEMMA SpanCut ==
  ASSUME NEW a \in Int, NEW m \in Nat, NEW n \in Nat
  PROVE  Span(a, m) \cup Span(a + m, n) = Span(a, m + n)
<1> DEFINE b == a + m
           l == m + n
<1>1. b \in Int /\ l \in Int /\ b = a + m /\ l = m + n
  OBVIOUS
<1> HIDE DEF b, l
<1>2. ASSUME NEW x
      PROVE  x \in Span(a, m) \cup Span(b, n) <=> x \in Span(a, l)
  <2>1. /\ x \in Span(a, m) <=> x \in Int /\ a <= x /\ x < a + m
        /\ x \in Span(b, n) <=> x \in Int /\ b <= x /\ x < b + n
        /\ x \in Span(a, l) <=> x \in Int /\ a <= x /\ x < a + l
    BY <1>1, InSpan
  <2>2. x \in Int => (((a <= x /\ x < a + m) \/ (b <= x /\ x < b + n)) <=> (a <= x /\ x < a + l))
    BY <1>1
  <2> QED BY <2>1, <2>2
<1> QED BY <1>2 DEF b, l

LEMMA BaliginUp ==
  ASSUME NEW n \in Nat
  PROVE  /\ baligin(n) \in Nat /\ Aligned(baligin(n))
         /\ n <= baligin(n) /\ baligin(n) < n + SectionPages
         /\ \A b : Aligned(b) /\ n <= b => baligin(n) <= b
<1> DEFINE a == n + SectionPages - 1
           m == a \div SectionPages
<1>1. a \in Nat
  BY Constants
<1>2. /\ m \in Nat /\ m * SectionPages \in Nat /\ a % SectionPages \in 0 .. SectionPages - 1
      /\ a = m * SectionPages + (a % SectionPages)
  BY <1>1, DivMod, Constants
<1>3. baligin(n) = m * SectionPages
  BY DEF baligin
<1>4. Aligned(baligin(n)) /\ baligin(n) \in Nat
  BY <1>2, <1>3, AlignedTimes
<1>5. n <= baligin(n) /\ baligin(n) < n + SectionPages
  BY <1>2, <1>3, Constants
<1>6. ASSUME NEW b, Aligned(b), n <= b PROVE baligin(n) <= b
  <2>1. b \in Int
    BY <1>6, AlignedInt
  <2>2. CASE b < baligin(n)
    <3>1. b + SectionPages <= baligin(n)
      BY <1>4, <1>6, <2>2, AlignedGap
    <3> QED BY <3>1, <1>4, <1>5, <1>6, <2>1, Constants
  <2> QED BY <2>1, <2>2, <1>4
<1> QED BY <1>4, <1>5, <1>6

LEMMA BaliginAligned ==
  ASSUME NEW n \in Nat, Aligned(n)
  PROVE  baligin(n) = n
BY BaliginUp

LEMMA MinAliginDown ==
  ASSUME NEW n \in Nat
  PROVE  /\ min_aligin(n) \in Nat /\ Aligned(min_aligin(n))
         /\ min_aligin(n) <= n /\ n < min_aligin(n) + SectionPages
         /\ n - min_aligin(n) = n % SectionPages
<1>1. /\ n \div SectionPages \in Nat /\ (n \div SectionPages) * SectionPages \in Nat
      /\ n % SectionPages \in 0 .. SectionPages - 1
      /\ n = (n \div SectionPages) * SectionPages + (n % SectionPages)
  BY DivMod, Constants
<1>2. Aligned(min_aligin(n))
  BY <1>1, AlignedTimes DEF min_aligin
<1> QED BY <1>1, <1>2, Constants DEF min_aligin

\* The entry of an address is one of its section.
LEMMA EntryIn ==
  ASSUME NEW v \in Nat, NEW n \in Nat, Aligned(v), Aligned(n), NEW va \in Span(v, n)
  PROVE  /\ va \in Nat /\ va \div SectionPages \in Nat
         /\ (va \div SectionPages) * SectionPages \in Span(v, n)
         /\ va = (va \div SectionPages) * SectionPages + (va % SectionPages)
         /\ va % SectionPages \in 0 .. SectionPages - 1
<1> DEFINE m == va \div SectionPages
<1>1. va \in Nat /\ v <= va /\ va <= v + n - 1
  BY DEF Span
<1>2. /\ m \in Nat /\ m * SectionPages \in Nat /\ va % SectionPages \in 0 .. SectionPages - 1
      /\ va = m * SectionPages + (va % SectionPages)
  BY <1>1, DivMod, Constants
<1> HIDE DEF m
<1>3. Aligned(m * SectionPages)
  BY <1>2, AlignedTimes
<1>4. ~(m * SectionPages < v)
  <2> SUFFICES ASSUME m * SectionPages < v PROVE FALSE
    OBVIOUS
  <2>1. m * SectionPages + SectionPages <= v
    BY <1>3, AlignedGap
  <2> QED BY <2>1, <1>1, <1>2, Constants
<1>5. m * SectionPages \in Span(v, n)
  BY <1>1, <1>2, <1>4 DEF Span
<1> QED BY <1>1, <1>2, <1>5 DEF m

\* An address in a megabyte and the number of the megabyte.
LEMMA EntryOf ==
  ASSUME NEW e \in Nat, NEW r \in 0 .. SectionPages - 1
  PROVE  /\ e * SectionPages + r \in Nat
         /\ (e * SectionPages + r) \div SectionPages = e
         /\ (e * SectionPages + r) % SectionPages = r
<1> DEFINE a == e * SectionPages + r
           m == a \div SectionPages
<1>1. e * SectionPages \in Nat /\ a \in Nat
  BY Constants
<1>2. /\ m \in Nat /\ m * SectionPages \in Nat /\ a % SectionPages \in 0 .. SectionPages - 1
      /\ a = m * SectionPages + (a % SectionPages)
  BY <1>1, DivMod, Constants
<1>3. CASE m < e
  <2>1. m * SectionPages + SectionPages <= e * SectionPages
    BY <1>2, <1>3, Multiple, Constants
  <2> QED BY <2>1, <1>1, <1>2, Constants
<1>4. CASE e < m
  <2>1. e * SectionPages + SectionPages <= m * SectionPages
    BY <1>2, <1>4, Multiple, Constants
  <2> QED BY <2>1, <1>1, <1>2, Constants
<1>5. m = e
  BY <1>2, <1>3, <1>4
<1>6. a % SectionPages = r
  <2>1. m * SectionPages = e * SectionPages
    BY <1>5
  <2> QED BY <2>1, <1>1, <1>2, Constants
<1> QED BY <1>1, <1>5, <1>6

-----------------------------------------------------------------------------
(* The regions *)

\* The whole megabytes of a region lie in it.
LEMMA TrimmedIn ==
  ASSUME NEW g \in Region
  PROVE  /\ g.start \in Nat /\ g.size \in Nat /\ g.attr \in Zones
         /\ Trimmed(g) \in RegionSet
         /\ Aligned(Trimmed(g).start) /\ Aligned(Trimmed(g).size)
         /\ g.start <= Trimmed(g).start
         /\ Trimmed(g).start + Trimmed(g).size <= g.start + g.size
         /\ g.start + g.size <= MaxPage
         /\ Trimmed(g).attr = g.attr
<1>1. /\ g.start \in Nat /\ g.size \in Nat /\ g.attr \in Zones
      /\ g.start + g.size <= MaxPage /\ g.size >= baligin(g.start) - g.start
  BY AlignedConstants DEF Region, MaxPage
<1> DEFINE b == baligin(g.start)
           n == g.size - (b - g.start)
<1>2. b \in Nat /\ Aligned(b) /\ g.start <= b
  BY <1>1, BaliginUp
<1>3. n \in Nat /\ b + n = g.start + g.size
  BY <1>1, <1>2
<1>4. min_aligin(n) \in Nat /\ Aligned(min_aligin(n)) /\ min_aligin(n) <= n
  BY <1>3, MinAliginDown
<1>5. Trimmed(g) = [start |-> b, size |-> min_aligin(n), attr |-> g.attr]
  BY DEF Trimmed
<1> HIDE DEF b, n
<1> QED BY <1>1, <1>2, <1>3, <1>4, <1>5 DEF RegionSet

LEMMA TrimmedSpan ==
  ASSUME NEW g \in Region
  PROVE  Span(Trimmed(g).start, Trimmed(g).size) \subseteq Span(g.start, g.size)
BY TrimmedIn DEF Span, RegionSet

\* Only the kernel's own bank holds its first page.
LEMMA TrimmedKernel ==
  ASSUME NEW g \in Region, KernelPhys \in Span(Trimmed(g).start, Trimmed(g).size)
  PROVE  g.start = KernelPhys /\ g.attr = "normal" /\ Trimmed(g).start = KernelPhys
<1>1. KernelPhys \in Span(g.start, g.size)
  BY TrimmedSpan
<1>2. g.start = KernelPhys /\ g.attr = "normal"
  BY <1>1 DEF Region
<1>3. Trimmed(g).start = baligin(g.start)
  BY DEF Trimmed
<1> QED BY <1>2, <1>3, BaliginAligned, AlignedConstants, Constants

\* What is known of a region that has been kept.
LEMMA KeptFacts ==
  ASSUME ParsePart, NEW r, Kept(r, table)
  PROVE  /\ r \in RegionSet
         /\ Aligned(r.start) /\ Aligned(r.size) /\ r.size > 0
         /\ r.start + r.size <= MaxPage
         /\ r.start \in Span(r.start, r.size)
         /\ KernelPhys \in Span(r.start, r.size) => r.start = KernelPhys /\ r.attr = "normal"
<1>1. PICK g \in table : r = Trimmed(g)
  BY DEF Kept
<1>2. g \in Region
  BY <1>1 DEF ParsePart
<1>3. /\ r \in RegionSet
      /\ Aligned(r.start) /\ Aligned(r.size) /\ r.size > 0
      /\ r.start + r.size <= MaxPage /\ r.attr = g.attr
  <2>1. r.size > 0
    BY DEF Kept
  <2>2. /\ g.start \in Nat /\ g.size \in Nat
        /\ r \in RegionSet
        /\ Aligned(r.start) /\ Aligned(r.size)
        /\ r.start + r.size <= g.start + g.size
        /\ g.start + g.size <= MaxPage
        /\ r.attr = g.attr
    BY <1>1, <1>2, TrimmedIn
  <2> QED BY <2>1, <2>2, AlignedConstants DEF RegionSet
<1>4. KernelPhys \in Span(r.start, r.size) => r.start = KernelPhys /\ r.attr = "normal"
  BY <1>1, <1>2, <1>3, TrimmedKernel
<1>5. r.start \in Span(r.start, r.size)
  BY <1>3 DEF Span, RegionSet
<1> QED BY <1>3, <1>4, <1>5

LEMMA RegisterParse ==
  ASSUME ParsePart, NEW r \in Region, register_memory_region(r)
  PROVE  ParsePart'
<1>1. /\ table' = table \cup {r}
      /\ \A g \in table : Span(g.start, g.size) \cap Span(r.start, r.size) = {}
      /\ regions' = IF Len(regions) < MEM_MAX_REGION /\ Trimmed(r).size > 0
                    THEN Append(regions, Trimmed(r)) ELSE regions
  BY DEF register_memory_region
<1>2. /\ table \subseteq Region
      /\ \A g, h \in table : g # h => Span(h.start, h.size) \cap Span(g.start, g.size) = {}
      /\ regions \in Seq(RegionSet)
      /\ \A i \in DOMAIN regions : Kept(regions[i], table)
      /\ \A i, j \in DOMAIN regions : i # j =>
           Span(regions[i].start, regions[i].size)
             \cap Span(regions[j].start, regions[j].size) = {}
  BY DEF ParsePart
<1>3. table' \subseteq Region
  BY <1>1, <1>2
<1>4. \A g, h \in table' : g # h => Span(g.start, g.size) \cap Span(h.start, h.size) = {}
  BY <1>1, <1>2
<1>5. \A x : Kept(x, table) => Kept(x, table')
  BY <1>1 DEF Kept
<1>6. CASE regions' = regions
  <2>1. \A i \in DOMAIN regions' : Kept(regions'[i], table')
    BY <1>2, <1>5, <1>6
  <2> QED BY <1>2, <1>3, <1>4, <1>6, <2>1 DEF ParsePart
<1>7. CASE regions' = Append(regions, Trimmed(r)) /\ Trimmed(r).size > 0
  <2> DEFINE n == Len(regions)
             t == Trimmed(r)
  <2>1. t \in RegionSet
        /\ Span(t.start, t.size) \subseteq Span(r.start, r.size)
    BY TrimmedIn, TrimmedSpan
  <2>2. /\ n \in Nat /\ DOMAIN regions = 1 .. n /\ DOMAIN regions' = 1 .. n + 1
        /\ \A i \in 1 .. n : regions'[i] = regions[i]
        /\ regions'[n + 1] = t
        /\ regions' \in Seq(RegionSet)
    <3> HIDE DEF t
    <3> QED BY <1>2, <1>7, <2>1 DEF t
  <2>3. Kept(t, table')
    BY <1>1, <1>7 DEF Kept
  <2> HIDE DEF t, n
  <2>4. \A i \in 1 .. n : Span(regions[i].start, regions[i].size) \cap Span(t.start, t.size) = {}
    <3> TAKE i \in 1 .. n
    <3>1. PICK g \in table : regions[i] = Trimmed(g)
      BY <1>2, <2>2 DEF Kept
    <3>2. Span(regions[i].start, regions[i].size) \subseteq Span(g.start, g.size)
      BY <3>1, <1>2, TrimmedSpan
    <3> QED BY <3>1, <3>2, <2>1, <1>1
  <2>5. \A i \in DOMAIN regions' : Kept(regions'[i], table')
    <3> TAKE i \in DOMAIN regions'
    <3>1. CASE i = n + 1
      BY <3>1, <2>2, <2>3
    <3>2. CASE i \in 1 .. n
      <4>1. Kept(regions[i], table)
        BY <1>2, <2>2, <3>2
      <4> QED BY <4>1, <1>5, <2>2, <3>2
    <3> QED BY <3>1, <3>2, <2>2
  <2>6. \A i, j \in DOMAIN regions' : i # j =>
           Span(regions'[i].start, regions'[i].size)
             \cap Span(regions'[j].start, regions'[j].size) = {}
    <3> SUFFICES ASSUME NEW i \in 1 .. n + 1, NEW j \in 1 .. n + 1, i # j
                 PROVE  Span(regions'[i].start, regions'[i].size)
                          \cap Span(regions'[j].start, regions'[j].size) = {}
      BY <2>2
    <3>1. CASE i = n + 1
      BY <3>1, <2>2, <2>4
    <3>2. CASE j = n + 1
      BY <3>2, <2>2, <2>4
    <3>3. CASE i # n + 1 /\ j # n + 1
      <4>1. i \in 1 .. n /\ j \in 1 .. n
        BY <2>2, <3>3
      <4> QED BY <4>1, <1>2, <2>2
    <3> QED BY <3>1, <3>2, <3>3
  <2> QED BY <1>3, <1>4, <2>2, <2>5, <2>6 DEF ParsePart
<1> QED BY <1>1, <1>6, <1>7

-----------------------------------------------------------------------------
(* Sorting *)

\* The regions of a sequence below another.
Below(R, r) == {g \in R : g.start < r.start}

\* Regions of different addresses have different numbers of others below them,
\* so that every number is taken.
LEMMA RanksTaken ==
  ASSUME NEW R, IsFiniteSet(R), R \subseteq RegionSet,
         \A r, g \in R : r # g => r.start # g.start
  PROVE  /\ \A r \in R : Cardinality(Below(R, r)) \in 0 .. Cardinality(R) - 1
         /\ \A r, g \in R : r.start < g.start
              => Cardinality(Below(R, r)) < Cardinality(Below(R, g))
         /\ \A k \in 0 .. Cardinality(R) - 1 :
              \E r \in R : Cardinality(Below(R, r)) = k
<1> DEFINE n == Cardinality(R)
           f == [r \in R |-> Cardinality(Below(R, r))]
<1>1. n \in Nat
  BY FS_CardinalityType
<1>2. \A r \in R : IsFiniteSet(Below(R, r)) /\ Cardinality(Below(R, r)) \in Nat
  <2> TAKE r \in R
  <2>1. Below(R, r) \in SUBSET R
    BY DEF Below
  <2>2. IsFiniteSet(Below(R, r))
    BY <2>1, FS_Subset
  <2> QED BY <2>2, FS_CardinalityType
<1>3. \A r \in R : Cardinality(Below(R, r)) \in 0 .. n - 1
  <2> TAKE r \in R
  <2>1. Below(R, r) \in SUBSET (R \ {r})
    BY DEF Below, RegionSet
  <2>2. IsFiniteSet(R \ {r}) /\ Cardinality(R \ {r}) = n - 1
    BY FS_RemoveElement
  <2>3. Cardinality(Below(R, r)) <= n - 1
    BY <2>1, <2>2, FS_Subset
  <2> QED BY <1>1, <1>2, <2>3
<1>4. ASSUME NEW r \in R, NEW g \in R, r.start < g.start
      PROVE  Cardinality(Below(R, r)) < Cardinality(Below(R, g))
  <2>1. r.start \in Nat /\ g.start \in Nat
    BY DEF RegionSet
  <2>2. Below(R, r) \in SUBSET Below(R, g) /\ r \in Below(R, g) /\ r \notin Below(R, r)
    BY <1>4, <2>1 DEF Below, RegionSet
  <2>3. /\ Cardinality(Below(R, r)) <= Cardinality(Below(R, g))
        /\ Cardinality(Below(R, g)) = Cardinality(Below(R, r)) => Below(R, g) = Below(R, r)
    BY <1>2, <2>2, FS_Subset
  <2> QED BY <1>2, <2>2, <2>3
<1>5. f \in Injection(R, 0 .. n - 1)
  <2>1. f \in [R -> 0 .. n - 1]
    BY <1>3
  <2>2. \A r, g \in R : f[r] = f[g] => r = g
    <3> SUFFICES ASSUME NEW r \in R, NEW g \in R, r # g PROVE f[r] # f[g]
      OBVIOUS
    <3>1. r.start \in Nat /\ g.start \in Nat /\ r.start # g.start
      BY DEF RegionSet
    <3>2. CASE r.start < g.start
      BY <3>2, <1>2, <1>4
    <3>3. CASE g.start < r.start
      BY <3>3, <1>2, <1>4
    <3> QED BY <3>1, <3>2, <3>3
  <2> QED BY <2>1, <2>2 DEF Injection, IsInjective
<1>6. IsFiniteSet(0 .. n - 1) /\ Cardinality(0 .. n - 1) = n
  <2>1. 0 \in Int /\ n - 1 \in Int
    BY <1>1
  <2>2. /\ IsFiniteSet(0 .. n - 1)
        /\ Cardinality(0 .. n - 1) = IF 0 > n - 1 THEN 0 ELSE (n - 1) - 0 + 1
    BY <2>1, FS_Interval
  <2> QED BY <1>1, <2>2
<1>7. f \in Surjection(R, 0 .. n - 1)
  <2> HIDE DEF f, n
  <2>1. Cardinality(R) = Cardinality(0 .. n - 1) <=> f \in Surjection(R, 0 .. n - 1)
    BY <1>5, <1>6, FS_Injection
  <2> QED BY <2>1, <1>6 DEF n
<1>8. \A k \in 0 .. n - 1 : \E r \in R : f[r] = k
  BY <1>7 DEF Surjection
<1> QED BY <1>3, <1>4, <1>8

\* The regions lie apart, so their number is the length of the table.
LEMMA RegionsCount ==
  ASSUME ParsePart
  PROVE  /\ Len(regions) \in Nat /\ DOMAIN regions = 1 .. Len(regions)
         /\ Range(regions) \subseteq RegionSet
         /\ IsFiniteSet(Range(regions)) /\ Cardinality(Range(regions)) = Len(regions)
         /\ \A r, g \in Range(regions) : r # g => r.start # g.start
         /\ \A r \in Range(regions) : Kept(r, table)
<1> DEFINE n == Len(regions)
           R == Range(regions)
<1>0. regions \in Seq(RegionSet)
  BY DEF ParsePart
<1>1. /\ n \in Nat /\ DOMAIN regions = 1 .. n
      /\ \A i \in 1 .. n : regions[i] \in RegionSet /\ Kept(regions[i], table)
      /\ \A i, j \in DOMAIN regions : i # j =>
           Span(regions[i].start, regions[i].size)
             \cap Span(regions[j].start, regions[j].size) = {}
  <2>1. n \in Nat /\ DOMAIN regions = 1 .. n
    BY <1>0
  <2>2. \A i \in 1 .. n : regions[i] \in RegionSet
    BY <1>0
  <2> QED BY <2>1, <2>2 DEF ParsePart
<1>2. \A r \in R : \E i \in 1 .. n : r = regions[i]
  BY <1>1 DEF Range
<1>3. \A r \in R : r \in RegionSet /\ Kept(r, table) /\ r.start \in Span(r.start, r.size)
  BY <1>1, <1>2, KeptFacts
<1>4. \A i, j \in 1 .. n : i # j => regions[i].start # regions[j].start
  <2> SUFFICES ASSUME NEW i \in 1 .. n, NEW j \in 1 .. n, i # j
               PROVE  regions[i].start # regions[j].start
    OBVIOUS
  <2>1. regions[i].start \in Span(regions[i].start, regions[i].size)
        /\ regions[j].start \in Span(regions[j].start, regions[j].size)
    BY <1>1, KeptFacts
  <2> QED BY <2>1, <1>1
<1>5. regions \in Bijection(1 .. n, R)
  <2>1. regions \in [1 .. n -> R]
    <3>1. regions = [i \in 1 .. n |-> regions[i]]
      BY <1>0, <1>1
    <3>2. \A i \in 1 .. n : regions[i] \in R
      BY <1>1 DEF Range
    <3> HIDE DEF n, R
    <3> QED BY <3>1, <3>2
  <2>2. \A i, j \in 1 .. n : regions[i] = regions[j] => i = j
    BY <1>4
  <2> QED BY <2>1, <2>2, <1>1, <1>2 DEF Bijection, Injection, Surjection, IsInjective
<1>6. ExistsBijection(1 .. n, R)
  BY <1>5 DEF ExistsBijection
<1>7. IsFiniteSet(R) /\ Cardinality(R) = n
  BY <1>1, <1>6, FS_NatBijection, FS_CountingElements
<1>8. \A r, g \in R : r # g => r.start # g.start
  BY <1>2, <1>4
<1> QED BY <1>1, <1>3, <1>7, <1>8

\* The sorted table has the same regions, in the order of their addresses.
LEMMA SortedOrder ==
  ASSUME ParsePart
  PROVE  /\ Sorted(regions) \in Seq(RegionSet)
         /\ Len(Sorted(regions)) = Len(regions)
         /\ DOMAIN Sorted(regions) = 1 .. Len(regions)
         /\ Range(Sorted(regions)) = Range(regions)
         /\ \A i, j \in 1 .. Len(regions) :
              i < j => Sorted(regions)[i].start < Sorted(regions)[j].start
<1> DEFINE n == Len(regions)
           R == Range(regions)
           s == Sorted(regions)
<1>1. /\ n \in Nat /\ DOMAIN regions = 1 .. n /\ R \subseteq RegionSet
      /\ IsFiniteSet(R) /\ Cardinality(R) = n
      /\ \A r, g \in R : r # g => r.start # g.start
  BY RegionsCount
<1>2. /\ \A r \in R : Cardinality(Below(R, r)) \in 0 .. n - 1
      /\ \A r, g \in R : r.start < g.start
              => Cardinality(Below(R, r)) < Cardinality(Below(R, g))
      /\ \A k \in 0 .. n - 1 : \E r \in R : Cardinality(Below(R, r)) = k
  <2> HIDE DEF R
  <2> QED BY <1>1, RanksTaken
<1>3. s = [k \in 1 .. n |-> CHOOSE r \in R : Cardinality(Below(R, r)) = k - 1]
  BY <1>1 DEF Sorted, Below
<1> HIDE DEF n, R, s
<1>4. \A k \in 1 .. n : s[k] \in R /\ Cardinality(Below(R, s[k])) = k - 1
  <2> TAKE k \in 1 .. n
  <2>1. k - 1 \in 0 .. n - 1
    BY <1>1
  <2>2. \E r \in R : Cardinality(Below(R, r)) = k - 1
    BY <1>2, <2>1
  <2>3. s[k] = CHOOSE r \in R : Cardinality(Below(R, r)) = k - 1
    BY <1>3
  <2> QED BY <2>2, <2>3
<1>5. s \in Seq(RegionSet) /\ Len(s) = n /\ DOMAIN s = 1 .. n
  <2>1. s \in [1 .. n -> RegionSet]
    BY <1>1, <1>3, <1>4
  <2> QED BY <2>1, <1>1
<1>6. \A i, j \in 1 .. n : i < j => s[i].start < s[j].start
  <2> SUFFICES ASSUME NEW i \in 1 .. n, NEW j \in 1 .. n, i < j
               PROVE  s[i].start < s[j].start
    OBVIOUS
  <2>1. s[i] \in R /\ s[j] \in R /\ s[i].start \in Nat /\ s[j].start \in Nat
    BY <1>1, <1>4 DEF RegionSet
  <2>2. Cardinality(Below(R, s[i])) = i - 1 /\ Cardinality(Below(R, s[j])) = j - 1
    BY <1>4
  <2>3. CASE s[i].start = s[j].start
    <3>1. s[i] = s[j]
      BY <2>1, <2>3, <1>1
    <3> QED BY <3>1, <2>2
  <2>4. CASE s[j].start < s[i].start
    <3>1. j - 1 < i - 1
      BY <2>1, <2>2, <2>4, <1>2
    <3> QED BY <3>1, <1>1
  <2> QED BY <2>1, <2>3, <2>4
<1>7. Range(s) = R
  <2>1. Range(s) \subseteq R
    BY <1>4, <1>5 DEF Range
  <2>2. ASSUME NEW r \in R PROVE r \in Range(s)
    <3> DEFINE k == Cardinality(Below(R, r)) + 1
    <3>1. k \in 1 .. n /\ Cardinality(Below(R, r)) = k - 1
      BY <1>1, <1>2
    <3> HIDE DEF k
    <3>2. s[k] \in R /\ Cardinality(Below(R, s[k])) = k - 1
      BY <1>4, <3>1
    <3>3. r.start \in Nat /\ s[k].start \in Nat
      BY <1>1, <3>2 DEF RegionSet
    <3>4. r.start = s[k].start
      <4>1. CASE r.start < s[k].start
        BY <1>1, <1>2, <3>1, <3>2, <4>1
      <4>2. CASE s[k].start < r.start
        BY <1>1, <1>2, <3>1, <3>2, <4>2
      <4> QED BY <3>3, <4>1, <4>2
    <3>5. r = s[k]
      BY <1>1, <3>2, <3>4
    <3> QED BY <1>5, <3>1, <3>5 DEF Range
  <2> QED BY <2>1, <2>2
<1> QED BY <1>5, <1>6, <1>7 DEF n, R, s

\* Sorting keeps what is known of the table.
LEMMA SortedParse ==
  ASSUME ParsePart, regions' = Sorted(regions), table' = table
  PROVE  ParsePart'
<1> DEFINE n == Len(regions)
           s == Sorted(regions)
<1>1. /\ s \in Seq(RegionSet) /\ DOMAIN s = 1 .. n
      /\ Range(s) = Range(regions)
      /\ \A i, j \in 1 .. n : i < j => s[i].start < s[j].start
  BY SortedOrder
<1>2. /\ n \in Nat /\ DOMAIN regions = 1 .. n
      /\ Range(regions) \subseteq RegionSet
      /\ \A r \in Range(regions) : Kept(r, table)
  BY RegionsCount
<1>3. /\ table \subseteq Region
      /\ \A g, h \in table : g # h => Span(g.start, g.size) \cap Span(h.start, h.size) = {}
      /\ \A i, j \in 1 .. n : i # j =>
           Span(regions[i].start, regions[i].size)
             \cap Span(regions[j].start, regions[j].size) = {}
  BY <1>2 DEF ParsePart
<1> HIDE DEF s, n
<1>4. \A i \in 1 .. n : s[i] \in Range(regions)
  BY <1>1 DEF Range
<1>5. \A i, j \in 1 .. n : i # j =>
        Span(s[i].start, s[i].size) \cap Span(s[j].start, s[j].size) = {}
  <2> SUFFICES ASSUME NEW i \in 1 .. n, NEW j \in 1 .. n, i # j
               PROVE  Span(s[i].start, s[i].size) \cap Span(s[j].start, s[j].size) = {}
    OBVIOUS
  <2>1. PICK k \in 1 .. n : s[i] = regions[k]
    BY <1>2, <1>4 DEF Range
  <2>2. PICK m \in 1 .. n : s[j] = regions[m]
    BY <1>2, <1>4 DEF Range
  <2>3. s[i].start # s[j].start
    <3>1. s[i].start \in Nat /\ s[j].start \in Nat
      BY <1>2, <1>4 DEF RegionSet
    <3>2. i < j \/ j < i
      BY <1>2
    <3> QED BY <1>1, <3>1, <3>2
  <2>4. k # m
    BY <2>1, <2>2, <2>3
  <2> QED BY <1>3, <2>1, <2>2, <2>4
<1>6. \A i \in 1 .. n : Kept(s[i], table)
  BY <1>2, <1>4
<1>7. regions' = s
  BY DEF s
<1> QED BY <1>1, <1>3, <1>5, <1>6, <1>7 DEF ParsePart

-----------------------------------------------------------------------------
(* Inserting the regions *)

\* Every set of numbers that is not empty has a least one.
LEMMA LeastOf ==
  ASSUME NEW T \in SUBSET Nat, T # {}
  PROVE  \E x \in T : \A y \in T : x <= y
<1> DEFINE R == {ss \in Nat \X Nat : ss[1] < ss[2]}
<1>1. IsWellFoundedOn(R, Nat)
  BY NatLessThanWellFounded DEF OpToRel
<1>2. PICK x \in T : \A y \in T : ~(<<y, x>> \in R)
  <2> HIDE DEF R
  <2> QED BY <1>1, WFMin
<1>3. \A y \in T : ~(y < x)
  BY <1>2
<1> QED BY <1>3

\* The recursive function of Inserted.
IsInsert(f, zs, rs, n) ==
  f = [k \in 0 .. n |-> IF k = 0 THEN zs ELSE insert_region_to_zone(f[k - 1], rs[k])]

LEMMA InsertExists ==
  ASSUME NEW zs, NEW rs, NEW N \in Nat
  PROVE  \E f : IsInsert(f, zs, rs, N)
<1> DEFINE T == {m \in Nat : ~ \E f : IsInsert(f, zs, rs, m)}
           Next(x, k) == insert_region_to_zone(x, rs[k])
<1>1. SUFFICES ASSUME T # {} PROVE FALSE
  OBVIOUS
<1>2. PICK m \in T : \A y \in T : m <= y
  BY <1>1, LeastOf
<1>3. CASE m = 0
  <2>1. IsInsert([i \in 0 .. 0 |-> zs], zs, rs, 0)
    BY DEF IsInsert
  <2> QED BY <1>2, <1>3, <2>1
<1>4. CASE m # 0
  <2>1. m \in Nat /\ m - 1 \in Nat /\ m - 1 \notin T
    BY <1>2, <1>4
  <2>2. PICK g : IsInsert(g, zs, rs, m - 1)
    BY <2>1
  <2> DEFINE f == [i \in 0 .. m |-> IF i = m THEN Next(g[m - 1], m) ELSE g[i]]
  <2>3. \A i \in 0 .. m : f[i] = IF i = 0 THEN zs ELSE Next(f[i - 1], i)
    <3> TAKE i \in 0 .. m
    <3> HIDE DEF Next
    <3>1. CASE i = m
      BY <2>1, <3>1, <1>4
    <3>2. CASE i # m
      <4>1. i \in 0 .. m - 1 /\ f[i] = g[i]
        BY <2>1, <3>2
      <4>2. g[i] = IF i = 0 THEN zs ELSE Next(g[i - 1], i)
        BY <2>2, <4>1 DEF IsInsert, Next
      <4>3. i # 0 => f[i - 1] = g[i - 1]
        BY <2>1, <4>1
      <4> QED BY <4>1, <4>2, <4>3
    <3> QED BY <3>1, <3>2
  <2>4. IsInsert(f, zs, rs, m)
    <3> DEFINE e == [i \in 0 .. m |-> IF i = 0 THEN zs ELSE Next(f[i - 1], i)]
    <3>1. f = [i \in 0 .. m |-> f[i]]
      OBVIOUS
    <3> HIDE DEF f, Next
    <3>2. f = e
      BY <3>1, <2>3
    <3> QED BY <3>2 DEF IsInsert, Next
  <2> QED
    <3> HIDE DEF f
    <3> QED BY <1>2, <2>4
<1> QED BY <1>3, <1>4

\* The functions do not depend on how far they are taken.
LEMMA InsertsAgree ==
  ASSUME NEW zs, NEW rs, NEW m \in Nat, NEW n \in Nat, m <= n,
         NEW f, NEW g, IsInsert(f, zs, rs, m), IsInsert(g, zs, rs, n), NEW k \in 0 .. m
  PROVE  f[k] = g[k]
<1> DEFINE T == {i \in 0 .. m : f[i] # g[i]}
<1>1. SUFFICES ASSUME T # {} PROVE FALSE
  OBVIOUS
<1>2. PICK i \in T : \A y \in T : i <= y
  <2>1. T \in SUBSET Nat
    OBVIOUS
  <2> HIDE DEF T
  <2> QED BY <1>1, <2>1, LeastOf
<1>3. /\ f[i] = IF i = 0 THEN zs ELSE insert_region_to_zone(f[i - 1], rs[i])
      /\ g[i] = IF i = 0 THEN zs ELSE insert_region_to_zone(g[i - 1], rs[i])
  BY <1>2 DEF IsInsert
<1>4. i # 0 => f[i - 1] = g[i - 1]
  <2>1. i # 0 => i - 1 \in 0 .. m /\ i - 1 \notin T
    BY <1>2
  <2> QED BY <2>1
<1> QED BY <1>2, <1>3, <1>4

LEMMA InsertedIs ==
  ASSUME NEW zs, NEW rs, NEW n \in Nat
  PROVE  \E f : IsInsert(f, zs, rs, n) /\ Inserted(zs, rs, n) = f[n]
<1> DEFINE after == CHOOSE f : IsInsert(f, zs, rs, n)
<1>1. IsInsert(after, zs, rs, n)
  <2>1. \E f : IsInsert(f, zs, rs, n)
    BY InsertExists
  <2> QED BY <2>1
<1>2. Inserted(zs, rs, n) = after[n]
  BY DEF Inserted, IsInsert, after
<1> QED BY <1>1, <1>2

LEMMA InsertedStep ==
  ASSUME NEW zs, NEW rs, NEW n \in Nat
  PROVE  /\ Inserted(zs, rs, 0) = zs
         /\ Inserted(zs, rs, n + 1) = insert_region_to_zone(Inserted(zs, rs, n), rs[n + 1])
<1>1. Inserted(zs, rs, 0) = zs
  <2>1. PICK f : IsInsert(f, zs, rs, 0) /\ Inserted(zs, rs, 0) = f[0]
    BY InsertedIs
  <2> QED BY <2>1 DEF IsInsert
<1>2. Inserted(zs, rs, n + 1) = insert_region_to_zone(Inserted(zs, rs, n), rs[n + 1])
  <2> DEFINE m == n + 1
  <2>1. m \in Nat /\ m # 0 /\ m - 1 = n /\ n \in 0 .. n /\ n <= m /\ m \in 0 .. m
    OBVIOUS
  <2> HIDE DEF m
  <2>2. PICK f : IsInsert(f, zs, rs, n) /\ Inserted(zs, rs, n) = f[n]
    BY InsertedIs
  <2>3. PICK g : IsInsert(g, zs, rs, m) /\ Inserted(zs, rs, m) = g[m]
    BY <2>1, InsertedIs
  <2>4. f[n] = g[n]
    BY <2>1, <2>2, <2>3, InsertsAgree
  <2>5. g[m] = insert_region_to_zone(g[n], rs[m])
    BY <2>1, <2>3 DEF IsInsert
  <2> QED BY <2>2, <2>3, <2>4, <2>5 DEF m
<1> QED BY <1>1, <1>2

\* A sorted table.
Table(s) ==
  /\ s \in Seq(RegionSet)
  /\ \A i \in 1 .. Len(s) : s[i].size > 0 /\ s[i].start + s[i].size <= MaxPage
  /\ \A i, j \in 1 .. Len(s) : i < j =>
       /\ s[i].start < s[j].start
       /\ Span(s[i].start, s[i].size) \cap Span(s[j].start, s[j].size) = {}

OfZone(s, n, z) == {k \in 1 .. n : s[k].attr = z}

SectionFor(r) == [phy |-> r.start, vir |-> 0, size |-> r.size]

\* A zone after the first n regions.  A region that is not a section came when
\* the zone was full, and behind its sections.
Holds(y, z, s, n) ==
  /\ y \in ZoneSet
  /\ \A i \in 1 .. y.nr : \E k \in OfZone(s, n, z) : y.sec[i] = SectionFor(s[k])
  /\ \A i \in y.nr + 1 .. ZONE_MAX_REGION : y.sec[i] = NoSection
  /\ \A i, j \in 1 .. y.nr : i < j => y.sec[i].phy < y.sec[j].phy
  /\ \A k \in OfZone(s, n, z) :
       \/ \E i \in 1 .. y.nr : y.sec[i] = SectionFor(s[k])
       \/ /\ y.nr = ZONE_MAX_REGION /\ y.sec[ZONE_MAX_REGION].phy < s[k].start
          /\ Cardinality(OfZone(s, n, z)) > ZONE_MAX_REGION
  /\ y.nr <= Cardinality(OfZone(s, n, z))
  /\ y.pages = Cardinality(PhysIn(y))
  /\ \A B \in Nat : (\A i \in 1 .. y.nr : y.sec[i].size <= B) => y.pages <= y.nr * B

LEMMA OfZoneStep ==
  ASSUME NEW s, NEW n \in Nat, NEW z
  PROVE  /\ IsFiniteSet(OfZone(s, n, z)) /\ Cardinality(OfZone(s, n, z)) \in Nat
         /\ s[n + 1].attr # z => OfZone(s, n + 1, z) = OfZone(s, n, z)
<1>1. OfZone(s, n, z) \in SUBSET (1 .. n)
  BY DEF OfZone
<1>2. IsFiniteSet(1 .. n)
  BY FS_Interval
<1>3. IsFiniteSet(OfZone(s, n, z)) /\ Cardinality(OfZone(s, n, z)) \in Nat
  BY <1>1, <1>2, FS_Subset, FS_CardinalityType
<1>4. s[n + 1].attr # z => OfZone(s, n + 1, z) = OfZone(s, n, z)
  BY DEF OfZone
<1> QED BY <1>3, <1>4

\* A set grows by one element.
GrowsBy(O, Q, k) ==
  Cardinality(O) \in Nat /\ Q = O \cup {k} /\ Cardinality(Q) = Cardinality(O) + 1

LEMMA OfZoneNext ==
  ASSUME NEW s, NEW n \in Nat, NEW z, s[n + 1].attr = z
  PROVE  GrowsBy(OfZone(s, n, z), OfZone(s, n + 1, z), n + 1)
<1> DEFINE O == OfZone(s, n, z)
<1>1. O \in SUBSET (1 .. n) /\ n + 1 \notin O
  BY DEF OfZone
<1>2. IsFiniteSet(1 .. n)
  BY FS_Interval
<1>3. OfZone(s, n + 1, z) = O \cup {n + 1}
  BY DEF OfZone
<1> HIDE DEF O
<1>4. IsFiniteSet(O)
  BY <1>1, <1>2, FS_Subset
<1>5. Cardinality(O) \in Nat
  BY <1>4, FS_CardinalityType
<1>6. Cardinality(O \cup {n + 1}) = Cardinality(O) + 1
  BY <1>1, <1>4, FS_AddElement
<1>7. GrowsBy(O, OfZone(s, n + 1, z), n + 1)
  BY <1>3, <1>5, <1>6 DEF GrowsBy
<1> QED BY <1>7 DEF O

\* The pages of a region.
LEMMA SpanCount ==
  ASSUME NEW a \in Nat, NEW n \in Nat
  PROVE  IsFiniteSet(Span(a, n)) /\ Cardinality(Span(a, n)) = n
<1>1. a + n - 1 \in Int /\ a \in Int
  OBVIOUS
<1>2. /\ IsFiniteSet(a .. a + n - 1)
      /\ Cardinality(a .. a + n - 1) = IF a > a + n - 1 THEN 0 ELSE (a + n - 1) - a + 1
  BY <1>1, FS_Interval
<1> QED BY <1>2 DEF Span

\* The memory of a zone is finite.
LEMMA PhysFinite ==
  ASSUME NEW y \in ZoneSet
  PROVE  IsFiniteSet(PhysIn(y)) /\ Cardinality(PhysIn(y)) \in Nat
<1> DEFINE f == [i \in 1 .. ZONE_MAX_REGION |-> Span(y.sec[i].phy, y.sec[i].size)]
           P == {Span(y.sec[i].phy, y.sec[i].size) : i \in 1 .. ZONE_MAX_REGION}
<1>1. \A i \in 1 .. ZONE_MAX_REGION : y.sec[i].phy \in Nat /\ y.sec[i].size \in Nat
  BY DEF ZoneSet, SectionSet
<1>2. \A T \in P : IsFiniteSet(T)
  BY <1>1, SpanCount
<1>3. IsFiniteSet(P)
  <2>1. f \in Surjection(1 .. ZONE_MAX_REGION, P)
    BY DEF Surjection
  <2>2. IsFiniteSet(1 .. ZONE_MAX_REGION)
    BY FS_Interval, Constants
  <2> HIDE DEF f, P
  <2> QED BY <2>1, <2>2, FS_Surjection
<1>4. IsFiniteSet(PhysIn(y))
  <2>1. PhysIn(y) = UNION P
    BY DEF PhysIn
  <2> HIDE DEF P
  <2> QED BY <1>2, <1>3, <2>1, FS_UNION
<1> QED BY <1>4, FS_CardinalityType

LEMMA HoldsEmpty ==
  ASSUME NEW s, NEW z \in Zones
  PROVE  Holds(EmptyBank[z], z, s, 0)
<1> DEFINE y == EmptyBank[z]
<1>1. y = [sec |-> [i \in 1 .. ZONE_MAX_REGION |-> NoSection],
           nr |-> 0, pages |-> 0, free |-> 0, bm_start |-> 0, bm_end |-> 0]
  BY DEF EmptyBank
<1> HIDE DEF y
<1>2. y \in ZoneSet
  BY <1>1, Constants DEF ZoneSet, SectionSet, NoSection
<1>3. OfZone(s, 0, z) = {}
  BY DEF OfZone
<1>4. PhysIn(y) = {}
  BY <1>1 DEF PhysIn, Span, NoSection
<1>5. Cardinality({}) = 0
  BY FS_EmptySet
<1>6. \A i \in 1 .. ZONE_MAX_REGION : y.sec[i] = NoSection
  BY <1>1
<1>7. y.nr = 0 /\ y.pages = 0
  BY <1>1
<1>8. \A B \in Nat : y.pages <= y.nr * B
  BY <1>7
<1>9. Holds(y, z, s, 0)
  <2>1. \A i \in y.nr + 1 .. ZONE_MAX_REGION : y.sec[i] = NoSection
    BY <1>6, <1>7, Constants
  <2>2. 1 .. y.nr = {} /\ y.nr <= Cardinality({}) /\ y.pages = Cardinality(PhysIn(y))
    BY <1>4, <1>5, <1>7
  <2> QED BY <1>2, <1>3, <1>8, <2>1, <2>2 DEF Holds
<1> QED BY <1>9 DEF y

\* A region of another zone.
LEMMA HoldsOther ==
  ASSUME NEW s, NEW n \in Nat, NEW z \in Zones, NEW y, Holds(y, z, s, n), s[n + 1].attr # z
  PROVE  Holds(y, z, s, n + 1)
<1>1. OfZone(s, n + 1, z) = OfZone(s, n, z)
  BY OfZoneStep
<1> QED BY <1>1 DEF Holds

\* A region that finds its zone full.
LEMMA HoldsFull ==
  ASSUME NEW s, Table(s), NEW n \in Nat, n + 1 <= Len(s), NEW z \in Zones, NEW y,
         Holds(y, z, s, n), s[n + 1].attr = z, y.nr = ZONE_MAX_REGION
  PROVE  Holds(y, z, s, n + 1)
<1> DEFINE O == OfZone(s, n, z)
           Q == OfZone(s, n + 1, z)
<1>1. /\ Cardinality(O) \in Nat /\ Q = O \cup {n + 1} /\ Cardinality(Q) = Cardinality(O) + 1
  <2>1. GrowsBy(O, Q, n + 1)
    BY OfZoneNext
  <2> QED BY <2>1 DEF GrowsBy
<1>2. /\ y \in ZoneSet /\ ZONE_MAX_REGION \in Nat /\ ZONE_MAX_REGION \in 1 .. y.nr
      /\ y.nr <= Cardinality(O)
  BY Constants DEF Holds
<1>3. Cardinality(Q) > ZONE_MAX_REGION /\ y.nr <= Cardinality(Q)
  BY <1>1, <1>2
<1>4. y.sec[ZONE_MAX_REGION].phy < s[n + 1].start
  <2>1. PICK k \in O : y.sec[ZONE_MAX_REGION] = SectionFor(s[k])
    BY <1>2 DEF Holds
  <2>2. k \in 1 .. Len(s) /\ n + 1 \in 1 .. Len(s) /\ k < n + 1
    BY DEF OfZone, Table
  <2>3. s[k].start < s[n + 1].start
    BY <2>2 DEF Table
  <2> QED BY <2>1, <2>3 DEF SectionFor
<1>5. \A i \in 1 .. y.nr : \E k \in Q : y.sec[i] = SectionFor(s[k])
  BY <1>1 DEF Holds
<1>6. \A k \in Q :
       \/ \E i \in 1 .. y.nr : y.sec[i] = SectionFor(s[k])
       \/ /\ y.nr = ZONE_MAX_REGION /\ y.sec[ZONE_MAX_REGION].phy < s[k].start
          /\ Cardinality(Q) > ZONE_MAX_REGION
  <2> HIDE DEF Q
  <2> TAKE k \in Q
  <2>1. CASE k = n + 1
    BY <2>1, <1>3, <1>4
  <2>2. CASE k \in O
    BY <2>2, <1>3 DEF Holds
  <2> QED BY <2>1, <2>2, <1>1
<1> QED BY <1>3, <1>5, <1>6 DEF Holds

\* What insert_region_to_zone makes of a zone with room.
Grown(y, r) ==
  [y EXCEPT !.sec[y.nr + 1] = SectionFor(r), !.nr = y.nr + 1,
            !.pages = y.pages + r.size, !.free = y.pages + r.size]

LEMMA GrownFields ==
  ASSUME NEW y \in ZoneSet, y.nr # ZONE_MAX_REGION, NEW r \in RegionSet
  PROVE  LET u == Grown(y, r)
         IN  /\ u \in ZoneSet /\ u.nr = y.nr + 1 /\ u.pages = y.pages + r.size
             /\ u.nr \in 1 .. ZONE_MAX_REGION
             /\ u.sec[u.nr] = SectionFor(r)
             /\ \A i \in 1 .. ZONE_MAX_REGION : i # u.nr => u.sec[i] = y.sec[i]
<1> DEFINE u == Grown(y, r)
<1>1. /\ y.nr \in 0 .. ZONE_MAX_REGION /\ y.nr + 1 \in 1 .. ZONE_MAX_REGION
      /\ y.pages \in Nat /\ r.size \in Nat /\ r.start \in Nat
      /\ y.sec \in [1 .. ZONE_MAX_REGION -> SectionSet]
  BY Constants DEF ZoneSet, RegionSet
<1>2. SectionFor(r) \in SectionSet
  BY <1>1 DEF SectionFor, SectionSet
<1>3. /\ u.nr = y.nr + 1 /\ u.pages = y.pages + r.size
      /\ u.sec = [y.sec EXCEPT ![y.nr + 1] = SectionFor(r)]
      /\ u \in ZoneSet
  <2> DEFINE w == [y.sec EXCEPT ![y.nr + 1] = SectionFor(r)]
  <2>1. w \in [1 .. ZONE_MAX_REGION -> SectionSet]
    BY <1>1, <1>2
  <2>2. u = [y EXCEPT !.sec = w, !.nr = y.nr + 1,
                      !.pages = y.pages + r.size, !.free = y.pages + r.size]
    BY DEF Grown, ZoneSet
  <2> HIDE DEF w, u
  <2>3. u.nr = y.nr + 1 /\ u.pages = y.pages + r.size /\ u.sec = w
    BY <2>2 DEF ZoneSet
  <2>4. y.pages + r.size \in Nat /\ y.pages + r.size \in Int /\ y.nr + 1 \in 0 .. ZONE_MAX_REGION
    BY <1>1
  <2>5. u \in ZoneSet
    BY <2>1, <2>2, <2>4 DEF ZoneSet
  <2> QED BY <2>3, <2>5 DEF w
<1> HIDE DEF u
<1> QED BY <1>1, <1>2, <1>3 DEF u

\* The region is no part of what the zone has.
LEMMA GrownApart ==
  ASSUME NEW s, Table(s), NEW n \in Nat, n + 1 <= Len(s), NEW z \in Zones, NEW y,
         Holds(y, z, s, n)
  PROVE  Span(s[n + 1].start, s[n + 1].size) \cap PhysIn(y) = {}
<1> DEFINE A == Span(s[n + 1].start, s[n + 1].size)
<1> SUFFICES ASSUME NEW i \in 1 .. ZONE_MAX_REGION
             PROVE  A \cap Span(y.sec[i].phy, y.sec[i].size) = {}
  BY DEF PhysIn
<1>1. CASE i <= y.nr
  <2>1. i \in 1 .. y.nr
    BY <1>1, Constants DEF Holds, ZoneSet
  <2>2. PICK k \in OfZone(s, n, z) : y.sec[i] = SectionFor(s[k])
    BY <2>1 DEF Holds
  <2>3. k \in 1 .. Len(s) /\ n + 1 \in 1 .. Len(s) /\ k < n + 1
    BY DEF OfZone, Table
  <2>4. Span(s[k].start, s[k].size) \cap A = {}
    BY <2>3 DEF Table
  <2> QED BY <2>2, <2>4 DEF SectionFor
<1>2. CASE ~(i <= y.nr)
  <2>1. i \in y.nr + 1 .. ZONE_MAX_REGION
    BY <1>2, Constants DEF Holds, ZoneSet
  <2>2. y.sec[i] = NoSection
    BY <2>1 DEF Holds
  <2> QED BY <2>2 DEF NoSection, Span
<1> QED BY <1>1, <1>2

LEMMA GrownPhys ==
  ASSUME NEW y \in ZoneSet, y.nr # ZONE_MAX_REGION, NEW r \in RegionSet,
         y.sec[y.nr + 1] = NoSection,
         Span(r.start, r.size) \cap PhysIn(y) = {},
         y.pages = Cardinality(PhysIn(y))
  PROVE  /\ PhysIn(Grown(y, r)) = PhysIn(y) \cup Span(r.start, r.size)
         /\ Grown(y, r).pages = Cardinality(PhysIn(Grown(y, r)))
<1> DEFINE u == Grown(y, r)
           A == Span(r.start, r.size)
<1>1. /\ u \in ZoneSet /\ u.nr = y.nr + 1 /\ u.pages = y.pages + r.size
      /\ u.nr \in 1 .. ZONE_MAX_REGION
      /\ u.sec[u.nr] = SectionFor(r)
      /\ \A i \in 1 .. ZONE_MAX_REGION : i # u.nr => u.sec[i] = y.sec[i]
  BY GrownFields
<1> HIDE DEF u
<1>2. Span(u.sec[u.nr].phy, u.sec[u.nr].size) = A
  BY <1>1 DEF SectionFor
<1>3. Span(y.sec[u.nr].phy, y.sec[u.nr].size) = {}
  BY <1>1 DEF NoSection, Span
<1>4. PhysIn(u) = PhysIn(y) \cup A
  <2>1. ASSUME NEW p \in PhysIn(u) PROVE p \in PhysIn(y) \cup A
    <3>1. PICK i \in 1 .. ZONE_MAX_REGION : p \in Span(u.sec[i].phy, u.sec[i].size)
      BY <2>1 DEF PhysIn
    <3> QED BY <3>1, <1>1, <1>2 DEF PhysIn
  <2>2. ASSUME NEW p \in PhysIn(y) PROVE p \in PhysIn(u)
    <3>1. PICK i \in 1 .. ZONE_MAX_REGION : p \in Span(y.sec[i].phy, y.sec[i].size)
      BY <2>2 DEF PhysIn
    <3>2. i # u.nr
      BY <3>1, <1>3
    <3> QED BY <3>1, <3>2, <1>1 DEF PhysIn
  <2>3. A \subseteq PhysIn(u)
    BY <1>1, <1>2 DEF PhysIn
  <2> QED BY <2>1, <2>2, <2>3
<1>5. Cardinality(PhysIn(u)) = Cardinality(PhysIn(y)) + r.size
  <2>1. IsFiniteSet(PhysIn(y)) /\ Cardinality(PhysIn(y)) \in Nat
    BY PhysFinite
  <2>2. IsFiniteSet(A) /\ Cardinality(A) = r.size /\ r.size \in Nat
    BY SpanCount DEF RegionSet
  <2> HIDE DEF A
  <2>3. Cardinality(PhysIn(y) \cup A)
          = Cardinality(PhysIn(y)) + Cardinality(A) - Cardinality(PhysIn(y) \cap A)
    BY <2>1, <2>2, FS_Union
  <2>4. PhysIn(y) \cap A = {}
    BY DEF A
  <2>5. Cardinality(PhysIn(y) \cap A) = 0
    BY <2>4, FS_EmptySet
  <2> QED BY <1>4, <2>1, <2>2, <2>3, <2>5
<1> QED BY <1>1, <1>4, <1>5 DEF u

\* A region for which there is room.
LEMMA HoldsGrown ==
  ASSUME NEW s, Table(s), NEW n \in Nat, n + 1 <= Len(s), NEW z \in Zones, NEW y,
         Holds(y, z, s, n), s[n + 1].attr = z, y.nr # ZONE_MAX_REGION
  PROVE  Holds(Grown(y, s[n + 1]), z, s, n + 1)
<1> DEFINE O == OfZone(s, n, z)
           Q == OfZone(s, n + 1, z)
           r == s[n + 1]
           u == Grown(y, r)
           m == y.nr + 1
<1>1. /\ Cardinality(O) \in Nat /\ Q = O \cup {n + 1} /\ Cardinality(Q) = Cardinality(O) + 1
  <2>1. GrowsBy(O, Q, n + 1)
    BY OfZoneNext
  <2> QED BY <2>1 DEF GrowsBy
<1>2. y \in ZoneSet /\ n + 1 \in 1 .. Len(s) /\ r \in RegionSet /\ r.size \in Nat /\ r.start \in Nat
  <2>1. n + 1 \in 1 .. Len(s)
    BY DEF Table
  <2>2. s[n + 1] \in RegionSet
    BY <2>1 DEF Table
  <2> QED BY <2>1, <2>2 DEF Holds, RegionSet
<1>3. /\ u \in ZoneSet /\ u.nr = m /\ u.pages = y.pages + r.size
      /\ m \in 1 .. ZONE_MAX_REGION
      /\ u.sec[m] = SectionFor(r)
      /\ \A i \in 1 .. ZONE_MAX_REGION : i # m => u.sec[i] = y.sec[i]
  BY <1>2, GrownFields
<1>4. y.nr \in Nat /\ y.pages \in Nat /\ ZONE_MAX_REGION \in Nat
  <2> HIDE DEF r, u
  <2> QED BY <1>2, Constants DEF ZoneSet
<1>5. y.sec[m] = NoSection
  BY <1>3, <1>4 DEF Holds
<1>6. u.pages = Cardinality(PhysIn(u))
  <2>1. Span(r.start, r.size) \cap PhysIn(y) = {}
    BY GrownApart
  <2>2. y.pages = Cardinality(PhysIn(y))
    BY DEF Holds
  <2> HIDE DEF r
  <2> QED BY <2>1, <2>2, <1>2, <1>5, GrownPhys
<1> HIDE DEF u, r
<1>7. \A i \in 1 .. y.nr : i \in 1 .. ZONE_MAX_REGION /\ i # m /\ u.sec[i] = y.sec[i]
  BY <1>3, <1>4
<1>8. \A i \in 1 .. m : i = m \/ i \in 1 .. y.nr
  BY <1>4
<1>9. \A i \in 1 .. m : \E k \in Q : u.sec[i] = SectionFor(s[k])
  <2> TAKE i \in 1 .. m
  <2>1. CASE i = m
    BY <2>1, <1>1, <1>3 DEF r
  <2>2. CASE i \in 1 .. y.nr
    <3>1. PICK k \in O : y.sec[i] = SectionFor(s[k])
      BY <2>2 DEF Holds
    <3> QED BY <3>1, <2>2, <1>1, <1>7
  <2> QED BY <2>1, <2>2, <1>8
<1>10. \A i \in m + 1 .. ZONE_MAX_REGION : u.sec[i] = NoSection
  <2> TAKE i \in m + 1 .. ZONE_MAX_REGION
  <2>1. i \in y.nr + 1 .. ZONE_MAX_REGION /\ i # m /\ i \in 1 .. ZONE_MAX_REGION
    BY <1>3, <1>4
  <2> QED BY <2>1, <1>3 DEF Holds
<1>11. \A i, j \in 1 .. m : i < j => u.sec[i].phy < u.sec[j].phy
  <2> SUFFICES ASSUME NEW i \in 1 .. m, NEW j \in 1 .. m, i < j
               PROVE  u.sec[i].phy < u.sec[j].phy
    OBVIOUS
  <2>1. i \in 1 .. y.nr
    BY <1>4
  <2>2. CASE j = m
    <3>1. PICK k \in O : y.sec[i] = SectionFor(s[k])
      BY <2>1 DEF Holds
    <3>2. k \in 1 .. Len(s) /\ k < n + 1
      BY DEF OfZone, Table
    <3>3. s[k].start < r.start
      BY <3>2, <1>2 DEF Table, r
    <3> QED BY <3>1, <3>3, <2>1, <2>2, <1>3, <1>7 DEF SectionFor
  <2>3. CASE j \in 1 .. y.nr
    BY <2>1, <2>3, <1>7 DEF Holds
  <2> QED BY <2>2, <2>3, <1>8
<1>12. \A k \in Q :
       \/ \E i \in 1 .. m : u.sec[i] = SectionFor(s[k])
       \/ /\ m = ZONE_MAX_REGION /\ u.sec[ZONE_MAX_REGION].phy < s[k].start
          /\ Cardinality(Q) > ZONE_MAX_REGION
  <2> TAKE k \in Q
  <2>1. CASE k = n + 1
    <3>1. m \in 1 .. m
      BY <1>4
    <3> QED BY <2>1, <3>1, <1>3 DEF r
  <2>2. CASE k \in O
    <3>1. PICK i \in 1 .. y.nr : y.sec[i] = SectionFor(s[k])
      BY <2>2 DEF Holds
    <3>2. i \in 1 .. m
      BY <1>4
    <3> QED BY <3>1, <3>2, <1>7
  <2> QED BY <2>1, <2>2, <1>1
<1>13. m <= Cardinality(Q)
  BY <1>1, <1>4 DEF Holds
<1>14. ASSUME NEW B \in Nat, \A i \in 1 .. m : u.sec[i].size <= B
       PROVE  u.pages <= m * B
  <2>1. \A i \in 1 .. y.nr : y.sec[i].size <= B
    BY <1>4, <1>7, <1>14, SMTT(30)
  <2>2. y.pages <= y.nr * B
    BY <2>1 DEF Holds
  <2>3. r.size <= B
    <3>1. m \in 1 .. m
      BY <1>4
    <3>2. u.sec[m].size <= B
      BY <3>1, <1>14
    <3> QED BY <3>2, <1>3 DEF SectionFor
  <2>4. m * B = y.nr * B + B /\ y.nr * B \in Nat
    BY <1>4, SMTT(30)
  <2> DEFINE p == y.nr * B
             g == m * B
  <2>5. /\ g = p + B /\ p \in Nat /\ y.pages <= p /\ r.size <= B
        /\ u.pages = y.pages + r.size /\ y.pages \in Nat /\ r.size \in Nat
    BY <2>2, <2>3, <2>4, <1>2, <1>3, <1>4
  <2> HIDE DEF p, g
  <2>6. u.pages <= g
    BY <2>5
  <2> QED BY <2>6 DEF g
<1> HIDE DEF Q
<1>15. Holds(u, z, s, n + 1)
  BY <1>3, <1>6, <1>9, <1>10, <1>11, <1>12, <1>13, <1>14 DEF Holds, Q
<1> QED BY <1>15 DEF u, r

LEMMA InsertGrows ==
  ASSUME NEW zs \in [Zones -> ZoneSet], NEW r \in RegionSet
  PROVE  insert_region_to_zone(zs, r) =
           IF zs[r.attr].nr = ZONE_MAX_REGION THEN zs
           ELSE [zs EXCEPT ![r.attr] = Grown(zs[r.attr], r)]
BY DEF insert_region_to_zone, Grown, SectionFor

\* All regions, one after another.
LEMMA InsertedHolds ==
  ASSUME NEW s, Table(s), NEW n \in 0 .. Len(s)
  PROVE  /\ Inserted(EmptyBank, s, n) \in [Zones -> ZoneSet]
         /\ \A z \in Zones : Holds(Inserted(EmptyBank, s, n)[z], z, s, n)
<1> DEFINE I(m) == Inserted(EmptyBank, s, m)
           OK(m) == /\ I(m) \in [Zones -> ZoneSet]
                    /\ \A z \in Zones : Holds(I(m)[z], z, s, m)
           T == {m \in 0 .. Len(s) : ~OK(m)}
<1>0. Len(s) \in Nat /\ \A k \in 1 .. Len(s) : s[k] \in RegionSet
  BY DEF Table
<1>1. SUFFICES ASSUME T # {} PROVE FALSE
  OBVIOUS
<1>2. PICK m \in T : \A y \in T : m <= y
  <2>1. T \in SUBSET Nat
    BY <1>0
  <2> HIDE DEF T
  <2> QED BY <1>1, <2>1, LeastOf
<1>3. OK(0)
  <2>1. I(0) = EmptyBank
    BY InsertedStep
  <2>2. \A z \in Zones : Holds(EmptyBank[z], z, s, 0)
    BY HoldsEmpty
  <2>3. \A z \in Zones : EmptyBank[z] \in ZoneSet
    BY <2>2 DEF Holds
  <2>4. EmptyBank = [z \in Zones |-> EmptyBank[z]]
    BY DEF EmptyBank
  <2>5. EmptyBank \in [Zones -> ZoneSet]
    BY <2>3, <2>4
  <2> QED BY <2>1, <2>2, <2>5
<1>4. PICK k \in Nat : m = k + 1 /\ k \in 0 .. Len(s) /\ OK(k) /\ k + 1 <= Len(s)
  <2>1. m \in 0 .. Len(s) /\ m # 0
    BY <1>2, <1>3
  <2>2. m - 1 \in Nat /\ m = (m - 1) + 1 /\ m - 1 \in 0 .. Len(s) /\ m - 1 \notin T
    BY <1>0, <1>2, <2>1
  <2>3. OK(m - 1)
    BY <2>2
  <2> HIDE DEF OK, T
  <2> QED BY <1>0, <2>1, <2>2, <2>3
<1> DEFINE zs == I(k)
           r == s[k + 1]
<1>5. I(k + 1) = insert_region_to_zone(zs, r)
  BY InsertedStep
<1>6. zs \in [Zones -> ZoneSet] /\ \A z \in Zones : Holds(zs[z], z, s, k)
  BY <1>4
<1>7. r \in RegionSet /\ r.attr \in Zones
  <2>1. k + 1 \in 1 .. Len(s)
    BY <1>0, <1>4
  <2> QED BY <1>0, <2>1 DEF RegionSet
<1> HIDE DEF zs, r, I
<1>8. I(k + 1) = IF zs[r.attr].nr = ZONE_MAX_REGION THEN zs
                 ELSE [zs EXCEPT ![r.attr] = Grown(zs[r.attr], r)]
  BY <1>5, <1>6, <1>7, InsertGrows
<1>9. \A z \in Zones : Holds(I(k + 1)[z], z, s, k + 1)
  <2> TAKE z \in Zones
  <2>1. CASE z # r.attr
    <3>1. I(k + 1)[z] = zs[z]
      BY <1>6, <1>7, <1>8, <2>1
    <3>2. Holds(zs[z], z, s, k) /\ s[k + 1].attr # z
      BY <1>6, <2>1 DEF r
    <3> QED BY <3>1, <3>2, HoldsOther
  <2>2. CASE z = r.attr /\ zs[z].nr = ZONE_MAX_REGION
    <3>1. I(k + 1)[z] = zs[z]
      BY <1>8, <2>2
    <3>2. Holds(zs[z], z, s, k) /\ s[k + 1].attr = z
      BY <1>6, <2>2 DEF r
    <3> QED BY <3>1, <3>2, <2>2, <1>4, HoldsFull
  <2>3. CASE z = r.attr /\ zs[z].nr # ZONE_MAX_REGION
    <3>1. I(k + 1)[z] = Grown(zs[z], r)
      BY <1>6, <1>8, <2>3
    <3>2. Holds(zs[z], z, s, k) /\ s[k + 1].attr = z
      BY <1>6, <2>3 DEF r
    <3>3. Holds(Grown(zs[z], s[k + 1]), z, s, k + 1)
      BY <3>2, <2>3, <1>4, HoldsGrown
    <3> QED BY <3>1, <3>3 DEF r
  <2> QED BY <2>1, <2>2, <2>3
<1>10. I(k + 1) \in [Zones -> ZoneSet]
  <2>1. I(k + 1) = [z \in Zones |-> I(k + 1)[z]]
    BY <1>6, <1>8
  <2>2. \A z \in Zones : I(k + 1)[z] \in ZoneSet
    BY <1>9 DEF Holds
  <2> QED BY <2>1, <2>2
<1>11. OK(m)
  BY <1>4, <1>9, <1>10
<1> QED BY <1>2, <1>11

\* The table that the insertion goes through.
LEMMA SortedTable ==
  ASSUME ParsePart
  PROVE  Table(Sorted(regions))
<1> DEFINE s == Sorted(regions)
           n == Len(regions)
<1>1. /\ s \in Seq(RegionSet) /\ Len(s) = n /\ DOMAIN s = 1 .. n
      /\ Range(s) = Range(regions)
      /\ \A i, j \in 1 .. n : i < j => s[i].start < s[j].start
  BY SortedOrder
<1>2. /\ n \in Nat /\ \A r \in Range(regions) : Kept(r, table)
      /\ DOMAIN regions = 1 .. n
  BY RegionsCount
<1> HIDE DEF s
<1>3. \A i \in 1 .. n : s[i] \in Range(regions)
  BY <1>1 DEF Range
<1>4. \A i \in 1 .. n : s[i].size > 0 /\ s[i].start + s[i].size <= MaxPage
  BY <1>2, <1>3, KeptFacts
<1>5. ASSUME NEW i \in 1 .. n, NEW j \in 1 .. n, i < j
      PROVE  Span(s[i].start, s[i].size) \cap Span(s[j].start, s[j].size) = {}
  <2>1. PICK k \in 1 .. n : s[i] = regions[k]
    BY <1>2, <1>3 DEF Range
  <2>2. PICK m \in 1 .. n : s[j] = regions[m]
    BY <1>2, <1>3 DEF Range
  <2>3. k # m
    <3>1. s[i].start < s[j].start /\ s[i] \in RegionSet /\ s[j] \in RegionSet
      BY <1>1, <1>5
    <3> QED BY <3>1, <2>1, <2>2 DEF RegionSet
  <2> QED BY <1>2, <2>1, <2>2, <2>3 DEF ParsePart
<1>6. Table(s)
  BY <1>1, <1>4, <1>5 DEF Table
<1> QED BY <1>6 DEF s

\* The bank after the insertion.
Bank ==
  /\ Table(regions)
  /\ zone \in [Zones -> ZoneSet]
  /\ \A z \in Zones : Holds(zone[z], z, regions, Len(regions))

LEMMA SlotFacts ==
  ASSUME NEW q \in Slots
  PROVE  /\ q[1] \in Zones /\ q[2] \in 1 .. ZONE_MAX_REGION /\ q = <<q[1], q[2]>>
         /\ q[2] \in Nat
BY Constants DEF Slots

\* A section is a region of its zone.
LEMMA BankSection ==
  ASSUME Bank, NEW q \in Slots
  PROVE  \/ /\ IsSeen(q)
            /\ \E k \in 1 .. Len(regions) : /\ regions[k].attr = q[1]
                                            /\ Sec(q) = SectionFor(regions[k])
         \/ ~IsSeen(q) /\ Sec(q) = NoSection
<1> DEFINE y == zone[q[1]]
<1>1. q[1] \in Zones /\ q[2] \in 1 .. ZONE_MAX_REGION
  BY SlotFacts
<1>2. Holds(y, q[1], regions, Len(regions)) /\ y.nr \in 0 .. ZONE_MAX_REGION
  BY <1>1 DEF Bank, Holds, ZoneSet
<1>3. CASE q[2] <= y.nr
  <2>1. q[2] \in 1 .. y.nr
    BY <1>1, <1>2, <1>3, Constants
  <2>2. PICK k \in OfZone(regions, Len(regions), q[1]) : y.sec[q[2]] = SectionFor(regions[k])
    BY <1>2, <2>1 DEF Holds
  <2> QED BY <1>3, <2>2 DEF OfZone, Sec, IsSeen
<1>4. CASE ~(q[2] <= y.nr)
  <2>1. q[2] \in y.nr + 1 .. ZONE_MAX_REGION
    BY <1>1, <1>2, <1>4, Constants
  <2>2. y.sec[q[2]] = NoSection
    BY <1>2, <2>1 DEF Holds
  <2> QED BY <1>4, <2>2 DEF Sec, IsSeen
<1> QED BY <1>3, <1>4

LEMMA NoSectionOK == SectionOK(NoSection) /\ Span(NoSection.phy, NoSection.size) = {}
BY AlignedConstants DEF SectionOK, NoSection, SectionSet, Span

LEMMA RegionSectionOK ==
  ASSUME ParsePart, NEW k \in 1 .. Len(regions)
  PROVE  SectionOK(SectionFor(regions[k])) /\ regions[k].size > 0 /\ regions[k].size \in Nat
<1>1. Kept(regions[k], table)
  BY RegionsCount DEF ParsePart
<1> DEFINE r == regions[k]
<1>2. /\ r \in RegionSet /\ Aligned(r.start) /\ Aligned(r.size) /\ r.size > 0
      /\ r.start + r.size <= MaxPage
  BY <1>1, KeptFacts
<1> HIDE DEF r
<1>3. SectionOK(SectionFor(r)) /\ r.size \in Nat
  BY <1>2 DEF SectionOK, SectionFor, SectionSet, RegionSet
<1> QED BY <1>2, <1>3 DEF r

LEMMA BankZone == ParsePart /\ Bank => ZonePart
<1> SUFFICES ASSUME ParsePart, Bank PROVE ZonePart
  OBVIOUS
<1> DEFINE n == Len(regions)
<1>1. zone \in [Zones -> ZoneSet]
  BY DEF Bank
<1>2. \A q \in Slots : SectionOK(Sec(q))
  BY BankSection, NoSectionOK, RegionSectionOK
<1>3. ASSUME NEW p \in Slots, NEW q \in Slots, p # q
      PROVE  Phys(p) \cap Phys(q) = {}
  <2>1. CASE ~IsSeen(p)
    BY <2>1, BankSection, NoSectionOK DEF Phys
  <2>2. CASE ~IsSeen(q)
    BY <2>2, BankSection, NoSectionOK DEF Phys
  <2>3. CASE IsSeen(p) /\ IsSeen(q)
    <3>1. PICK k \in 1 .. n : regions[k].attr = p[1] /\ Sec(p) = SectionFor(regions[k])
      BY <2>3, BankSection
    <3>2. PICK m \in 1 .. n : regions[m].attr = q[1] /\ Sec(q) = SectionFor(regions[m])
      BY <2>3, BankSection
    <3>3. k # m
      <4>1. CASE p[1] # q[1]
        BY <4>1, <3>1, <3>2
      <4>2. CASE p[1] = q[1]
        <5>1. /\ p[2] # q[2] /\ p[2] \in Nat /\ q[2] \in Nat
              /\ p[1] \in Zones /\ p[2] >= 1 /\ q[2] >= 1
          BY <1>3, <4>2, SlotFacts
        <5> DEFINE y == zone[p[1]]
        <5>2. p[2] <= y.nr /\ q[2] <= y.nr /\ y.nr \in Nat
          BY <1>1, <2>3, <4>2, <5>1, Constants DEF IsSeen, ZoneSet
        <5>3. p[2] \in 1 .. y.nr /\ q[2] \in 1 .. y.nr
          BY <5>1, <5>2
        <5>4. Holds(y, p[1], regions, n)
          BY <5>1 DEF Bank
        <5>5. /\ p[2] < q[2] => y.sec[p[2]].phy < y.sec[q[2]].phy
              /\ q[2] < p[2] => y.sec[q[2]].phy < y.sec[p[2]].phy
          <6> HIDE DEF y
          <6> QED BY <5>3, <5>4 DEF Holds
        <5>6. Sec(p) = y.sec[p[2]] /\ Sec(q) = y.sec[q[2]]
          BY <4>2 DEF Sec
        <5>7. Sec(p).phy \in Nat /\ Sec(q).phy \in Nat
          BY <1>2 DEF SectionOK, SectionSet
        <5>8. Sec(p).phy # Sec(q).phy
          <6> HIDE DEF y
          <6> QED BY <5>1, <5>5, <5>6, <5>7
        <5> QED BY <5>8, <3>1, <3>2
      <4> QED BY <4>1, <4>2
    <3>4. Span(regions[k].start, regions[k].size) \cap Span(regions[m].start, regions[m].size) = {}
      <4>1. DOMAIN regions = 1 .. n
        BY RegionsCount
      <4> QED BY <3>3, <4>1 DEF ParsePart
    <3> QED BY <3>1, <3>2, <3>4 DEF Phys, SectionFor
  <2> QED BY <2>1, <2>2, <2>3
<1>4. \A z \in Zones : zone[z].pages = Cardinality(PhysOf(z))
  BY DEF Bank, Holds, PhysOf
<1>5. \A q \in Slots : ~IsSeen(q) => Sec(q) = NoSection
  BY BankSection
<1> QED BY <1>1, <1>2, <1>3, <1>4, <1>5 DEF ZonePart

\* The memory of a zone is that of its regions, unless some were dropped.
LEMMA BankPhys ==
  ASSUME ParsePart, Bank, NEW z \in Zones
  PROVE  /\ PhysOf(z) \subseteq Memory(z)
         /\ ~Dropped => PhysOf(z) = Memory(z)
<1> DEFINE n == Len(regions)
           y == zone[z]
<1>1. DOMAIN regions = 1 .. n /\ n \in Nat
  BY RegionsCount
<1>2. Holds(y, z, regions, n) /\ y.nr \in 0 .. ZONE_MAX_REGION
  BY DEF Bank, Holds, ZoneSet
<1>3. ASSUME NEW p \in PhysOf(z) PROVE p \in Memory(z)
  <2>1. PICK i \in 1 .. ZONE_MAX_REGION : p \in Span(y.sec[i].phy, y.sec[i].size)
    BY <1>3 DEF PhysOf, PhysIn
  <2>2. <<z, i>> \in Slots /\ Sec(<<z, i>>) = y.sec[i]
    BY DEF Slots, Sec
  <2>3. Sec(<<z, i>>) # NoSection
    BY <2>1, <2>2, NoSectionOK
  <2>4. PICK k \in 1 .. n : regions[k].attr = z /\ Sec(<<z, i>>) = SectionFor(regions[k])
    BY <2>2, <2>3, BankSection
  <2>5. p \in Span(regions[k].start, regions[k].size)
    BY <2>1, <2>2, <2>4 DEF SectionFor
  <2> QED BY <1>1, <2>4, <2>5 DEF Memory
<1>4. ASSUME ~Dropped, NEW p \in Memory(z) PROVE p \in PhysOf(z)
  <2>1. PICK k \in 1 .. n : regions[k].attr = z /\ p \in Span(regions[k].start, regions[k].size)
    BY <1>1, <1>4 DEF Memory
  <2>2. k \in OfZone(regions, n, z)
    BY <2>1 DEF OfZone
  <2>3. ~(Cardinality(OfZone(regions, n, z)) > ZONE_MAX_REGION)
    BY <1>1, <1>4 DEF Dropped, OfZone
  <2>4. PICK i \in 1 .. y.nr : y.sec[i] = SectionFor(regions[k])
    <3> HIDE DEF y
    <3> QED BY <1>2, <2>2, <2>3 DEF Holds
  <2>5. i \in 1 .. ZONE_MAX_REGION
    BY <1>2, Constants
  <2>6. p \in Span(y.sec[i].phy, y.sec[i].size)
    BY <2>1, <2>4 DEF SectionFor
  <2> QED BY <2>5, <2>6 DEF PhysOf, PhysIn
<1> QED BY <1>3, <1>4

\* Without DMA memory of the board the zone is empty.
LEMMA BankDma ==
  ASSUME Bank
  PROVE  zone["dma"].nr = 0 => Cut
<1> SUFFICES ASSUME zone["dma"].nr = 0, NEW k \in DOMAIN regions, regions[k].attr = "dma"
             PROVE  FALSE
  BY DEF Cut
<1>1. Holds(zone["dma"], "dma", regions, Len(regions))
  BY DEF Bank, Zones
<1>2. k \in OfZone(regions, Len(regions), "dma")
  BY DEF OfZone, Bank, Table
<1>3. 1 .. zone["dma"].nr = {}
  OBVIOUS
<1> QED BY <1>1, <1>2, <1>3, Constants DEF Holds

LEMMA BankMemory ==
  /\ ParsePart /\ Bank
  /\ total = zone["normal"].pages + zone["dma"].pages + zone["res"].pages
  => MemoryPart
<1> SUFFICES ASSUME ParsePart, Bank,
                    total = zone["normal"].pages + zone["dma"].pages + zone["res"].pages
             PROVE  MemoryPart
  OBVIOUS
<1>1. {"normal", "dma", "res"} \subseteq Zones
  BY DEF Zones
<1>2. \A z \in Zones : PhysOf(z) \subseteq Memory(z) /\ (~Dropped => PhysOf(z) = Memory(z))
  BY BankPhys
<1>3. Cut => PhysOf("dma") \subseteq Memory("normal")
  <2> SUFFICES ASSUME Cut PROVE PhysOf("dma") = {}
    OBVIOUS
  <2>1. Memory("dma") = {}
    BY DEF Cut, Memory
  <2> QED BY <1>1, <1>2, <2>1
<1> QED BY <1>1, <1>2, <1>3 DEF MemoryPart

\* A board with the kernel's bank first has it as the first section.
LEMMA BankKernel ==
  ASSUME ParsePart, Bank, KernelLeads,
         NEW m \in 1 .. Len(regions), regions[m].start = KernelPhys
  PROVE  LET n == zone["normal"]
         IN  /\ n.nr >= 1 /\ n.sec[1].phy = KernelPhys
             /\ \A i \in 1 .. n.nr : n.sec[i].size <= n.sec[1].size
<1> DEFINE n == zone["normal"]
           O == OfZone(regions, Len(regions), "normal")
<1>1. "normal" \in Zones
  BY DEF Zones
<1>2. Holds(n, "normal", regions, Len(regions)) /\ n.nr \in 0 .. ZONE_MAX_REGION
  BY <1>1 DEF Bank, Holds, ZoneSet
<1>3. \A k \in 1 .. Len(regions) : Kept(regions[k], table)
  BY RegionsCount DEF ParsePart
<1>4. regions[m].attr = "normal" /\ KernelPhys \in Span(regions[m].start, regions[m].size)
  BY <1>3, KeptFacts
<1>5. PICK h \in table : regions[m] = Trimmed(h)
  BY <1>3 DEF Kept
<1>6. h.start = KernelPhys
  BY <1>4, <1>5, TrimmedKernel DEF ParsePart
<1>7. ASSUME NEW k \in O
      PROVE  /\ regions[k].start \in Nat /\ regions[k].start >= KernelPhys
             /\ regions[k].size <= regions[m].size
  <2>1. k \in 1 .. Len(regions) /\ regions[k].attr = "normal"
    BY <1>7 DEF OfZone
  <2>2. PICK g \in table : regions[k] = Trimmed(g)
    BY <1>3, <2>1 DEF Kept
  <2>3. /\ g.start \in Nat /\ regions[k].start \in Nat
        /\ g.start <= regions[k].start /\ g.attr = "normal"
    BY <2>1, <2>2, TrimmedIn DEF ParsePart, RegionSet
  <2>4. g.start >= KernelPhys /\ Trimmed(g).size <= Trimmed(h).size
    BY <1>6, <2>3 DEF KernelLeads
  <2> QED BY <2>2, <2>3, <2>4, <1>5, Constants
<1>8. \A i \in 1 .. n.nr : /\ n.sec[i].phy \in Nat /\ n.sec[i].phy >= KernelPhys
                           /\ n.sec[i].size <= regions[m].size
  <2> TAKE i \in 1 .. n.nr
  <2>1. PICK k \in O : n.sec[i] = SectionFor(regions[k])
    <3> HIDE DEF n
    <3> QED BY <1>2 DEF Holds
  <2> HIDE DEF n, O
  <2> QED BY <1>7, <2>1 DEF SectionFor
<1>9. PICK i \in 1 .. n.nr : n.sec[i] = SectionFor(regions[m])
  <2>1. m \in O
    BY <1>4 DEF OfZone
  <2>2. \/ \E i \in 1 .. n.nr : n.sec[i] = SectionFor(regions[m])
        \/ n.nr = ZONE_MAX_REGION /\ n.sec[ZONE_MAX_REGION].phy < regions[m].start
    <3> HIDE DEF n
    <3> QED BY <1>2, <2>1 DEF Holds
  <2>3. n.nr = ZONE_MAX_REGION => n.sec[ZONE_MAX_REGION].phy >= KernelPhys
                                  /\ n.sec[ZONE_MAX_REGION].phy \in Nat
    <3> HIDE DEF n
    <3> QED BY <1>8, Constants
  <2> HIDE DEF n
  <2> QED BY <2>2, <2>3, Constants
<1>10. i = 1
  <2>1. 1 \in 1 .. n.nr /\ (i # 1 => 1 < i)
    BY <1>2, Constants
  <2>2. i # 1 => n.sec[1].phy < n.sec[i].phy
    <3> HIDE DEF n
    <3> QED BY <1>2, <2>1 DEF Holds
  <2>3. n.sec[i].phy = KernelPhys
    BY <1>9 DEF SectionFor
  <2> HIDE DEF n
  <2> QED BY <1>8, <2>1, <2>2, <2>3, Constants
<1>11. n.sec[1] = SectionFor(regions[m])
  BY <1>9, <1>10
<1>12. n.nr >= 1
  BY <1>2, Constants
<1> QED BY <1>8, <1>11, <1>12 DEF SectionFor

LEMMA BankCarve ==
  /\ ParsePart /\ Bank
  /\ \E i \in 1 .. zone["normal"].nr : zone["normal"].sec[i].size >= 2 * SectionPages
  /\ \E i \in DOMAIN regions : regions[i].start = KernelPhys
  => CarvePart /\ KernelPhys < MaxPage /\ \A q \in Slots : Sec(q).vir = 0
<1> SUFFICES ASSUME ParsePart, Bank,
                    \E i \in 1 .. zone["normal"].nr :
                      zone["normal"].sec[i].size >= 2 * SectionPages,
                    \E i \in DOMAIN regions : regions[i].start = KernelPhys
             PROVE  CarvePart /\ KernelPhys < MaxPage /\ \A q \in Slots : Sec(q).vir = 0
  OBVIOUS
<1>1. PICK m \in 1 .. Len(regions) : regions[m].start = KernelPhys
  BY RegionsCount
<1>2. KernelPhys < MaxPage
  <2>1. Kept(regions[m], table)
    BY RegionsCount DEF ParsePart
  <2>2. /\ regions[m].size \in Nat /\ regions[m].size > 0
        /\ regions[m].start + regions[m].size <= MaxPage
    BY <2>1, KeptFacts DEF RegionSet
  <2> QED BY <1>1, <2>2, Constants, AlignedConstants
<1>3. ASSUME NEW q \in Slots
      PROVE  /\ ~IsSeen(q) => Sec(q) = NoSection
             /\ IsSeen(q) => Sec(q).size > 0
             /\ Sec(q).vir = 0
  <2>1. \A k \in 1 .. Len(regions) : regions[k].size > 0
    BY RegionSectionOK
  <2> QED BY <2>1, BankSection DEF SectionFor, NoSection
<1>4. \A B \in Nat : (\A i \in 1 .. zone["normal"].nr : zone["normal"].sec[i].size <= B)
                       => zone["normal"].pages <= zone["normal"].nr * B
  <2>1. Holds(zone["normal"], "normal", regions, Len(regions))
    BY DEF Bank, Zones
  <2> QED BY <2>1 DEF Holds
<1>5. KernelLeads => /\ zone["normal"].nr >= 1 /\ zone["normal"].sec[1].phy = KernelPhys
                     /\ \A i \in 1 .. zone["normal"].nr :
                          zone["normal"].sec[i].size <= zone["normal"].sec[1].size
  BY <1>1, BankKernel
<1>6. zone["dma"].nr = 0 => Cut
  BY BankDma
<1>7. CarvePart
  BY <1>3, <1>4, <1>5, <1>6 DEF CarvePart
<1> QED BY <1>2, <1>3, <1>7

\* The regions make a bank.
LEMMA InsertBank ==
  ASSUME ParsePart, zone = EmptyBank, InsertRegions
  PROVE  /\ ParsePart' /\ Bank'
         /\ (total = zone["normal"].pages + zone["dma"].pages + zone["res"].pages)'
         /\ (\E i \in 1 .. zone["normal"].nr :
               zone["normal"].sec[i].size >= 2 * SectionPages)'
         /\ (\E i \in DOMAIN regions : regions[i].start = KernelPhys)'
<1> DEFINE s == Sorted(regions)
           zs == Inserted(zone, s, Len(regions))
<1>1. /\ Complete(zs["normal"]) /\ regions' = s /\ zone' = zs /\ table' = table
      /\ total' = zs["normal"].pages + zs["dma"].pages + zs["res"].pages
  BY DEF InsertRegions
<1>2. ParsePart'
  BY <1>1, SortedParse
<1>3. /\ Len(regions) \in Nat /\ DOMAIN regions = 1 .. Len(regions) /\ Len(s) = Len(regions)
      /\ DOMAIN s = 1 .. Len(regions) /\ Range(s) = Range(regions)
  BY SortedOrder, RegionsCount
<1>4. Table(s)
  BY SortedTable
<1>5. Bank'
  <2>1. Len(s) \in 0 .. Len(s)
    BY <1>3
  <2>2. zs = Inserted(EmptyBank, s, Len(s))
    BY <1>3
  <2> HIDE DEF s, zs
  <2>3. zs \in [Zones -> ZoneSet] /\ \A z \in Zones : Holds(zs[z], z, s, Len(s))
    BY <1>4, <2>1, <2>2, InsertedHolds
  <2> QED BY <1>1, <1>4, <2>3 DEF Bank
<1>6. (\E i \in DOMAIN regions : regions[i].start = KernelPhys)'
  <2>1. PICK i \in DOMAIN regions : regions[i].start = KernelPhys
    BY <1>1 DEF Complete
  <2>2. regions[i] \in Range(s)
    BY <1>3, <2>1 DEF Range
  <2>3. PICK j \in DOMAIN s : s[j] = regions[i]
    BY <2>2 DEF Range
  <2> HIDE DEF s
  <2> QED BY <1>1, <2>1, <2>3
<1>7. (\E i \in 1 .. zone["normal"].nr : zone["normal"].sec[i].size >= 2 * SectionPages)'
  <2> HIDE DEF zs
  <2> QED BY <1>1 DEF Complete
<1>8. (total = zone["normal"].pages + zone["dma"].pages + zone["res"].pages)'
  <2> HIDE DEF zs
  <2> QED BY <1>1
<1> QED BY <1>2, <1>5, <1>6, <1>7, <1>8

\* InsertRegions.
LEMMA InsertInv ==
  ASSUME LInv, InsertRegions
  PROVE  LInv'
<1>1. step = "parse" /\ step' = "carve" /\ tlb' = tlb /\ vectors' = vectors
  BY DEF InsertRegions
<1>2. ParsePart /\ zone = EmptyBank /\ tlb = Boot
  BY <1>1 DEF LInv
<1>3. /\ ParsePart' /\ Bank'
      /\ (total = zone["normal"].pages + zone["dma"].pages + zone["res"].pages)'
      /\ (\E i \in 1 .. zone["normal"].nr :
            zone["normal"].sec[i].size >= 2 * SectionPages)'
      /\ (\E i \in DOMAIN regions : regions[i].start = KernelPhys)'
  BY <1>2, InsertBank
<1>4. ZonePart'
  BY <1>3, BankZone, PTL
<1>5. MemoryPart'
  BY <1>3, BankMemory, PTL
<1>6. CarvePart' /\ (KernelPhys < MaxPage)' /\ (\A q \in Slots : Sec(q).vir = 0)'
  BY <1>3, BankCarve, PTL
<1>7. VectorsReachable'
  BY <1>1 DEF VectorsReachable
<1>8. (tlb = Boot)'
  BY <1>1, <1>2 DEF Boot
<1>9. ~Booted'
  BY <1>1 DEF Booted
<1> QED BY <1>1, <1>3, <1>4, <1>5, <1>6, <1>7, <1>8, <1>9 DEF LInv, Steps

-----------------------------------------------------------------------------
(* The DMA zone *)

\* Some section of NORMAL memory is the largest, and has two megabytes.
LEMMA LargestIs ==
  ASSUME ZonePart, CarvePart
  PROVE  /\ zone["normal"].nr \in 1 .. ZONE_MAX_REGION
         /\ DOMAIN Sizes = 1 .. zone["normal"].nr
         /\ \A i \in DOMAIN Sizes : Sizes[i] \in Nat /\ Sizes[i] = zone["normal"].sec[i].size
         /\ Largest \in DOMAIN Sizes
         /\ \A k \in DOMAIN Sizes : Sizes[k] <= Sizes[Largest]
         /\ Sizes[Largest] >= 2 * SectionPages
<1> DEFINE n == zone["normal"]
<1>1. "normal" \in Zones
  BY DEF Zones
<1>2. n.nr \in 0 .. ZONE_MAX_REGION /\ n.sec \in [1 .. ZONE_MAX_REGION -> SectionSet]
  BY <1>1 DEF ZonePart, ZoneSet
<1>3. PICK m \in 1 .. n.nr : n.sec[m].size >= 2 * SectionPages
  BY DEF CarvePart
<1>4. n.nr \in 1 .. ZONE_MAX_REGION
  BY <1>2, <1>3, Constants
<1>5. DOMAIN Sizes = 1 .. n.nr
  BY DEF Sizes
<1>6. \A i \in 1 .. n.nr : Sizes[i] = n.sec[i].size /\ Sizes[i] \in Nat /\ Sizes[i] <= MaxPage
  <2> TAKE i \in 1 .. n.nr
  <2>1. Sizes[i] = n.sec[i].size
    BY DEF Sizes
  <2>2. i \in 1 .. ZONE_MAX_REGION
    BY <1>4, Constants
  <2>3. <<"normal", i>> \in Slots /\ Sec(<<"normal", i>>) = n.sec[i]
    BY <1>1, <2>2 DEF Slots, Sec
  <2>4. SectionOK(n.sec[i])
    BY <2>3 DEF ZonePart
  <2> HIDE DEF n
  <2> QED BY <2>1, <2>4, AlignedConstants DEF SectionOK, SectionSet
<1> HIDE DEF n
<1>7. PICK a \in 1 .. n.nr : \A k \in 1 .. n.nr : Sizes[k] <= Sizes[a]
  <2> DEFINE T == {MaxPage - Sizes[i] : i \in 1 .. n.nr}
  <2>1. T \subseteq Nat /\ T # {}
    BY <1>3, <1>6, AlignedConstants
  <2>2. PICK x \in T : \A y \in T : x <= y
    BY <2>1, LeastOf
  <2>3. PICK a \in 1 .. n.nr : x = MaxPage - Sizes[a]
    OBVIOUS
  <2>4. \A k \in 1 .. n.nr : x <= MaxPage - Sizes[k]
    BY <2>2
  <2> QED BY <2>3, <2>4, <1>6, AlignedConstants
<1>8. \E i \in DOMAIN Sizes : \A k \in DOMAIN Sizes : /\ Sizes[k] <= Sizes[i]
                                                      /\ k < i => Sizes[k] < Sizes[i]
  <2> DEFINE T == {i \in 1 .. n.nr : Sizes[i] = Sizes[a]}
  <2>1. T \subseteq Nat /\ a \in T
    OBVIOUS
  <2>2. PICK i \in T : \A k \in T : i <= k
    BY <2>1, LeastOf
  <2>3. ASSUME NEW k \in 1 .. n.nr, k < i PROVE Sizes[k] < Sizes[i]
    <3>1. Sizes[k] # Sizes[a]
      BY <2>2, <2>3
    <3> QED BY <3>1, <1>6, <1>7
  <2> QED BY <1>5, <1>7, <2>3
<1>9. /\ Largest \in DOMAIN Sizes
      /\ \A k \in DOMAIN Sizes : Sizes[k] <= Sizes[Largest]
  BY <1>8 DEF Largest
<1>10. Sizes[Largest] >= 2 * SectionPages
  BY <1>3, <1>5, <1>6, <1>9, Constants
<1> QED BY <1>4, <1>5, <1>6, <1>9, <1>10 DEF n

\* A sixteenth of what at most eight sections have is less than the largest.
LEMMA SixteenthFits ==
  ASSUME NEW p \in Nat, NEW n \in 1 .. 8, NEW l \in Nat, NEW s \in Nat,
         p <= n * l, l >= 2 * s, p > 0, s > 0
  PROVE  (p + 15) \div 16 \in Nat /\ (p + 15) \div 16 > 0 /\ (p + 15) \div 16 <= l - s
<1> DEFINE x == (p + 15) \div 16
<1>1. x \in Nat /\ 16 * x <= p + 15 /\ p <= 16 * x
  OBVIOUS
<1>2. n * l <= 8 * l
  <2>1. n \in {1, 2, 3, 4, 5, 6, 7, 8}
    OBVIOUS
  <2> QED BY <2>1
<1>3. n * l \in Nat
  OBVIOUS
<1>4. p <= 8 * l
  <2> DEFINE m == n * l
  <2>1. m \in Nat /\ p <= m /\ m <= 8 * l
    BY <1>2, <1>3
  <2> HIDE DEF m
  <2> QED BY <2>1
<1> HIDE DEF x
<1>5. x > 0 /\ x <= l - s
  BY <1>1, <1>4
<1> QED BY <1>1, <1>5 DEF x

\* What is cut off is less than the largest section, by a megabyte at least.
LEMMA CutCore ==
  ASSUME ZonePart, CarvePart
  PROVE  /\ DmaPages \in Nat /\ Aligned(DmaPages) /\ DmaPages > 0
         /\ DmaPages + SectionPages <= Sizes[Largest]
<1> DEFINE n == zone["normal"]
           l == Sizes[Largest]
<1>1. /\ n.nr \in 1 .. ZONE_MAX_REGION /\ DOMAIN Sizes = 1 .. n.nr
      /\ \A i \in DOMAIN Sizes : Sizes[i] \in Nat /\ Sizes[i] = n.sec[i].size
      /\ Largest \in DOMAIN Sizes
      /\ \A k \in DOMAIN Sizes : Sizes[k] <= l
      /\ l >= 2 * SectionPages
  BY LargestIs
<1>2. "normal" \in Zones /\ n \in ZoneSet /\ n.pages = Cardinality(PhysIn(n))
  BY DEF Zones, ZonePart, PhysOf
<1>3. n.pages <= n.nr * l
  <2>1. \A i \in 1 .. n.nr : n.sec[i].size <= l
    BY <1>1
  <2>2. l \in Nat
    BY <1>1
  <2> HIDE DEF l
  <2> QED BY <2>1, <2>2 DEF CarvePart
<1>4. SectionOK(n.sec[Largest]) /\ Largest \in 1 .. ZONE_MAX_REGION
  <2>1. Largest \in 1 .. ZONE_MAX_REGION
    BY <1>1, Constants
  <2>2. <<"normal", Largest>> \in Slots /\ Sec(<<"normal", Largest>>) = n.sec[Largest]
    BY <1>2, <2>1 DEF Slots, Sec
  <2> QED BY <2>1, <2>2 DEF ZonePart
<1>5. l = n.sec[Largest].size /\ l \in Nat
  BY <1>1
<1> HIDE DEF n, l
<1>6. n.pages \in Nat /\ n.pages > 0
  <2>1. n.sec[Largest].phy \in Span(n.sec[Largest].phy, n.sec[Largest].size)
    BY <1>1, <1>4, <1>5, Constants DEF SectionOK, SectionSet, Span
  <2>2. PhysIn(n) # {}
    BY <2>1, <1>4 DEF PhysIn
  <2>3. IsFiniteSet(PhysIn(n)) /\ Cardinality(PhysIn(n)) \in Nat
    BY <1>2, PhysFinite
  <2>4. Cardinality(PhysIn(n)) # 0
    BY <2>2, <2>3, FS_EmptySet
  <2> QED BY <1>2, <2>3, <2>4
<1> DEFINE x == (n.pages + 15) \div 16
<1>7. x \in Nat /\ x > 0 /\ x <= l - SectionPages
  <2>1. n.nr \in 1 .. 8
    BY <1>1, Constants
  <2>2. l >= 2 * SectionPages /\ SectionPages > 0 /\ SectionPages \in Nat
    BY <1>1, Constants
  <2> HIDE DEF x
  <2>3. \A p \in Nat, k \in 1 .. 8, b \in Nat, c \in Nat :
          p <= k * b /\ b >= 2 * c /\ p > 0 /\ c > 0
            => (p + 15) \div 16 \in Nat /\ (p + 15) \div 16 > 0 /\ (p + 15) \div 16 <= b - c
    BY SixteenthFits
  <2> QED BY <2>1, <2>2, <2>3, <1>3, <1>5, <1>6, Zenon DEF x
<1>8. Aligned(l - SectionPages)
  BY <1>4, <1>5, AlignedConstants, AlignedSum DEF SectionOK
<1>9. DmaPages = baligin(x)
  BY DEF DmaPages, n
<1> HIDE DEF x
<1>10. /\ baligin(x) \in Nat /\ Aligned(baligin(x)) /\ x <= baligin(x)
       /\ baligin(x) <= l - SectionPages
  BY <1>7, <1>8, BaliginUp
<1> QED BY <1>5, <1>7, <1>9, <1>10, Constants DEF l

LEMMA ZoneNames == "normal" \in Zones /\ "dma" \in Zones /\ "res" \in Zones /\ "io" \in Zones
BY DEF Zones

\* A part of NORMAL memory becomes the DMA zone.
Moved(n1, r) ==
  /\ zone["dma"].nr = 0
  /\ n1 \in ZoneSet /\ r \in RegionSet /\ r.size > 0
  /\ SectionOK(SectionFor(r))
  /\ \A i \in 1 .. ZONE_MAX_REGION : SectionOK(n1.sec[i]) /\ n1.sec[i].vir = 0
  /\ \A i, j \in 1 .. ZONE_MAX_REGION : i # j =>
       Span(n1.sec[i].phy, n1.sec[i].size) \cap Span(n1.sec[j].phy, n1.sec[j].size) = {}
  /\ PhysIn(n1) \cup Span(r.start, r.size) = PhysOf("normal")
  /\ PhysIn(n1) \cap Span(r.start, r.size) = {}
  /\ n1.pages = zone["normal"].pages - r.size
  /\ zone' = [zone EXCEPT !["normal"] = n1, !["dma"] = Grown(zone["dma"], r)]
  /\ UNCHANGED <<table, regions, total>>

LEMMA MovedZones ==
  ASSUME ZonePart, CarvePart, NEW n1, NEW r, Moved(n1, r)
  PROVE  /\ zone' \in [Zones -> ZoneSet]
         /\ zone'["normal"] = n1 /\ zone'["res"] = zone["res"] /\ zone'["io"] = zone["io"]
         /\ zone'["dma"].nr = 1 /\ zone'["dma"].pages = r.size
         /\ zone'["dma"].sec[1] = SectionFor(r)
         /\ \A i \in 2 .. ZONE_MAX_REGION : zone'["dma"].sec[i] = NoSection
         /\ PhysIn(zone'["dma"]) = Span(r.start, r.size)
         /\ PhysOf("dma") = {} /\ zone["dma"].pages = 0
         /\ Cardinality(Span(r.start, r.size)) = r.size
         /\ IsFiniteSet(Span(r.start, r.size))
<1> DEFINE d == zone["dma"]
           u == Grown(d, r)
           R == Span(r.start, r.size)
<1>1. zone \in [Zones -> ZoneSet] /\ d \in ZoneSet /\ d.nr = 0 /\ n1 \in ZoneSet
      /\ r \in RegionSet /\ r.size \in Nat /\ r.start \in Nat
  BY ZoneNames DEF ZonePart, Moved, RegionSet
<1>2. d.nr # ZONE_MAX_REGION
  BY <1>1, Constants
<1>3. \A i \in 1 .. ZONE_MAX_REGION : d.sec[i] = NoSection
  <2> TAKE i \in 1 .. ZONE_MAX_REGION
  <2>1. <<"dma", i>> \in Slots /\ ~IsSeen(<<"dma", i>>) /\ Sec(<<"dma", i>>) = d.sec[i]
    BY ZoneNames, <1>1, Constants DEF Slots, IsSeen, Sec
  <2> QED BY <2>1 DEF CarvePart
<1>4. PhysIn(d) = {} /\ d.pages = 0 /\ d.pages = Cardinality(PhysIn(d))
  <2>1. PhysIn(d) = {}
    <3> HIDE DEF d
    <3> QED BY <1>3, NoSectionOK DEF PhysIn
  <2>2. d.pages = Cardinality(PhysIn(d))
    BY ZoneNames DEF ZonePart, PhysOf
  <2> QED BY <2>1, <2>2, FS_EmptySet
<1>5. IsFiniteSet(R) /\ Cardinality(R) = r.size
  BY <1>1, SpanCount
<1> HIDE DEF d
<1>6. /\ u \in ZoneSet /\ u.nr = d.nr + 1 /\ u.pages = d.pages + r.size
      /\ u.sec[u.nr] = SectionFor(r)
      /\ \A i \in 1 .. ZONE_MAX_REGION : i # u.nr => u.sec[i] = d.sec[i]
  BY <1>1, <1>2, GrownFields
<1>7. PhysIn(u) = PhysIn(d) \cup R
  <2>1. d.sec[d.nr + 1] = NoSection
    BY <1>1, <1>3, Constants
  <2> QED BY <1>1, <1>2, <1>4, <2>1, GrownPhys
<1> HIDE DEF u, R
<1>8. u.nr = 1 /\ u.pages = r.size
  BY <1>1, <1>4, <1>6
<1>9. \A i \in 2 .. ZONE_MAX_REGION : u.sec[i] = NoSection
  BY <1>3, <1>6, <1>8, Constants
<1>10. /\ zone' = [zone EXCEPT !["normal"] = n1, !["dma"] = u]
  BY DEF Moved, u, d
<1>11. /\ zone' \in [Zones -> ZoneSet]
       /\ zone'["normal"] = n1 /\ zone'["res"] = zone["res"] /\ zone'["io"] = zone["io"]
       /\ zone'["dma"] = u
  BY <1>1, <1>6, <1>10 DEF Zones
<1> QED BY <1>4, <1>5, <1>6, <1>7, <1>8, <1>9, <1>11 DEF R, d, PhysOf

\* The sections after the move.
LEMMA MovedSections ==
  ASSUME ZonePart, CarvePart, \A q \in Slots : Sec(q).vir = 0, NEW n1, NEW r, Moved(n1, r),
         NEW q \in Slots
  PROVE  /\ SectionOK(Sec(q)') /\ Sec(q)'.vir = 0
         /\ q[1] = "normal" => Phys(q)' \subseteq PhysIn(n1)
         /\ q[1] = "dma" => Phys(q)' \subseteq Span(r.start, r.size)
         /\ q[1] = "dma" /\ q[2] # 1 => Phys(q)' = {}
         /\ q[1] \notin {"normal", "dma"} => Sec(q)' = Sec(q) /\ Phys(q)' = Phys(q)
<1>1. q[1] \in Zones /\ q[2] \in 1 .. ZONE_MAX_REGION /\ q[2] \in Nat
  BY SlotFacts
<1>2. Sec(q)' = zone'[q[1]].sec[q[2]] /\ Phys(q)' = Span(Sec(q)'.phy, Sec(q)'.size)
  BY DEF Sec, Phys
<1>3. CASE q[1] = "normal"
  <2>1. Sec(q)' = n1.sec[q[2]]
    BY <1>2, <1>3, MovedZones
  <2>2. SectionOK(n1.sec[q[2]]) /\ n1.sec[q[2]].vir = 0
    BY <1>1 DEF Moved
  <2>3. Phys(q)' \subseteq PhysIn(n1)
    BY <1>1, <1>2, <2>1 DEF PhysIn
  <2> QED BY <1>3, <2>1, <2>2, <2>3
<1>4. CASE q[1] = "dma" /\ q[2] = 1
  <2>1. Sec(q)' = SectionFor(r)
    BY <1>2, <1>4, MovedZones
  <2>2. SectionOK(SectionFor(r))
    BY DEF Moved
  <2>3. SectionFor(r).vir = 0 /\ Phys(q)' = Span(r.start, r.size)
    BY <1>2, <2>1 DEF SectionFor
  <2> QED BY <1>4, <2>1, <2>2, <2>3
<1>5. CASE q[1] = "dma" /\ q[2] # 1
  <2>1. q[2] \in 2 .. ZONE_MAX_REGION
    BY <1>1, <1>5, Constants
  <2>2. Sec(q)' = NoSection
    BY <1>2, <1>5, <2>1, MovedZones
  <2>3. NoSection.vir = 0
    BY DEF NoSection
  <2> QED BY <1>2, <1>5, <2>2, <2>3, NoSectionOK
<1>6. CASE q[1] \notin {"normal", "dma"}
  <2>1. zone'[q[1]] = zone[q[1]]
    BY <1>1, <1>6, MovedZones DEF Zones
  <2>2. Sec(q)' = Sec(q)
    BY <1>2, <2>1 DEF Sec
  <2>3. SectionOK(Sec(q)) /\ Sec(q).vir = 0
    BY DEF ZonePart
  <2> QED BY <1>2, <1>6, <2>2, <2>3 DEF Phys
<1> QED BY <1>3, <1>4, <1>5, <1>6

LEMMA MovedApart ==
  ASSUME ZonePart, CarvePart, \A q \in Slots : Sec(q).vir = 0, NEW n1, NEW r, Moved(n1, r),
         NEW p \in Slots, NEW q \in Slots, p # q
  PROVE  Phys(p)' \cap Phys(q)' = {}
<1> DEFINE R == Span(r.start, r.size)
           N == PhysIn(n1)
<1>1. N \cap R = {} /\ N \cup R = PhysOf("normal")
  BY DEF Moved
<1>2. \A x \in Slots : /\ x[1] = "normal" => Phys(x)' \subseteq N
                       /\ x[1] = "dma" => Phys(x)' \subseteq R
                       /\ x[1] = "dma" /\ x[2] # 1 => Phys(x)' = {}
                       /\ x[1] \notin {"normal", "dma"} => Phys(x)' = Phys(x)
  BY MovedSections
<1>3. \A x \in Slots : x[1] # "normal" => Phys(x) \cap PhysOf("normal") = {}
  <2> SUFFICES ASSUME NEW x \in Slots, x[1] # "normal", NEW i \in 1 .. ZONE_MAX_REGION
               PROVE  Phys(x) \cap Span(zone["normal"].sec[i].phy, zone["normal"].sec[i].size) = {}
    BY DEF PhysOf, PhysIn
  <2>1. /\ <<"normal", i>> \in Slots /\ <<"normal", i>> # x
        /\ Phys(<<"normal", i>>) = Span(zone["normal"].sec[i].phy, zone["normal"].sec[i].size)
    BY ZoneNames DEF Slots, Phys, Sec
  <2> QED BY <2>1 DEF ZonePart
<1> HIDE DEF R, N
<1>4. CASE p[1] = "normal" /\ q[1] = "normal"
  <2>1. p[2] \in 1 .. ZONE_MAX_REGION /\ q[2] \in 1 .. ZONE_MAX_REGION /\ p[2] # q[2]
    BY <1>4, SlotFacts
  <2>2. \A x \in Slots : x[1] = "normal" => Phys(x)' = Span(n1.sec[x[2]].phy, n1.sec[x[2]].size)
    <3>1. zone'["normal"] = n1
      BY MovedZones
    <3> QED BY <3>1 DEF Phys, Sec
  <2> QED BY <1>4, <2>1, <2>2 DEF Moved
<1>5. CASE p[1] = "dma" /\ q[1] = "dma"
  <2>1. p[2] # 1 \/ q[2] # 1
    BY <1>5, SlotFacts
  <2> QED BY <1>2, <1>5, <2>1
<1>6. CASE p[1] \notin {"normal", "dma"} /\ q[1] \notin {"normal", "dma"}
  BY <1>2, <1>6 DEF ZonePart
<1>7. CASE (p[1] = "normal" /\ q[1] = "dma") \/ (p[1] = "dma" /\ q[1] = "normal")
  BY <1>1, <1>2, <1>7
<1>8. CASE p[1] \in {"normal", "dma"} /\ q[1] \notin {"normal", "dma"}
  <2>1. Phys(p)' \subseteq PhysOf("normal")
    BY <1>1, <1>2, <1>8
  <2>2. Phys(q)' \cap PhysOf("normal") = {}
    BY <1>2, <1>3, <1>8
  <2> QED BY <2>1, <2>2
<1>9. CASE p[1] \notin {"normal", "dma"} /\ q[1] \in {"normal", "dma"}
  <2>1. Phys(q)' \subseteq PhysOf("normal")
    BY <1>1, <1>2, <1>9
  <2>2. Phys(p)' \cap PhysOf("normal") = {}
    BY <1>2, <1>3, <1>9
  <2> QED BY <2>1, <2>2
<1>10. CASE p[1] \in {"normal", "dma"} /\ q[1] \in {"normal", "dma"}
  BY <1>4, <1>5, <1>7, <1>10
<1> QED BY <1>6, <1>8, <1>9, <1>10

LEMMA MovedInv ==
  ASSUME ZonePart, MemoryPart, CarvePart, \A q \in Slots : Sec(q).vir = 0,
         NEW n1, NEW r, Moved(n1, r)
  PROVE  /\ ZonePart' /\ MemoryPart'
         /\ (\A q \in Slots : Sec(q).vir = 0)'
         /\ (\E i \in 1 .. zone["dma"].nr : zone["dma"].sec[i].size > 0)'
<1> DEFINE R == Span(r.start, r.size)
           N == PhysIn(n1)
<1>1. /\ zone' \in [Zones -> ZoneSet]
      /\ zone'["normal"] = n1 /\ zone'["res"] = zone["res"] /\ zone'["io"] = zone["io"]
      /\ zone'["dma"].nr = 1 /\ zone'["dma"].pages = r.size
      /\ zone'["dma"].sec[1] = SectionFor(r)
      /\ \A i \in 2 .. ZONE_MAX_REGION : zone'["dma"].sec[i] = NoSection
      /\ PhysIn(zone'["dma"]) = R
      /\ PhysOf("dma") = {} /\ zone["dma"].pages = 0
      /\ Cardinality(R) = r.size /\ IsFiniteSet(R)
  BY MovedZones
<1>2. /\ N \cap R = {} /\ N \cup R = PhysOf("normal")
      /\ n1 \in ZoneSet /\ n1.pages = zone["normal"].pages - r.size
      /\ r.size > 0 /\ r.size \in Nat /\ zone["dma"].nr = 0
      /\ regions' = regions /\ total' = total
  BY DEF Moved, RegionSet
<1>3. /\ PhysOf("normal")' = N /\ PhysOf("dma")' = R
      /\ PhysOf("res")' = PhysOf("res") /\ PhysOf("io")' = PhysOf("io")
  BY <1>1 DEF PhysOf
<1>4. \A z \in Zones : zone'[z].pages = Cardinality(PhysOf(z)')
  <2>1. \A z \in Zones : zone[z].pages = Cardinality(PhysOf(z)) /\ zone[z].pages \in Nat
    BY DEF ZonePart, ZoneSet
  <2>2. n1.pages = Cardinality(N)
    <3>1. IsFiniteSet(N) /\ Cardinality(N) \in Nat
      BY <1>2, PhysFinite
    <3>2. Cardinality(N \cup R) = Cardinality(N) + Cardinality(R) - Cardinality(N \cap R)
      <4> HIDE DEF N, R
      <4> QED BY <3>1, <1>1, FS_Union
    <3>3. Cardinality(N \cap R) = 0
      <4> HIDE DEF N, R
      <4> QED BY <1>2, FS_EmptySet
    <3>4. zone["normal"].pages = Cardinality(N \cup R)
      <4> HIDE DEF N, R
      <4> QED BY <1>2, <2>1, ZoneNames
    <3> HIDE DEF N, R
    <3> QED BY <3>1, <3>2, <3>3, <3>4, <1>1, <1>2
  <2> QED BY <1>1, <1>3, <2>1, <2>2 DEF Zones
<1>5. \A q \in Slots : SectionOK(Sec(q)') /\ Sec(q)'.vir = 0
  BY MovedSections
<1>6. \A p, q \in Slots : p # q => Phys(p)' \cap Phys(q)' = {}
  BY MovedApart
<1>7. ASSUME NEW q \in Slots, ~IsSeen(q)', q[1] # "normal"
      PROVE  Sec(q)' = NoSection
  <2>1. q[1] \in Zones /\ q[2] \in 1 .. ZONE_MAX_REGION /\ q[2] \in Nat
    BY SlotFacts
  <2>2. CASE q[1] = "dma"
    <3>1. q[2] \in 2 .. ZONE_MAX_REGION
      BY <1>1, <1>7, <2>1, <2>2, Constants DEF IsSeen
    <3> QED BY <1>1, <2>2, <3>1 DEF Sec
  <2>3. CASE q[1] \notin {"normal", "dma"}
    <3>1. zone'[q[1]] = zone[q[1]]
      BY <1>1, <2>1, <2>3 DEF Zones
    <3>2. ~IsSeen(q) /\ Sec(q)' = Sec(q)
      BY <1>7, <3>1 DEF IsSeen, Sec
    <3> QED BY <1>7, <3>2 DEF ZonePart
  <2> QED BY <1>7, <2>2, <2>3
<1>8. ZonePart'
  BY <1>1, <1>4, <1>5, <1>6, <1>7 DEF ZonePart, Slots
<1>9. MemoryPart'
  <2>1. Cut /\ Cut' /\ (Dropped' <=> Dropped) /\ \A z \in Zones : Memory(z)' = Memory(z)
    <3>1. Cut
      BY <1>2 DEF CarvePart
    <3> QED BY <3>1, <1>2 DEF Cut, Dropped, Memory
  <2>2. /\ N \subseteq Memory("normal") /\ R \subseteq Memory("normal")
        /\ PhysOf("res") \subseteq Memory("res") /\ PhysOf("io") \subseteq Memory("io")
    <3> HIDE DEF N, R
    <3> QED BY <1>2, ZoneNames DEF MemoryPart
  <2>3. ~Dropped => /\ N \cup R = Memory("normal") \cup Memory("dma")
                    /\ PhysOf("res") = Memory("res")
    <3> HIDE DEF N, R
    <3> QED BY <1>1, <1>2 DEF MemoryPart
  <2>4. total' = zone'["normal"].pages + zone'["dma"].pages + zone'["res"].pages
    <3>1. zone["normal"].pages \in Nat /\ zone["res"].pages \in Nat
      BY ZoneNames DEF ZonePart, ZoneSet
    <3>2. total = zone["normal"].pages + zone["dma"].pages + zone["res"].pages
      BY DEF MemoryPart
    <3> HIDE DEF N, R
    <3> QED BY <1>1, <1>2, <3>1, <3>2
  <2> HIDE DEF N, R
  <2>5. \A z \in Zones \ {"dma"} : PhysOf(z)' \subseteq Memory(z)'
    <3> TAKE z \in Zones \ {"dma"}
    <3>1. z \in {"normal", "res", "io"}
      BY DEF Zones
    <3>2. Memory(z)' = Memory(z)
      BY <2>1
    <3> QED BY <1>3, <2>2, <3>1, <3>2
  <2>6. PhysOf("dma")' \subseteq Memory("normal")'
    BY <1>3, <2>1, <2>2, ZoneNames
  <2>7. ~Dropped' => /\ PhysOf("normal")' \cup PhysOf("dma")' = Memory("normal")' \cup Memory("dma")'
                     /\ PhysOf("res")' = Memory("res")'
    BY <1>3, <2>1, <2>3, ZoneNames
  <2> QED BY <2>1, <2>4, <2>5, <2>6, <2>7 DEF MemoryPart
<1>10. (\E i \in 1 .. zone["dma"].nr : zone["dma"].sec[i].size > 0)'
  <2>1. 1 \in 1 .. zone'["dma"].nr /\ zone'["dma"].sec[1].size > 0
    BY <1>1, <1>2 DEF SectionFor
  <2> QED BY <2>1
<1>11. (\A q \in Slots : Sec(q).vir = 0)'
  BY <1>5 DEF Slots
<1> QED BY <1>8, <1>9, <1>10, <1>11

\* A section of NORMAL memory loses a part, or all of it.
Lost(n, h, t, m, r) ==
  [n EXCEPT !.sec = [n.sec EXCEPT ![h] = t], !.nr = m,
            !.pages = n.pages - r.size, !.free = n.pages - r.size]

LEMMA LostFields ==
  ASSUME NEW n \in ZoneSet, NEW h \in 1 .. ZONE_MAX_REGION, NEW t \in SectionSet,
         NEW m \in 0 .. ZONE_MAX_REGION, NEW r \in RegionSet, r.size <= n.pages
  PROVE  LET u == Lost(n, h, t, m, r)
         IN  /\ u \in ZoneSet /\ u.nr = m /\ u.pages = n.pages - r.size
             /\ u.sec[h] = t
             /\ \A i \in 1 .. ZONE_MAX_REGION : i # h => u.sec[i] = n.sec[i]
<1> DEFINE u == Lost(n, h, t, m, r)
           s == [n.sec EXCEPT ![h] = t]
<1>1. /\ n.sec \in [1 .. ZONE_MAX_REGION -> SectionSet]
      /\ n.pages \in Nat /\ r.size \in Nat
  BY DEF ZoneSet, RegionSet
<1>2. /\ s \in [1 .. ZONE_MAX_REGION -> SectionSet] /\ s[h] = t
      /\ \A i \in 1 .. ZONE_MAX_REGION : i # h => s[i] = n.sec[i]
  BY <1>1
<1>3. n.pages - r.size \in Nat /\ n.pages - r.size \in Int
  BY <1>1
<1>4. u = [n EXCEPT !.sec = s, !.nr = m, !.pages = n.pages - r.size,
                    !.free = n.pages - r.size]
  BY DEF Lost
<1> HIDE DEF s, u
<1>5. /\ u \in ZoneSet /\ u.nr = m /\ u.pages = n.pages - r.size /\ u.sec = s
  BY <1>2, <1>3, <1>4 DEF ZoneSet
<1> QED BY <1>2, <1>5 DEF u

LEMMA LostMoved ==
  ASSUME ZonePart, \A q \in Slots : Sec(q).vir = 0, zone["dma"].nr = 0,
         NEW h \in 1 .. ZONE_MAX_REGION, NEW t, SectionOK(t), t.vir = 0,
         NEW m \in 0 .. ZONE_MAX_REGION,
         NEW r \in RegionSet, r.attr = "dma", r.size > 0, SectionOK(SectionFor(r)),
         Span(t.phy, t.size) \cup Span(r.start, r.size) = Phys(<<"normal", h>>),
         Span(t.phy, t.size) \cap Span(r.start, r.size) = {},
         zone' = insert_region_to_zone(
                   [zone EXCEPT !["normal"] = Lost(zone["normal"], h, t, m, r)], r),
         UNCHANGED <<table, regions, total>>
  PROVE  /\ Moved(Lost(zone["normal"], h, t, m, r), r)
         /\ Lost(zone["normal"], h, t, m, r).nr = m
         /\ Lost(zone["normal"], h, t, m, r).sec[h] = t
         /\ \A i \in 1 .. ZONE_MAX_REGION :
              i # h => Lost(zone["normal"], h, t, m, r).sec[i] = zone["normal"].sec[i]
<1> DEFINE n == zone["normal"]
           u == Lost(n, h, t, m, r)
           R == Span(r.start, r.size)
           S(i) == Span(n.sec[i].phy, n.sec[i].size)
           U(i) == Span(u.sec[i].phy, u.sec[i].size)
<1>1. /\ zone \in [Zones -> ZoneSet] /\ n \in ZoneSet /\ zone["dma"] \in ZoneSet
      /\ r.size \in Nat /\ r.start \in Nat /\ t \in SectionSet
      /\ n.pages = Cardinality(PhysIn(n))
  BY ZoneNames DEF ZonePart, RegionSet, SectionOK, PhysOf
<1>2. \A i \in 1 .. ZONE_MAX_REGION : /\ <<"normal", i>> \in Slots
                                      /\ Sec(<<"normal", i>>) = n.sec[i]
                                      /\ Phys(<<"normal", i>>) = S(i)
  BY ZoneNames DEF Slots, Sec, Phys
<1>3. \A i \in 1 .. ZONE_MAX_REGION : SectionOK(n.sec[i]) /\ n.sec[i].vir = 0
  <2> HIDE DEF n, S
  <2>1. \A q \in Slots : SectionOK(Sec(q)) /\ Sec(q).vir = 0
    BY DEF ZonePart
  <2> QED BY <1>2, <2>1
<1>4. \A i, j \in 1 .. ZONE_MAX_REGION : i # j => S(i) \cap S(j) = {}
  <2> TAKE i, j \in 1 .. ZONE_MAX_REGION
  <2>1. i # j => <<"normal", i>> # <<"normal", j>>
    OBVIOUS
  <2> HIDE DEF n
  <2> QED BY <2>1, <1>2 DEF ZonePart
<1>5. PhysIn(n) = UNION {S(i) : i \in 1 .. ZONE_MAX_REGION}
  BY DEF PhysIn
<1>6. S(h) = Span(t.phy, t.size) \cup R
  BY <1>2
<1>7. r.size <= n.pages
  <2>1. IsFiniteSet(PhysIn(n))
    BY <1>1, PhysFinite
  <2>2. R \subseteq PhysIn(n)
    BY <1>5, <1>6
  <2>3. Cardinality(R) = r.size
    BY <1>1, SpanCount
  <2>4. Cardinality(R) <= Cardinality(PhysIn(n))
    <3> HIDE DEF R, n
    <3> QED BY <2>1, <2>2, FS_Subset
  <2> QED BY <1>1, <2>3, <2>4
<1> HIDE DEF n
<1>8. /\ u \in ZoneSet /\ u.nr = m /\ u.pages = n.pages - r.size
      /\ u.sec[h] = t
      /\ \A i \in 1 .. ZONE_MAX_REGION : i # h => u.sec[i] = n.sec[i]
  BY <1>1, <1>7, LostFields
<1> HIDE DEF u
<1>9. \A i \in 1 .. ZONE_MAX_REGION : SectionOK(u.sec[i]) /\ u.sec[i].vir = 0
  BY <1>3, <1>8
<1>10. /\ U(h) \subseteq S(h) /\ U(h) \cup R = S(h) /\ U(h) \cap R = {}
       /\ \A i \in 1 .. ZONE_MAX_REGION : i # h => U(i) = S(i)
  BY <1>6, <1>8
<1>11. PhysIn(u) = UNION {U(i) : i \in 1 .. ZONE_MAX_REGION}
  BY DEF PhysIn
<1> HIDE DEF S, U, R
<1>12. \A i, j \in 1 .. ZONE_MAX_REGION : i # j => U(i) \cap U(j) = {}
  BY <1>4, <1>10
<1>13. PhysIn(u) \cup R = PhysIn(n)
  <2>1. ASSUME NEW x \in PhysIn(u) \cup R PROVE x \in PhysIn(n)
    BY <2>1, <1>5, <1>10, <1>11
  <2>2. ASSUME NEW x \in PhysIn(n) PROVE x \in PhysIn(u) \cup R
    <3>1. PICK i \in 1 .. ZONE_MAX_REGION : x \in S(i)
      BY <1>5, <2>2
    <3>2. x \in U(i) \cup R
      BY <3>1, <1>10
    <3> QED BY <3>2, <1>11
  <2> QED BY <2>1, <2>2
<1>14. PhysIn(u) \cap R = {}
  <2> SUFFICES ASSUME NEW i \in 1 .. ZONE_MAX_REGION PROVE U(i) \cap R = {}
    BY <1>11
  <2>1. R \subseteq S(h)
    BY <1>10
  <2> QED BY <2>1, <1>4, <1>10
<1>15. zone' = [zone EXCEPT !["normal"] = u, !["dma"] = Grown(zone["dma"], r)]
  <2> DEFINE zs == [zone EXCEPT !["normal"] = u]
  <2>1. zs \in [Zones -> ZoneSet] /\ zs["dma"] = zone["dma"]
    BY <1>1, <1>8, ZoneNames
  <2>2. zone' = insert_region_to_zone(zs, r)
    BY DEF u, n
  <2>3. 0 # ZONE_MAX_REGION
    BY Constants
  <2>4. insert_region_to_zone(zs, r) =
           IF zs[r.attr].nr = ZONE_MAX_REGION THEN zs
           ELSE [zs EXCEPT ![r.attr] = Grown(zs[r.attr], r)]
    <3> HIDE DEF zs
    <3> QED BY <2>1, InsertGrows
  <2>5. zone' = [zs EXCEPT !["dma"] = Grown(zone["dma"], r)]
    <3> HIDE DEF zs
    <3> QED BY <2>1, <2>2, <2>3, <2>4
  <2> QED BY <2>5
<1>16. Moved(u, r)
  BY <1>8, <1>9, <1>12, <1>13, <1>14, <1>15 DEF Moved, PhysOf, n, U, R
<1> QED BY <1>8, <1>16 DEF u, n

\* The choice of the section that is taken whole.
LEMMA HolderIs ==
  ASSUME ZonePart, CarvePart, Holders # {}
  PROVE  Holder \in DOMAIN Sizes /\ Sizes[Holder] < Sizes[Largest]
<1>1. /\ DOMAIN Sizes = 1 .. zone["normal"].nr
      /\ \A i \in DOMAIN Sizes : Sizes[i] \in Nat
  BY LargestIs
<1>2. Holders \subseteq DOMAIN Sizes /\ Holders \subseteq Nat
  BY <1>1 DEF Holders
<1>3. PICK a \in Holders : \A k \in Holders : Sizes[a] <= Sizes[k]
  <2> DEFINE T == {Sizes[i] : i \in Holders}
  <2>1. T \subseteq Nat /\ T # {}
    BY <1>1, <1>2
  <2>2. PICK x \in T : \A y \in T : x <= y
    BY <2>1, LeastOf
  <2>3. PICK a \in Holders : x = Sizes[a]
    OBVIOUS
  <2> QED BY <2>2, <2>3
<1>4. \E i \in Holders : \A k \in Holders : /\ Sizes[k] >= Sizes[i]
                                            /\ k < i => Sizes[k] > Sizes[i]
  <2> DEFINE T == {i \in Holders : Sizes[i] = Sizes[a]}
  <2>1. T \subseteq Nat /\ a \in T
    BY <1>2
  <2>2. PICK i \in T : \A k \in T : i <= k
    BY <2>1, LeastOf
  <2>3. ASSUME NEW k \in Holders
        PROVE  Sizes[k] >= Sizes[i] /\ (k < i => Sizes[k] > Sizes[i])
    <3>1. Sizes[k] \in Nat /\ Sizes[i] \in Nat /\ k \in Nat /\ i \in Nat
      BY <1>1, <1>2
    <3>2. k < i => Sizes[k] # Sizes[a]
      BY <2>2, <3>1
    <3> QED BY <3>1, <3>2, <1>3
  <2> QED BY <2>3
<1>5. Holder \in Holders
  BY <1>4 DEF Holder
<1> QED BY <1>5 DEF Holders

\* A section is taken whole: the kernel's is not, for it is the largest.
LEMMA CarveWholeInv ==
  ASSUME ZonePart, MemoryPart, CarvePart, \A q \in Slots : Sec(q).vir = 0, CarveWhole
  PROVE  /\ ZonePart' /\ MemoryPart' /\ KernelPart'
         /\ (\A q \in Slots : Sec(q).vir = 0)'
         /\ (\E i \in 1 .. zone["dma"].nr : zone["dma"].sec[i].size > 0)'
<1> DEFINE n == zone["normal"]
           s == n.sec[Holder]
           r == [start |-> s.phy, size |-> s.size, attr |-> "dma"]
           m == n.nr - 1
           u == Lost(n, Holder, NoSection, m, r)
<1>1. /\ n.nr \in 1 .. ZONE_MAX_REGION /\ DOMAIN Sizes = 1 .. n.nr
      /\ \A i \in DOMAIN Sizes : Sizes[i] \in Nat /\ Sizes[i] = n.sec[i].size
      /\ Largest \in DOMAIN Sizes
      /\ Holder \in 1 .. n.nr /\ Sizes[Holder] < Sizes[Largest]
  BY LargestIs, HolderIs DEF CarveWhole, TakeWhole
<1>2. Holder \in 1 .. ZONE_MAX_REGION /\ m \in 0 .. ZONE_MAX_REGION
  BY <1>1, Constants
<1>3. <<"normal", Holder>> \in Slots /\ Sec(<<"normal", Holder>>) = s
      /\ IsSeen(<<"normal", Holder>>)
  BY <1>1, <1>2, ZoneNames DEF Slots, Sec, IsSeen
<1>4. SectionOK(s) /\ s.size > 0 /\ s.vir = 0
  BY <1>3 DEF ZonePart, CarvePart
<1>5. n \in ZoneSet
  BY ZoneNames DEF ZonePart
<1>6. zone["dma"].nr = 0 /\ UNCHANGED <<table, regions, total>>
  BY DEF CarveWhole
<1>7. zone' = insert_region_to_zone([zone EXCEPT !["normal"] = u], r)
  <2>1. u = [[n EXCEPT !.sec[Holder] = NoSection, !.nr = @ - 1]
                EXCEPT !.pages = @ - s.size,
                       !.free = [n EXCEPT !.sec[Holder] = NoSection,
                                          !.nr = @ - 1].pages - s.size]
    <3> HIDE DEF n, s
    <3> QED BY <1>5 DEF Lost, ZoneSet
  <2> QED BY <2>1 DEF CarveWhole, Move
<1> HIDE DEF n
<1>8. r \in RegionSet /\ r.size > 0 /\ r.attr = "dma" /\ SectionFor(r) = s
  <2> HIDE DEF s
  <2>1. s = [phy |-> s.phy, vir |-> 0, size |-> s.size] /\ s.phy \in Nat /\ s.size \in Nat
    BY <1>4 DEF SectionOK, SectionSet
  <2> QED BY <1>4, <2>1, ZoneNames DEF RegionSet, SectionFor
<1>9. /\ Span(NoSection.phy, NoSection.size) \cup Span(r.start, r.size)
           = Phys(<<"normal", Holder>>)
      /\ Span(NoSection.phy, NoSection.size) \cap Span(r.start, r.size) = {}
  BY <1>3, NoSectionOK DEF Phys
<1>10. NoSection.vir = 0
  BY DEF NoSection
<1> HIDE DEF r, s, m
<1>11. /\ Moved(u, r) /\ u.nr = m /\ u.sec[Holder] = NoSection
       /\ \A i \in 1 .. ZONE_MAX_REGION : i # Holder => u.sec[i] = n.sec[i]
  BY <1>2, <1>4, <1>6, <1>7, <1>8, <1>9, <1>10, NoSectionOK, LostMoved DEF n
<1> HIDE DEF u
<1>12. zone'["normal"] = u
  BY <1>11, MovedZones
<1>13. KernelPart'
  <2> SUFFICES ASSUME KernelLeads
               PROVE  u.nr >= 1 /\ u.sec[1].phy = KernelPhys /\ u.sec[1].size >= SectionPages
    BY <1>6, <1>12 DEF KernelPart, KernelLeads, Sec
  <2>1. /\ n.sec[1].phy = KernelPhys
        /\ \A i \in 1 .. n.nr : n.sec[i].size <= n.sec[1].size
        /\ \E i \in 1 .. n.nr : n.sec[i].size >= 2 * SectionPages
    BY DEF CarvePart, n
  <2>2. 1 \in 1 .. n.nr /\ 1 \in 1 .. ZONE_MAX_REGION
    BY <1>1, Constants, SMTT(30)
  <2>3. Holder # 1
    BY <1>1, <2>1, <2>2
  <2>4. u.nr >= 1
    BY <1>1, <1>11, <2>3, Constants DEF m
  <2>5. n.sec[1].size >= SectionPages
    <3>1. n.sec[1].size \in Nat /\ \A i \in 1 .. n.nr : n.sec[i].size \in Nat
      BY <1>1, <2>2
    <3> QED BY <2>1, <3>1, Constants
  <2> QED BY <1>11, <2>1, <2>2, <2>3, <2>4, <2>5
<1> QED BY <1>11, <1>13, MovedInv

\* A part of the largest section is cut off: a megabyte of it is left.
LEMMA CarveSplitInv ==
  ASSUME ZonePart, MemoryPart, CarvePart, \A q \in Slots : Sec(q).vir = 0, CarveSplit
  PROVE  /\ ZonePart' /\ MemoryPart' /\ KernelPart'
         /\ (\A q \in Slots : Sec(q).vir = 0)'
         /\ (\E i \in 1 .. zone["dma"].nr : zone["dma"].sec[i].size > 0)'
<1> DEFINE n == zone["normal"]
           l == Largest
           d == DmaPages
           s == n.sec[l]
           t == [s EXCEPT !.size = s.size - d]
           r == [start |-> s.phy + s.size - d, size |-> d, attr |-> "dma"]
           m == n.nr
           u == Lost(n, l, t, m, r)
<1>1. /\ n.nr \in 1 .. ZONE_MAX_REGION /\ DOMAIN Sizes = 1 .. n.nr
      /\ \A i \in DOMAIN Sizes : Sizes[i] \in Nat /\ Sizes[i] = n.sec[i].size
      /\ l \in 1 .. n.nr
  BY LargestIs
<1>2. d \in Nat /\ Aligned(d) /\ d > 0 /\ d + SectionPages <= s.size
  BY <1>1, CutCore
<1>3. l \in 1 .. ZONE_MAX_REGION /\ m \in 0 .. ZONE_MAX_REGION
  BY <1>1, Constants
<1>4. <<"normal", l>> \in Slots /\ Sec(<<"normal", l>>) = s
  BY <1>3, ZoneNames DEF Slots, Sec
<1>5. SectionOK(s) /\ s.vir = 0
  BY <1>4 DEF ZonePart
<1>6. n \in ZoneSet /\ zone["dma"].nr = 0 /\ UNCHANGED <<table, regions, total>>
  BY ZoneNames DEF ZonePart, CarveSplit
<1>7. zone' = insert_region_to_zone([zone EXCEPT !["normal"] = u], r)
  <2>1. u = [[n EXCEPT !.sec[l].size = @ - d]
                EXCEPT !.pages = @ - d,
                       !.free = [n EXCEPT !.sec[l].size = @ - d].pages - d]
    <3> HIDE DEF n, d, l
    <3> QED BY <1>6 DEF Lost, ZoneSet
  <2> QED BY <2>1 DEF CarveSplit, Move
<1> HIDE DEF n, d, l
<1>8. /\ s.phy \in Nat /\ s.size \in Nat /\ Aligned(s.phy) /\ Aligned(s.size)
      /\ s.phy + s.size <= MaxPage /\ s \in SectionSet
  BY <1>5 DEF SectionOK, SectionSet
<1> HIDE DEF s
<1>9. /\ t \in SectionSet /\ t.phy = s.phy /\ t.size = s.size - d /\ t.vir = 0
      /\ t.size >= SectionPages
  BY <1>2, <1>5, <1>8, Constants DEF SectionSet
<1>10. /\ r \in RegionSet /\ r.start = s.phy + s.size - d /\ r.size = d /\ r.attr = "dma"
  BY <1>2, <1>8, Constants, ZoneNames DEF RegionSet
<1> HIDE DEF t, r
<1>11. SectionOK(t)
  <2>1. Aligned(s.size - d)
    BY <1>2, <1>8, AlignedSum
  <2>2. t.phy + t.size <= MaxPage /\ t.size # 0
    BY <1>2, <1>8, <1>9, Constants, AlignedConstants
  <2> QED BY <1>8, <1>9, <2>1, <2>2 DEF SectionOK
<1>12. SectionOK(SectionFor(r))
  <2>1. SectionFor(r) = [phy |-> s.phy + s.size - d, vir |-> 0, size |-> d]
    BY <1>10 DEF SectionFor
  <2>2. Aligned(s.size - d)
    BY <1>2, <1>8, AlignedSum
  <2>3. Aligned(s.phy + s.size - d)
    <3> DEFINE e == s.size - d
    <3> HIDE DEF e
    <3>1. Aligned(s.phy + e)
      BY <2>2, <1>8, AlignedSum DEF e
    <3> QED BY <3>1 DEF e
  <2>4. s.phy + s.size - d \in Nat /\ (s.phy + s.size - d) + d <= MaxPage
    BY <1>2, <1>8, Constants, AlignedConstants
  <2> QED BY <1>2, <2>1, <2>3, <2>4 DEF SectionOK, SectionSet
<1>13. /\ Span(t.phy, t.size) \cup Span(r.start, r.size) = Phys(<<"normal", l>>)
       /\ Span(t.phy, t.size) \cap Span(r.start, r.size) = {}
  <2>1. Phys(<<"normal", l>>) = Span(s.phy, s.size)
    BY <1>4 DEF Phys
  <2>2. /\ t.phy \in Int /\ t.size \in Nat /\ r.size \in Nat
        /\ r.start = t.phy + t.size /\ s.size = t.size + r.size /\ t.phy = s.phy
        /\ r.start \in Int
    <3>1. d \in Nat /\ t.phy \in Nat /\ t.size \in Nat
      BY <1>2, <1>9 DEF SectionSet
    <3>2. s.size = t.size + d
      BY <3>1, <1>8, <1>9
    <3>3. r.start = t.phy + t.size
      <4> DEFINE e == s.size - d
      <4>1. r.start = s.phy + e /\ t.size = e /\ t.phy = s.phy
        BY <1>9, <1>10
      <4> HIDE DEF e
      <4> QED BY <4>1
    <3> QED BY <3>1, <3>2, <3>3, <1>9, <1>10
  <2>3. Span(t.phy, t.size) \cup Span(t.phy + t.size, r.size) = Span(t.phy, t.size + r.size)
    BY <2>2, SpanCut
  <2>4. t.phy + t.size <= r.start
    BY <2>2
  <2>5. Span(t.phy, t.size) \cap Span(r.start, r.size) = {}
    BY <2>2, <2>4, SpansApart
  <2> QED BY <2>1, <2>2, <2>3, <2>5
<1> HIDE DEF m
<1>14. /\ Moved(u, r) /\ u.nr = m /\ u.sec[l] = t
       /\ \A i \in 1 .. ZONE_MAX_REGION : i # l => u.sec[i] = n.sec[i]
  <2>1. r.size > 0
    BY <1>2, <1>10
  <2> QED BY <2>1, <1>3, <1>6, <1>7, <1>9, <1>10, <1>11, <1>12, <1>13, LostMoved DEF n
<1> HIDE DEF u
<1> USE DEF m
<1>15. zone'["normal"] = u
  BY <1>14, MovedZones
<1>16. KernelPart'
  <2> SUFFICES ASSUME KernelLeads
               PROVE  u.nr >= 1 /\ u.sec[1].phy = KernelPhys /\ u.sec[1].size >= SectionPages
    BY <1>6, <1>15 DEF KernelPart, KernelLeads, Sec
  <2>1. /\ n.sec[1].phy = KernelPhys
        /\ \A i \in 1 .. n.nr : n.sec[i].size <= n.sec[1].size
    BY DEF CarvePart, n
  <2>2. 1 \in 1 .. n.nr /\ 1 \in 1 .. ZONE_MAX_REGION
    BY <1>1, Constants
  <2>3. n.nr >= 1
    BY <1>1, Constants
  <2>4. CASE l = 1
    BY <1>9, <1>14, <2>1, <2>3, <2>4 DEF s
  <2>5. CASE l # 1
    <3>1. n.sec[1].size \in Nat /\ s.size <= n.sec[1].size
      BY <1>1, <2>1, <2>2 DEF s
    <3>2. n.sec[1].size >= SectionPages
      BY <1>2, <1>8, <3>1, Constants
    <3> QED BY <1>14, <2>1, <2>2, <2>3, <2>5, <3>2
  <2> QED BY <2>4, <2>5
<1> QED BY <1>14, <1>16, MovedInv

\* The three ways to a DMA zone.
LEMMA CarveInv ==
  ASSUME LInv, CarveNothing \/ CarveWhole \/ CarveSplit
  PROVE  LInv'
<1>1. /\ step = "carve" /\ step' = "vmap" /\ tlb' = tlb /\ vectors' = vectors
      /\ table' = table /\ regions' = regions /\ total' = total
  BY DEF CarveNothing, CarveWhole, CarveSplit
<1>2. /\ ParsePart /\ tlb = Boot /\ ZonePart /\ MemoryPart /\ KernelPhys < MaxPage
      /\ CarvePart /\ \A q \in Slots : Sec(q).vir = 0
  BY <1>1 DEF LInv
<1>3. /\ ZonePart' /\ MemoryPart' /\ KernelPart'
      /\ (\A q \in Slots : Sec(q).vir = 0)'
      /\ (\E i \in 1 .. zone["dma"].nr : zone["dma"].sec[i].size > 0)'
  <2>1. CASE CarveNothing
    <3>1. zone' = zone /\ zone["dma"].nr # 0
      BY <2>1 DEF CarveNothing
    <3>2. ZonePart' /\ MemoryPart' /\ (\A q \in Slots : Sec(q).vir = 0)'
      <4>1. /\ \A q : Sec(q)' = Sec(q) /\ Phys(q)' = Phys(q) /\ IsSeen(q)' = IsSeen(q)
            /\ \A z : PhysOf(z)' = PhysOf(z) /\ Memory(z)' = Memory(z)
            /\ Cut' = Cut /\ Dropped' = Dropped
        BY <1>1, <3>1 DEF Sec, Phys, IsSeen, Slots, PhysOf, Memory, Cut, Dropped
      <4>2. ZonePart'
        BY <1>2, <3>1, <4>1 DEF ZonePart, Slots
      <4>3. MemoryPart'
        BY <1>1, <1>2, <3>1, <4>1 DEF MemoryPart
      <4>4. (\A q \in Slots : Sec(q).vir = 0)'
        BY <1>2, <4>1 DEF Slots
      <4> QED BY <4>2, <4>3, <4>4
    <3>3. KernelPart'
      <4> SUFFICES ASSUME KernelLeads
                   PROVE  /\ zone["normal"].nr >= 1
                          /\ zone["normal"].sec[1].phy = KernelPhys
                          /\ zone["normal"].sec[1].size >= SectionPages
        BY <1>1, <3>1 DEF KernelPart, KernelLeads, Sec
      <4>1. /\ zone["normal"].nr >= 1 /\ zone["normal"].sec[1].phy = KernelPhys
            /\ \A i \in 1 .. zone["normal"].nr :
                 zone["normal"].sec[i].size <= zone["normal"].sec[1].size
            /\ \E i \in 1 .. zone["normal"].nr :
                 zone["normal"].sec[i].size >= 2 * SectionPages
        BY <1>2 DEF CarvePart
      <4>2. \A i \in 1 .. zone["normal"].nr : zone["normal"].sec[i].size \in Nat
        BY <1>2, LargestIs
      <4>3. zone["normal"].nr \in Nat
        BY <1>2, LargestIs, Constants
      <4> QED BY <4>1, <4>2, <4>3, Constants
    <3>4. zone["dma"].sec[1].size > 0 /\ 1 \in 1 .. zone["dma"].nr
      <4>1. zone["dma"].nr \in 0 .. ZONE_MAX_REGION
        BY <1>2, ZoneNames DEF ZonePart, ZoneSet
      <4>2. <<"dma", 1>> \in Slots /\ IsSeen(<<"dma", 1>>)
        BY <3>1, <4>1, ZoneNames, Constants DEF Slots, IsSeen
      <4>3. Sec(<<"dma", 1>>).size > 0
        BY <1>2, <4>2 DEF CarvePart
      <4> QED BY <3>1, <4>1, <4>3, Constants DEF Sec
    <3> QED BY <3>1, <3>2, <3>3, <3>4
  <2>2. CASE CarveWhole
    BY <1>2, <2>2, CarveWholeInv
  <2>3. CASE CarveSplit
    BY <1>2, <2>3, CarveSplitInv
  <2> QED BY <2>1, <2>2, <2>3
<1>4. ParsePart'
  BY <1>1, <1>2 DEF ParsePart, Kept
<1>5. VectorsReachable'
  BY <1>1 DEF VectorsReachable
<1>6. (tlb = Boot)' /\ (KernelPhys < MaxPage)'
  BY <1>1, <1>2 DEF Boot, MaxPage
<1>7. ~Booted'
  BY <1>1 DEF Booted
<1> QED BY <1>1, <1>3, <1>4, <1>5, <1>6, <1>7 DEF LInv, Steps

-----------------------------------------------------------------------------
(* Sums of sizes *)

\* The recursive function of Total.
IsSum(f, s, n) == f = [i \in 0 .. n |-> IF i = 0 THEN 0 ELSE f[i - 1] + s[i]]

LEMMA SumExists ==
  ASSUME NEW s, NEW N \in Nat
  PROVE  \E f : IsSum(f, s, N)
<1> DEFINE T == {m \in Nat : ~ \E f : IsSum(f, s, m)}
<1>1. SUFFICES ASSUME T # {} PROVE FALSE
  OBVIOUS
<1>2. PICK m \in T : \A y \in T : m <= y
  BY <1>1, LeastOf
<1>3. CASE m = 0
  <2>1. IsSum([i \in 0 .. 0 |-> 0], s, 0)
    BY DEF IsSum
  <2> QED
    BY <1>2, <1>3, <2>1
<1>4. CASE m # 0
  <2>1. m \in Nat /\ m - 1 \in Nat /\ m - 1 \notin T
    BY <1>2, <1>4
  <2>2. PICK g : IsSum(g, s, m - 1)
    BY <2>1
  <2> DEFINE f == [i \in 0 .. m |-> IF i = m THEN g[m - 1] + s[m] ELSE g[i]]
  <2>3. \A i \in 0 .. m : f[i] = IF i = 0 THEN 0 ELSE f[i - 1] + s[i]
    <3> TAKE i \in 0 .. m
    <3>1. CASE i = m
      BY <2>1, <3>1, <1>4
    <3>2. CASE i # m
      <4>1. i \in 0 .. m - 1 /\ f[i] = g[i]
        BY <2>1, <3>2
      <4>2. g[i] = IF i = 0 THEN 0 ELSE g[i - 1] + s[i]
        BY <2>2, <4>1 DEF IsSum
      <4>3. i # 0 => f[i - 1] = g[i - 1]
        BY <2>1, <4>1
      <4> QED BY <4>1, <4>2, <4>3
    <3> QED BY <3>1, <3>2
  <2>4. IsSum(f, s, m)
    <3> DEFINE e == [i \in 0 .. m |-> IF i = 0 THEN 0 ELSE f[i - 1] + s[i]]
    <3>1. f = [i \in 0 .. m |-> f[i]]
      OBVIOUS
    <3> HIDE DEF f
    <3>2. f = e
      BY <3>1, <2>3
    <3> QED BY <3>2 DEF IsSum
  <2> QED
    <3> HIDE DEF f
    <3> QED BY <1>2, <2>4
<1> QED
  BY <1>3, <1>4

\* The sums do not depend on how far they are taken.
LEMMA SumsAgree ==
  ASSUME NEW s, NEW m \in Nat, NEW n \in Nat, m <= n,
         NEW f, NEW g, IsSum(f, s, m), IsSum(g, s, n),
         NEW k \in 0 .. m
  PROVE  f[k] = g[k]
<1> DEFINE T == {i \in 0 .. m : f[i] # g[i]}
<1>1. SUFFICES ASSUME T # {} PROVE FALSE
  OBVIOUS
<1>2. PICK i \in T : \A y \in T : i <= y
  <2>1. T \in SUBSET Nat
    OBVIOUS
  <2> HIDE DEF T
  <2> QED BY <1>1, <2>1, LeastOf
<1>3. /\ f[i] = IF i = 0 THEN 0 ELSE f[i - 1] + s[i]
      /\ g[i] = IF i = 0 THEN 0 ELSE g[i - 1] + s[i]
  BY <1>2 DEF IsSum
<1>4. i # 0 => f[i - 1] = g[i - 1]
  <2>1. i # 0 => i - 1 \in 0 .. m /\ i - 1 \notin T
    BY <1>2
  <2> QED BY <2>1
<1> QED
  BY <1>2, <1>3, <1>4

LEMMA TotalIsSum ==
  ASSUME NEW s, NEW n \in Nat
  PROVE  \E f : IsSum(f, s, n) /\ Total(s, n) = f[n]
<1> DEFINE sum == CHOOSE f : IsSum(f, s, n)
<1>1. IsSum(sum, s, n)
  <2>1. \E f : IsSum(f, s, n)
    BY SumExists
  <2> QED BY <2>1
<1>2. Total(s, n) = sum[n]
  BY DEF Total, IsSum, sum
<1> QED BY <1>1, <1>2

LEMMA TotalStep ==
  ASSUME NEW s, NEW n \in Nat
  PROVE  Total(s, 0) = 0 /\ Total(s, n + 1) = Total(s, n) + s[n + 1]
<1>1. Total(s, 0) = 0
  <2>1. PICK f : IsSum(f, s, 0) /\ Total(s, 0) = f[0]
    BY TotalIsSum
  <2> QED BY <2>1 DEF IsSum
<1>2. Total(s, n + 1) = Total(s, n) + s[n + 1]
  <2> DEFINE m == n + 1
  <2>1. m \in Nat /\ m # 0 /\ m - 1 = n /\ n \in 0 .. n /\ n <= m /\ m \in 0 .. m
    OBVIOUS
  <2> HIDE DEF m
  <2>2. PICK f : IsSum(f, s, n) /\ Total(s, n) = f[n]
    BY TotalIsSum
  <2>3. PICK g : IsSum(g, s, m) /\ Total(s, m) = g[m]
    BY <2>1, TotalIsSum
  <2>4. f[n] = g[n]
    BY <2>1, <2>2, <2>3, SumsAgree
  <2>5. g[m] = g[n] + s[m]
    BY <2>1, <2>3 DEF IsSum
  <2> QED BY <2>2, <2>3, <2>4, <2>5 DEF m
<1> QED BY <1>1, <1>2

LEMMA TotalNat ==
  ASSUME NEW N \in Nat, NEW s \in [1 .. N -> Nat], NEW n \in 0 .. N
  PROVE  Total(s, n) \in Nat
<1> DEFINE T == {i \in 0 .. N : Total(s, i) \notin Nat}
<1>1. SUFFICES ASSUME T # {} PROVE FALSE
  OBVIOUS
<1>2. PICK i \in T : \A y \in T : i <= y
  <2>1. T \in SUBSET Nat
    OBVIOUS
  <2> HIDE DEF T
  <2> QED BY <1>1, <2>1, LeastOf
<1>3. i # 0
  BY <1>2, TotalStep
<1> DEFINE j == i - 1
<1>4. j \in Nat /\ j \in 0 .. N /\ i = j + 1 /\ j \notin T /\ i \in 1 .. N
  BY <1>2, <1>3
<1> HIDE DEF j
<1>5. Total(s, i) = Total(s, j) + s[i]
  BY <1>4, TotalStep
<1> QED BY <1>2, <1>4, <1>5

\* Sums of more numbers are no smaller.
LEMMA TotalMonotone ==
  ASSUME NEW N \in Nat, NEW s \in [1 .. N -> Nat], NEW n \in 0 .. N, NEW m \in n .. N
  PROVE  Total(s, n) <= Total(s, m)
<1> DEFINE T == {i \in n .. N : ~(Total(s, n) <= Total(s, i))}
<1>1. SUFFICES ASSUME T # {} PROVE FALSE
  OBVIOUS
<1>2. PICK i \in T : \A y \in T : i <= y
  <2>1. T \in SUBSET Nat
    OBVIOUS
  <2> HIDE DEF T
  <2> QED BY <1>1, <2>1, LeastOf
<1>3. i # n /\ Total(s, n) \in Nat /\ Total(s, i) \in Nat
  BY <1>2, TotalNat
<1> DEFINE j == i - 1
<1>4. j \in Nat /\ j \in n .. N /\ j \in 0 .. N /\ i = j + 1 /\ j \notin T /\ i \in 1 .. N
  BY <1>2, <1>3
<1> HIDE DEF j
<1>5. Total(s, i) = Total(s, j) + s[i] /\ Total(s, j) \in Nat /\ s[i] \in Nat
  BY <1>4, TotalStep, TotalNat
<1> QED BY <1>2, <1>3, <1>4, <1>5

LEMMA TotalAligned ==
  ASSUME NEW N \in Nat, NEW s \in [1 .. N -> Nat], \A i \in 1 .. N : Aligned(s[i]),
         NEW n \in 0 .. N
  PROVE  Aligned(Total(s, n))
<1> DEFINE T == {i \in 0 .. N : ~Aligned(Total(s, i))}
<1>1. SUFFICES ASSUME T # {} PROVE FALSE
  OBVIOUS
<1>2. PICK i \in T : \A y \in T : i <= y
  <2>1. T \in SUBSET Nat
    OBVIOUS
  <2> HIDE DEF T
  <2> QED BY <1>1, <2>1, LeastOf
<1>3. i # 0
  BY <1>2, TotalStep, AlignedConstants
<1> DEFINE j == i - 1
<1>4. j \in Nat /\ j \in 0 .. N /\ i = j + 1 /\ j \notin T /\ i \in 1 .. N
  BY <1>2, <1>3
<1> HIDE DEF j
<1>5. Total(s, i) = Total(s, j) + s[i]
  BY <1>4, TotalStep
<1>6. Aligned(Total(s, j)) /\ Aligned(s[i])
  BY <1>4
<1>7. Aligned(Total(s, j) + s[i])
  BY <1>6, AlignedSum
<1> QED BY <1>2, <1>5, <1>7

\* Spans that follow one another, and spans that start anywhere.
Laid(b, s, a, c) == UNION {Span(b + Total(s, k - 1), s[k]) : k \in a + 1 .. c}

Parts(f, s, a, c) == UNION {Span(f[k], s[k]) : k \in a + 1 .. c}

\* Spans that follow one another make one span.
LEMMA Tiles ==
  ASSUME NEW N \in Nat, NEW s \in [1 .. N -> Nat], NEW b \in Nat,
         NEW a \in 0 .. N, NEW c \in a .. N
  PROVE  Laid(b, s, a, c) = Span(b + Total(s, a), Total(s, c) - Total(s, a))
<1> DEFINE U == UNION {Span(b + Total(s, k - 1), s[k]) : k \in a + 1 .. c}
           V == Span(b + Total(s, a), Total(s, c) - Total(s, a))
<1>1. \A k \in 0 .. N : Total(s, k) \in Nat
  BY TotalNat
<1>2. \A k \in 1 .. N : Total(s, k) = Total(s, k - 1) + s[k] /\ s[k] \in Nat /\ k - 1 \in 0 .. N
  <2> TAKE k \in 1 .. N
  <2>1. k - 1 \in Nat /\ (k - 1) + 1 = k
    OBVIOUS
  <2>2. Total(s, (k - 1) + 1) = Total(s, k - 1) + s[(k - 1) + 1]
    BY <2>1, TotalStep
  <2> QED BY <2>1, <2>2
<1>3. c \in 0 .. N /\ a \in Nat /\ c \in Nat /\ a <= c /\ c <= N
  OBVIOUS
<1>4. ASSUME NEW x \in U PROVE x \in V
  <2>1. PICK k \in a + 1 .. c : x \in Span(b + Total(s, k - 1), s[k])
    OBVIOUS
  <2> HIDE DEF U, V
  <2>2. k \in 1 .. N /\ k - 1 \in a .. N /\ c \in k .. N /\ k \in 0 .. N
    BY <1>3
  <2>3. Total(s, a) <= Total(s, k - 1)
    BY <1>3, <2>2, TotalMonotone
  <2>4. Total(s, k) <= Total(s, c)
    BY <1>3, <2>2, TotalMonotone
  <2>5. Total(s, k) = Total(s, k - 1) + s[k] /\ s[k] \in Nat /\ k - 1 \in 0 .. N
    BY <1>2, <2>2
  <2>6. /\ Total(s, a) \in Nat /\ Total(s, k - 1) \in Nat /\ Total(s, k) \in Nat
        /\ Total(s, c) \in Nat
    BY <1>1, <1>3, <2>2, <2>5
  <2>7. x \in Int /\ b + Total(s, k - 1) <= x /\ x < b + (Total(s, k - 1) + s[k])
    <3> DEFINE tj == Total(s, k - 1)
               sk == s[k]
    <3>1. tj \in Nat /\ sk \in Nat /\ x \in Span(b + tj, sk)
      BY <2>1, <2>5, <2>6
    <3> HIDE DEF tj, sk
    <3>2. b + tj \in Int /\ sk \in Int
      BY <3>1
    <3>3. x \in Int /\ b + tj <= x /\ x < (b + tj) + sk
      BY <3>1, <3>2, InSpan
    <3>4. x \in Int /\ b + tj <= x /\ x < b + (tj + sk)
      BY <3>1, <3>3
    <3> QED BY <3>4 DEF tj, sk
  <2>8. b + Total(s, a) <= x /\ x < b + Total(s, c)
    <3> DEFINE ta == Total(s, a)
               tc == Total(s, c)
               tk == Total(s, k)
               tj == Total(s, k - 1)
               sk == s[k]
    <3>1. /\ ta <= tj /\ tk <= tc /\ tk = tj + sk
          /\ ta \in Nat /\ tc \in Nat /\ tk \in Nat /\ tj \in Nat /\ sk \in Nat
          /\ b + tj <= x /\ x < b + (tj + sk)
      BY <2>3, <2>4, <2>5, <2>6, <2>7
    <3> HIDE DEF ta, tc, tk, tj, sk
    <3>2. b + ta <= x /\ x < b + tc
      BY <2>7, <3>1
    <3> QED BY <3>2 DEF ta, tc
  <2> DEFINE p == b + Total(s, a)
             l == Total(s, c) - Total(s, a)
  <2>9. p \in Int /\ l \in Int /\ x \in Int /\ p <= x /\ x < p + l
    <3> DEFINE ta == Total(s, a)
               tc == Total(s, c)
    <3>1. ta \in Nat /\ tc \in Nat /\ b + ta <= x /\ x < b + tc /\ x \in Int
      BY <2>6, <2>7, <2>8
    <3> HIDE DEF ta, tc
    <3>2. b + ta \in Int /\ tc - ta \in Int /\ x < (b + ta) + (tc - ta)
      BY <3>1
    <3> QED BY <3>1, <3>2 DEF ta, tc
  <2> HIDE DEF p, l
  <2>10. x \in Span(p, l)
    BY <2>9, InSpan
  <2> QED BY <2>10 DEF V, p, l
<1>5. ASSUME NEW x \in V PROVE x \in U
  <2>1. x \in Int /\ b + Total(s, a) <= x /\ x < b + Total(s, c)
    BY <1>1, <1>3, <1>5 DEF Span
  <2> DEFINE T == {k \in a .. c : x < b + Total(s, k)}
  <2>2. T \in SUBSET Nat /\ c \in T
    BY <1>3, <2>1
  <2>3. PICK k \in T : \A y \in T : k <= y
    <3> HIDE DEF T
    <3> QED BY <2>2, LeastOf
  <2>4. k # a
    BY <1>1, <1>3, <2>1, <2>3
  <2>5. k \in a + 1 .. c /\ k \in 1 .. N /\ k - 1 \in a .. c /\ k - 1 \notin T
    BY <1>3, <2>3, <2>4
  <2>6. Total(s, k) = Total(s, k - 1) + s[k] /\ s[k] \in Nat /\ k - 1 \in 0 .. N
    BY <1>2, <2>5
  <2>7. Total(s, k - 1) \in Nat /\ b + Total(s, k - 1) <= x /\ x < b + Total(s, k)
    <3>1. x < b + Total(s, k) /\ ~(x < b + Total(s, k - 1))
      BY <2>3, <2>5
    <3>2. Total(s, k - 1) \in Nat
      BY <1>1, <2>6
    <3> QED BY <2>1, <3>1, <3>2
  <2>8. x \in Span(b + Total(s, k - 1), s[k])
    <3> DEFINE tj == Total(s, k - 1)
               sk == s[k]
    <3>1. tj \in Nat /\ sk \in Nat /\ b + tj <= x /\ x < b + (tj + sk)
      BY <2>6, <2>7
    <3> HIDE DEF tj, sk
    <3>2. b + tj \in Int /\ sk \in Int /\ x < (b + tj) + sk
      BY <3>1
    <3>3. x \in Span(b + tj, sk)
      BY <2>1, <3>1, <3>2, InSpan
    <3> QED BY <3>3 DEF tj, sk
  <2> QED BY <2>5, <2>8
<1>6. U = Laid(b, s, a, c)
  BY DEF Laid
<1> QED BY <1>4, <1>5, <1>6

\* The pages of spans apart from each other.
LEMMA Tally ==
  ASSUME NEW N \in Nat, NEW s \in [1 .. N -> Nat], NEW f \in [1 .. N -> Nat],
         \A j, k \in 1 .. N : j # k => Span(f[j], s[j]) \cap Span(f[k], s[k]) = {},
         NEW a \in 0 .. N, NEW c \in a .. N
  PROVE  /\ IsFiniteSet(Parts(f, s, a, c))
         /\ Cardinality(Parts(f, s, a, c)) = Total(s, c) - Total(s, a)
<1> USE DEF Parts
<1> DEFINE U(m) == UNION {Span(f[k], s[k]) : k \in a + 1 .. m}
           OK(m) == IsFiniteSet(U(m)) /\ Cardinality(U(m)) = Total(s, m) - Total(s, a)
           T == {m \in a .. N : ~OK(m)}
<1>1. SUFFICES ASSUME T # {} PROVE FALSE
  OBVIOUS
<1>2. PICK m \in T : \A y \in T : m <= y
  <2>1. T \in SUBSET Nat
    OBVIOUS
  <2> HIDE DEF T
  <2> QED BY <1>1, <2>1, LeastOf
<1>3. m # a
  <2>1. U(a) = {}
    OBVIOUS
  <2>2. IsFiniteSet({}) /\ Cardinality({}) = 0
    BY FS_EmptySet
  <2>3. Total(s, a) \in Nat
    BY TotalNat
  <2>4. OK(a)
    <3> HIDE DEF U
    <3> QED BY <2>1, <2>2, <2>3
  <2> HIDE DEF OK
  <2> QED BY <2>4, <1>2
<1> DEFINE j == m - 1
           S == Span(f[m], s[m])
<1>4. /\ j \in Nat /\ j \in a .. N /\ j \in 0 .. N /\ m = j + 1 /\ m \in 1 .. N /\ m \in 0 .. N
      /\ j \notin T
  <2> HIDE DEF OK
  <2> QED BY <1>2, <1>3
<1>5. OK(j)
  <2> HIDE DEF OK
  <2> QED BY <1>4
<1>6. U(m) = U(j) \cup S
  <2>1. a + 1 .. m = (a + 1 .. j) \cup {m}
    BY <1>4
  <2> HIDE DEF j
  <2> QED BY <2>1
<1>7. U(j) \cap S = {}
  <2> SUFFICES ASSUME NEW k \in a + 1 .. j PROVE Span(f[k], s[k]) \cap S = {}
    OBVIOUS
  <2>1. k \in 1 .. N /\ k # m
    BY <1>4
  <2> QED BY <2>1, <1>4
<1>8. IsFiniteSet(S) /\ Cardinality(S) = s[m]
  <2>1. f[m] \in Nat /\ s[m] \in Nat
    BY <1>4
  <2> QED BY <2>1, SpanCount
<1>9. Total(s, m) = Total(s, j) + s[m]
  <2> HIDE DEF j
  <2> QED BY <1>4, TotalStep
<1>10. Total(s, m) \in Nat /\ Total(s, j) \in Nat /\ Total(s, a) \in Nat /\ s[m] \in Nat
  <2> HIDE DEF j
  <2> QED BY <1>4, TotalNat
<1> HIDE DEF U, S, j
<1>11. IsFiniteSet(U(m))
       /\ Cardinality(U(m)) = Cardinality(U(j)) + Cardinality(S) - Cardinality(U(j) \cap S)
  <2> DEFINE V == U(j)
             W == U(m)
  <2>1. IsFiniteSet(V) /\ IsFiniteSet(S) /\ W = V \cup S
    BY <1>5, <1>6, <1>8
  <2> HIDE DEF V, W
  <2>2. /\ IsFiniteSet(V \cup S)
        /\ Cardinality(V \cup S) = Cardinality(V) + Cardinality(S) - Cardinality(V \cap S)
    BY <2>1, FS_Union
  <2>3. /\ IsFiniteSet(W)
        /\ Cardinality(W) = Cardinality(V) + Cardinality(S) - Cardinality(V \cap S)
    BY <2>1, <2>2
  <2> QED BY <2>3 DEF V, W
<1>12. Cardinality(U(j) \cap S) = 0
  BY <1>7, FS_EmptySet
<1>13. OK(m)
  BY <1>5, <1>8, <1>9, <1>10, <1>11, <1>12
<1> QED BY <1>2, <1>13

-----------------------------------------------------------------------------
(* The sections a loop sees *)

EndNormal == zone["normal"].nr

EndDma == EndNormal + zone["dma"].nr

EndRes == EndDma + zone["res"].nr

EndIo == EndRes + zone["io"].nr

Typed == zone \in [Zones -> ZoneSet]

LEMMA ZoneEnds ==
  ASSUME Typed
  PROVE  /\ \A z \in Zones : zone[z].nr \in Nat /\ zone[z].nr \in 0 .. ZONE_MAX_REGION
         /\ EndNormal \in Nat /\ EndDma \in Nat /\ EndRes \in Nat /\ EndIo \in Nat
         /\ EndNormal <= EndDma /\ EndDma <= EndRes /\ EndRes <= EndIo
<1>1. \A z \in Zones : zone[z].nr \in 0 .. ZONE_MAX_REGION
  BY DEF Typed, ZoneSet
<1>2. \A z \in Zones : zone[z].nr \in Nat
  BY <1>1, Constants
<1>3. /\ zone["normal"].nr \in Nat /\ zone["dma"].nr \in Nat
      /\ zone["res"].nr \in Nat /\ zone["io"].nr \in Nat
  BY <1>2, ZoneNames
<1> QED BY <1>1, <1>2, <1>3 DEF EndNormal, EndDma, EndRes, EndIo

LEMMA SeenOfIs ==
  ASSUME Typed, NEW z \in Zones
  PROVE  /\ SeenOf(z) \in Seq(Slots) /\ Len(SeenOf(z)) = zone[z].nr
         /\ \A i \in 1 .. zone[z].nr : SeenOf(z)[i] = <<z, i>>
<1>1. zone[z].nr \in Nat /\ zone[z].nr \in 0 .. ZONE_MAX_REGION
  BY ZoneEnds
<1>2. \A i \in 1 .. zone[z].nr : <<z, i>> \in Slots
  BY <1>1, Constants DEF Slots
<1> DEFINE n == zone[z].nr
<1>3. SeenOf(z) = [i \in 1 .. n |-> <<z, i>>]
  BY DEF SeenOf
<1>4. n \in Nat /\ \A i \in 1 .. n : <<z, i>> \in Slots
  BY <1>1, <1>2
<1> HIDE DEF n
<1>5. SeenOf(z) \in Seq(Slots) /\ Len(SeenOf(z)) = n /\ \A i \in 1 .. n : SeenOf(z)[i] = <<z, i>>
  BY <1>3, <1>4
<1> QED BY <1>5 DEF n

LEMMA Concat ==
  ASSUME NEW X, NEW s \in Seq(X), NEW t \in Seq(X)
  PROVE  /\ s \o t \in Seq(X) /\ Len(s \o t) = Len(s) + Len(t)
         /\ \A i \in 1 .. Len(s) : (s \o t)[i] = s[i]
         /\ \A i \in Len(s) + 1 .. Len(s) + Len(t) : (s \o t)[i] = t[i - Len(s)]
OBVIOUS

LEMMA SeenIs ==
  ASSUME Typed
  PROVE  /\ Seen \in Seq(Slots) /\ Len(Seen) = EndIo /\ DOMAIN Seen = 1 .. EndIo
         /\ \A k \in 1 .. EndNormal : Seen[k] = <<"normal", k>>
         /\ \A k \in EndNormal + 1 .. EndDma : Seen[k] = <<"dma", k - EndNormal>>
         /\ \A k \in EndDma + 1 .. EndRes : Seen[k] = <<"res", k - EndDma>>
         /\ \A k \in EndRes + 1 .. EndIo : Seen[k] = <<"io", k - EndRes>>
<1> DEFINE a == SeenOf("normal")
           b == SeenOf("dma")
           c == SeenOf("res")
           d == SeenOf("io")
           na == zone["normal"].nr
           nb == zone["dma"].nr
           nc == zone["res"].nr
           nd == zone["io"].nr
<1>1. /\ a \in Seq(Slots) /\ Len(a) = na /\ \A i \in 1 .. na : a[i] = <<"normal", i>>
      /\ b \in Seq(Slots) /\ Len(b) = nb /\ \A i \in 1 .. nb : b[i] = <<"dma", i>>
      /\ c \in Seq(Slots) /\ Len(c) = nc /\ \A i \in 1 .. nc : c[i] = <<"res", i>>
      /\ d \in Seq(Slots) /\ Len(d) = nd /\ \A i \in 1 .. nd : d[i] = <<"io", i>>
  BY SeenOfIs, ZoneNames
<1>2. na \in Nat /\ nb \in Nat /\ nc \in Nat /\ nd \in Nat
  BY ZoneEnds, ZoneNames
<1>3. EndNormal = na /\ EndDma = na + nb /\ EndRes = na + nb + nc /\ EndIo = na + nb + nc + nd
  BY DEF EndNormal, EndDma, EndRes, EndIo
<1>4. Seen = ((a \o b) \o c) \o d
  BY DEF Seen
<1> HIDE DEF a, b, c, d, na, nb, nc, nd
<1>5. /\ a \o b \in Seq(Slots) /\ Len(a \o b) = na + nb
      /\ \A i \in 1 .. na : (a \o b)[i] = a[i]
      /\ \A i \in na + 1 .. na + nb : (a \o b)[i] = b[i - na]
  <2>1. a \in Seq(Slots) /\ b \in Seq(Slots) /\ Len(a) = na /\ Len(b) = nb
    BY <1>1
  <2> QED BY <2>1, Concat, ZenonT(60)
<1> DEFINE ab == a \o b
<1> HIDE DEF ab
<1>6. /\ ab \in Seq(Slots) /\ Len(ab) = na + nb
      /\ \A i \in 1 .. na : ab[i] = <<"normal", i>>
      /\ \A i \in na + 1 .. na + nb : ab[i] = <<"dma", i - na>>
  <2>1. \A i \in na + 1 .. na + nb : i - na \in 1 .. nb
    BY <1>2
  <2> QED BY <1>1, <1>2, <1>5, <2>1 DEF ab
<1>7. /\ ab \o c \in Seq(Slots) /\ Len(ab \o c) = (na + nb) + nc
      /\ \A i \in 1 .. na + nb : (ab \o c)[i] = ab[i]
      /\ \A i \in na + nb + 1 .. na + nb + nc : (ab \o c)[i] = c[i - (na + nb)]
  <2> DEFINE m == na + nb
  <2> HIDE DEF m
  <2>1. ab \in Seq(Slots) /\ c \in Seq(Slots) /\ Len(ab) = m /\ Len(c) = nc
    BY <1>1, <1>6 DEF m
  <2>2. /\ ab \o c \in Seq(Slots) /\ Len(ab \o c) = m + nc
        /\ \A i \in 1 .. m : (ab \o c)[i] = ab[i]
        /\ \A i \in m + 1 .. m + nc : (ab \o c)[i] = c[i - m]
    BY <2>1, Concat, ZenonT(60)
  <2> QED BY <2>2, Zenon DEF m
<1> DEFINE abc == ab \o c
<1> HIDE DEF abc
<1>8. /\ abc \in Seq(Slots) /\ Len(abc) = na + nb + nc
      /\ \A i \in 1 .. na : abc[i] = <<"normal", i>>
      /\ \A i \in na + 1 .. na + nb : abc[i] = <<"dma", i - na>>
      /\ \A i \in na + nb + 1 .. na + nb + nc : abc[i] = <<"res", i - (na + nb)>>
  <2>1. \A i \in na + nb + 1 .. na + nb + nc : i - (na + nb) \in 1 .. nc
    BY <1>2
  <2>2. \A i \in 1 .. na : i \in 1 .. na + nb
    BY <1>2
  <2>3. \A i \in na + 1 .. na + nb : i \in 1 .. na + nb
    BY <1>2
  <2>4. \A i \in 1 .. nc : c[i] = <<"res", i>>
    BY <1>1
  <2> QED BY <1>6, <1>7, <2>1, <2>2, <2>3, <2>4, Zenon DEF abc
<1>9. /\ abc \o d \in Seq(Slots) /\ Len(abc \o d) = (na + nb + nc) + nd
      /\ \A i \in 1 .. na + nb + nc : (abc \o d)[i] = abc[i]
      /\ \A i \in na + nb + nc + 1 .. na + nb + nc + nd :
           (abc \o d)[i] = d[i - (na + nb + nc)]
  <2> DEFINE m == na + nb + nc
  <2> HIDE DEF m
  <2>1. abc \in Seq(Slots) /\ d \in Seq(Slots) /\ Len(abc) = m /\ Len(d) = nd
    BY <1>1, <1>8 DEF m
  <2>2. /\ abc \o d \in Seq(Slots) /\ Len(abc \o d) = m + nd
        /\ \A i \in 1 .. m : (abc \o d)[i] = abc[i]
        /\ \A i \in m + 1 .. m + nd : (abc \o d)[i] = d[i - m]
    BY <2>1, Concat, ZenonT(60)
  <2> QED BY <2>2, Zenon DEF m
<1>10. /\ Seen \in Seq(Slots) /\ Len(Seen) = na + nb + nc + nd
       /\ \A i \in 1 .. na : Seen[i] = <<"normal", i>>
       /\ \A i \in na + 1 .. na + nb : Seen[i] = <<"dma", i - na>>
       /\ \A i \in na + nb + 1 .. na + nb + nc : Seen[i] = <<"res", i - (na + nb)>>
       /\ \A i \in na + nb + nc + 1 .. na + nb + nc + nd : Seen[i] = <<"io", i - (na + nb + nc)>>
  <2>1. \A i \in na + nb + nc + 1 .. na + nb + nc + nd : i - (na + nb + nc) \in 1 .. nd
    BY <1>2
  <2>2. \A i \in 1 .. na : i \in 1 .. na + nb + nc
    BY <1>2
  <2>3. \A i \in na + 1 .. na + nb : i \in 1 .. na + nb + nc
    BY <1>2
  <2>4. \A i \in na + nb + 1 .. na + nb + nc : i \in 1 .. na + nb + nc
    BY <1>2
  <2>5. Seen = abc \o d
    BY <1>4 DEF abc, ab
  <2>6. \A i \in 1 .. nd : d[i] = <<"io", i>>
    BY <1>1
  <2> QED BY <1>8, <1>9, <2>1, <2>2, <2>3, <2>4, <2>5, <2>6, Zenon
<1>11. DOMAIN Seen = 1 .. EndIo
  BY <1>3, <1>10
<1> QED BY <1>3, <1>10, <1>11

\* A section is seen once.
LEMMA SeenOnce ==
  ASSUME Typed
  PROVE  /\ \A k \in DOMAIN Seen : /\ Seen[k] \in Slots /\ IsSeen(Seen[k])
                                   /\ k \in Nat /\ k \in 1 .. EndIo
         /\ \A q \in Slots : IsSeen(q) => \E k \in DOMAIN Seen : Seen[k] = q
         /\ \A j, k \in DOMAIN Seen : Seen[j] = Seen[k] => j = k
<1>1. /\ Seen \in Seq(Slots) /\ DOMAIN Seen = 1 .. EndIo
      /\ \A k \in 1 .. EndNormal : Seen[k] = <<"normal", k>>
      /\ \A k \in EndNormal + 1 .. EndDma : Seen[k] = <<"dma", k - EndNormal>>
      /\ \A k \in EndDma + 1 .. EndRes : Seen[k] = <<"res", k - EndDma>>
      /\ \A k \in EndRes + 1 .. EndIo : Seen[k] = <<"io", k - EndRes>>
  BY SeenIs
<1>2. /\ \A z \in Zones : zone[z].nr \in Nat /\ zone[z].nr \in 0 .. ZONE_MAX_REGION
      /\ EndNormal \in Nat /\ EndDma \in Nat /\ EndRes \in Nat /\ EndIo \in Nat
      /\ EndNormal <= EndDma /\ EndDma <= EndRes /\ EndRes <= EndIo
  BY ZoneEnds
<1>3. /\ zone["normal"].nr = EndNormal /\ EndDma - EndNormal = zone["dma"].nr
      /\ EndRes - EndDma = zone["res"].nr /\ EndIo - EndRes = zone["io"].nr
  <2>1. /\ zone["normal"].nr \in Nat /\ zone["dma"].nr \in Nat
        /\ zone["res"].nr \in Nat /\ zone["io"].nr \in Nat
    BY <1>2, ZoneNames
  <2> QED BY <2>1 DEF EndNormal, EndDma, EndRes, EndIo
<1>4. ASSUME NEW k \in 1 .. EndIo
      PROVE  \/ k \in 1 .. EndNormal \/ k \in EndNormal + 1 .. EndDma
             \/ k \in EndDma + 1 .. EndRes \/ k \in EndRes + 1 .. EndIo
  BY <1>2
<1>5. ASSUME NEW k \in 1 .. EndIo
      PROVE  Seen[k] \in Slots /\ IsSeen(Seen[k])
  <2>1. Seen[k] \in Slots
    BY <1>1, <1>2
  <2>2. Seen[k][2] <= zone[Seen[k][1]].nr
    <3>1. CASE k \in 1 .. EndNormal
      BY <1>1, <1>2, <1>3, <3>1
    <3>2. CASE k \in EndNormal + 1 .. EndDma
      BY <1>1, <1>2, <1>3, <3>2
    <3>3. CASE k \in EndDma + 1 .. EndRes
      BY <1>1, <1>2, <1>3, <3>3
    <3>4. CASE k \in EndRes + 1 .. EndIo
      BY <1>1, <1>2, <1>3, <3>4
    <3> QED BY <1>4, <3>1, <3>2, <3>3, <3>4
  <2> QED BY <2>1, <2>2 DEF IsSeen
<1>6. ASSUME NEW q \in Slots, IsSeen(q)
      PROVE  \E k \in 1 .. EndIo : Seen[k] = q
  <2>1. /\ q[1] \in Zones /\ q[2] \in Nat /\ q[2] >= 1 /\ q = <<q[1], q[2]>>
        /\ q[2] <= zone[q[1]].nr
    BY <1>6, SlotFacts, Constants DEF IsSeen
  <2> DEFINE i == q[2]
  <2> HIDE DEF i
  <2>2. CASE q[1] = "normal"
    <3>1. i \in 1 .. EndNormal /\ i \in 1 .. EndIo
      BY <1>2, <1>3, <2>1, <2>2 DEF i
    <3> QED BY <1>1, <2>1, <2>2, <3>1 DEF i
  <2>3. CASE q[1] = "dma"
    <3>1. i + EndNormal \in EndNormal + 1 .. EndDma /\ i + EndNormal \in 1 .. EndIo
          /\ (i + EndNormal) - EndNormal = i
      BY <1>2, <1>3, <2>1, <2>3 DEF i
    <3> QED BY <1>1, <2>1, <2>3, <3>1 DEF i
  <2>4. CASE q[1] = "res"
    <3>1. i + EndDma \in EndDma + 1 .. EndRes /\ i + EndDma \in 1 .. EndIo
          /\ (i + EndDma) - EndDma = i
      BY <1>2, <1>3, <2>1, <2>4 DEF i
    <3> QED BY <1>1, <2>1, <2>4, <3>1 DEF i
  <2>5. CASE q[1] = "io"
    <3>1. i + EndRes \in EndRes + 1 .. EndIo /\ i + EndRes \in 1 .. EndIo
          /\ (i + EndRes) - EndRes = i
      BY <1>2, <1>3, <2>1, <2>5 DEF i
    <3> QED BY <1>1, <2>1, <2>5, <3>1 DEF i
  <2> QED BY <2>1, <2>2, <2>3, <2>4, <2>5 DEF Zones
<1>7. ASSUME NEW j \in 1 .. EndIo, NEW k \in 1 .. EndIo, Seen[j] = Seen[k]
      PROVE  j = k
  <2>1. Seen[j][1] = Seen[k][1] /\ Seen[j][2] = Seen[k][2]
    BY <1>7
  <2>2. CASE j \in 1 .. EndNormal
    BY <1>1, <1>2, <1>4, <2>1, <2>2
  <2>3. CASE j \in EndNormal + 1 .. EndDma
    BY <1>1, <1>2, <1>4, <2>1, <2>3
  <2>4. CASE j \in EndDma + 1 .. EndRes
    BY <1>1, <1>2, <1>4, <2>1, <2>4
  <2>5. CASE j \in EndRes + 1 .. EndIo
    BY <1>1, <1>2, <1>4, <2>1, <2>5
  <2> QED BY <1>4, <2>2, <2>3, <2>4, <2>5
<1> QED BY <1>1, <1>2, <1>5, <1>6, <1>7

-----------------------------------------------------------------------------
(* The addresses of the sections *)

\* What map_zone_memory gives the sections.
Placed ==
  /\ \A k \in DOMAIN Seen : Filled(Seen[k]) => Sec(Seen[k]).vir = VirOf(k)
  /\ \A q \in Slots : ~Filled(q) => Sec(q).vir = 0

LEMMA SpanEmpty == ASSUME NEW a \in Int PROVE Span(a, 0) = {}
BY DEF Span

LEMMA SecFacts ==
  ASSUME ZonePart, NEW q \in Slots
  PROVE  /\ Sec(q).phy \in Nat /\ Sec(q).vir \in Nat /\ Sec(q).size \in Nat
         /\ Aligned(Sec(q).phy) /\ Aligned(Sec(q).size)
         /\ Sec(q).phy + Sec(q).size <= MaxPage
         /\ Sec(q).size = 0 => Sec(q) = NoSection
BY DEF ZonePart, SectionOK, SectionSet

\* There is one kernel section at most, and it is not empty.
LEMMA KernelSec ==
  ASSUME ZonePart
  PROVE  /\ \A q \in Slots : IsKernel(q) => Sec(q).size > 0
         /\ \A p, q \in Slots : IsKernel(p) /\ IsKernel(q) => p = q
         /\ \A k \in DOMAIN Seen : IsKernel(Seen[k]) =>
              KernelSize = Sec(Seen[k]).size /\ Sec(Seen[k]).phy = KernelPhys
         /\ (\A k \in DOMAIN Seen : ~IsKernel(Seen[k])) => KernelSize = 0
         /\ KernelSize \in Nat /\ Aligned(KernelSize)
         /\ KernelPhys + KernelSize <= MaxPage \/ KernelSize = 0
<1>1. Typed
  BY DEF Typed, ZonePart
<1>2. \A k \in DOMAIN Seen : Seen[k] \in Slots
  BY <1>1, SeenOnce
<1>3. ASSUME NEW q \in Slots, IsKernel(q) PROVE Sec(q).size > 0 /\ Sec(q).phy = KernelPhys
  <2>1. Sec(q).phy = KernelPhys
    BY <1>3 DEF IsKernel
  <2>2. NoSection.phy = 0 /\ KernelPhys # 0
    BY Constants DEF NoSection
  <2> QED BY <2>1, <2>2, SecFacts
<1>4. ASSUME NEW p \in Slots, NEW q \in Slots, IsKernel(p), IsKernel(q), p # q PROVE FALSE
  <2>1. KernelPhys \in Phys(p) /\ KernelPhys \in Phys(q)
    BY <1>3, <1>4, SecFacts, Constants, InSpan DEF Phys
  <2>2. Phys(p) \cap Phys(q) = {}
    BY <1>4 DEF ZonePart
  <2> QED BY <2>1, <2>2
<1>5. ASSUME NEW k \in DOMAIN Seen, IsKernel(Seen[k])
      PROVE  KernelSize = Sec(Seen[k]).size /\ Sec(Seen[k]).phy = KernelPhys
  <2> DEFINE m == CHOOSE j \in DOMAIN Seen : IsKernel(Seen[j])
  <2>1. m \in DOMAIN Seen /\ IsKernel(Seen[m])
    BY <1>5
  <2>2. KernelSize = Sec(Seen[m]).size
    BY <1>5 DEF KernelSize
  <2> HIDE DEF m
  <2>3. Seen[m] = Seen[k]
    BY <1>2, <1>4, <1>5, <2>1
  <2> QED BY <1>2, <1>3, <1>5, <2>2, <2>3
<1>6. (\A k \in DOMAIN Seen : ~IsKernel(Seen[k])) => KernelSize = 0
  BY DEF KernelSize
<1>7. /\ KernelSize \in Nat /\ Aligned(KernelSize)
      /\ KernelPhys + KernelSize <= MaxPage \/ KernelSize = 0
  <2>1. CASE \E k \in DOMAIN Seen : IsKernel(Seen[k])
    <3>1. PICK k \in DOMAIN Seen : IsKernel(Seen[k])
      BY <2>1
    <3> QED BY <3>1, <1>2, <1>5, SecFacts
  <2>2. CASE ~ \E k \in DOMAIN Seen : IsKernel(Seen[k])
    BY <2>2, <1>6, AlignedConstants
  <2> QED BY <2>1, <2>2
<1> QED BY <1>3, <1>4, <1>5, <1>6, <1>7

LEMMA RestIs ==
  ASSUME ZonePart
  PROVE  /\ EndIo \in Nat /\ DOMAIN Seen = 1 .. EndIo
         /\ Rest \in [1 .. EndIo -> Nat]
         /\ \A k \in 1 .. EndIo :
              /\ Aligned(Rest[k]) /\ Seen[k] \in Slots
              /\ IsKernel(Seen[k]) => Rest[k] = 0
              /\ ~IsKernel(Seen[k]) => Rest[k] = Sec(Seen[k]).size
<1>1. Typed
  BY DEF Typed, ZonePart
<1>2. EndIo \in Nat /\ DOMAIN Seen = 1 .. EndIo /\ \A k \in 1 .. EndIo : Seen[k] \in Slots
  BY <1>1, SeenOnce, SeenIs, ZoneEnds
<1>3. Rest = [k \in 1 .. EndIo |-> IF IsKernel(Seen[k]) THEN 0 ELSE Sec(Seen[k]).size]
  BY <1>2 DEF Rest
<1>4. \A k \in 1 .. EndIo : Sec(Seen[k]).size \in Nat /\ Aligned(Sec(Seen[k]).size)
  BY <1>2, SecFacts
<1> QED BY <1>2, <1>3, <1>4, AlignedConstants

\* The pages of the sections, the kernel's apart.
Start == [k \in DOMAIN Seen |-> Sec(Seen[k]).phy]

LEMMA StartIs ==
  ASSUME ZonePart
  PROVE  /\ Start \in [1 .. EndIo -> Nat]
         /\ \A k \in 1 .. EndIo :
              /\ IsKernel(Seen[k]) => Span(Start[k], Rest[k]) = {}
                                      /\ Phys(Seen[k]) = Span(KernelPhys, KernelSize)
              /\ ~IsKernel(Seen[k]) => Span(Start[k], Rest[k]) = Phys(Seen[k])
         /\ \A j, k \in 1 .. EndIo : j # k =>
              Span(Start[j], Rest[j]) \cap Span(Start[k], Rest[k]) = {}
         /\ \A k \in 1 .. EndIo :
              Span(Start[k], Rest[k]) \cap Span(KernelPhys, KernelSize) = {}
<1>1. /\ EndIo \in Nat /\ DOMAIN Seen = 1 .. EndIo
      /\ \A k \in 1 .. EndIo : /\ Seen[k] \in Slots
                               /\ IsKernel(Seen[k]) => Rest[k] = 0
                               /\ ~IsKernel(Seen[k]) => Rest[k] = Sec(Seen[k]).size
  BY RestIs
<1>2. /\ \A k \in 1 .. EndIo : Start[k] = Sec(Seen[k]).phy /\ Start[k] \in Nat
      /\ Start \in [1 .. EndIo -> Nat]
  BY <1>1, SecFacts DEF Start
<1>3. ASSUME NEW k \in 1 .. EndIo
      PROVE  /\ IsKernel(Seen[k]) => Span(Start[k], Rest[k]) = {}
                                      /\ Phys(Seen[k]) = Span(KernelPhys, KernelSize)
             /\ ~IsKernel(Seen[k]) => Span(Start[k], Rest[k]) = Phys(Seen[k])
  <2>1. CASE IsKernel(Seen[k])
    <3>1. Rest[k] = 0 /\ Start[k] \in Int
      BY <1>1, <1>2, <2>1
    <3>2. KernelSize = Sec(Seen[k]).size /\ Sec(Seen[k]).phy = KernelPhys
      BY <1>1, <2>1, KernelSec
    <3> QED BY <2>1, <3>1, <3>2, SpanEmpty DEF Phys
  <2>2. CASE ~IsKernel(Seen[k])
    BY <1>1, <1>2, <2>2 DEF Phys
  <2> QED BY <2>1, <2>2
<1>4. \A j, k \in 1 .. EndIo : j # k => Phys(Seen[j]) \cap Phys(Seen[k]) = {}
  <2> SUFFICES ASSUME NEW j \in 1 .. EndIo, NEW k \in 1 .. EndIo, j # k
               PROVE  Phys(Seen[j]) \cap Phys(Seen[k]) = {}
    OBVIOUS
  <2>1. Seen[j] # Seen[k] /\ Seen[j] \in Slots /\ Seen[k] \in Slots
    BY <1>1, SeenOnce DEF ZonePart, Typed
  <2> QED BY <2>1 DEF ZonePart
<1>5. \A k \in 1 .. EndIo : Span(Start[k], Rest[k]) \subseteq Phys(Seen[k])
  BY <1>3
<1>6. ASSUME NEW k \in 1 .. EndIo
      PROVE  Span(Start[k], Rest[k]) \cap Span(KernelPhys, KernelSize) = {}
  <2>1. CASE \E j \in 1 .. EndIo : IsKernel(Seen[j])
    <3>1. PICK j \in 1 .. EndIo : IsKernel(Seen[j])
      BY <2>1
    <3>2. CASE j = k
      BY <1>3, <3>1, <3>2
    <3>3. CASE j # k
      BY <1>3, <1>4, <1>5, <3>1, <3>3
    <3> QED BY <3>2, <3>3
  <2>2. CASE ~ \E j \in 1 .. EndIo : IsKernel(Seen[j])
    <3>1. KernelSize = 0
      BY <1>1, <2>2, KernelSec
    <3> QED BY <3>1, SpanEmpty, Constants
  <2> QED BY <2>1, <2>2
<1>7. \A j, k \in 1 .. EndIo : j # k =>
              Span(Start[j], Rest[j]) \cap Span(Start[k], Rest[k]) = {}
  BY <1>4, <1>5
<1> QED BY <1>2, <1>3, <1>6, <1>7

\* The addresses given out are no more than there are pages of memory.
LEMMA TotalBound ==
  ASSUME ZonePart, NEW c \in 0 .. EndIo
  PROVE  Total(Rest, c) \in Nat /\ KernelSize + Total(Rest, c) <= MaxPage
<1> DEFINE U == UNION {Span(Start[k], Rest[k]) : k \in 0 + 1 .. c}
           K == Span(KernelPhys, KernelSize)
           M == 0 .. MaxPage - 1
<1>1. EndIo \in Nat /\ Rest \in [1 .. EndIo -> Nat] /\ Start \in [1 .. EndIo -> Nat]
  BY RestIs, StartIs
<1>2. \A j, k \in 1 .. EndIo : j # k => Span(Start[j], Rest[j]) \cap Span(Start[k], Rest[k]) = {}
  BY StartIs
<1>3. 0 \in 0 .. EndIo /\ c \in 0 .. EndIo
  BY <1>1
<1>4. IsFiniteSet(U) /\ Cardinality(U) = Total(Rest, c) - Total(Rest, 0)
  <2> HIDE DEF U
  <2>1. U = Parts(Start, Rest, 0, c)
    BY DEF Parts, U
  <2>2. IsFiniteSet(Parts(Start, Rest, 0, c))
        /\ Cardinality(Parts(Start, Rest, 0, c)) = Total(Rest, c) - Total(Rest, 0)
    BY <1>1, <1>2, <1>3, Tally, ZenonT(60)
  <2> QED BY <2>1, <2>2
<1>5. Total(Rest, 0) = 0 /\ Total(Rest, c) \in Nat
  BY <1>1, TotalStep, TotalNat
<1>6. IsFiniteSet(K) /\ Cardinality(K) = KernelSize
  BY SpanCount, KernelSec, Constants
<1>7. U \cap K = {}
  <2> SUFFICES ASSUME NEW k \in 0 + 1 .. c PROVE Span(Start[k], Rest[k]) \cap K = {}
    OBVIOUS
  <2>1. k \in 1 .. EndIo
    BY <1>1
  <2> QED BY <2>1, StartIs
<1>8. U \subseteq M
  <2> SUFFICES ASSUME NEW k \in 0 + 1 .. c PROVE Span(Start[k], Rest[k]) \subseteq M
    OBVIOUS
  <2>1. k \in 1 .. EndIo
    BY <1>1
  <2>2. Span(Start[k], Rest[k]) \subseteq Phys(Seen[k]) /\ Seen[k] \in Slots
    BY <2>1, StartIs, RestIs
  <2>3. Phys(Seen[k]) \subseteq M
    BY <2>2, SecFacts, AlignedConstants DEF Phys, Span
  <2> QED BY <2>2, <2>3
<1>9. K \subseteq M
  BY KernelSec, Constants, AlignedConstants DEF Span
<1>10. IsFiniteSet(M) /\ Cardinality(M) = MaxPage
  <2>1. M = Span(0, MaxPage)
    BY AlignedConstants DEF Span
  <2> QED BY <2>1, SpanCount, AlignedConstants
<1> HIDE DEF U, K, M
<1>11. Cardinality(U \cup K) = Cardinality(U) + Cardinality(K) - Cardinality(U \cap K)
  BY <1>4, <1>6, FS_Union
<1>12. Cardinality(U \cap K) = 0
  BY <1>7, FS_EmptySet
<1>13. Cardinality(U \cup K) <= Cardinality(M)
  BY <1>8, <1>9, <1>10, FS_Subset
<1>14. KernelSize \in Nat
  BY KernelSec
<1> QED BY <1>4, <1>5, <1>6, <1>10, <1>11, <1>12, <1>13, <1>14, AlignedConstants

LEMMA CountParts ==
  ASSUME ZonePart, NEW a \in 0 .. EndIo, NEW c \in a .. EndIo
  PROVE  /\ IsFiniteSet(Parts(Start, Rest, a, c))
         /\ Cardinality(Parts(Start, Rest, a, c)) = Total(Rest, c) - Total(Rest, a)
         /\ Parts(Start, Rest, a, c) \cap Span(KernelPhys, KernelSize) = {}
         /\ c \in 0 .. EndIo /\ Total(Rest, a) \in Nat /\ Total(Rest, c) \in Nat
         /\ Total(Rest, a) <= Total(Rest, c)
<1>1. EndIo \in Nat /\ Rest \in [1 .. EndIo -> Nat] /\ Start \in [1 .. EndIo -> Nat]
  BY RestIs, StartIs
<1>2. \A j, k \in 1 .. EndIo : j # k => Span(Start[j], Rest[j]) \cap Span(Start[k], Rest[k]) = {}
  BY StartIs
<1>3. /\ IsFiniteSet(Parts(Start, Rest, a, c))
      /\ Cardinality(Parts(Start, Rest, a, c)) = Total(Rest, c) - Total(Rest, a)
  BY <1>1, <1>2, Tally, ZenonT(60)
<1>4. Parts(Start, Rest, a, c) \cap Span(KernelPhys, KernelSize) = {}
  <2> SUFFICES ASSUME NEW k \in a + 1 .. c
               PROVE  Span(Start[k], Rest[k]) \cap Span(KernelPhys, KernelSize) = {}
    BY DEF Parts
  <2>1. k \in 1 .. EndIo
    BY <1>1
  <2> QED BY <2>1, StartIs
<1>5. c \in 0 .. EndIo
  BY <1>1
<1>6. Total(Rest, a) \in Nat /\ Total(Rest, c) \in Nat
  BY <1>1, <1>5, TotalNat
<1>7. Total(Rest, a) <= Total(Rest, c)
  BY <1>1, TotalMonotone
<1> QED BY <1>3, <1>4, <1>5, <1>6, <1>7

\* The pages and the addresses of a zone, from those of its sections.
PhysSeen(a, c) == UNION {Phys(Seen[k]) : k \in a + 1 .. c}

VirtSeen(a, c) == UNION {Virt(Seen[k]) : k \in a + 1 .. c}

LEMMA ZoneUnion ==
  ASSUME ZonePart, NEW z \in Zones, NEW a \in Nat, NEW c \in Nat, c = a + zone[z].nr,
         c <= EndIo, \A k \in a + 1 .. c : Seen[k] = <<z, k - a>>
  PROVE  /\ (\A i \in 1 .. ZONE_MAX_REGION : i > zone[z].nr => zone[z].sec[i].size = 0)
              => PhysOf(z) = PhysSeen(a, c)
         /\ VirtOf(z) = VirtSeen(a, c)
<1> DEFINE n == zone[z].nr
<1>1. n \in 0 .. ZONE_MAX_REGION /\ n \in Nat
  BY ZoneEnds DEF ZonePart, Typed
<1>2. \A i \in 1 .. n : i + a \in a + 1 .. c /\ (i + a) - a = i /\ i \in 1 .. ZONE_MAX_REGION
  BY <1>1, Constants
<1>3. \A k \in a + 1 .. c : k - a \in 1 .. n
  BY <1>1
<1>4. \A i \in 1 .. ZONE_MAX_REGION : /\ <<z, i>> \in Slots
                                      /\ Phys(<<z, i>>) = Span(zone[z].sec[i].phy, zone[z].sec[i].size)
                                      /\ Sec(<<z, i>>) = zone[z].sec[i]
  BY DEF Slots, Phys, Sec
<1>5. VirtOf(z) = UNION {Virt(<<z, i>>) : i \in 1 .. n}
  BY DEF VirtOf
<1>6. PhysOf(z) = UNION {Phys(<<z, i>>) : i \in 1 .. ZONE_MAX_REGION}
  BY DEF PhysOf, PhysIn, Phys, Sec
<1> HIDE DEF n
<1>7. ASSUME NEW x \in VirtOf(z) PROVE \E k \in a + 1 .. c : x \in Virt(Seen[k])
  <2>1. PICK i \in 1 .. n : x \in Virt(<<z, i>>)
    BY <1>5, <1>7
  <2>2. Seen[i + a] = <<z, i>> /\ i + a \in a + 1 .. c
    BY <1>2
  <2> QED BY <2>1, <2>2
<1>8. ASSUME NEW k \in a + 1 .. c PROVE Virt(Seen[k]) \subseteq VirtOf(z) /\ Phys(Seen[k]) \subseteq PhysOf(z)
  <2>1. Seen[k] = <<z, k - a>> /\ k - a \in 1 .. n /\ k - a \in 1 .. ZONE_MAX_REGION
    BY <1>1, <1>3, Constants
  <2> QED BY <2>1, <1>5, <1>6
<1>9. ASSUME \A i \in 1 .. ZONE_MAX_REGION : i > n => zone[z].sec[i].size = 0,
             NEW x \in PhysOf(z)
      PROVE  \E k \in a + 1 .. c : x \in Phys(Seen[k])
  <2>1. PICK i \in 1 .. ZONE_MAX_REGION : x \in Phys(<<z, i>>)
    BY <1>6, <1>9
  <2>2. i <= n
    <3> SUFFICES ASSUME i > n PROVE FALSE
      BY <1>1
    <3>1. zone[z].sec[i].size = 0
      BY <1>9
    <3>2. <<z, i>> \in Slots /\ Sec(<<z, i>>) = zone[z].sec[i]
      BY <1>4
    <3>3. zone[z].sec[i].phy \in Nat
      <4>1. Sec(<<z, i>>).phy \in Nat
        BY <3>2, SecFacts
      <4> QED BY <3>2, <4>1
    <3>4. zone[z].sec[i].phy \in Int
      BY <3>3
    <3> QED BY <1>4, <2>1, <3>1, <3>4, SpanEmpty
  <2>3. i \in 1 .. n
    BY <1>1, <2>2
  <2>4. Seen[i + a] = <<z, i>> /\ i + a \in a + 1 .. c
    BY <1>2, <2>3
  <2> QED BY <2>1, <2>4
<1>10. VirtOf(z) = VirtSeen(a, c)
  BY <1>7, <1>8 DEF VirtSeen
<1>11. ASSUME \A i \in 1 .. ZONE_MAX_REGION : i > n => zone[z].sec[i].size = 0
       PROVE  PhysOf(z) = PhysSeen(a, c)
  BY <1>8, <1>9, <1>11 DEF PhysSeen
<1> QED BY <1>10, <1>11 DEF n

\* The address of a section, filled or not.
LEMMA VirtIs ==
  ASSUME ZonePart, Placed, NEW k \in 1 .. EndIo
  PROVE  /\ IsKernel(Seen[k]) => /\ Filled(Seen[k]) /\ Sec(Seen[k]).vir = kernel_start
                                 /\ Virt(Seen[k]) = Span(kernel_start, KernelSize)
         /\ ~IsKernel(Seen[k]) =>
              /\ Virt(Seen[k]) = Span(kernel_start + KernelSize + Total(Rest, k - 1), Rest[k])
              /\ Filled(Seen[k]) =>
                   Sec(Seen[k]).vir = kernel_start + KernelSize + Total(Rest, k - 1)
         /\ Filled(Seen[k]) <=> Sec(Seen[k]).size > 0
         /\ Seen[k] \in Slots /\ k - 1 \in 0 .. EndIo /\ Total(Rest, k - 1) \in Nat
         /\ Total(Rest, k) = Total(Rest, k - 1) + Rest[k]
         /\ Rest[k] \in Nat /\ Total(Rest, k) \in Nat
<1> DEFINE q == Seen[k]
<1>1. q \in Slots /\ IsSeen(q) /\ k \in DOMAIN Seen
  BY SeenOnce, RestIs DEF ZonePart, Typed
<1>2. /\ Rest \in [1 .. EndIo -> Nat] /\ EndIo \in Nat
      /\ IsKernel(q) => Rest[k] = 0
      /\ ~IsKernel(q) => Rest[k] = Sec(q).size
  BY RestIs
<1>3. k - 1 \in 0 .. EndIo /\ k - 1 \in Nat /\ (k - 1) + 1 = k /\ k \in 0 .. EndIo
  BY <1>2
<1>4. Total(Rest, k) = Total(Rest, k - 1) + Rest[k]
  <2>1. Total(Rest, (k - 1) + 1) = Total(Rest, k - 1) + Rest[(k - 1) + 1]
    BY <1>3, TotalStep
  <2> QED BY <1>3, <2>1
<1>5. Total(Rest, k - 1) \in Nat /\ Total(Rest, k) \in Nat /\ Rest[k] \in Nat
  BY <1>2, <1>3, TotalNat
<1>6. Filled(q) <=> Sec(q).size > 0
  BY <1>1 DEF Filled
<1>7. Filled(q) => Sec(q).vir = VirOf(k)
  BY <1>1 DEF Placed
<1>8. CASE IsKernel(q)
  <2>1. Filled(q) /\ Sec(q).size = KernelSize
    BY <1>1, <1>6, <1>8, KernelSec
  <2>2. Sec(q).vir = kernel_start
    BY <1>7, <1>8, <2>1 DEF VirOf
  <2> QED BY <1>1, <1>3, <1>4, <1>5, <1>6, <1>8, <2>1, <2>2 DEF Virt
<1>9. CASE ~IsKernel(q)
  <2> DEFINE b == kernel_start + KernelSize + Total(Rest, k - 1)
  <2>1. b \in Int /\ Sec(q).vir \in Int /\ Sec(q).size \in Nat
    BY <1>1, <1>5, KernelSec, AlignedConstants, SecFacts
  <2>2. Filled(q) => Sec(q).vir = b
    BY <1>7, <1>9 DEF VirOf
  <2>3. Sec(q).size = Rest[k]
    BY <1>2, <1>9
  <2> HIDE DEF b
  <2>4. Virt(q) = Span(b, Rest[k])
    <3>1. CASE Filled(q)
      BY <2>2, <2>3, <3>1 DEF Virt
    <3>2. CASE ~Filled(q)
      <4>1. Rest[k] = 0
        BY <1>6, <2>1, <2>3, <3>2
      <4> QED BY <2>1, <2>3, <4>1, SpanEmpty DEF Virt
    <3> QED BY <3>1, <3>2
  <2> QED BY <1>1, <1>3, <1>4, <1>5, <1>6, <1>9, <2>2, <2>4 DEF b
<1> QED BY <1>8, <1>9

LEMMA TilesRest ==
  ASSUME ZonePart, NEW a \in 0 .. EndIo, NEW c \in a .. EndIo
  PROVE  Laid(kernel_start + KernelSize, Rest, a, c)
           = Span(kernel_start + KernelSize + Total(Rest, a), Total(Rest, c) - Total(Rest, a))
<1>1. EndIo \in Nat /\ Rest \in [1 .. EndIo -> Nat] /\ kernel_start + KernelSize \in Nat
  BY RestIs, KernelSec, AlignedConstants
<1> DEFINE b == kernel_start + KernelSize
<1> HIDE DEF b
<1>2. b \in Nat
  BY <1>1 DEF b
<1>3. Laid(b, Rest, a, c) = Span(b + Total(Rest, a), Total(Rest, c) - Total(Rest, a))
  BY <1>1, <1>2, Tiles, ZenonT(60)
<1> QED BY <1>3, Zenon DEF b

\* A zone of which no section is the kernel's lies behind those before it.
LEMMA ZoneTiles ==
  ASSUME ZonePart, Placed, NEW z \in Zones, z # "normal",
         NEW a \in 0 .. EndIo, NEW c \in a .. EndIo,
         c = a + zone[z].nr, \A k \in a + 1 .. c : Seen[k] = <<z, k - a>>
  PROVE  /\ zone[z].pages = Total(Rest, c) - Total(Rest, a)
         /\ VirtOf(z) = Span(kernel_start + KernelSize + Total(Rest, a), zone[z].pages)
<1>1. EndIo \in Nat /\ a \in Nat /\ c \in Nat /\ c <= EndIo
  BY RestIs
<1>2. \A i \in 1 .. ZONE_MAX_REGION : i > zone[z].nr => zone[z].sec[i].size = 0
  <2> SUFFICES ASSUME NEW i \in 1 .. ZONE_MAX_REGION, i > zone[z].nr
               PROVE  zone[z].sec[i].size = 0
    OBVIOUS
  <2>1. zone[z].nr \in Nat
    BY ZoneEnds DEF ZonePart, Typed
  <2>2. <<z, i>> \in Slots /\ ~IsSeen(<<z, i>>) /\ Sec(<<z, i>>) = zone[z].sec[i]
    BY <2>1, Constants DEF Slots, IsSeen, Sec
  <2>3. zone[z].sec[i] = NoSection
    BY <2>2 DEF ZonePart
  <2> QED BY <2>3 DEF NoSection
<1>3. PhysOf(z) = PhysSeen(a, c)
  BY <1>1, <1>2, ZoneUnion
<1>4. VirtOf(z) = VirtSeen(a, c)
  BY <1>1, ZoneUnion
<1>5. ASSUME NEW k \in a + 1 .. c
      PROVE  /\ Phys(Seen[k]) = Span(Start[k], Rest[k])
             /\ Virt(Seen[k]) = Span(kernel_start + KernelSize + Total(Rest, k - 1), Rest[k])
  <2>1. k \in 1 .. EndIo
    BY <1>1
  <2>2. ~IsKernel(Seen[k])
    BY DEF IsKernel
  <2> QED BY <2>1, <2>2, StartIs, VirtIs
<1>6. PhysOf(z) = Parts(Start, Rest, a, c)
  BY <1>3, <1>5 DEF Parts, PhysSeen
<1>7. VirtOf(z) = Laid(kernel_start + KernelSize, Rest, a, c)
  BY <1>4, <1>5 DEF Laid, VirtSeen
<1>8. zone[z].pages = Total(Rest, c) - Total(Rest, a)
  BY <1>6, CountParts DEF ZonePart
<1> QED BY <1>7, <1>8, TilesRest

\* NORMAL memory begins with the kernel's section.
LEMMA NormalTiles ==
  ASSUME ZonePart, Placed, ~Hidden
  PROVE  /\ zone["normal"].pages = KernelSize + Total(Rest, EndNormal)
         /\ VirtOf("normal") = Span(kernel_start, zone["normal"].pages)
<1> DEFINE a == 0
           c == EndNormal
           n == zone["normal"]
           K == Span(KernelPhys, KernelSize)
<1>1. EndIo \in Nat /\ a \in Nat /\ c \in Nat /\ c <= EndIo /\ c = a + n.nr
      /\ n.nr \in 0 .. ZONE_MAX_REGION
  BY ZoneEnds, ZoneNames DEF ZonePart, Typed, EndNormal
<1>2. \A k \in a + 1 .. c : Seen[k] = <<"normal", k - a>> /\ Seen[k] = <<"normal", k>>
                            /\ k \in 1 .. EndIo
  <2> SUFFICES ASSUME NEW k \in a + 1 .. c
               PROVE  Seen[k] = <<"normal", k - a>> /\ Seen[k] = <<"normal", k>> /\ k \in 1 .. EndIo
    OBVIOUS
  <2>1. k \in 1 .. EndNormal /\ k - a = k /\ k \in 1 .. EndIo
    BY <1>1
  <2> QED BY <2>1, SeenIs DEF ZonePart, Typed
<1>3. \A i \in 1 .. ZONE_MAX_REGION : i > n.nr => n.sec[i].size = 0
  <2> SUFFICES ASSUME NEW i \in 1 .. ZONE_MAX_REGION, i > n.nr
               PROVE  n.sec[i].size = 0
    OBVIOUS
  <2>1. i \in n.nr + 1 .. ZONE_MAX_REGION
    BY <1>1, Constants
  <2>2. ~(n.sec[i].size > 0)
    BY <2>1 DEF Hidden
  <2>3. <<"normal", i>> \in Slots /\ Sec(<<"normal", i>>) = n.sec[i]
    BY ZoneNames DEF Slots, Sec
  <2>4. n.sec[i].size \in Nat
    BY <2>3, SecFacts
  <2> QED BY <2>2, <2>4
<1>4. PhysOf("normal") = PhysSeen(a, c)
      /\ VirtOf("normal") = VirtSeen(a, c)
  <2>1. \A k \in a + 1 .. c : Seen[k] = <<"normal", k - a>>
    BY <1>2
  <2> HIDE DEF c, a, n
  <2> DEFINE z == "normal"
  <2> HIDE DEF z
  <2>2. /\ z \in Zones /\ c = a + zone[z].nr /\ \A k \in a + 1 .. c : Seen[k] = <<z, k - a>>
        /\ \A i \in 1 .. ZONE_MAX_REGION : i > zone[z].nr => zone[z].sec[i].size = 0
    BY <1>1, <1>3, <2>1, ZoneNames DEF z, n
  <2>3. PhysOf(z) = PhysSeen(a, c)
    BY <1>1, <2>2, ZoneUnion
  <2>4. VirtOf(z) = VirtSeen(a, c)
    BY <1>1, <2>2, ZoneUnion
  <2> QED BY <2>3, <2>4 DEF z
<1>5. \A k \in 1 .. EndIo : IsKernel(Seen[k]) => k \in a + 1 .. c
  <2> SUFFICES ASSUME NEW k \in 1 .. EndIo, IsKernel(Seen[k]) PROVE k \in 1 .. EndNormal
    OBVIOUS
  <2>1. Seen[k][1] = "normal"
    BY DEF IsKernel
  <2>2. /\ EndNormal \in Nat /\ EndDma \in Nat /\ EndRes \in Nat /\ EndIo \in Nat
        /\ EndNormal <= EndDma /\ EndDma <= EndRes /\ EndRes <= EndIo
    BY ZoneEnds DEF ZonePart, Typed
  <2>3. /\ k \in EndNormal + 1 .. EndDma => Seen[k][1] = "dma"
        /\ k \in EndDma + 1 .. EndRes => Seen[k][1] = "res"
        /\ k \in EndRes + 1 .. EndIo => Seen[k][1] = "io"
    BY SeenIs DEF ZonePart, Typed
  <2> QED BY <2>1, <2>2, <2>3
<1> HIDE DEF a, c
<1>6. PhysOf("normal") = Parts(Start, Rest, a, c) \cup K
  <2>1. ASSUME NEW k \in a + 1 .. c
        PROVE  Phys(Seen[k]) \subseteq Span(Start[k], Rest[k]) \cup K
               /\ Span(Start[k], Rest[k]) \subseteq Phys(Seen[k])
    <3>1. k \in 1 .. EndIo
      BY <1>2
    <3> QED BY <3>1, StartIs
  <2>2. K \subseteq PhysOf("normal")
    <3>1. CASE \E k \in 1 .. EndIo : IsKernel(Seen[k])
      <4>1. PICK k \in 1 .. EndIo : IsKernel(Seen[k])
        BY <3>1
      <4>2. k \in a + 1 .. c /\ Phys(Seen[k]) = K
        BY <4>1, <1>5, StartIs
      <4> QED BY <4>2, <1>4 DEF PhysSeen, VirtSeen
    <3>2. CASE ~ \E k \in 1 .. EndIo : IsKernel(Seen[k])
      <4>1. KernelSize = 0
        BY <3>2, RestIs, KernelSec
      <4> QED BY <4>1, SpanEmpty, Constants
    <3> QED BY <3>1, <3>2
  <2> HIDE DEF K
  <2>3. \A x : x \in PhysOf("normal") => x \in Parts(Start, Rest, a, c) \cup K
    BY <1>4, <2>1 DEF Parts, PhysSeen
  <2>4. \A x : x \in Parts(Start, Rest, a, c) => x \in PhysOf("normal")
    BY <1>4, <2>1 DEF Parts, PhysSeen
  <2> QED BY <2>2, <2>3, <2>4
<1>7. VirtOf("normal") = Laid(kernel_start + KernelSize, Rest, a, c)
                           \cup Span(kernel_start, KernelSize)
  <2> DEFINE V == Span(kernel_start, KernelSize)
             S(k) == Span(kernel_start + KernelSize + Total(Rest, k - 1), Rest[k])
  <2>1. ASSUME NEW k \in a + 1 .. c
        PROVE  Virt(Seen[k]) \subseteq S(k) \cup V /\ S(k) \subseteq Virt(Seen[k]) \cup V
    <3>1. k \in 1 .. EndIo
      BY <1>2
    <3>2. CASE ~IsKernel(Seen[k])
      BY <3>1, <3>2, VirtIs
    <3>3. CASE IsKernel(Seen[k])
      <4>1. Virt(Seen[k]) = V
        BY <3>1, <3>3, VirtIs
      <4>2. Rest[k] = 0
        BY <3>1, <3>3, RestIs
      <4>3. kernel_start + KernelSize + Total(Rest, k - 1) \in Int
        BY <3>1, VirtIs, KernelSec, AlignedConstants
      <4>4. S(k) = {}
        BY <4>2, <4>3, SpanEmpty
      <4> QED BY <4>1, <4>4
    <3> QED BY <3>2, <3>3
  <2>2. V \subseteq VirtOf("normal")
    <3>1. CASE \E k \in 1 .. EndIo : IsKernel(Seen[k])
      <4>1. PICK k \in 1 .. EndIo : IsKernel(Seen[k])
        BY <3>1
      <4>2. k \in a + 1 .. c /\ Virt(Seen[k]) = V
        BY <4>1, <1>5, VirtIs
      <4> QED BY <4>2, <1>4 DEF PhysSeen, VirtSeen
    <3>2. CASE ~ \E k \in 1 .. EndIo : IsKernel(Seen[k])
      <4>1. KernelSize = 0
        BY <3>2, RestIs, KernelSec
      <4> QED BY <4>1, SpanEmpty, AlignedConstants
    <3> QED BY <3>1, <3>2
  <2> DEFINE L == Laid(kernel_start + KernelSize, Rest, a, c)
  <2>3. L = UNION {S(k) : k \in a + 1 .. c}
    BY DEF Laid
  <2> HIDE DEF V, S, L
  <2>4. \A x : x \in VirtOf("normal") => x \in L \cup V
    BY <1>4, <2>1, <2>3 DEF VirtSeen
  <2>5. \A x : x \in L => x \in VirtOf("normal") \cup V
    BY <1>4, <2>1, <2>3 DEF VirtSeen
  <2>6. VirtOf("normal") = L \cup V
    BY <2>2, <2>4, <2>5
  <2> QED BY <2>6 DEF L, V
<1>8. a = 0 /\ a \in 0 .. EndIo /\ c \in a .. EndIo
  BY <1>1 DEF a
<1>9. /\ IsFiniteSet(Parts(Start, Rest, a, c))
      /\ Cardinality(Parts(Start, Rest, a, c)) = Total(Rest, c) - Total(Rest, a)
      /\ Parts(Start, Rest, a, c) \cap K = {}
      /\ Total(Rest, c) \in Nat
  BY <1>8, CountParts
<1>10. Total(Rest, a) = 0
  BY <1>8, TotalStep
<1>11. KernelSize \in Nat /\ IsFiniteSet(K) /\ Cardinality(K) = KernelSize
  BY KernelSec, SpanCount, Constants
<1>12. n.pages = KernelSize + Total(Rest, c)
  <2> HIDE DEF K, n
  <2>1. /\ Cardinality(Parts(Start, Rest, a, c) \cup K)
            = Cardinality(Parts(Start, Rest, a, c)) + Cardinality(K)
              - Cardinality(Parts(Start, Rest, a, c) \cap K)
    BY <1>9, <1>11, FS_Union
  <2>2. Cardinality(Parts(Start, Rest, a, c) \cap K) = 0
    BY <1>9, FS_EmptySet
  <2>3. n.pages = Cardinality(PhysOf("normal"))
    BY ZoneNames DEF ZonePart, n
  <2>4. Cardinality(Parts(Start, Rest, a, c)) = Total(Rest, c)
    BY <1>9, <1>10
  <2>5. n.pages = Cardinality(Parts(Start, Rest, a, c) \cup K)
    BY <1>6, <2>3
  <2> QED BY <1>9, <1>11, <2>1, <2>2, <2>4, <2>5
<1>13. Laid(kernel_start + KernelSize, Rest, a, c)
         = Span(kernel_start + KernelSize + Total(Rest, a), Total(Rest, c) - Total(Rest, a))
  BY <1>8, TilesRest
<1>14. Span(kernel_start + KernelSize + 0, Total(Rest, c) - 0) \cup Span(kernel_start, KernelSize)
         = Span(kernel_start, KernelSize + Total(Rest, c))
  <2> DEFINE x == kernel_start
             y == KernelSize
             t == Total(Rest, c)
  <2>1. x \in Nat /\ y \in Nat /\ t \in Nat
    BY <1>9, <1>11, AlignedConstants
  <2> HIDE DEF x, y, t
  <2>2. Span(x + y + 0, t - 0) \cup Span(x, y) = Span(x, y + t)
    BY <2>1 DEF Span
  <2> QED BY <2>2 DEF x, y, t
<1> QED BY <1>7, <1>10, <1>12, <1>13, <1>14 DEF c

DmaFilled == \E i \in 1 .. zone["dma"].nr : zone["dma"].sec[i].size > 0

\* Where a filled section lies.
LEMMA PlaceOf ==
  ASSUME ZonePart, Placed, NEW k \in 1 .. EndIo, Filled(Seen[k])
  PROVE  /\ Sec(Seen[k]).vir \in Nat /\ Sec(Seen[k]).size \in Nat /\ Sec(Seen[k]).size > 0
         /\ IsKernel(Seen[k]) => /\ Sec(Seen[k]).vir = kernel_start
                                 /\ Sec(Seen[k]).size = KernelSize
         /\ ~IsKernel(Seen[k]) =>
              /\ Sec(Seen[k]).vir = kernel_start + KernelSize + Total(Rest, k - 1)
              /\ Sec(Seen[k]).vir + Sec(Seen[k]).size
                   = kernel_start + KernelSize + Total(Rest, k)
              /\ Rest[k] > 0
         /\ Aligned(Sec(Seen[k]).vir) /\ Sec(Seen[k]).vir >= kernel_start
         /\ Sec(Seen[k]).vir + Sec(Seen[k]).size <= kernel_start + KernelSize + Total(Rest, k)
         /\ Sec(Seen[k]).vir + Sec(Seen[k]).size <= kernel_start + MaxPage
<1> DEFINE s == Sec(Seen[k])
           t == Total(Rest, k - 1)
           u == Total(Rest, k)
<1>1. /\ Seen[k] \in Slots /\ s.size > 0
      /\ t \in Nat /\ u \in Nat /\ Rest[k] \in Nat /\ u = t + Rest[k]
      /\ k - 1 \in 0 .. EndIo
  BY VirtIs
<1>2. s.vir \in Nat /\ s.size \in Nat
  BY <1>1, SecFacts
<1>3. KernelSize \in Nat /\ Aligned(KernelSize) /\ kernel_start \in Nat /\ Aligned(kernel_start)
  BY KernelSec, AlignedConstants
<1>4. KernelSize + u <= MaxPage
  <2>1. k \in 0 .. EndIo
    BY RestIs
  <2> QED BY <2>1, TotalBound
<1>5. CASE IsKernel(Seen[k])
  <2>1. s.vir = kernel_start
    BY <1>5, VirtIs
  <2>2. s.size = KernelSize
    BY <1>5, KernelSec, RestIs
  <2> HIDE DEF s, t, u
  <2>3. s.vir + s.size <= kernel_start + KernelSize + u /\ s.vir + s.size <= kernel_start + MaxPage
    BY <1>1, <1>3, <1>4, <2>1, <2>2, AlignedConstants
  <2>4. s.vir >= kernel_start
    BY <1>3, <2>1
  <2> QED BY <1>1, <1>2, <1>3, <1>5, <2>1, <2>2, <2>3, <2>4 DEF s, u
<1>6. CASE ~IsKernel(Seen[k])
  <2>1. s.vir = kernel_start + KernelSize + t
    BY <1>6, VirtIs
  <2>2. s.size = Rest[k]
    BY <1>6, RestIs
  <2>3. Aligned(t)
    BY <1>1, RestIs, TotalAligned
  <2> HIDE DEF s, t, u
  <2>4. Aligned(kernel_start + KernelSize)
    BY <1>3, AlignedSum
  <2>5. Aligned(kernel_start + KernelSize + t)
    BY <2>3, <2>4, AlignedSum
  <2>6. /\ s.vir + s.size = kernel_start + KernelSize + u
        /\ s.vir + s.size <= kernel_start + MaxPage /\ s.vir >= kernel_start /\ Rest[k] > 0
        /\ s.vir + s.size <= kernel_start + KernelSize + u
    BY <1>1, <1>2, <1>3, <1>4, <2>1, <2>2, AlignedConstants
  <2> QED BY <1>1, <1>2, <1>3, <1>6, <2>1, <2>5, <2>6 DEF s, t, u
<1> QED BY <1>5, <1>6

LEMMA RestMonotone ==
  ASSUME ZonePart, NEW j \in 0 .. EndIo, NEW k \in j .. EndIo
  PROVE  Total(Rest, j) \in Nat /\ Total(Rest, k) \in Nat /\ Total(Rest, j) <= Total(Rest, k)
BY CountParts

\* Filled sections do not overlap.
LEMMA PlacesApart ==
  ASSUME ZonePart, Placed, NEW j \in 1 .. EndIo, NEW k \in 1 .. EndIo, j < k,
         Filled(Seen[j]), Filled(Seen[k])
  PROVE  Virt(Seen[j]) \cap Virt(Seen[k]) = {}
<1> DEFINE s == Sec(Seen[j])
           r == Sec(Seen[k])
<1>1. /\ s.vir \in Nat /\ s.size \in Nat /\ r.vir \in Nat /\ r.size \in Nat
      /\ Virt(Seen[j]) = Span(s.vir, s.size) /\ Virt(Seen[k]) = Span(r.vir, r.size)
  BY PlaceOf DEF Virt
<1>2. /\ IsKernel(Seen[j]) => s.vir = kernel_start /\ s.size = KernelSize
      /\ ~IsKernel(Seen[j]) => /\ s.vir = kernel_start + KernelSize + Total(Rest, j - 1)
                               /\ s.vir + s.size = kernel_start + KernelSize + Total(Rest, j)
      /\ IsKernel(Seen[k]) => r.vir = kernel_start /\ r.size = KernelSize
      /\ ~IsKernel(Seen[k]) => r.vir = kernel_start + KernelSize + Total(Rest, k - 1)
  BY PlaceOf
<1>3. KernelSize \in Nat /\ kernel_start \in Nat
  BY KernelSec, AlignedConstants
<1>4. /\ Total(Rest, j - 1) \in Nat /\ Total(Rest, k - 1) \in Nat /\ Total(Rest, j) \in Nat
      /\ Total(Rest, j) <= Total(Rest, k - 1)
  <2>1. j \in 0 .. EndIo /\ k - 1 \in j .. EndIo
    BY RestIs
  <2> QED BY <2>1, VirtIs, RestMonotone
<1>5. ~(IsKernel(Seen[j]) /\ IsKernel(Seen[k]))
  <2>1. Seen[j] # Seen[k] /\ Seen[j] \in Slots /\ Seen[k] \in Slots
    BY SeenOnce, RestIs DEF ZonePart, Typed
  <2> QED BY <2>1, KernelSec
<1> DEFINE x == Total(Rest, j - 1)
           y == Total(Rest, k - 1)
           t == Total(Rest, j)
<1> HIDE DEF s, r, x, y, t
<1>6. s.vir + s.size <= r.vir \/ r.vir + r.size <= s.vir
  BY <1>1, <1>2, <1>3, <1>4, <1>5 DEF x, y, t
<1>7. Span(s.vir, s.size) \cap Span(r.vir, r.size) = {}
  BY <1>1, <1>6, SpansApart
<1> QED BY <1>1, <1>7

LEMMA DmaAt ==
  ASSUME ZonePart, DmaFilled
  PROVE  \E m \in EndNormal + 1 .. EndIo : m \in 1 .. EndIo /\ Rest[m] > 0 /\ Filled(Seen[m])
<1>1. PICK i \in 1 .. zone["dma"].nr : zone["dma"].sec[i].size > 0
  BY DEF DmaFilled
<1> DEFINE m == EndNormal + i
<1>2. Typed
  BY DEF Typed, ZonePart
<1>3. /\ m \in EndNormal + 1 .. EndDma /\ m - EndNormal = i
      /\ m \in EndNormal + 1 .. EndIo /\ m \in 1 .. EndIo
  <2>1. zone["dma"].nr \in Nat
    BY <1>2, ZoneEnds, ZoneNames
  <2> QED BY <1>2, <2>1, ZoneEnds DEF EndDma
<1> HIDE DEF m
<1>4. Seen[m] = <<"dma", i>>
  BY <1>2, <1>3, SeenIs
<1>5. ~IsKernel(Seen[m]) /\ Sec(Seen[m]) = zone["dma"].sec[i]
  BY <1>4 DEF IsKernel, Sec
<1>6. Rest[m] > 0
  BY <1>1, <1>3, <1>5, RestIs
<1>7. Filled(Seen[m])
  BY <1>1, <1>2, <1>3, <1>5, SeenOnce, RestIs DEF Filled
<1> QED BY <1>3, <1>6, <1>7

\* Before the last filled section the addresses do not end.
LEMMA PlacesEnd ==
  ASSUME ZonePart, Placed, DmaFilled, NEW j \in 1 .. EndIo, NEW k \in 1 .. EndIo, j < k,
         Filled(Seen[j]), Filled(Seen[k])
  PROVE  Sec(Seen[j]).vir + Sec(Seen[j]).size < kernel_start + MaxPage
<1>1. PICK m \in 1 .. EndIo : j < m /\ Rest[m] > 0
  <2>1. CASE ~IsKernel(Seen[k])
    BY <2>1, PlaceOf
  <2>2. CASE IsKernel(Seen[k])
    <3>1. PICK m \in EndNormal + 1 .. EndIo : m \in 1 .. EndIo /\ Rest[m] > 0
      BY DmaAt
    <3>2. k <= EndNormal
      <4>1. /\ EndNormal \in Nat /\ EndDma \in Nat /\ EndRes \in Nat /\ EndIo \in Nat
            /\ EndNormal <= EndDma /\ EndDma <= EndRes /\ EndRes <= EndIo
        BY ZoneEnds DEF ZonePart, Typed
      <4>2. /\ k \in EndNormal + 1 .. EndDma => Seen[k][1] = "dma"
            /\ k \in EndDma + 1 .. EndRes => Seen[k][1] = "res"
            /\ k \in EndRes + 1 .. EndIo => Seen[k][1] = "io"
        BY SeenIs DEF ZonePart, Typed
      <4>3. Seen[k][1] = "normal"
        BY <2>2 DEF IsKernel
      <4> QED BY <4>1, <4>2, <4>3
    <3>3. EndNormal \in Nat
      BY ZoneEnds DEF ZonePart, Typed
    <3> QED BY <3>1, <3>2, <3>3
  <2> QED BY <2>1, <2>2
<1>2. Sec(Seen[j]).vir + Sec(Seen[j]).size <= kernel_start + KernelSize + Total(Rest, j)
      /\ Sec(Seen[j]).vir \in Nat /\ Sec(Seen[j]).size \in Nat
  BY PlaceOf
<1>3. /\ Total(Rest, j) \in Nat /\ Total(Rest, m - 1) \in Nat /\ Total(Rest, m) \in Nat
      /\ Total(Rest, m) = Total(Rest, m - 1) + Rest[m] /\ Rest[m] \in Nat
      /\ Total(Rest, j) <= Total(Rest, m - 1)
  <2>1. j \in 0 .. EndIo /\ m - 1 \in j .. EndIo
    BY <1>1, RestIs
  <2> QED BY <2>1, VirtIs, RestMonotone
<1>4. KernelSize + Total(Rest, m) <= MaxPage
  <2>1. m \in 0 .. EndIo
    BY RestIs
  <2> QED BY <2>1, TotalBound
<1>5. KernelSize \in Nat /\ kernel_start \in Nat /\ MaxPage \in Nat
  BY KernelSec, AlignedConstants
<1> QED BY <1>1, <1>2, <1>3, <1>4, <1>5

\* Some section lies at kernel_start.
LEMMA PlacedFirst ==
  ASSUME ZonePart, Placed, DmaFilled
  PROVE  \E q \in Slots : Filled(q) /\ Sec(q).vir = kernel_start
<1>1. CASE \E k \in 1 .. EndIo : IsKernel(Seen[k])
  BY <1>1, VirtIs
<1>2. CASE ~ \E k \in 1 .. EndIo : IsKernel(Seen[k])
  <2>1. KernelSize = 0
    BY <1>2, KernelSec, RestIs
  <2> DEFINE T == {k \in 1 .. EndIo : Rest[k] > 0}
  <2>2. T \in SUBSET Nat /\ T # {}
    BY DmaAt
  <2>3. PICK k \in T : \A y \in T : k <= y
    <3> HIDE DEF T
    <3> QED BY <2>2, LeastOf
  <2>4. k \in 1 .. EndIo /\ Rest[k] > 0 /\ ~IsKernel(Seen[k]) /\ EndIo \in Nat
        /\ Rest \in [1 .. EndIo -> Nat]
    BY <2>3, <1>2, RestIs
  <2>5. \A j \in 0 .. k - 1 : Total(Rest, j) = 0
    <3> DEFINE B == {j \in 0 .. k - 1 : Total(Rest, j) # 0}
    <3> SUFFICES ASSUME B # {} PROVE FALSE
      OBVIOUS
    <3>1. PICK j \in B : \A y \in B : j <= y
      <4>1. B \in SUBSET Nat
        OBVIOUS
      <4> HIDE DEF B
      <4> QED BY <4>1, LeastOf
    <3>2. j # 0
      BY <3>1, TotalStep
    <3>3. j \in 1 .. EndIo /\ j - 1 \in 0 .. k - 1 /\ j - 1 \notin B /\ j < k
      BY <2>4, <3>1, <3>2
    <3>4. Total(Rest, j) = Total(Rest, j - 1) + Rest[j] /\ Rest[j] \in Nat
      BY <3>3, VirtIs
    <3>5. Rest[j] = 0
      <4>1. ~(Rest[j] > 0)
        BY <2>3, <2>4, <3>3
      <4> QED BY <3>4, <4>1
    <3> QED BY <3>1, <3>3, <3>4, <3>5
  <2>6. k - 1 \in 0 .. k - 1
    BY <2>4
  <2>7. Filled(Seen[k]) /\ Seen[k] \in Slots
    BY <2>4, RestIs, VirtIs
  <2>8. Sec(Seen[k]).vir = kernel_start + KernelSize + Total(Rest, k - 1)
    BY <2>4, <2>7, VirtIs
  <2>9. Sec(Seen[k]).vir = kernel_start
    BY <2>1, <2>5, <2>6, <2>8, AlignedConstants
  <2> QED BY <2>7, <2>9
<1> QED BY <1>1, <1>2

LEMMA PlacedVir ==
  ZonePart /\ KernelPart /\ DmaFilled /\ Placed => VirPart
<1> SUFFICES ASSUME ZonePart, KernelPart, DmaFilled, Placed PROVE VirPart
  OBVIOUS
<1>1. Typed
  BY DEF Typed, ZonePart
<1>2. /\ EndIo \in Nat /\ DOMAIN Seen = 1 .. EndIo
      /\ \A q \in Slots : IsSeen(q) => \E k \in 1 .. EndIo : Seen[k] = q
  BY <1>1, RestIs, SeenOnce
<1>3. \A q \in Slots : Filled(q) => \E k \in 1 .. EndIo : Seen[k] = q
  BY <1>2 DEF Filled
<1>4. \A q \in Slots : Filled(q) =>
        /\ Aligned(Sec(q).vir) /\ Sec(q).vir >= kernel_start
        /\ Sec(q).vir + Sec(q).size <= kernel_start + MaxPage
  BY <1>3, PlaceOf
<1>5. ASSUME NEW p \in Slots, NEW q \in Slots, Filled(p), Filled(q), p # q
      PROVE  Virt(p) \cap Virt(q) = {}
  <2>1. PICK j \in 1 .. EndIo : Seen[j] = p
    BY <1>3, <1>5
  <2>2. PICK k \in 1 .. EndIo : Seen[k] = q
    BY <1>3, <1>5
  <2>3. j < k \/ k < j
    BY <1>2, <1>5, <2>1, <2>2
  <2> QED BY <1>5, <2>1, <2>2, <2>3, PlacesApart
<1>6. \E q \in Slots : Filled(q) /\ Sec(q).vir = kernel_start
  BY PlacedFirst
<1>7. \A j, k \in DOMAIN Seen : j < k /\ Filled(Seen[j]) /\ Filled(Seen[k]) =>
        Sec(Seen[j]).vir + Sec(Seen[j]).size < kernel_start + MaxPage
  BY <1>2, PlacesEnd
<1>8. ASSUME ~Hidden
      PROVE  /\ VirtOf("normal") = Span(kernel_start, zone["normal"].pages)
             /\ VirtOf("dma") = Span(kernel_start + zone["normal"].pages, zone["dma"].pages)
             /\ VirtOf("res") = Span(kernel_start + zone["normal"].pages + zone["dma"].pages,
                                     zone["res"].pages)
  <2>1. /\ zone["normal"].pages = KernelSize + Total(Rest, EndNormal)
        /\ VirtOf("normal") = Span(kernel_start, zone["normal"].pages)
    BY <1>8, NormalTiles
  <2>2. /\ EndNormal \in 0 .. EndIo /\ EndDma \in EndNormal .. EndIo
        /\ EndDma \in 0 .. EndIo /\ EndRes \in EndDma .. EndIo
        /\ EndDma = EndNormal + zone["dma"].nr /\ EndRes = EndDma + zone["res"].nr
    BY <1>1, ZoneEnds DEF EndDma, EndRes
  <2>3. /\ \A k \in EndNormal + 1 .. EndDma : Seen[k] = <<"dma", k - EndNormal>>
        /\ \A k \in EndDma + 1 .. EndRes : Seen[k] = <<"res", k - EndDma>>
    BY <1>1, SeenIs
  <2>4. /\ zone["dma"].pages = Total(Rest, EndDma) - Total(Rest, EndNormal)
        /\ VirtOf("dma") = Span(kernel_start + KernelSize + Total(Rest, EndNormal),
                                zone["dma"].pages)
    BY <2>2, <2>3, ZoneTiles, ZoneNames
  <2>5. /\ zone["res"].pages = Total(Rest, EndRes) - Total(Rest, EndDma)
        /\ VirtOf("res") = Span(kernel_start + KernelSize + Total(Rest, EndDma),
                                zone["res"].pages)
    BY <2>2, <2>3, ZoneTiles, ZoneNames
  <2>6. /\ Total(Rest, EndNormal) \in Nat /\ Total(Rest, EndDma) \in Nat
        /\ KernelSize \in Nat /\ kernel_start \in Nat
    BY <2>2, RestMonotone, KernelSec, AlignedConstants
  <2>7. /\ kernel_start + KernelSize + Total(Rest, EndNormal) = kernel_start + zone["normal"].pages
        /\ kernel_start + KernelSize + Total(Rest, EndDma)
             = kernel_start + zone["normal"].pages + zone["dma"].pages
    BY <2>1, <2>4, <2>6
  <2> QED BY <2>1, <2>4, <2>5, <2>7
<1>9. ASSUME KernelLeads PROVE Sec(<<"normal", 1>>).vir = kernel_start
  <2> DEFINE q == <<"normal", 1>>
  <2>1. /\ zone["normal"].nr >= 1 /\ Sec(q).phy = KernelPhys
    BY <1>9 DEF KernelPart
  <2>2. q \in Slots /\ IsSeen(q) /\ IsKernel(q)
    BY <2>1, ZoneNames, Constants DEF Slots, IsSeen, IsKernel
  <2> HIDE DEF q
  <2>3. PICK k \in 1 .. EndIo : Seen[k] = q
    BY <1>2, <2>2
  <2>4. Sec(Seen[k]).vir = kernel_start
    BY <2>2, <2>3, VirtIs
  <2> QED BY <2>3, <2>4 DEF q
<1>10. \A q \in Slots : ~Filled(q) => Sec(q).vir = 0
  BY DEF Placed
<1> QED BY <1>4, <1>5, <1>6, <1>7, <1>8, <1>9, <1>10 DEF VirPart

\* map_zone_memory changes addresses only.
LEMMA MapZoneSections ==
  ASSUME ZonePart, \A q \in Slots : Sec(q).vir = 0, map_zone_memory
  PROVE  /\ Typed' /\ Seen' = Seen
         /\ \A z \in Zones : zone'[z].nr = zone[z].nr /\ zone'[z].pages = zone[z].pages
         /\ \A q \in Slots :
              /\ Sec(q)'.phy = Sec(q).phy /\ Sec(q)'.size = Sec(q).size /\ Sec(q)' \in SectionSet
              /\ Filled(q)' = Filled(q) /\ IsSeen(q)' = IsSeen(q) /\ IsKernel(q)' = IsKernel(q)
              /\ ~Filled(q) => Sec(q)' = Sec(q)
         /\ \A k \in DOMAIN Seen : Filled(Seen[k]) => Sec(Seen[k])'.vir = VirOf(k)
<1> DEFINE At(z, i) == VirOf(CHOOSE k \in DOMAIN Seen : Seen[k] = <<z, i>>)
           New(z, i) == IF i <= zone[z].nr /\ zone[z].sec[i].size > 0
                        THEN [zone[z].sec[i] EXCEPT !.vir = At(z, i)] ELSE zone[z].sec[i]
           S(z) == [i \in 1 .. ZONE_MAX_REGION |-> New(z, i)]
<1>1. Typed /\ zone \in [Zones -> ZoneSet]
  BY DEF Typed, ZonePart
<1>2. \A z \in Zones : /\ zone[z] \in ZoneSet
                       /\ zone[z].sec \in [1 .. ZONE_MAX_REGION -> SectionSet]
  BY <1>1 DEF ZoneSet
<1>3. zone' = [z \in Zones |-> [zone[z] EXCEPT !.sec = S(z)]]
  <2>1. \A z \in Zones : DOMAIN zone[z].sec = 1 .. ZONE_MAX_REGION
    BY <1>2
  <2>2. zone' = [z \in Zones |->
                [zone[z] EXCEPT !.sec =
                   [i \in DOMAIN zone[z].sec |->
                      IF i <= zone[z].nr /\ zone[z].sec[i].size > 0
                      THEN [zone[z].sec[i] EXCEPT !.vir =
                              VirOf(CHOOSE k \in DOMAIN Seen : Seen[k] = <<z, i>>)]
                      ELSE zone[z].sec[i]]]]
    BY DEF map_zone_memory
  <2> QED BY <2>1, <2>2
<1>4. ASSUME NEW z \in Zones, NEW i \in 1 .. ZONE_MAX_REGION, i <= zone[z].nr,
             NEW k \in DOMAIN Seen, Seen[k] = <<z, i>>
      PROVE  At(z, i) = VirOf(k)
  <2> DEFINE m == CHOOSE j \in DOMAIN Seen : Seen[j] = <<z, i>>
  <2>1. m \in DOMAIN Seen /\ Seen[m] = <<z, i>>
    BY <1>4
  <2>2. At(z, i) = VirOf(m)
    OBVIOUS
  <2> HIDE DEF m
  <2>3. m = k
    BY <1>1, <1>4, <2>1, SeenOnce
  <2> QED BY <2>2, <2>3
<1> HIDE DEF At
<1>5. ASSUME NEW q \in Slots, Filled(q)
      PROVE  At(q[1], q[2]) \in Nat /\ \A k \in DOMAIN Seen : Seen[k] = q => At(q[1], q[2]) = VirOf(k)
  <2>1. /\ q[1] \in Zones /\ q[2] \in 1 .. ZONE_MAX_REGION /\ q = <<q[1], q[2]>>
        /\ q[2] <= zone[q[1]].nr
    BY <1>5, SlotFacts DEF Filled, IsSeen
  <2>2. PICK k \in DOMAIN Seen : Seen[k] = q
    BY <1>1, <1>5, SeenOnce DEF Filled
  <2>3. \A j \in DOMAIN Seen : Seen[j] = q => At(q[1], q[2]) = VirOf(j)
    BY <1>4, <2>1
  <2>4. VirOf(k) \in Nat
    <3>1. k \in 1 .. EndIo /\ k - 1 \in 0 .. EndIo
      BY RestIs
    <3>2. Total(Rest, k - 1) \in Nat
      BY <3>1, TotalBound
    <3> QED BY <3>2, KernelSec, AlignedConstants DEF VirOf
  <2> QED BY <2>2, <2>3, <2>4
<1>6. ASSUME NEW z \in Zones, NEW i \in 1 .. ZONE_MAX_REGION
      PROVE  /\ New(z, i) \in SectionSet
             /\ New(z, i).phy = zone[z].sec[i].phy /\ New(z, i).size = zone[z].sec[i].size
             /\ Filled(<<z, i>>) => New(z, i).vir = At(z, i)
             /\ ~Filled(<<z, i>>) => New(z, i) = zone[z].sec[i]
  <2> DEFINE q == <<z, i>>
             s == zone[z].sec[i]
  <2>1. q \in Slots /\ Sec(q) = s /\ q[1] = z /\ q[2] = i
    BY DEF Slots, Sec
  <2>2. Filled(q) <=> i <= zone[z].nr /\ s.size > 0
    BY <2>1 DEF Filled, IsSeen
  <2>3. s \in SectionSet
    BY <2>1 DEF ZonePart, SectionOK
  <2>4. Filled(q) => At(z, i) \in Nat
    BY <1>5, <2>1
  <2>5. New(z, i) = IF Filled(q) THEN [s EXCEPT !.vir = At(z, i)] ELSE s
    BY <2>2
  <2> HIDE DEF q, s, New
  <2>6. /\ New(z, i) \in SectionSet
        /\ New(z, i).phy = s.phy /\ New(z, i).size = s.size
        /\ Filled(q) => New(z, i).vir = At(z, i)
        /\ ~Filled(q) => New(z, i) = s
    BY <2>3, <2>4, <2>5 DEF SectionSet
  <2> QED BY <2>6 DEF q, s
<1> HIDE DEF New
<1>7. \A z \in Zones : S(z) \in [1 .. ZONE_MAX_REGION -> SectionSet]
  BY <1>6
<1> HIDE DEF S
<1>8. ASSUME NEW z \in Zones
      PROVE  /\ zone'[z] \in ZoneSet /\ zone'[z].nr = zone[z].nr /\ zone'[z].pages = zone[z].pages
             /\ zone'[z].sec = S(z)
  <2>1. zone'[z] = [zone[z] EXCEPT !.sec = S(z)]
    BY <1>3
  <2> QED BY <1>2, <1>7, <2>1 DEF ZoneSet
<1>9. Typed'
  <2>1. zone' = [z \in Zones |-> zone'[z]]
    BY <1>3, SMTT(30)
  <2> QED BY <1>8, <2>1 DEF Typed
<1>10. Seen' = Seen
  BY <1>8, ZoneNames, Zenon DEF Seen, SeenOf
<1>11. ASSUME NEW q \in Slots
       PROVE  /\ Sec(q)'.phy = Sec(q).phy /\ Sec(q)'.size = Sec(q).size /\ Sec(q)' \in SectionSet
              /\ Filled(q)' = Filled(q) /\ IsSeen(q)' = IsSeen(q) /\ IsKernel(q)' = IsKernel(q)
              /\ ~Filled(q) => Sec(q)' = Sec(q)
              /\ Filled(q) => Sec(q)'.vir = At(q[1], q[2])
  <2>1. q[1] \in Zones /\ q[2] \in 1 .. ZONE_MAX_REGION /\ q = <<q[1], q[2]>>
    BY SlotFacts
  <2>2. Sec(q)' = New(q[1], q[2]) /\ Sec(q) = zone[q[1]].sec[q[2]]
    BY <1>8, <2>1 DEF Sec, S
  <2>3. IsSeen(q)' = IsSeen(q)
    BY <1>8, <2>1 DEF IsSeen, Slots
  <2>4. /\ Sec(q)'.phy = Sec(q).phy /\ Sec(q)'.size = Sec(q).size /\ Sec(q)' \in SectionSet
        /\ ~Filled(q) => Sec(q)' = Sec(q)
        /\ Filled(q) => Sec(q)'.vir = At(q[1], q[2])
    BY <1>6, <2>1, <2>2
  <2>5. Filled(q)' = Filled(q)
    BY <2>3, <2>4 DEF Filled
  <2>6. IsKernel(q)' = IsKernel(q)
    BY <2>4 DEF IsKernel
  <2> QED BY <2>3, <2>4, <2>5, <2>6
<1>12. ASSUME NEW k \in DOMAIN Seen, Filled(Seen[k])
       PROVE  Sec(Seen[k])'.vir = VirOf(k)
  <2>1. Seen[k] \in Slots
    BY <1>1, SeenOnce
  <2>2. Sec(Seen[k])' = zone'[Seen[k][1]].sec[Seen[k][2]]
    BY <1>10 DEF Sec
  <2> DEFINE q == Seen[k]
  <2>3. \A x \in Slots : Filled(x) => zone'[x[1]].sec[x[2]].vir = At(x[1], x[2])
    BY <1>11 DEF Sec
  <2>4. At(q[1], q[2]) = VirOf(k)
    BY <1>5, <1>12, <2>1
  <2> QED BY <1>12, <2>1, <2>2, <2>3, <2>4
<1> QED BY <1>8, <1>9, <1>10, <1>11, <1>12

LEMMA KernelSizeIs ==
  ZonePart => /\ \A k \in DOMAIN Seen : IsKernel(Seen[k]) => KernelSize = Sec(Seen[k]).size
              /\ (\A k \in DOMAIN Seen : ~IsKernel(Seen[k])) => KernelSize = 0
BY KernelSec

LEMMA MapZoneInv ==
  ASSUME LInv, map_zone_memory
  PROVE  LInv'
<1>1. /\ step = "vmap" /\ step' = "map" /\ tlb' = tlb /\ vectors' = vectors
      /\ table' = table /\ regions' = regions /\ total' = total
  BY DEF map_zone_memory
<1>2. /\ ParsePart /\ tlb = Boot /\ ZonePart /\ MemoryPart /\ KernelPhys < MaxPage
      /\ KernelPart /\ DmaFilled /\ \A q \in Slots : Sec(q).vir = 0
  BY <1>1 DEF LInv, DmaFilled
<1>3. /\ Typed' /\ Seen' = Seen
      /\ \A z \in Zones : zone'[z].nr = zone[z].nr /\ zone'[z].pages = zone[z].pages
      /\ \A q \in Slots :
           /\ Sec(q)'.phy = Sec(q).phy /\ Sec(q)'.size = Sec(q).size /\ Sec(q)' \in SectionSet
           /\ Filled(q)' = Filled(q) /\ IsSeen(q)' = IsSeen(q) /\ IsKernel(q)' = IsKernel(q)
           /\ ~Filled(q) => Sec(q)' = Sec(q)
      /\ \A k \in DOMAIN Seen : Filled(Seen[k]) => Sec(Seen[k])'.vir = VirOf(k)
  BY <1>2, MapZoneSections
<1>4. \A q \in Slots : Phys(q)' = Phys(q)
  BY <1>3 DEF Phys
<1>5. \A z \in Zones : PhysOf(z)' = PhysOf(z)
  <2> TAKE z \in Zones
  <2>1. \A i \in 1 .. ZONE_MAX_REGION :
          /\ Phys(<<z, i>>) = Span(zone[z].sec[i].phy, zone[z].sec[i].size)
          /\ Phys(<<z, i>>)' = Span(zone'[z].sec[i].phy, zone'[z].sec[i].size)
          /\ <<z, i>> \in Slots
    BY DEF Phys, Sec, Slots
  <2>2. \A i \in 1 .. ZONE_MAX_REGION :
          Span(zone[z].sec[i].phy, zone[z].sec[i].size)
            = Span(zone'[z].sec[i].phy, zone'[z].sec[i].size)
    BY <1>4, <2>1
  <2> QED BY <2>2 DEF PhysOf, PhysIn
<1>6. ZonePart'
  <2>1. ASSUME NEW q \in Slots PROVE SectionOK(Sec(q)')
    <3> DEFINE s == Sec(q)
               t == Sec(q)'
    <3>1. /\ t.phy = s.phy /\ t.size = s.size /\ t \in SectionSet
          /\ ~Filled(q) => t = s
      BY <1>3
    <3>2. SectionOK(s)
      BY <1>2 DEF ZonePart
    <3>3. Filled(q) => s.size > 0
      BY DEF Filled
    <3> HIDE DEF s, t
    <3>4. SectionOK(t)
      BY <3>1, <3>2, <3>3 DEF SectionOK
    <3> QED BY <3>4 DEF t
  <2>2. \A z \in Zones : zone'[z].pages = Cardinality(PhysOf(z)')
    BY <1>2, <1>3, <1>5 DEF ZonePart
  <2>3. \A p, q \in Slots : p # q => Phys(p)' \cap Phys(q)' = {}
    BY <1>2, <1>4 DEF ZonePart
  <2>4. ASSUME NEW q \in Slots, ~IsSeen(q)', q[1] # "normal" PROVE Sec(q)' = NoSection
    <3>1. ~IsSeen(q) /\ ~Filled(q)
      BY <1>3, <2>4 DEF Filled
    <3>2. Sec(q) = NoSection
      BY <1>2, <2>4, <3>1 DEF ZonePart
    <3> QED BY <1>3, <3>1, <3>2
  <2>5. zone' \in [Zones -> ZoneSet]
    BY <1>3 DEF Typed
  <2> QED BY <2>1, <2>2, <2>3, <2>4, <2>5 DEF ZonePart, Slots
<1>7. MemoryPart'
  <2>1. Cut' = Cut /\ Dropped' = Dropped /\ \A z : Memory(z)' = Memory(z)
    BY <1>1 DEF Cut, Dropped, Memory
  <2>2. /\ PhysOf("normal")' = PhysOf("normal") /\ PhysOf("dma")' = PhysOf("dma")
        /\ PhysOf("res")' = PhysOf("res")
        /\ zone'["normal"].pages = zone["normal"].pages
        /\ zone'["dma"].pages = zone["dma"].pages /\ zone'["res"].pages = zone["res"].pages
    BY <1>3, <1>5, ZoneNames
  <2>3. \A z \in Zones \ {"dma"} : PhysOf(z)' \subseteq Memory(z)'
    BY <1>2, <1>5, <2>1 DEF MemoryPart
  <2> QED BY <1>1, <1>2, <2>1, <2>2, <2>3 DEF MemoryPart
<1>8. KernelPart'
  <2>1. KernelLeads' = KernelLeads
    BY <1>1 DEF KernelLeads
  <2>2. <<"normal", 1>> \in Slots
    BY ZoneNames, Constants DEF Slots
  <2>3. /\ Sec(<<"normal", 1>>)'.phy = Sec(<<"normal", 1>>).phy
        /\ Sec(<<"normal", 1>>)'.size = Sec(<<"normal", 1>>).size
    BY <1>3, <2>2
  <2>4. zone'["normal"].nr = zone["normal"].nr
    BY <1>3, ZoneNames
  <2> QED BY <1>2, <2>1, <2>3, <2>4 DEF KernelPart
<1>9. DmaFilled'
  <2>1. PICK i \in 1 .. zone["dma"].nr : zone["dma"].sec[i].size > 0
    BY <1>2 DEF DmaFilled
  <2>2. zone["dma"].nr \in 0 .. ZONE_MAX_REGION
    BY <1>2, ZoneEnds, ZoneNames DEF ZonePart, Typed
  <2>3. <<"dma", i>> \in Slots /\ Sec(<<"dma", i>>) = zone["dma"].sec[i]
        /\ Sec(<<"dma", i>>)' = zone'["dma"].sec[i]
    BY <2>2, ZoneNames, Constants DEF Slots, Sec
  <2>4. zone'["dma"].sec[i].size > 0
    BY <1>3, <2>1, <2>3
  <2>5. zone'["dma"].nr = zone["dma"].nr
    BY <1>3, ZoneNames
  <2> QED BY <2>4, <2>5 DEF DmaFilled
<1>10. Placed'
  <2>1. DOMAIN Seen = 1 .. EndIo /\ \A k \in DOMAIN Seen : Seen[k] \in Slots
    BY <1>2, RestIs
  <2>2. ASSUME NEW k \in DOMAIN Seen
        PROVE  /\ IsKernel(Seen[k])' = IsKernel(Seen[k])
               /\ Filled(Seen[k])' = Filled(Seen[k])
               /\ Sec(Seen[k])'.size = Sec(Seen[k]).size
    <3>1. /\ \A q : IsKernel(q)' = (q[1] = "normal" /\ zone'[q[1]].sec[q[2]].phy = KernelPhys)
          /\ IsKernel(Seen[k])' = (Seen[k][1] = "normal"
                                   /\ zone'[Seen[k][1]].sec[Seen[k][2]].phy = KernelPhys)
      BY <1>3 DEF IsKernel, Sec
    <3>2. /\ \A q : Sec(q)' = zone'[q[1]].sec[q[2]]
          /\ Sec(Seen[k])' = zone'[Seen[k][1]].sec[Seen[k][2]]
      BY <1>3 DEF Sec
    <3>3. /\ \A q : Filled(q)' = (/\ q \in Slots /\ q[2] <= zone'[q[1]].nr
                                  /\ zone'[q[1]].sec[q[2]].size > 0)
          /\ Filled(Seen[k])' = (/\ Seen[k] \in Slots /\ Seen[k][2] <= zone'[Seen[k][1]].nr
                                 /\ zone'[Seen[k][1]].sec[Seen[k][2]].size > 0)
      BY <1>3 DEF Filled, IsSeen, Sec, Slots
    <3> DEFINE q == Seen[k]
    <3>4. q \in Slots
      BY <2>1
    <3>5. IsKernel(Seen[k])' = IsKernel(Seen[k])
      <4>1. \A x \in Slots : IsKernel(x) = (x[1] = "normal" /\ zone'[x[1]].sec[x[2]].phy = KernelPhys)
        BY <1>3, <3>1
      <4> QED BY <3>1, <3>4, <4>1
    <3>6. Sec(Seen[k])'.size = Sec(Seen[k]).size
      <4>1. \A x \in Slots : zone'[x[1]].sec[x[2]].size = Sec(x).size
        BY <1>3, <3>2
      <4> QED BY <3>2, <3>4, <4>1
    <3>7. Filled(Seen[k])' = Filled(Seen[k])
      <4>1. \A x \in Slots : Filled(x) = (/\ x \in Slots /\ x[2] <= zone'[x[1]].nr
                                          /\ zone'[x[1]].sec[x[2]].size > 0)
        BY <1>3, <3>3
      <4> QED BY <3>3, <3>4, <4>1
    <3> QED BY <3>5, <3>6, <3>7
  <2>3. Rest' = Rest
    <3>1. Rest' = [k \in DOMAIN Seen |-> IF IsKernel(Seen[k])' THEN 0 ELSE Sec(Seen[k])'.size]
      BY <1>3 DEF Rest
    <3> QED BY <2>2, <3>1 DEF Rest
  <2>4. KernelSize' = KernelSize
    <3>1. /\ \A k \in DOMAIN Seen : IsKernel(Seen[k]) => KernelSize = Sec(Seen[k]).size
          /\ (\A k \in DOMAIN Seen : ~IsKernel(Seen[k])) => KernelSize = 0
      BY <1>2, KernelSizeIs
    <3>2. (/\ \A k \in DOMAIN Seen : IsKernel(Seen[k]) => KernelSize = Sec(Seen[k]).size
           /\ (\A k \in DOMAIN Seen : ~IsKernel(Seen[k])) => KernelSize = 0)'
      BY <1>6, KernelSizeIs, PTL
    <3>3. /\ \A k \in DOMAIN Seen : IsKernel(Seen[k])' => KernelSize' = Sec(Seen[k])'.size
          /\ (\A k \in DOMAIN Seen : ~IsKernel(Seen[k])') => KernelSize' = 0
      BY <1>3, <3>2
    <3> QED BY <2>2, <3>1, <3>3
  <2>5. \A k \in DOMAIN Seen : VirOf(k)' = VirOf(k)
    BY <2>2, <2>3, <2>4 DEF VirOf, kernel_start
  <2>6. \A k \in DOMAIN Seen : Filled(Seen[k])' => Sec(Seen[k])'.vir = VirOf(k)'
    BY <1>3, <2>2, <2>5
  <2>7. \A q \in Slots : ~Filled(q)' => Sec(q)'.vir = 0
    BY <1>2, <1>3
  <2>8. (\A q \in Slots : ~Filled(q) => Sec(q).vir = 0)'
    BY <2>7 DEF Slots
  <2>9. (\A k \in DOMAIN Seen : Filled(Seen[k]) => Sec(Seen[k]).vir = VirOf(k))'
    BY <1>3, <2>6
  <2> QED BY <2>8, <2>9 DEF Placed
<1>11. VirPart'
  BY <1>6, <1>8, <1>9, <1>10, PlacedVir, PTL
<1>12. ParsePart'
  BY <1>1, <1>2 DEF ParsePart, Kept
<1>13. VectorsReachable'
  BY <1>1 DEF VectorsReachable
<1>14. (tlb = Boot)' /\ (KernelPhys < MaxPage)'
  BY <1>1, <1>2 DEF Boot, MaxPage
<1>15. ~Booted'
  BY <1>1 DEF Booted
<1> QED BY <1>1, <1>6, <1>7, <1>8, <1>9, <1>11, <1>12, <1>13, <1>14, <1>15
        DEF LInv, Steps, DmaFilled

-----------------------------------------------------------------------------
(* The table *)

\* Steps that leave the sections alone.
SameBank ==
  /\ Typed'
  /\ \A z \in Zones : /\ zone'[z].sec = zone[z].sec /\ zone'[z].nr = zone[z].nr
                      /\ zone'[z].pages = zone[z].pages
  /\ UNCHANGED <<table, regions, total>>

LEMMA SameSections ==
  ASSUME SameBank, Typed
  PROVE  /\ Seen' = Seen
         /\ \A q \in Slots : /\ Sec(q)' = Sec(q) /\ Phys(q)' = Phys(q) /\ Virt(q)' = Virt(q)
                             /\ IsSeen(q)' = IsSeen(q) /\ Filled(q)' = Filled(q)
         /\ \A k \in DOMAIN Seen : Seen[k] \in Slots /\ Sec(Seen[k])' = Sec(Seen[k])
         /\ \A z \in Zones : PhysOf(z)' = PhysOf(z) /\ VirtOf(z)' = VirtOf(z)
<1>1. \A z \in Zones : /\ zone'[z].sec = zone[z].sec /\ zone'[z].nr = zone[z].nr
  BY SMTT(30) DEF SameBank
<1>2. Seen' = Seen
  BY <1>1, ZoneNames, Zenon DEF Seen, SeenOf
<1>3. \A k \in DOMAIN Seen : Seen[k] \in Slots
  BY SeenOnce
<1>4. ASSUME NEW q \in Slots
      PROVE  /\ Sec(q)' = Sec(q) /\ Phys(q)' = Phys(q) /\ Virt(q)' = Virt(q)
             /\ IsSeen(q)' = IsSeen(q) /\ Filled(q)' = Filled(q)
  <2>1. q[1] \in Zones
    BY SlotFacts
  <2>2. Sec(q)' = Sec(q) /\ IsSeen(q)' = IsSeen(q)
    BY <1>1, <2>1 DEF Sec, IsSeen, Slots
  <2> QED BY <2>2 DEF Phys, Virt, Filled
<1>5. ASSUME NEW k \in DOMAIN Seen PROVE Sec(Seen[k])' = Sec(Seen[k])
  <2>1. Seen[k][1] \in Zones
    BY <1>3, SlotFacts
  <2>2. Sec(Seen[k])' = zone'[Seen[k][1]].sec[Seen[k][2]]
    BY <1>2 DEF Sec
  <2> QED BY <1>1, <2>1, <2>2 DEF Sec
<1>6. \A z \in Zones : PhysOf(z)' = PhysOf(z)
  BY <1>1 DEF PhysOf, PhysIn
<1>7. \A z \in Zones : VirtOf(z)' = VirtOf(z)
  <2> TAKE z \in Zones
  <2>1. \A i : Virt(<<z, i>>)' = Virt(<<z, i>>)
    BY <1>1 DEF Virt, Sec
  <2> QED BY <1>1, <2>1 DEF VirtOf
<1> QED BY <1>2, <1>3, <1>4, <1>5, <1>6, <1>7

LEMMA SameParts ==
  ASSUME SameBank, ZonePart, MemoryPart, KernelPart, DmaFilled, VirPart, ParsePart
  PROVE  ZonePart' /\ MemoryPart' /\ KernelPart' /\ DmaFilled' /\ VirPart' /\ ParsePart'
<1>1. Typed
  BY DEF Typed, ZonePart
<1>2. /\ Seen' = Seen
      /\ \A q \in Slots : /\ Sec(q)' = Sec(q) /\ Phys(q)' = Phys(q) /\ Virt(q)' = Virt(q)
                          /\ IsSeen(q)' = IsSeen(q) /\ Filled(q)' = Filled(q)
      /\ \A k \in DOMAIN Seen : Seen[k] \in Slots /\ Sec(Seen[k])' = Sec(Seen[k])
      /\ \A z \in Zones : PhysOf(z)' = PhysOf(z) /\ VirtOf(z)' = VirtOf(z)
  BY <1>1, SameSections
<1>3. /\ zone' \in [Zones -> ZoneSet]
      /\ \A z \in Zones : /\ zone'[z].sec = zone[z].sec /\ zone'[z].nr = zone[z].nr
                          /\ zone'[z].pages = zone[z].pages
      /\ table' = table /\ regions' = regions /\ total' = total
  BY DEF SameBank, Typed
<1>4. ZonePart'
  <2>1. \A q \in Slots : SectionOK(Sec(q)')
    BY <1>2 DEF ZonePart
  <2>2. \A p, q \in Slots : p # q => Phys(p)' \cap Phys(q)' = {}
    BY <1>2 DEF ZonePart
  <2>3. \A z \in Zones : zone'[z].pages = Cardinality(PhysOf(z)')
    BY <1>2, <1>3 DEF ZonePart
  <2>4. \A q \in Slots : ~IsSeen(q)' /\ q[1] # "normal" => Sec(q)' = NoSection
    BY <1>2 DEF ZonePart
  <2> QED BY <1>3, <2>1, <2>2, <2>3, <2>4 DEF ZonePart, Slots
<1>5. MemoryPart'
  <2>1. Cut' = Cut /\ Dropped' = Dropped /\ \A z : Memory(z)' = Memory(z)
    BY <1>3 DEF Cut, Dropped, Memory
  <2>2. /\ PhysOf("normal")' = PhysOf("normal") /\ PhysOf("dma")' = PhysOf("dma")
        /\ PhysOf("res")' = PhysOf("res")
        /\ zone'["normal"].pages = zone["normal"].pages
        /\ zone'["dma"].pages = zone["dma"].pages /\ zone'["res"].pages = zone["res"].pages
    BY <1>2, <1>3, ZoneNames
  <2>3. \A z \in Zones \ {"dma"} : PhysOf(z)' \subseteq Memory(z)'
    BY <1>2, <2>1 DEF MemoryPart
  <2> QED BY <1>3, <2>1, <2>2, <2>3 DEF MemoryPart
<1>6. KernelLeads' = KernelLeads
  BY <1>3 DEF KernelLeads
<1>7. Sec(<<"normal", 1>>)' = Sec(<<"normal", 1>>) /\ zone'["normal"].nr = zone["normal"].nr
  <2>1. <<"normal", 1>> \in Slots
    BY ZoneNames, Constants DEF Slots
  <2> QED BY <1>2, <1>3, <2>1, ZoneNames
<1>8. KernelPart'
  BY <1>6, <1>7 DEF KernelPart
<1>9. DmaFilled'
  <2>1. zone'["dma"].sec = zone["dma"].sec /\ zone'["dma"].nr = zone["dma"].nr
    BY <1>3, ZoneNames
  <2> QED BY <2>1 DEF DmaFilled
<1>10. ParsePart'
  BY <1>3 DEF ParsePart, Kept
<1>11. VirPart'
  <2>1. (\A q \in Slots : ~Filled(q) => Sec(q).vir = 0)'
    BY <1>2 DEF VirPart, Slots
  <2>2. (\A q \in Slots : Filled(q) =>
           /\ Aligned(Sec(q).vir) /\ Sec(q).vir >= kernel_start
           /\ Sec(q).vir + Sec(q).size <= kernel_start + MaxPage)'
    <3>1. \A q \in Slots : Filled(q)' =>
           /\ Aligned(Sec(q)'.vir) /\ Sec(q)'.vir >= kernel_start
           /\ Sec(q)'.vir + Sec(q)'.size <= kernel_start + MaxPage
      BY <1>2 DEF VirPart
    <3> QED BY <3>1 DEF Slots, kernel_start, MaxPage, Aligned
  <2>3. (\A p, q \in Slots : Filled(p) /\ Filled(q) /\ p # q => Virt(p) \cap Virt(q) = {})'
    BY <1>2 DEF VirPart, Slots
  <2>4. (\E q \in Slots : Filled(q) /\ Sec(q).vir = kernel_start)'
    <3>1. PICK q \in Slots : Filled(q) /\ Sec(q).vir = kernel_start
      BY DEF VirPart
    <3>2. Filled(q)' /\ Sec(q)'.vir = kernel_start
      BY <1>2, <3>1
    <3> QED BY <3>2 DEF Slots, kernel_start
  <2>5. (\A j, k \in DOMAIN Seen : j < k /\ Filled(Seen[j]) /\ Filled(Seen[k]) =>
           Sec(Seen[j]).vir + Sec(Seen[j]).size < kernel_start + MaxPage)'
    <3>1. \A k \in DOMAIN Seen : Filled(Seen[k])' = Filled(Seen[k])
      <4> TAKE k \in DOMAIN Seen
      <4>1. Seen[k] \in Slots /\ Seen[k][1] \in Zones
        BY <1>2, SlotFacts
      <4>2. zone'[Seen[k][1]].nr = zone[Seen[k][1]].nr
        BY <1>3, <4>1
      <4>3. IsSeen(Seen[k])' = IsSeen(Seen[k])
        BY <1>2, <4>2 DEF IsSeen, Slots
      <4> QED BY <1>2, <4>3 DEF Filled
    <3>2. \A j, k \in DOMAIN Seen : j < k /\ Filled(Seen[j])' /\ Filled(Seen[k])' =>
             Sec(Seen[j])'.vir + Sec(Seen[j])'.size < kernel_start + MaxPage
      BY <1>2, <3>1 DEF VirPart
    <3> QED BY <1>2, <3>2 DEF kernel_start, MaxPage
  <2>6. (~Hidden =>
           /\ VirtOf("normal") = Span(kernel_start, zone["normal"].pages)
           /\ VirtOf("dma") = Span(kernel_start + zone["normal"].pages, zone["dma"].pages)
           /\ VirtOf("res") = Span(kernel_start + zone["normal"].pages + zone["dma"].pages,
                                   zone["res"].pages))'
    <3>1. Hidden' = Hidden
      BY <1>3, ZoneNames DEF Hidden
    <3>2. /\ VirtOf("normal")' = VirtOf("normal") /\ VirtOf("dma")' = VirtOf("dma")
          /\ VirtOf("res")' = VirtOf("res")
          /\ zone'["normal"].pages = zone["normal"].pages
          /\ zone'["dma"].pages = zone["dma"].pages /\ zone'["res"].pages = zone["res"].pages
      BY <1>2, <1>3, ZoneNames
    <3>3. kernel_start' = kernel_start
      BY DEF kernel_start
    <3> QED BY <3>1, <3>2, <3>3 DEF VirPart
  <2>7. (KernelLeads => Sec(<<"normal", 1>>).vir = kernel_start)'
    BY <1>6, <1>7 DEF VirPart, kernel_start
  <2> QED BY <2>1, <2>2, <2>3, <2>4, <2>5, <2>6, <2>7 DEF VirPart
<1> QED BY <1>4, <1>5, <1>8, <1>9, <1>10, <1>11

\* The kernel's entries start where its addresses do.
LEMMA HighEntry ==
  ASSUME NEW e \in UserSections .. Entries - 1
  PROVE  e \in Nat /\ e * SectionPages \in Nat /\ e * SectionPages >= kernel_start
<1>1. e \in Nat /\ e >= UserSections
  BY Constants
<1>2. e # UserSections => UserSections * SectionPages + SectionPages <= e * SectionPages
  BY <1>1, Constants, Multiple
<1>3. e * SectionPages \in Nat
  BY <1>1, Constants
<1> QED BY <1>1, <1>2, <1>3, Constants DEF kernel_start

\* An entry above kernel_start is covered by the section that has its address.
LEMMA CoversVirt ==
  ASSUME ZonePart, NEW q \in Slots, NEW e \in UserSections .. Entries - 1
  PROVE  Covers(Sec(q), e) <=> e * SectionPages \in Virt(q)
<1> DEFINE s == Sec(q)
           x == e * SectionPages
           b == kernel_start
<1>1. s.vir \in Nat /\ s.size \in Nat
  BY SecFacts
<1>2. x \in Nat /\ x >= b /\ b \in Nat
  BY HighEntry, AlignedConstants
<1>3. ImageSections * SectionPages = SectionPages /\ SectionPages \in Nat
  BY Constants
<1>4. Covers(s, e) <=> \/ x \in Span(s.vir, s.size)
                       \/ s.vir = b /\ x \in Span(s.vir - SectionPages, s.size - SectionPages)
  BY <1>3 DEF Covers
<1> HIDE DEF s, x, b
<1>5. s.vir = b /\ x \in Span(s.vir - SectionPages, s.size - SectionPages)
        => x \in Span(s.vir, s.size)
  BY <1>1, <1>2, <1>3 DEF Span
<1> QED BY <1>4, <1>5 DEF s, x, Virt

LEMMA MapMemoryTlb ==
  ASSUME ZonePart, VirPart, KernelPhys < MaxPage, tlb = Boot, map_memory
  PROVE  TlbPart'
<1> DEFINE C(e) == {k \in DOMAIN Seen : Covers(Sec(Seen[k]), e)}
           Q(e) == Seen[Max(C(e))]
<1>1. zone' = zone
  BY DEF map_memory
<1>2. DOMAIN tlb = 0 .. Entries - 1
  BY DEF Boot
<1>3. /\ DOMAIN tlb' = 0 .. Entries - 1
      /\ \A e \in 0 .. Entries - 1 : tlb'[e] =
           IF C(e) = {} THEN tlb[e]
           ELSE build_tlb_table_entry(e, Sec(Q(e)).vir, Sec(Q(e)).phy,
                                      Q(e)[1] \notin {"dma", "io"})
  BY <1>2 DEF map_memory
<1>4. Typed
  BY DEF Typed, ZonePart
<1>5. \A k \in DOMAIN Seen : Seen[k] \in Slots /\ IsSeen(Seen[k])
  BY <1>4, SeenOnce
<1>6. ASSUME NEW e \in UserSections .. Entries - 2
      PROVE  EntryOK(e)'
  <2> DEFINE x == e * SectionPages
  <2>1. e \in UserSections .. Entries - 1 /\ e \in 0 .. Entries - 1 /\ x \in Nat
    BY Constants, HighEntry
  <2>2. \A k \in DOMAIN Seen : k \in C(e) <=> x \in Virt(Seen[k])
    BY <1>5, <2>1, CoversVirt
  <2>3. \A k \in DOMAIN Seen : x \in Virt(Seen[k]) => Filled(Seen[k])
    <3> SUFFICES ASSUME NEW k \in DOMAIN Seen, x \in Virt(Seen[k]) PROVE Filled(Seen[k])
      OBVIOUS
    <3>1. Sec(Seen[k]).size \in Nat /\ Sec(Seen[k]).vir \in Int
      BY <1>5, SecFacts
    <3>2. Sec(Seen[k]).size # 0
      BY <3>1, SpanEmpty DEF Virt
    <3> QED BY <1>5, <3>1, <3>2 DEF Filled
  <2> HIDE DEF C
  <2>4. /\ \A q : Virt(q)' = Virt(q) /\ Sec(q)' = Sec(q)
        /\ \A q \in Slots : Filled(q)' = Filled(q)
    BY <1>1 DEF Virt, Sec, Filled, IsSeen
  <2>5. CASE C(e) # {}
    <3>1. PICK k \in C(e) : k \in DOMAIN Seen
      BY <2>5 DEF C
    <3>2. \A j \in C(e) : j = k
      <4> TAKE j \in C(e)
      <4>1. j \in DOMAIN Seen
        BY DEF C
      <4>2. x \in Virt(Seen[j]) /\ x \in Virt(Seen[k]) /\ Filled(Seen[j]) /\ Filled(Seen[k])
        BY <2>2, <2>3, <3>1, <4>1
      <4>3. Seen[j] = Seen[k]
        BY <1>5, <3>1, <4>1, <4>2 DEF VirPart
      <4> QED BY <1>4, <3>1, <4>1, <4>3, SeenOnce
    <3>3. Max(C(e)) = k
      <4>1. k \in Nat
        BY <1>4, <3>1, SeenOnce
      <4>2. \A y \in C(e) : k >= y
        BY <3>2, <4>1
      <4> QED BY <3>1, <3>2, <4>2 DEF Max
    <3>4. tlb'[e] = build_tlb_table_entry(e, Sec(Seen[k]).vir, Sec(Seen[k]).phy,
                                          Seen[k][1] \notin {"dma", "io"})
      BY <1>3, <2>1, <2>5, <3>3
    <3>5. Filled(Seen[k]) /\ x \in Virt(Seen[k]) /\ Seen[k] \in Slots
      BY <1>5, <2>2, <2>3, <3>1
    <3> DEFINE q == Seen[k]
    <3>6. \E r \in Slots : /\ Filled(r) /\ x \in Virt(r)
                           /\ tlb'[e] = build_tlb_table_entry(e, Sec(r).vir, Sec(r).phy,
                                                              r[1] \notin {"dma", "io"})
      BY <3>4, <3>5
    <3>7. PICK r \in Slots : /\ Filled(r) /\ x \in Virt(r)
                             /\ tlb'[e] = build_tlb_table_entry(e, Sec(r).vir, Sec(r).phy,
                                                                r[1] \notin {"dma", "io"})
      BY <3>6
    <3>8. /\ Filled(r)' /\ x \in Virt(r)'
          /\ tlb'[e] = build_tlb_table_entry(e, Sec(r)'.vir, Sec(r)'.phy,
                                             r[1] \notin {"dma", "io"})
      BY <2>4, <3>7
    <3> QED BY <3>8 DEF EntryOK, Slots, build_tlb_table_entry
  <2>6. CASE C(e) = {}
    <3>1. tlb'[e] = Boot[e]
      BY <1>3, <2>1, <2>6
    <3>2. \A q \in Slots : Filled(q) => x \notin Virt(q)
      <4> SUFFICES ASSUME NEW q \in Slots, Filled(q), x \in Virt(q) PROVE FALSE
        OBVIOUS
      <4>1. PICK k \in DOMAIN Seen : Seen[k] = q
        BY <1>4, SeenOnce DEF Filled
      <4> QED BY <2>2, <2>6, <4>1
    <3>3. e # UserSections
      <4>1. PICK q \in Slots : Filled(q) /\ Sec(q).vir = kernel_start
        BY DEF VirPart
      <4>2. kernel_start \in Virt(q)
        <5>1. Sec(q).size \in Nat /\ Sec(q).size > 0
          BY <4>1, SecFacts DEF Filled
        <5> QED BY <4>1, <5>1, AlignedConstants DEF Virt, Span
      <4> QED BY <3>2, <4>1, <4>2 DEF kernel_start
    <3>4. KernelPhys \div SectionPages < UserSections
      <4> DEFINE m == KernelPhys \div SectionPages
      <4>1. m \in Nat /\ KernelPhys = m * SectionPages + (KernelPhys % SectionPages)
            /\ KernelPhys % SectionPages \in 0 .. SectionPages - 1
        BY Constants, DivMod
      <4> HIDE DEF m
      <4>2. PhysSections < m => PhysSections * SectionPages + SectionPages <= m * SectionPages
        BY <4>1, Constants, Multiple
      <4>3. m * SectionPages \in Nat /\ PhysSections * SectionPages \in Nat
        BY <4>1, Constants
      <4>4. m < PhysSections
        <5>1. KernelPhys < PhysSections * SectionPages
          BY DEF MaxPage
        <5>2. m = PhysSections => m * SectionPages = PhysSections * SectionPages
          OBVIOUS
        <5> DEFINE y == m * SectionPages
                   z == PhysSections * SectionPages
                   r == KernelPhys % SectionPages
        <5>3. /\ y \in Nat /\ z \in Nat /\ KernelPhys = y + r /\ r \in Nat /\ KernelPhys < z
              /\ PhysSections < m => z + SectionPages <= y
              /\ m = PhysSections => y = z
          BY <4>1, <4>2, <4>3, <5>1, <5>2, Constants
        <5> HIDE DEF y, z, r
        <5> QED BY <4>1, <5>3, Constants
      <4> QED BY <4>1, <4>4, Constants DEF m
    <3>5. e \notin BootIo /\ e # KernelPhys \div SectionPages
      <4>1. \A i \in BootIo : i \in 0 .. PhysSections - 1
        BY LayoutAssumption
      <4>2. e \in Nat /\ e >= UserSections
        BY <2>1, Constants
      <4>3. KernelPhys \div SectionPages \in Nat
        BY Constants, DivMod
      <4> QED BY <3>4, <4>1, <4>2, <4>3, Constants
    <3>6. tlb'[e] = NoEntry
      BY <2>1, <3>1, <3>3, <3>5 DEF Boot
    <3>7. \A q \in Slots : Filled(q)' => x \notin Virt(q)'
      BY <2>4, <3>2
    <3> QED BY <3>6, <3>7 DEF EntryOK, Slots, NoEntry
  <2> QED BY <2>5, <2>6
<1> QED BY <1>3, <1>6 DEF TlbPart

LEMMA MapMemoryInv ==
  ASSUME LInv, map_memory
  PROVE  LInv'
<1>1. /\ step = "map" /\ step' = "pages" /\ vectors' = vectors /\ zone' = zone
      /\ table' = table /\ regions' = regions /\ total' = total
  BY DEF map_memory
<1>2. /\ ParsePart /\ tlb = Boot /\ ZonePart /\ MemoryPart /\ KernelPhys < MaxPage
      /\ KernelPart /\ DmaFilled /\ VirPart
  BY <1>1 DEF LInv, DmaFilled
<1>3. TlbPart'
  BY <1>2, MapMemoryTlb
<1>4. SameBank
  BY <1>1, <1>2 DEF SameBank, Typed, ZonePart
<1>5. ZonePart' /\ MemoryPart' /\ KernelPart' /\ DmaFilled' /\ VirPart' /\ ParsePart'
  BY <1>2, <1>4, SameParts
<1>6. VectorsReachable'
  BY <1>1 DEF VectorsReachable
<1>7. (KernelPhys < MaxPage)' /\ ~Booted'
  BY <1>1, <1>2 DEF MaxPage, Booted
<1> QED BY <1>1, <1>3, <1>5, <1>6, <1>7 DEF LInv, Steps, DmaFilled

-----------------------------------------------------------------------------
(* What the table makes of an address *)

\* Where a section lies.
LEMMA VirtFacts ==
  ASSUME ZonePart, VirPart, NEW q \in Slots, Filled(q)
  PROVE  /\ Sec(q).vir \in Nat /\ Sec(q).size \in Nat /\ Sec(q).phy \in Nat
         /\ Aligned(Sec(q).vir) /\ Aligned(Sec(q).size) /\ Aligned(Sec(q).phy)
         /\ Sec(q).size > 0 /\ Sec(q).vir >= kernel_start
         /\ Sec(q).vir + Sec(q).size <= kernel_start + MaxPage
<1>1. /\ Sec(q).phy \in Nat /\ Sec(q).vir \in Nat /\ Sec(q).size \in Nat
      /\ Aligned(Sec(q).phy) /\ Aligned(Sec(q).size)
  BY SecFacts
<1>2. /\ Aligned(Sec(q).vir) /\ Sec(q).vir >= kernel_start
      /\ Sec(q).vir + Sec(q).size <= kernel_start + MaxPage
  BY DEF VirPart
<1> QED BY <1>1, <1>2 DEF Filled

\* Multiples are in the order of their factors.
LEMMA Factors ==
  ASSUME NEW e \in Int, NEW f \in Int
  PROVE  /\ e * SectionPages < f * SectionPages => e < f
         /\ e * SectionPages <= f * SectionPages => e <= f
         /\ e * SectionPages = f * SectionPages => e = f
<1>1. SectionPages \in Nat \ {0} /\ SectionPages >= 1
  BY Constants
<1>2. e * SectionPages \in Int /\ f * SectionPages \in Int
  BY <1>1
<1>3. f < e => f * SectionPages + SectionPages <= e * SectionPages
  BY <1>1, Multiple
<1>4. e < f => e * SectionPages + SectionPages <= f * SectionPages
  BY <1>1, Multiple
<1> DEFINE x == e * SectionPages
           y == f * SectionPages
<1>5. /\ x \in Int /\ y \in Int
      /\ f < e => y + SectionPages <= x
      /\ e < f => x + SectionPages <= y
      /\ e = f => x = y
  BY <1>2, <1>3, <1>4
<1> HIDE DEF x, y
<1>6. (x < y => e < f) /\ (x <= y => e <= f) /\ (x = y => e = f)
  BY <1>1, <1>5
<1> QED BY <1>6 DEF x, y

\* The entry of an address of a section.
LEMMA EntryAt ==
  ASSUME ZonePart, VirPart, NEW q \in Slots, Filled(q), NEW va \in Virt(q)
  PROVE  /\ va \in Nat /\ va \div SectionPages \in UserSections .. Entries - 2
         /\ (va \div SectionPages) * SectionPages \in Virt(q)
         /\ va = (va \div SectionPages) * SectionPages + (va % SectionPages)
         /\ va % SectionPages \in 0 .. SectionPages - 1
<1> DEFINE e == va \div SectionPages
<1>1. /\ Sec(q).vir \in Nat /\ Sec(q).size \in Nat
      /\ Aligned(Sec(q).vir) /\ Aligned(Sec(q).size)
      /\ Sec(q).vir >= kernel_start
      /\ Sec(q).vir + Sec(q).size <= kernel_start + MaxPage
  BY VirtFacts
<1>2. /\ va \in Nat /\ e \in Nat /\ e * SectionPages \in Virt(q)
      /\ va = e * SectionPages + (va % SectionPages)
      /\ va % SectionPages \in 0 .. SectionPages - 1
  BY <1>1, EntryIn DEF Virt
<1> HIDE DEF e
<1> DEFINE x == e * SectionPages
           t == (Entries - 1) * SectionPages
<1>3. x >= Sec(q).vir /\ x < Sec(q).vir + Sec(q).size /\ x \in Int
  BY <1>1, <1>2, InSpan DEF Virt
<1>4. kernel_start + MaxPage <= t /\ kernel_start \in Nat /\ MaxPage \in Nat /\ t \in Nat
  BY AlignedConstants
<1> HIDE DEF x, t
<1>5. x < t /\ kernel_start <= x
  BY <1>1, <1>3, <1>4
<1>6. e < Entries - 1 /\ UserSections <= e
  BY <1>2, <1>5, Factors, Constants DEF x, t, kernel_start
<1>7. e \in UserSections .. Entries - 2
  BY <1>2, <1>6, Constants
<1> QED BY <1>2, <1>7 DEF e

LEMMA Mapped ==
  ASSUME ZonePart, VirPart, TlbPart, NEW q \in Slots, Filled(q), NEW va \in Virt(q)
  PROVE  /\ tlb[va \div SectionPages]
              = build_tlb_table_entry(va \div SectionPages, Sec(q).vir, Sec(q).phy,
                                      q[1] \notin {"dma", "io"})
         /\ tlb[va \div SectionPages] # NoEntry
         /\ Translate(va) = Sec(q).phy + (va - Sec(q).vir)
<1> DEFINE e == va \div SectionPages
<1>1. /\ va \in Nat /\ e \in UserSections .. Entries - 2 /\ e * SectionPages \in Virt(q)
      /\ va = e * SectionPages + (va % SectionPages)
      /\ va % SectionPages \in 0 .. SectionPages - 1
  BY EntryAt
<1> HIDE DEF e
<1>2. EntryOK(e)
  BY <1>1 DEF TlbPart
<1>3. PICK p \in Slots :
        /\ Filled(p) /\ e * SectionPages \in Virt(p)
        /\ tlb[e] = build_tlb_table_entry(e, Sec(p).vir, Sec(p).phy,
                                          p[1] \notin {"dma", "io"})
  BY <1>1, <1>2 DEF EntryOK
<1>4. p = q
  BY <1>1, <1>3 DEF VirPart
<1>5. tlb[e] = build_tlb_table_entry(e, Sec(q).vir, Sec(q).phy, q[1] \notin {"dma", "io"})
  BY <1>3, <1>4
<1> DEFINE x == e * SectionPages
           r == va % SectionPages
<1>6. x \in Nat /\ x >= Sec(q).vir /\ Sec(q).vir \in Nat /\ Sec(q).phy \in Nat
  <2>1. e \in Nat
    BY <1>1, Constants
  <2>2. Sec(q).vir \in Nat /\ Sec(q).size \in Nat /\ Sec(q).phy \in Nat
    BY VirtFacts
  <2>3. x \in Nat
    BY <2>1, Constants
  <2> QED BY <1>1, <2>2, <2>3, InSpan DEF Virt
<1>7. r \in Nat /\ va = x + r
  BY <1>1, Constants
<1>8. tlb[e].pa = Sec(q).phy + x - Sec(q).vir
  BY <1>5 DEF build_tlb_table_entry
<1> HIDE DEF x, r
<1>9. tlb[e].pa \in Nat /\ tlb[e].pa + r = Sec(q).phy + (va - Sec(q).vir)
  BY <1>6, <1>7, <1>8
<1>10. tlb[e] # NoEntry
  BY <1>9 DEF NoEntry
<1> QED BY <1>5, <1>9, <1>10 DEF Translate, e, r

-----------------------------------------------------------------------------
(* The other steps *)

\* The table says of the sections what it said before.
LEMMA SameEntries ==
  ASSUME SameBank, Typed, NEW e \in UserSections .. Entries - 2, EntryOK(e), tlb'[e] = tlb[e]
  PROVE  EntryOK(e)'
<1>1. \A q \in Slots : Sec(q)' = Sec(q) /\ Virt(q)' = Virt(q) /\ Filled(q)' = Filled(q)
  BY SameSections
<1>2. CASE \E q \in Slots :
             /\ Filled(q) /\ e * SectionPages \in Virt(q)
             /\ tlb[e] = build_tlb_table_entry(e, Sec(q).vir, Sec(q).phy,
                                               q[1] \notin {"dma", "io"})
  <2>1. PICK q \in Slots :
             /\ Filled(q) /\ e * SectionPages \in Virt(q)
             /\ tlb[e] = build_tlb_table_entry(e, Sec(q).vir, Sec(q).phy,
                                               q[1] \notin {"dma", "io"})
    BY <1>2
  <2>2. /\ Filled(q)' /\ e * SectionPages \in Virt(q)'
        /\ tlb'[e] = build_tlb_table_entry(e, Sec(q)'.vir, Sec(q)'.phy,
                                           q[1] \notin {"dma", "io"})
    BY <1>1, <2>1
  <2> QED BY <2>2 DEF EntryOK, Slots, build_tlb_table_entry
<1>3. CASE tlb[e] = NoEntry /\ \A q \in Slots : Filled(q) => e * SectionPages \notin Virt(q)
  <2>1. tlb'[e] = NoEntry /\ \A q \in Slots : Filled(q)' => e * SectionPages \notin Virt(q)'
    BY <1>1, <1>3
  <2> QED BY <2>1 DEF EntryOK, Slots, NoEntry
<1> QED BY <1>2, <1>3 DEF EntryOK

\* A step that keeps the sections and the kernel's part of the table.
LEMMA SameTlb ==
  ASSUME SameBank, Typed, TlbPart, DOMAIN tlb' = DOMAIN tlb,
         \A e \in UserSections .. Entries - 2 : tlb'[e] = tlb[e]
  PROVE  TlbPart'
<1>1. \A e \in UserSections .. Entries - 2 : EntryOK(e)'
  BY SameEntries DEF TlbPart
<1> QED BY <1>1 DEF TlbPart

LEMMA PagesBank ==
  ASSUME Typed, init_page_table_map
  PROVE  SameBank /\ PagePart'
<1> DEFINE n == zone["normal"].pages
           d == zone["dma"].pages
           s == zone["res"].pages
           N == [[zone["normal"] EXCEPT !.bm_start = 0, !.bm_end = 0 + n]
                    EXCEPT !.free = @ - KernelPages]
           D == [zone["dma"] EXCEPT !.bm_start = n, !.bm_end = n + d]
           R == [zone["res"] EXCEPT !.bm_start = n + d, !.bm_end = n + d + s]
<1>1. /\ zone' = [zone EXCEPT !["normal"] = N, !["dma"] = D, !["res"] = R]
      /\ UNCHANGED <<table, regions, total>>
  BY DEF init_page_table_map
<1>2. /\ zone \in [Zones -> ZoneSet] /\ n \in Nat /\ d \in Nat /\ s \in Nat
      /\ zone["normal"] \in ZoneSet /\ zone["dma"] \in ZoneSet /\ zone["res"] \in ZoneSet
      /\ zone["normal"].free \in Int
  BY ZoneNames DEF Typed, ZoneSet
<1>3. N \in ZoneSet /\ D \in ZoneSet /\ R \in ZoneSet
  <2>1. /\ 0 + n \in Nat /\ n + d \in Nat /\ n + d + s \in Nat
        /\ zone["normal"].free - KernelPages \in Int /\ 0 \in Nat
    BY <1>2, Constants
  <2> QED BY <1>2, <2>1 DEF ZoneSet
<1>4. /\ N.sec = zone["normal"].sec /\ N.nr = zone["normal"].nr /\ N.pages = n
      /\ D.sec = zone["dma"].sec /\ D.nr = zone["dma"].nr /\ D.pages = d
      /\ R.sec = zone["res"].sec /\ R.nr = zone["res"].nr /\ R.pages = s
      /\ N.bm_start = 0 /\ N.bm_end = n /\ D.bm_start = n /\ D.bm_end = n + d
      /\ R.bm_start = n + d /\ R.bm_end = n + d + s
  BY <1>2 DEF ZoneSet
<1> HIDE DEF N, D, R
<1>5. /\ zone' \in [Zones -> ZoneSet]
      /\ zone'["normal"] = N /\ zone'["dma"] = D /\ zone'["res"] = R
      /\ zone'["io"] = zone["io"]
  BY <1>1, <1>2, <1>3, ZoneNames
<1>6. SameBank
  BY <1>1, <1>4, <1>5 DEF SameBank, Typed, Zones
<1>7. PagePart'
  BY <1>2, <1>4, <1>5 DEF PagePart
<1> QED BY <1>6, <1>7

LEMMA PagesInv ==
  ASSUME LInv, init_page_table_map
  PROVE  LInv'
<1>1. /\ step = "pages" /\ step' = "clear" /\ vectors' = vectors /\ tlb' = tlb
  BY DEF init_page_table_map
<1>2. /\ ParsePart /\ ZonePart /\ MemoryPart /\ KernelPhys < MaxPage
      /\ KernelPart /\ DmaFilled /\ VirPart /\ TlbPart
  BY <1>1 DEF LInv, DmaFilled
<1>3. Typed
  BY <1>2 DEF Typed, ZonePart
<1>4. SameBank /\ PagePart'
  BY <1>3, PagesBank
<1>5. ZonePart' /\ MemoryPart' /\ KernelPart' /\ DmaFilled' /\ VirPart' /\ ParsePart'
  BY <1>2, <1>4, SameParts
<1>6. TlbPart'
  BY <1>1, <1>2, <1>3, <1>4, SameTlb
<1>7. VectorsReachable'
  BY <1>1 DEF VectorsReachable
<1>8. (KernelPhys < MaxPage)' /\ ~Booted'
  BY <1>1, <1>2 DEF MaxPage, Booted
<1> QED BY <1>1, <1>4, <1>5, <1>6, <1>7, <1>8 DEF LInv, Steps, DmaFilled

LEMMA ClearInv ==
  ASSUME LInv, clear_user_tlb
  PROVE  LInv'
<1>1. /\ step = "clear" /\ step' = "trap" /\ vectors' = vectors /\ zone' = zone
      /\ table' = table /\ regions' = regions /\ total' = total
      /\ tlb' = [e \in DOMAIN tlb |-> IF e < UserSections THEN NoEntry ELSE tlb[e]]
  BY DEF clear_user_tlb
<1>2. /\ ParsePart /\ ZonePart /\ MemoryPart /\ KernelPhys < MaxPage
      /\ KernelPart /\ DmaFilled /\ VirPart /\ TlbPart /\ PagePart
  BY <1>1 DEF LInv, DmaFilled
<1>3. Typed
  BY <1>2 DEF Typed, ZonePart
<1>4. SameBank
  BY <1>1, <1>3 DEF SameBank, Typed
<1>5. ZonePart' /\ MemoryPart' /\ KernelPart' /\ DmaFilled' /\ VirPart' /\ ParsePart'
  BY <1>2, <1>4, SameParts
<1>6. DOMAIN tlb = 0 .. Entries - 1
  BY <1>2 DEF TlbPart
<1>7. TlbPart'
  <2>1. DOMAIN tlb' = DOMAIN tlb
    BY <1>1
  <2>2. \A e \in UserSections .. Entries - 2 : tlb'[e] = tlb[e]
    BY <1>1, <1>6, Constants
  <2> QED BY <1>2, <1>3, <1>4, <2>1, <2>2, SameTlb
<1>8. \A e \in 0 .. UserSections - 1 : tlb'[e] = NoEntry
  BY <1>1, <1>6, Constants
<1>9. VectorsReachable'
  BY <1>1 DEF VectorsReachable
<1>10. (KernelPhys < MaxPage)' /\ PagePart'
  BY <1>1, <1>2 DEF MaxPage, PagePart
<1>11. (\A e \in 0 .. UserSections - 1 : tlb[e] = NoEntry)'
  BY <1>8 DEF NoEntry
<1> QED BY <1>1, <1>5, <1>7, <1>9, <1>10, <1>11 DEF LInv, Steps, DmaFilled

-----------------------------------------------------------------------------
(* The searches for the section of an address *)

\* A search that includes the end of a section finds an address in another one
\* only where that one starts.
LEMMA Ends ==
  ASSUME NEW a \in Nat, NEW m \in Nat, NEW b \in Nat, NEW n \in Nat, NEW x \in Span(b, n),
         Span(a, m) \cap Span(b, n) = {}, m = 0 => a = 0
  PROVE  (a <= x /\ x <= a + m) <=> (a + m = x /\ x = b)
<1>1. x \in Int /\ b <= x /\ x < b + n
  BY InSpan
<1>2. ~(a <= x /\ x < a + m)
  <2> SUFFICES ASSUME a <= x, x < a + m PROVE FALSE
    OBVIOUS
  <2>1. x \in Span(a, m)
    BY <1>1, InSpan
  <2> QED BY <2>1
<1>3. ~(a <= x /\ x = a + m /\ b < x)
  <2> SUFFICES ASSUME a <= x, x = a + m, b < x PROVE FALSE
    OBVIOUS
  <2>1. m # 0
    BY <1>1
  <2>2. x - 1 \in Span(a, m) /\ x - 1 \in Span(b, n)
    BY <1>1, <2>1, InSpan
  <2> QED BY <2>2
<1> QED BY <1>1, <1>2, <1>3

\* What a loop sees: filled sections and blank ones.
LEMMA SeenFacts ==
  ASSUME ZonePart, VirPart, NEW k \in DOMAIN Seen
  PROVE  /\ Seen[k] \in Slots /\ k \in Nat
         /\ Sec(Seen[k]).phy \in Nat /\ Sec(Seen[k]).vir \in Nat /\ Sec(Seen[k]).size \in Nat
         /\ Sec(Seen[k]).size > 0 <=> Filled(Seen[k])
         /\ Sec(Seen[k]).size = 0 => Sec(Seen[k]) = NoSection
         /\ Sec(Seen[k]).size = 0 => Sec(Seen[k]).phy = 0 /\ Sec(Seen[k]).vir = 0
<1>1. Seen[k] \in Slots /\ IsSeen(Seen[k]) /\ k \in Nat
  BY SeenOnce DEF Typed, ZonePart
<1>2. /\ Sec(Seen[k]).phy \in Nat /\ Sec(Seen[k]).vir \in Nat /\ Sec(Seen[k]).size \in Nat
      /\ Sec(Seen[k]).size = 0 => Sec(Seen[k]) = NoSection
  BY <1>1, SecFacts
<1>3. NoSection.phy = 0 /\ NoSection.vir = 0
  BY DEF NoSection
<1> QED BY <1>1, <1>2, <1>3 DEF Filled

\* Two sections that are seen have neither memory nor addresses in common.
LEMMA SeenApart ==
  ASSUME ZonePart, VirPart, NEW j \in DOMAIN Seen, NEW k \in DOMAIN Seen, j # k
  PROVE  /\ Phys(Seen[j]) \cap Phys(Seen[k]) = {}
         /\ Virt(Seen[j]) \cap Virt(Seen[k]) = {}
<1>1. Seen[j] \in Slots /\ Seen[k] \in Slots /\ Seen[j] # Seen[k]
  BY SeenOnce DEF Typed, ZonePart
<1>2. \A i \in DOMAIN Seen : ~Filled(Seen[i]) => Virt(Seen[i]) = {}
  <2> TAKE i \in DOMAIN Seen
  <2>1. /\ Sec(Seen[i]).vir \in Nat /\ Sec(Seen[i]).size \in Nat
        /\ Sec(Seen[i]).size > 0 <=> Filled(Seen[i])
    BY SeenFacts
  <2> QED BY <2>1, SpanEmpty DEF Virt
<1> QED BY <1>1, <1>2 DEF ZonePart, VirPart

\* The two searches.
VaHits(va) == {k \in DOMAIN Seen : /\ Sec(Seen[k]).vir <= va
                                   /\ va <= Sec(Seen[k]).vir + Sec(Seen[k]).size}

PaHits(pa) == {k \in DOMAIN Seen : /\ Sec(Seen[k]).phy <= pa
                                   /\ pa <= Sec(Seen[k]).phy + Sec(Seen[k]).size}

LEMMA VaFound ==
  ASSUME ZonePart, VirPart, NEW k \in DOMAIN Seen, NEW va \in Virt(Seen[k])
  PROVE  /\ VaHits(va) \subseteq DOMAIN Seen /\ k \in VaHits(va)
         /\ \A j \in DOMAIN Seen : j # k =>
              (j \in VaHits(va) <=> /\ Sec(Seen[j]).vir + Sec(Seen[j]).size = va
                                    /\ va = Sec(Seen[k]).vir)
<1>1. \A j \in DOMAIN Seen : /\ Sec(Seen[j]).vir \in Nat /\ Sec(Seen[j]).size \in Nat
                             /\ Sec(Seen[j]).size = 0 => Sec(Seen[j]).vir = 0
  BY SeenFacts
<1>2. va \in Int /\ Sec(Seen[k]).vir <= va /\ va < Sec(Seen[k]).vir + Sec(Seen[k]).size
  BY <1>1, InSpan DEF Virt
<1>3. k \in VaHits(va)
  BY <1>1, <1>2 DEF VaHits
<1>4. ASSUME NEW j \in DOMAIN Seen, j # k
      PROVE  j \in VaHits(va) <=> /\ Sec(Seen[j]).vir + Sec(Seen[j]).size = va
                                  /\ va = Sec(Seen[k]).vir
  <2>1. Virt(Seen[j]) \cap Virt(Seen[k]) = {}
    BY <1>4, SeenApart
  <2>2. (/\ Sec(Seen[j]).vir <= va
         /\ va <= Sec(Seen[j]).vir + Sec(Seen[j]).size)
        <=> (/\ Sec(Seen[j]).vir + Sec(Seen[j]).size = va
             /\ va = Sec(Seen[k]).vir)
    BY <1>1, <2>1, Ends DEF Virt
  <2> QED BY <2>2 DEF VaHits
<1> QED BY <1>3, <1>4 DEF VaHits

LEMMA PaFound ==
  ASSUME ZonePart, VirPart, NEW k \in DOMAIN Seen, NEW pa \in Phys(Seen[k])
  PROVE  /\ PaHits(pa) \subseteq DOMAIN Seen /\ k \in PaHits(pa)
         /\ \A j \in DOMAIN Seen : j # k =>
              (j \in PaHits(pa) <=> /\ Sec(Seen[j]).phy + Sec(Seen[j]).size = pa
                                    /\ pa = Sec(Seen[k]).phy)
<1>1. \A j \in DOMAIN Seen : /\ Sec(Seen[j]).phy \in Nat /\ Sec(Seen[j]).size \in Nat
                             /\ Sec(Seen[j]).size = 0 => Sec(Seen[j]).phy = 0
  BY SeenFacts
<1>2. pa \in Int /\ Sec(Seen[k]).phy <= pa /\ pa < Sec(Seen[k]).phy + Sec(Seen[k]).size
  BY <1>1, InSpan DEF Phys
<1>3. k \in PaHits(pa)
  BY <1>1, <1>2 DEF PaHits
<1>4. ASSUME NEW j \in DOMAIN Seen, j # k
      PROVE  j \in PaHits(pa) <=> /\ Sec(Seen[j]).phy + Sec(Seen[j]).size = pa
                                  /\ pa = Sec(Seen[k]).phy
  <2>1. Phys(Seen[j]) \cap Phys(Seen[k]) = {}
    BY <1>4, SeenApart
  <2>2. (/\ Sec(Seen[j]).phy <= pa
         /\ pa <= Sec(Seen[j]).phy + Sec(Seen[j]).size)
        <=> (/\ Sec(Seen[j]).phy + Sec(Seen[j]).size = pa
             /\ pa = Sec(Seen[k]).phy)
    BY <1>1, <2>1, Ends DEF Phys
  <2> QED BY <2>2 DEF PaHits
<1> QED BY <1>3, <1>4 DEF PaHits

\* The search stops at the first.
LEMMA FirstHit ==
  ASSUME ZonePart, VirPart, NEW H \in SUBSET DOMAIN Seen, H # {}
  PROVE  /\ Min(H) \in H /\ \A j \in H : Min(H) <= j
         /\ FirstOffset(H) = Sec(Seen[Min(H)]).vir - Sec(Seen[Min(H)]).phy
<1>1. H \in SUBSET Nat
  BY SeenFacts
<1>2. \E x \in H : \A y \in H : x <= y
  BY <1>1, LeastOf
<1>3. Min(H) \in H /\ \A j \in H : Min(H) <= j
  BY <1>2 DEF Min
<1> QED BY <1>3 DEF FirstOffset

-----------------------------------------------------------------------------
(* The vectors *)

LEMMA AlignedMod ==
  ASSUME NEW n \in Nat, NEW c, Aligned(c), NEW r \in 0 .. SectionPages - 1, n = c + r
  PROVE  n % SectionPages = r /\ min_aligin(n) = c
<1>1. /\ min_aligin(n) \in Nat /\ Aligned(min_aligin(n))
      /\ min_aligin(n) <= n /\ n < min_aligin(n) + SectionPages
      /\ n - min_aligin(n) = n % SectionPages
  BY MinAliginDown
<1>2. c \in Int
  BY AlignedInt
<1>3. c < min_aligin(n) => c + SectionPages <= min_aligin(n)
  BY <1>1, AlignedGap
<1>4. min_aligin(n) < c => min_aligin(n) + SectionPages <= c
  BY <1>1, AlignedGap
<1>5. min_aligin(n) = c
  BY <1>1, <1>2, <1>3, <1>4, Constants
<1> QED BY <1>1, <1>2, <1>5, Constants

\* An address that is not the first of its section is found in it alone.
LEMMA FoundAlone ==
  ASSUME ZonePart, VirPart, NEW k \in DOMAIN Seen, NEW va \in Virt(Seen[k]),
         va # Sec(Seen[k]).vir
  PROVE  va_get_pv_offset(va) = Sec(Seen[k]).vir - Sec(Seen[k]).phy
<1>1. VaHits(va) = {k}
  BY VaFound
<1>2. /\ Min(VaHits(va)) \in VaHits(va)
      /\ FirstOffset(VaHits(va)) = Sec(Seen[Min(VaHits(va))]).vir - Sec(Seen[Min(VaHits(va))]).phy
  BY <1>1, FirstHit
<1>3. Min(VaHits(va)) = k
  BY <1>1, <1>2
<1>4. va_get_pv_offset(va) = FirstOffset(VaHits(va))
  BY DEF va_get_pv_offset, VaHits
<1> QED BY <1>2, <1>3, <1>4

\* The page chosen for the vectors.
LEMMA VectorPage ==
  ASSUME ZonePart, VirPart, TlbPart, NEW k \in 1 .. zone["normal"].nr, NEW i \in AlignedIn(k)
  PROVE  /\ i \in Nat /\ page_id_to_va(i) \div SectionPages \in UserSections .. Entries - 2
         /\ phy_address(i) = Translate(page_id_to_va(i))
         /\ min_aligin(phy_address(i)) \in Nat
         /\ phy_address(i) = min_aligin(phy_address(i)) + VectorOffset
<1> DEFINE q == <<"normal", k>>
           va == kernel_start + i
           e == va \div SectionPages
           p == Sec(q).phy + (va - Sec(q).vir)
<1>1. /\ i \in Nat /\ i % SectionPages = VectorOffset
      /\ va \in Virt(q) /\ page_id_to_va(i) = va
  BY Constants DEF AlignedIn, page_id_to_va, Virt, Sec
<1>2. Typed /\ zone["normal"].nr \in 0 .. ZONE_MAX_REGION /\ zone["normal"].nr \in Nat
  BY ZoneEnds, ZoneNames DEF Typed, ZonePart
<1>3. Seen[k] = q /\ k \in DOMAIN Seen
  <2>1. /\ DOMAIN Seen = 1 .. EndIo
        /\ \A j \in 1 .. EndNormal : Seen[j] = <<"normal", j>>
    BY <1>2, SeenIs
  <2>2. EndNormal = zone["normal"].nr /\ EndNormal \in Nat /\ EndIo \in Nat /\ EndNormal <= EndIo
    <3>1. /\ EndNormal \in Nat /\ EndDma \in Nat /\ EndRes \in Nat /\ EndIo \in Nat
          /\ EndNormal <= EndDma /\ EndDma <= EndRes /\ EndRes <= EndIo
      BY <1>2, ZoneEnds
    <3> QED BY <3>1 DEF EndNormal
  <2>3. k \in 1 .. EndNormal /\ k \in 1 .. EndIo
    BY <1>2, <2>2
  <2> QED BY <2>1, <2>3
<1> HIDE DEF q, va
<1>4. q \in Slots /\ Filled(q)
  <2>1. q \in Slots
    BY <1>3, SeenFacts
  <2>2. Sec(q).vir \in Nat /\ Sec(q).size \in Nat /\ (Sec(q).size > 0 <=> Filled(q))
    BY <1>3, SeenFacts
  <2> QED BY <1>1, <2>1, <2>2, InSpan DEF Virt
<1>5. /\ va \in Nat /\ e \in UserSections .. Entries - 2
  BY <1>1, <1>4, EntryAt
<1>6. Translate(va) = p
  BY <1>1, <1>4, Mapped
<1>7. /\ Sec(q).vir \in Nat /\ Sec(q).size \in Nat /\ Sec(q).phy \in Nat
      /\ Aligned(Sec(q).vir) /\ Aligned(Sec(q).phy)
  BY <1>4, VirtFacts
<1> DEFINE a == min_aligin(i)
           c == Sec(q).phy + ((kernel_start + a) - Sec(q).vir)
<1>8. Aligned(a) /\ a \in Nat /\ i = a + VectorOffset
  <2>1. a \in Nat /\ Aligned(a) /\ i - a = i % SectionPages
    BY <1>1, MinAliginDown
  <2> HIDE DEF a
  <2> QED BY <1>1, <2>1, Constants
<1>9. Aligned(kernel_start + a) /\ Aligned(c)
  <2>1. Aligned(kernel_start + a)
    BY <1>8, AlignedConstants, AlignedSum
  <2>2. Aligned((kernel_start + a) - Sec(q).vir)
    BY <1>7, <2>1, AlignedSum
  <2> QED BY <1>7, <2>1, <2>2, AlignedSum
<1>10. kernel_start \in Nat /\ VectorOffset \in 0 .. SectionPages - 1 /\ VectorOffset \in Nat
       /\ VectorOffset # 0
  BY AlignedConstants, Constants
<1> HIDE DEF a
<1>11. va = (kernel_start + a) + VectorOffset /\ p = c + VectorOffset
  BY <1>7, <1>8, <1>10 DEF va
<1>12. va # Sec(q).vir
  <2> SUFFICES ASSUME va = Sec(q).vir PROVE FALSE
    OBVIOUS
  <2>1. va % SectionPages = VectorOffset
    BY <1>5, <1>9, <1>10, <1>11, AlignedMod
  <2>2. va % SectionPages = 0
    <3>1. va = Sec(q).vir + 0 /\ 0 \in 0 .. SectionPages - 1
      BY <1>5, Constants
    <3> QED BY <1>5, <1>7, <3>1, AlignedMod
  <2> QED BY <1>10, <2>1, <2>2
<1>13. va_get_pv_offset(va) = Sec(q).vir - Sec(q).phy
  BY <1>1, <1>3, <1>12, FoundAlone
<1>14. phy_address(i) = p
  <2>1. phy_address(i) = va - (Sec(q).vir - Sec(q).phy)
    BY <1>1, <1>13 DEF phy_address
  <2> QED BY <2>1, <1>5, <1>7
<1>15. p \in Nat
  <2>1. va >= Sec(q).vir
    BY <1>1, <1>7, InSpan DEF Virt
  <2> QED BY <2>1, <1>5, <1>7
<1> HIDE DEF p, c
<1>16. min_aligin(p) = c /\ min_aligin(p) \in Nat
  BY <1>9, <1>10, <1>11, <1>15, AlignedMod, MinAliginDown
<1> QED BY <1>1, <1>5, <1>6, <1>11, <1>14, <1>16

LEMMA TrapVectors ==
  ASSUME ZonePart, VirPart, TlbPart, trap_init
  PROVE  /\ DOMAIN tlb' = DOMAIN tlb
         /\ \A e \in 0 .. Entries - 2 : tlb'[e] = tlb[e]
         /\ VectorsReachable'
<1> DEFINE K == {k \in 1 .. zone["normal"].nr : AlignedIn(k) # {}}
           k == Min(K)
           i == Min(AlignedIn(k))
           top == Entries - 1
           a == min_aligin(phy_address(i))
<1>1. /\ vectors' = IF K = {} THEN -1 ELSE i
      /\ tlb' = IF K = {} THEN tlb
                ELSE [tlb EXCEPT ![top] = build_tlb_table_entry(top, top * SectionPages, a, TRUE)]
  BY DEF trap_init
<1>2. DOMAIN tlb = 0 .. Entries - 1 /\ top \in Nat /\ top \in 0 .. Entries - 1
      /\ top * SectionPages \in Nat
  BY Constants DEF TlbPart
<1>3. CASE K = {}
  BY <1>1, <1>3 DEF VectorsReachable
<1>4. CASE K # {}
  <2>1. K \in SUBSET Nat
    OBVIOUS
  <2>2. k \in K
    BY <1>4, <2>1, LeastOf DEF Min
  <2> HIDE DEF k
  <2>3. k \in 1 .. zone["normal"].nr /\ AlignedIn(k) # {}
    BY <2>2
  <2>4. AlignedIn(k) \in SUBSET Nat
    BY DEF AlignedIn
  <2>5. i \in AlignedIn(k)
    BY <2>3, <2>4, LeastOf DEF Min
  <2> HIDE DEF i
  <2> DEFINE va == page_id_to_va(i)
  <2>6. /\ i \in Nat /\ va \div SectionPages \in UserSections .. Entries - 2
        /\ phy_address(i) = Translate(va) /\ a \in Nat
        /\ phy_address(i) = a + VectorOffset
    BY <2>3, <2>5, VectorPage
  <2> HIDE DEF a, K
  <2>7. /\ vectors' = i
        /\ tlb' = [tlb EXCEPT ![top] = build_tlb_table_entry(top, top * SectionPages, a, TRUE)]
    BY <1>1, <1>4
  <2>8. /\ DOMAIN tlb' = DOMAIN tlb
        /\ \A e \in 0 .. Entries - 2 : tlb'[e] = tlb[e]
        /\ tlb'[top] = build_tlb_table_entry(top, top * SectionPages, a, TRUE)
    <3>1. \A e \in 0 .. Entries - 2 : e \in 0 .. Entries - 1 /\ e # top
      BY Constants
    <3>2. top \in DOMAIN tlb
      BY <1>2
    <3> HIDE DEF top
    <3> QED BY <1>2, <2>7, <3>1, <3>2
  <2>9. tlb'[top].pa = a /\ tlb'[top] # NoEntry
    <3>1. tlb'[top].pa = a + top * SectionPages - top * SectionPages
      BY <2>8 DEF build_tlb_table_entry
    <3> DEFINE t == top * SectionPages
    <3>2. tlb'[top].pa = a + t - t /\ t \in Nat
      BY <1>2, <3>1
    <3> HIDE DEF t
    <3>3. tlb'[top].pa = a
      BY <2>6, <3>2
    <3> QED BY <2>6, <3>3 DEF NoEntry
  <2>10. Translate(top * SectionPages + VectorOffset)' = a + VectorOffset
    <3>1. VectorOffset \in 0 .. SectionPages - 1
      BY Constants
    <3>2. /\ (top * SectionPages + VectorOffset) \div SectionPages = top
          /\ (top * SectionPages + VectorOffset) % SectionPages = VectorOffset
      BY <1>2, <3>1, EntryOf
    <3> HIDE DEF top
    <3> QED BY <2>9, <3>2 DEF Translate, NoEntry
  <2>11. va \div SectionPages \in 0 .. Entries - 2
    BY <2>6, Constants
  <2>12. (Translate(page_id_to_va(vectors)))' = Translate(va)
    <3>1. page_id_to_va(vectors)' = va
      BY <2>7 DEF page_id_to_va, kernel_start
    <3>2. tlb'[va \div SectionPages] = tlb[va \div SectionPages]
      BY <2>8, <2>11
    <3> HIDE DEF va
    <3> QED BY <3>1, <3>2 DEF Translate, NoEntry
  <2> QED BY <2>6, <2>8, <2>10, <2>12 DEF VectorsReachable
<1> QED BY <1>3, <1>4

LEMMA TrapInv ==
  ASSUME LInv, trap_init
  PROVE  LInv'
<1>1. /\ step = "trap" /\ step' = "run" /\ zone' = zone
      /\ table' = table /\ regions' = regions /\ total' = total
  BY DEF trap_init
<1>2. /\ ParsePart /\ ZonePart /\ MemoryPart /\ KernelPhys < MaxPage
      /\ KernelPart /\ DmaFilled /\ VirPart /\ TlbPart /\ PagePart
      /\ \A e \in 0 .. UserSections - 1 : tlb[e] = NoEntry
  BY <1>1 DEF LInv, DmaFilled, Booted
<1>3. Typed
  BY <1>2 DEF Typed, ZonePart
<1>4. SameBank
  BY <1>1, <1>3 DEF SameBank, Typed
<1>5. ZonePart' /\ MemoryPart' /\ KernelPart' /\ DmaFilled' /\ VirPart' /\ ParsePart'
  BY <1>2, <1>4, SameParts
<1>6. /\ DOMAIN tlb' = DOMAIN tlb
      /\ \A e \in 0 .. Entries - 2 : tlb'[e] = tlb[e]
      /\ VectorsReachable'
  BY <1>2, TrapVectors
<1>7. TlbPart'
  <2>1. \A e \in UserSections .. Entries - 2 : tlb'[e] = tlb[e]
    BY <1>6, Constants
  <2> QED BY <1>2, <1>3, <1>4, <1>6, <2>1, SameTlb
<1>8. (KernelPhys < MaxPage)' /\ PagePart'
  BY <1>1, <1>2 DEF MaxPage, PagePart
<1>9. (\A e \in 0 .. UserSections - 1 : tlb[e] = NoEntry)'
  <2>1. \A e \in 0 .. UserSections - 1 : e \in 0 .. Entries - 2
    BY Constants
  <2>2. \A e \in 0 .. UserSections - 1 : tlb'[e] = NoEntry
    BY <1>2, <1>6, <2>1
  <2> QED BY <2>2 DEF NoEntry
<1> QED BY <1>1, <1>5, <1>6, <1>7, <1>8, <1>9 DEF LInv, Steps, DmaFilled

-----------------------------------------------------------------------------
(* The invariant holds *)

LEMMA LayoutStarts ==
  ASSUME LayoutInit
  PROVE  LInv
<1>1. step = "parse" /\ table = {} /\ regions = <<>> /\ zone = EmptyBank /\ tlb = Boot
  BY DEF LayoutInit
<1>2. ParsePart
  <2>1. regions \in Seq(RegionSet) /\ DOMAIN regions = {}
    BY <1>1
  <2> QED BY <1>1, <2>1 DEF ParsePart
<1> QED BY <1>1, <1>2 DEF LInv, Steps, Booted, VectorsReachable

LEMMA RegisterInv ==
  ASSUME LInv, NEW r \in Region, register_memory_region(r)
  PROVE  LInv'
<1>1. /\ step = "parse" /\ step' = "parse" /\ zone' = zone /\ tlb' = tlb
      /\ zone = EmptyBank /\ tlb = Boot /\ ParsePart
  BY DEF register_memory_region, LInv
<1>2. ParsePart'
  BY <1>1, RegisterParse
<1>3. (zone = EmptyBank)' /\ (tlb = Boot)'
  BY <1>1 DEF EmptyBank, Boot
<1> QED BY <1>1, <1>2, <1>3 DEF LInv, Steps, Booted, VectorsReachable

LEMMA LayoutStutters ==
  ASSUME LInv, UNCHANGED layoutVars
  PROVE  LInv'
<1>1. /\ step' = step /\ table' = table /\ regions' = regions /\ zone' = zone
      /\ total' = total /\ tlb' = tlb /\ vectors' = vectors
  BY DEF layoutVars
<1>2. /\ \A q : /\ Sec(q)' = Sec(q) /\ Phys(q)' = Phys(q) /\ Virt(q)' = Virt(q)
                /\ IsSeen(q)' = IsSeen(q) /\ Filled(q)' = Filled(q)
      /\ Seen' = Seen
      /\ \A z : PhysOf(z)' = PhysOf(z) /\ VirtOf(z)' = VirtOf(z) /\ Memory(z)' = Memory(z)
      /\ Cut' = Cut /\ Dropped' = Dropped /\ Hidden' = Hidden /\ KernelLeads' = KernelLeads
  <2>1. \A q : Sec(q)' = Sec(q) /\ IsSeen(q)' = IsSeen(q)
    BY <1>1 DEF Sec, IsSeen, Slots
  <2>2. \A q : Phys(q)' = Phys(q) /\ Virt(q)' = Virt(q) /\ Filled(q)' = Filled(q)
    BY <2>1 DEF Phys, Virt, Filled
  <2>3. \A z : PhysOf(z)' = PhysOf(z) /\ VirtOf(z)' = VirtOf(z) /\ Memory(z)' = Memory(z)
    BY <1>1 DEF PhysOf, PhysIn, VirtOf, Virt, Sec, Memory
  <2>4. Seen' = Seen /\ Cut' = Cut /\ Dropped' = Dropped /\ Hidden' = Hidden
    BY <1>1 DEF Seen, SeenOf, Cut, Dropped, Hidden
  <2>5. KernelLeads' = KernelLeads
    BY <1>1 DEF KernelLeads
  <2> QED BY <2>1, <2>2, <2>3, <2>4, <2>5
<1>3. ParsePart' = ParsePart
  BY <1>1 DEF ParsePart, Kept
<1>4. ZonePart' = ZonePart
  BY <1>1, <1>2 DEF ZonePart, Slots
<1>5. MemoryPart' = MemoryPart
  BY <1>1, <1>2 DEF MemoryPart
<1>6. CarvePart' = CarvePart
  BY <1>1, <1>2 DEF CarvePart, Slots
<1>7. KernelPart' = KernelPart
  BY <1>1, <1>2 DEF KernelPart
<1>8. VirPart' = VirPart
  BY <1>1, <1>2 DEF VirPart, Slots, kernel_start, MaxPage
<1>9. TlbPart' = TlbPart
  <2>1. \A e : EntryOK(e)' = EntryOK(e)
    BY <1>1, <1>2 DEF EntryOK, Slots, build_tlb_table_entry, NoEntry
  <2> QED BY <1>1, <2>1 DEF TlbPart
<1>10. PagePart' = PagePart /\ Booted' = Booted /\ VectorsReachable' = VectorsReachable
  BY <1>1 DEF PagePart, Booted, VectorsReachable, Translate, page_id_to_va, NoEntry
<1>11. (tlb = Boot)' = (tlb = Boot) /\ (zone = EmptyBank)' = (zone = EmptyBank)
  BY <1>1 DEF Boot, EmptyBank
<1>12. (\A q \in Slots : Sec(q).vir = 0)' = (\A q \in Slots : Sec(q).vir = 0)
  BY <1>2 DEF Slots
<1> QED BY <1>1, <1>3, <1>4, <1>5, <1>6, <1>7, <1>8, <1>9, <1>10, <1>11, <1>12
        DEF LInv, Steps, MaxPage, NoEntry

LEMMA LayoutInductive == LInv /\ [LayoutNext]_layoutVars => LInv'
<1> SUFFICES ASSUME LInv, [LayoutNext]_layoutVars PROVE LInv'
  OBVIOUS
<1>1. CASE \E r \in Region : register_memory_region(r)
  BY <1>1, RegisterInv
<1>2. CASE InsertRegions
  BY <1>2, InsertInv
<1>3. CASE CarveNothing \/ CarveWhole \/ CarveSplit
  BY <1>3, CarveInv
<1>4. CASE map_zone_memory
  BY <1>4, MapZoneInv
<1>5. CASE map_memory
  BY <1>5, MapMemoryInv
<1>6. CASE init_page_table_map
  BY <1>6, PagesInv
<1>7. CASE clear_user_tlb
  BY <1>7, ClearInv
<1>8. CASE trap_init
  BY <1>8, TrapInv
<1>9. CASE UNCHANGED layoutVars
  BY <1>9, LayoutStutters
<1> QED BY <1>1, <1>2, <1>3, <1>4, <1>5, <1>6, <1>7, <1>8, <1>9 DEF LayoutNext

LEMMA LayoutInvariant == LayoutSpec => []LInv
<1>1. LayoutInit => LInv
  BY LayoutStarts
<1>2. LInv /\ [LayoutNext]_layoutVars => LInv'
  BY LayoutInductive
<1> QED BY <1>1, <1>2, PTL DEF LayoutSpec

-----------------------------------------------------------------------------
(* The kernel's own addresses, and memory with two addresses *)

\* What an entry maps is memory of the section it belongs to.
LEMMA EntryMaps ==
  ASSUME ZonePart, VirPart, NEW e \in UserSections .. Entries - 2, EntryOK(e),
         tlb[e] # NoEntry
  PROVE  \E q \in Slots : /\ Filled(q) /\ e * SectionPages \in Virt(q)
                          /\ tlb[e].pa = Sec(q).phy + (e * SectionPages - Sec(q).vir)
                          /\ tlb[e].pa \in Phys(q) /\ tlb[e].pa \in Nat
<1>1. PICK q \in Slots :
        /\ Filled(q) /\ e * SectionPages \in Virt(q)
        /\ tlb[e] = build_tlb_table_entry(e, Sec(q).vir, Sec(q).phy,
                                          q[1] \notin {"dma", "io"})
  BY DEF EntryOK
<1> DEFINE x == e * SectionPages
<1>2. Sec(q).vir \in Nat /\ Sec(q).size \in Nat /\ Sec(q).phy \in Nat
  BY <1>1, VirtFacts
<1>3. x \in Int /\ Sec(q).vir <= x /\ x < Sec(q).vir + Sec(q).size
  BY <1>1, <1>2, InSpan DEF Virt
<1>4. tlb[e].pa = Sec(q).phy + x - Sec(q).vir
  BY <1>1 DEF build_tlb_table_entry
<1> HIDE DEF x
<1>5. tlb[e].pa = Sec(q).phy + (x - Sec(q).vir) /\ tlb[e].pa \in Nat
  BY <1>2, <1>3, <1>4
<1>6. tlb[e].pa \in Phys(q)
  <2>1. Sec(q).phy <= tlb[e].pa /\ tlb[e].pa < Sec(q).phy + Sec(q).size
    BY <1>2, <1>3, <1>5
  <2> QED BY <1>2, <1>5, <2>1, InSpan DEF Phys
<1> QED BY <1>1, <1>5, <1>6 DEF x

LEMMA NoAliasHolds == LInv => NoAlias
<1> SUFFICES ASSUME LInv, Booted, NEW e \in 0 .. Entries - 2, NEW f \in 0 .. Entries - 2,
                    e # f, tlb[e] # NoEntry, tlb[e].pa = tlb[f].pa
             PROVE  FALSE
  BY DEF NoAlias
<1>1. ZonePart /\ VirPart /\ TlbPart /\ \A g \in 0 .. UserSections - 1 : tlb[g] = NoEntry
  BY DEF LInv, Booted
<1>2. \A g \in 0 .. Entries - 2 : tlb[g] # NoEntry =>
        g \in UserSections .. Entries - 2 /\ EntryOK(g)
  <2> TAKE g \in 0 .. Entries - 2
  <2>1. g \in 0 .. UserSections - 1 \/ g \in UserSections .. Entries - 2
    BY Constants
  <2> QED BY <1>1, <2>1 DEF TlbPart
<1>3. PICK p \in Slots : /\ Filled(p)
                         /\ tlb[e].pa = Sec(p).phy + (e * SectionPages - Sec(p).vir)
                         /\ tlb[e].pa \in Phys(p) /\ tlb[e].pa \in Nat
  BY <1>1, <1>2, EntryMaps
<1>4. tlb[f] # NoEntry
  <2>1. tlb[f].pa \in Nat
    BY <1>3
  <2>2. NoEntry.pa = -1
    BY DEF NoEntry
  <2> QED BY <2>1, <2>2
<1>5. PICK q \in Slots : /\ Filled(q)
                         /\ tlb[f].pa = Sec(q).phy + (f * SectionPages - Sec(q).vir)
                         /\ tlb[f].pa \in Phys(q)
  BY <1>1, <1>2, <1>4, EntryMaps
<1>6. p = q
  BY <1>1, <1>3, <1>5 DEF ZonePart
<1> DEFINE x == e * SectionPages
           y == f * SectionPages
<1>7. x \in Int /\ y \in Int /\ e \in Int /\ f \in Int
  BY Constants
<1>8. Sec(p).vir \in Nat /\ Sec(p).phy \in Nat
  BY <1>1, <1>3, VirtFacts
<1>9. Sec(p).phy + (x - Sec(p).vir) = Sec(p).phy + (y - Sec(p).vir)
  BY <1>3, <1>5, <1>6
<1> HIDE DEF x, y
<1>10. x = y
  BY <1>7, <1>8, <1>9
<1> QED BY <1>7, <1>10, Factors DEF x, y

LEMMA KernelStaysHolds == LInv => KernelStaysMapped
<1> SUFFICES ASSUME LInv, KernelLeads, NEW k \in 0 .. KernelPages - 1
             PROVE  Translate(kernel_start + k) = KernelPhys + k
  BY DEF KernelStaysMapped, KernelLeads
<1>1. k \in 0 .. SectionPages - 1 /\ k \in Nat
  BY Constants
<1>2. CASE tlb = Boot
  <2>1. /\ (UserSections * SectionPages + k) \div SectionPages = UserSections
        /\ (UserSections * SectionPages + k) % SectionPages = k
    BY <1>1, EntryOf, Constants
  <2>2. tlb[UserSections] = [pa |-> KernelPhys, cached |-> TRUE]
    BY <1>2, Constants DEF Boot
  <2>3. tlb[UserSections] # NoEntry
    BY <2>2, Constants DEF NoEntry
  <2> QED BY <2>1, <2>2, <2>3 DEF Translate, kernel_start
<1>3. CASE step \notin {"parse", "carve", "vmap", "map"}
  <2> DEFINE q == <<"normal", 1>>
  <2>1. ZonePart /\ VirPart /\ TlbPart /\ KernelPart
    BY <1>3 DEF LInv, Steps
  <2>2. q \in Slots
    BY ZoneNames, Constants DEF Slots
  <2>3. /\ zone["normal"].nr >= 1 /\ Sec(q).phy = KernelPhys /\ Sec(q).size >= SectionPages
        /\ Sec(q).vir = kernel_start
    BY <2>1 DEF KernelPart, VirPart
  <2>4. Sec(q).size \in Nat /\ Sec(q).size > 0
    BY <2>1, <2>2, <2>3, SecFacts, Constants
  <2>5. Filled(q)
    BY <2>2, <2>3, <2>4 DEF Filled, IsSeen
  <2> HIDE DEF q
  <2>6. kernel_start \in Nat /\ KernelPhys \in Nat
    BY AlignedConstants, Constants
  <2>7. kernel_start + k \in Virt(q)
    <3>1. kernel_start + k \in Int /\ kernel_start <= kernel_start + k
          /\ kernel_start + k < kernel_start + Sec(q).size
      BY <1>1, <2>3, <2>4, <2>6, Constants
    <3> QED BY <2>3, <2>4, <2>6, <3>1, InSpan DEF Virt
  <2>8. Translate(kernel_start + k) = Sec(q).phy + ((kernel_start + k) - Sec(q).vir)
    BY <2>1, <2>2, <2>5, <2>7, Mapped
  <2> QED BY <1>1, <2>3, <2>6, <2>8
<1> QED BY <1>2, <1>3 DEF LInv

LEMMA CutHolds == LInv => CutFits
<1> SUFFICES ASSUME LInv, step = "carve" PROVE DmaPages > 0 /\ DmaPages < Sizes[Largest]
  BY DEF CutFits
<1>1. ZonePart /\ CarvePart
  BY DEF LInv
<1>2. /\ DmaPages \in Nat /\ DmaPages > 0
      /\ DmaPages + SectionPages <= Sizes[Largest]
  BY <1>1, CutCore
<1>3. Sizes[Largest] \in Nat
  BY <1>1, LargestIs
<1> QED BY <1>2, <1>3, Constants

-----------------------------------------------------------------------------
(* The searches agree with the table *)

\* Addresses are not 0, and memory lies below them.
LEMMA AboveMemory ==
  ASSUME ZonePart, VirPart, NEW q \in Slots, Filled(q)
  PROVE  Sec(q).vir > Sec(q).phy /\ Sec(q).vir > 0
<1>1. /\ Sec(q).vir \in Nat /\ Sec(q).size \in Nat /\ Sec(q).phy \in Nat
      /\ Sec(q).size > 0 /\ Sec(q).vir >= kernel_start
  BY VirtFacts
<1>2. Sec(q).phy + Sec(q).size <= MaxPage
  BY SecFacts
<1>3. MaxPage \in Nat /\ kernel_start \in Nat /\ MaxPage <= kernel_start
  BY AlignedConstants
<1> QED BY <1>1, <1>2, <1>3

\* Sections that end at the same place are one section, or both blank.
LEMMA SameEnd ==
  ASSUME ZonePart, VirPart, NEW j \in DOMAIN Seen, NEW m \in DOMAIN Seen
  PROVE  /\ Sec(Seen[j]).vir + Sec(Seen[j]).size = Sec(Seen[m]).vir + Sec(Seen[m]).size
              => Sec(Seen[j]) = Sec(Seen[m])
         /\ Sec(Seen[j]).phy + Sec(Seen[j]).size = Sec(Seen[m]).phy + Sec(Seen[m]).size
              => Sec(Seen[j]) = Sec(Seen[m])
<1> DEFINE s == Sec(Seen[j])
           t == Sec(Seen[m])
<1>1. /\ s.phy \in Nat /\ s.vir \in Nat /\ s.size \in Nat
      /\ s.size = 0 => s = NoSection /\ s.phy = 0 /\ s.vir = 0
  BY SeenFacts
<1>2. /\ t.phy \in Nat /\ t.vir \in Nat /\ t.size \in Nat
      /\ t.size = 0 => t = NoSection /\ t.phy = 0 /\ t.vir = 0
  BY SeenFacts
<1>3. j # m => Span(s.vir, s.size) \cap Span(t.vir, t.size) = {}
  BY SeenApart DEF Virt
<1>4. j # m => Span(s.phy, s.size) \cap Span(t.phy, t.size) = {}
  BY SeenApart DEF Phys
<1>5. j = m => s = t
  OBVIOUS
<1> HIDE DEF s, t
<1>6. ASSUME s.vir + s.size = t.vir + t.size PROVE s = t
  <2>1. CASE s.size = 0
    BY <1>1, <1>2, <1>6, <2>1
  <2>2. CASE t.size = 0
    BY <1>1, <1>2, <1>6, <2>2
  <2>3. CASE s.size # 0 /\ t.size # 0
    <3>1. (s.vir + s.size) - 1 \in Span(s.vir, s.size)
      BY <1>1, <2>3, InSpan
    <3>2. (t.vir + t.size) - 1 \in Span(t.vir, t.size)
      BY <1>2, <2>3, InSpan
    <3> QED BY <1>3, <1>5, <1>6, <3>1, <3>2
  <2> QED BY <2>1, <2>2, <2>3
<1>7. ASSUME s.phy + s.size = t.phy + t.size PROVE s = t
  <2>1. CASE s.size = 0
    BY <1>1, <1>2, <1>7, <2>1
  <2>2. CASE t.size = 0
    BY <1>1, <1>2, <1>7, <2>2
  <2>3. CASE s.size # 0 /\ t.size # 0
    <3>1. (s.phy + s.size) - 1 \in Span(s.phy, s.size)
      BY <1>1, <2>3, InSpan
    <3>2. (t.phy + t.size) - 1 \in Span(t.phy, t.size)
      BY <1>2, <2>3, InSpan
    <3> QED BY <1>4, <1>5, <1>7, <3>1, <3>2
  <2> QED BY <2>1, <2>2, <2>3
<1> QED BY <1>6, <1>7 DEF s, t

\* A section seen before another, from whose end the other does not go on.
VirSeam(k) == \E j \in 1 .. k - 1 :
                /\ Sec(Seen[j]).vir + Sec(Seen[j]).size = Sec(Seen[k]).vir
                /\ Sec(Seen[j]).vir - Sec(Seen[j]).phy # Sec(Seen[k]).vir - Sec(Seen[k]).phy

PhySeam(k) == \E j \in 1 .. k - 1 :
                /\ Sec(Seen[j]).phy + Sec(Seen[j]).size = Sec(Seen[k]).phy
                /\ Sec(Seen[j]).vir - Sec(Seen[j]).phy # Sec(Seen[k]).vir - Sec(Seen[k]).phy

\* The sections before a section of the sequence are sections of it.
LEMMA SeenBefore ==
  ASSUME Typed, NEW k \in DOMAIN Seen
  PROVE  /\ \A j \in 1 .. k - 1 : j \in DOMAIN Seen /\ j < k /\ j # k
         /\ \A j \in DOMAIN Seen : j <= k /\ j # k => j \in 1 .. k - 1
<1>1. DOMAIN Seen = 1 .. EndIo
  BY SeenIs
<1>2. EndIo \in Nat
  BY ZoneEnds
<1> QED BY <1>1, <1>2

LEMMA VaLookup ==
  ASSUME ZonePart, VirPart, TlbPart, NEW k \in DOMAIN Seen,
         NEW n \in 0 .. Sec(Seen[k]).size - 1
  PROVE  (phy_address(va_to_page_id(Sec(Seen[k]).vir + n)) = Translate(Sec(Seen[k]).vir + n))
           <=> ~(n = 0 /\ VirSeam(k))
<1> DEFINE s == Sec(Seen[k])
           va == s.vir + n
           H == VaHits(va)
           m == Min(H)
           t == Sec(Seen[m])
<1>1. /\ Seen[k] \in Slots /\ s.phy \in Nat /\ s.vir \in Nat /\ s.size \in Nat
      /\ s.size > 0 <=> Filled(Seen[k])
  BY SeenFacts
<1>2. Filled(Seen[k]) /\ n \in Nat /\ va \in Nat
  BY <1>1
<1>3. va \in Virt(Seen[k])
  BY <1>1, <1>2 DEF Virt, Span
<1>4. Translate(va) = s.phy + (va - s.vir)
  BY <1>1, <1>2, <1>3, Mapped
<1> HIDE DEF va
<1>5. /\ H \subseteq DOMAIN Seen /\ k \in H
      /\ \A j \in DOMAIN Seen : j # k =>
           (j \in H <=> Sec(Seen[j]).vir + Sec(Seen[j]).size = va /\ va = s.vir)
  BY <1>3, VaFound
<1> HIDE DEF H
<1>6. m \in H /\ (\A j \in H : m <= j) /\ FirstOffset(H) = t.vir - t.phy
  BY <1>5, FirstHit
<1> HIDE DEF m
<1>7. m \in DOMAIN Seen /\ m \in Nat /\ t.phy \in Nat /\ t.vir \in Nat
  BY <1>5, <1>6, SeenFacts
<1>8. phy_address(va_to_page_id(va)) = va - (t.vir - t.phy)
  <2>1. va_get_pv_offset(va) = FirstOffset(H)
    BY DEF va_get_pv_offset, H, VaHits
  <2>2. page_id_to_va(va_to_page_id(va)) = va
    BY <1>2, AlignedConstants DEF page_id_to_va, va_to_page_id
  <2> QED BY <1>6, <2>1, <2>2 DEF phy_address
<1>9. (phy_address(va_to_page_id(va)) = Translate(va)) <=> t.vir - t.phy = s.vir - s.phy
  <2> HIDE DEF s, t
  <2>1. va - (t.vir - t.phy) = s.phy + (va - s.vir) <=> t.vir - t.phy = s.vir - s.phy
    BY <1>1, <1>2, <1>7
  <2> QED BY <1>4, <1>8, <2>1
<1>10. Typed
  BY DEF Typed, ZonePart
<1>11. va = s.vir <=> n = 0
  BY <1>1, <1>2 DEF va
<1>12. (n = 0 /\ VirSeam(k)) <=> t.vir - t.phy # s.vir - s.phy
  <2>1. ASSUME n = 0, VirSeam(k) PROVE t.vir - t.phy # s.vir - s.phy
    <3>1. PICK j \in 1 .. k - 1 :
                /\ Sec(Seen[j]).vir + Sec(Seen[j]).size = s.vir
                /\ Sec(Seen[j]).vir - Sec(Seen[j]).phy # s.vir - s.phy
      BY <2>1 DEF VirSeam
    <3>2. j \in DOMAIN Seen /\ j < k /\ j # k
      BY <1>10, <3>1, SeenBefore
    <3>3. j \in H
      BY <1>5, <1>11, <2>1, <3>1, <3>2
    <3>4. m # k
      <4>1. m <= j
        BY <1>6, <3>3
      <4> QED BY <1>7, <3>2, <4>1
    <3>5. t.vir + t.size = va
      BY <1>5, <1>6, <1>7, <3>4
    <3>6. Sec(Seen[j]) = t
      BY <1>7, <1>11, <2>1, <3>1, <3>2, <3>5, SameEnd
    <3> QED BY <3>1, <3>6
  <2>2. ASSUME t.vir - t.phy # s.vir - s.phy PROVE n = 0 /\ VirSeam(k)
    <3>1. m # k
      BY <2>2
    <3>2. t.vir + t.size = va /\ va = s.vir
      BY <1>5, <1>6, <1>7, <3>1
    <3>3. m \in 1 .. k - 1
      BY <1>5, <1>6, <1>7, <1>10, <3>1, SeenBefore
    <3> QED BY <1>11, <2>2, <3>2, <3>3 DEF VirSeam
  <2> QED BY <2>1, <2>2
<1> QED BY <1>9, <1>12 DEF va

\* Behind the end of a section that is not the last there is another section, or
\* no memory, and never the memory of a section that lies elsewhere.
LEMMA BehindEnd ==
  ASSUME ZonePart, VirPart, TlbPart, NEW j \in DOMAIN Seen, NEW k \in DOMAIN Seen, j < k,
         Filled(Seen[j]), Filled(Seen[k]),
         Translate(Sec(Seen[j]).vir + Sec(Seen[j]).size) = Sec(Seen[k]).phy
  PROVE  Sec(Seen[j]).vir + Sec(Seen[j]).size = Sec(Seen[k]).vir
<1> DEFINE s == Sec(Seen[k])
           x == Sec(Seen[j]).vir + Sec(Seen[j]).size
           e == x \div SectionPages
<1>1. Seen[j] \in Slots /\ Seen[k] \in Slots
  BY SeenFacts
<1>2. /\ Sec(Seen[j]).vir \in Nat /\ Sec(Seen[j]).size \in Nat
      /\ Aligned(Sec(Seen[j]).vir) /\ Aligned(Sec(Seen[j]).size)
      /\ Sec(Seen[j]).vir >= kernel_start
  BY <1>1, VirtFacts
<1>3. s.phy \in Nat /\ s.vir \in Nat /\ s.size \in Nat /\ s.size > 0
  BY <1>1, VirtFacts
<1>4. x < kernel_start + MaxPage
  BY DEF VirPart
<1>5. Aligned(x) /\ x \in Nat /\ x >= kernel_start
  BY <1>2, AlignedSum, AlignedConstants
<1> HIDE DEF s, x
<1>6. x % SectionPages = 0 /\ e \in Nat /\ x = e * SectionPages
  <2>1. x = x + 0 /\ 0 \in 0 .. SectionPages - 1
    BY <1>5, Constants
  <2>2. x % SectionPages = 0 /\ min_aligin(x) = x
    BY <1>5, <2>1, AlignedMod
  <2>3. e \in Nat
    BY <1>5, DivMod, Constants
  <2> QED BY <2>2, <2>3 DEF min_aligin
<1> HIDE DEF e
<1>7. e \in UserSections .. Entries - 2
  <2> DEFINE b == (Entries - 1) * SectionPages
  <2>1. kernel_start + MaxPage <= b /\ kernel_start \in Nat /\ MaxPage \in Nat /\ b \in Nat
    BY AlignedConstants
  <2> HIDE DEF b
  <2>2. x < b
    BY <1>4, <1>5, <2>1
  <2>3. e < Entries - 1 /\ UserSections <= e
    BY <1>5, <1>6, <2>2, Factors, Constants DEF b, kernel_start
  <2> QED BY <1>6, <2>3, Constants
<1>8. Translate(x) = IF tlb[e] = NoEntry THEN -1 ELSE tlb[e].pa + 0
  BY <1>6 DEF Translate, e
<1>9. Translate(x) = s.phy
  BY DEF x, s
<1>10. tlb[e] # NoEntry /\ tlb[e].pa + 0 = s.phy
  BY <1>3, <1>8, <1>9
<1>11. PICK p \in Slots : /\ Filled(p) /\ e * SectionPages \in Virt(p)
                          /\ tlb[e].pa = Sec(p).phy + (e * SectionPages - Sec(p).vir)
                          /\ tlb[e].pa \in Phys(p) /\ tlb[e].pa \in Nat
  BY <1>7, <1>10, EntryMaps DEF TlbPart
<1>12. tlb[e].pa = s.phy
  BY <1>10, <1>11
<1>13. s.phy \in Phys(Seen[k])
  BY <1>3, InSpan DEF Phys, s
<1>14. p = Seen[k]
  BY <1>1, <1>11, <1>12, <1>13 DEF ZonePart
<1>15. s.phy = s.phy + (x - s.vir)
  BY <1>6, <1>11, <1>12, <1>14 DEF s
<1>16. x = s.vir
  BY <1>3, <1>5, <1>15
<1> QED BY <1>16 DEF x, s

LEMMA PaLookup ==
  ASSUME ZonePart, VirPart, TlbPart, NEW k \in DOMAIN Seen,
         NEW n \in 0 .. Sec(Seen[k]).size - 1
  PROVE  (/\ pa_to_va(Sec(Seen[k]).phy + n) # 0
          /\ Translate(pa_to_va(Sec(Seen[k]).phy + n)) = Sec(Seen[k]).phy + n)
           <=> ~(n = 0 /\ PhySeam(k))
<1> DEFINE s == Sec(Seen[k])
           pa == s.phy + n
           H == PaHits(pa)
           m == Min(H)
           t == Sec(Seen[m])
<1>1. /\ Seen[k] \in Slots /\ s.phy \in Nat /\ s.vir \in Nat /\ s.size \in Nat
      /\ s.size > 0 <=> Filled(Seen[k])
  BY SeenFacts
<1>2. Filled(Seen[k]) /\ n \in Nat /\ pa \in Nat
  BY <1>1
<1>3. pa \in Phys(Seen[k]) /\ s.vir + n \in Virt(Seen[k])
  BY <1>1, <1>2 DEF Phys, Virt, Span
<1>4. Translate(s.vir + n) = pa /\ s.vir > s.phy /\ s.vir > 0
  <2>1. Translate(s.vir + n) = s.phy + ((s.vir + n) - s.vir)
    BY <1>1, <1>2, <1>3, Mapped
  <2>2. s.vir > s.phy /\ s.vir > 0
    BY <1>1, <1>2, AboveMemory
  <2> QED BY <1>1, <1>2, <2>1, <2>2
<1>5. pa = s.phy <=> n = 0
  BY <1>1, <1>2
<1>6. pa + (s.vir - s.phy) = s.vir + n
  BY <1>1, <1>2
<1> HIDE DEF pa
<1>7. /\ H \subseteq DOMAIN Seen /\ k \in H
      /\ \A j \in DOMAIN Seen : j # k =>
           (j \in H <=> Sec(Seen[j]).phy + Sec(Seen[j]).size = pa /\ pa = s.phy)
  BY <1>3, PaFound
<1> HIDE DEF H
<1>8. m \in H /\ (\A j \in H : m <= j) /\ FirstOffset(H) = t.vir - t.phy
  BY <1>7, FirstHit
<1> HIDE DEF m
<1>9. /\ m \in DOMAIN Seen /\ m \in Nat /\ Seen[m] \in Slots
      /\ t.phy \in Nat /\ t.vir \in Nat /\ t.size \in Nat
      /\ t.size > 0 <=> Filled(Seen[m])
      /\ t.size = 0 => t.phy = 0 /\ t.vir = 0
  BY <1>7, <1>8, SeenFacts
<1>10. pa_to_va(pa) = IF t.vir - t.phy = 0 THEN 0 ELSE pa + (t.vir - t.phy)
  <2>1. pa_get_pv_offset(pa) = FirstOffset(H)
    BY DEF pa_get_pv_offset, H, PaHits
  <2> QED BY <1>8, <2>1 DEF pa_to_va
<1>11. Typed
  BY DEF Typed, ZonePart
<1>12. (pa_to_va(pa) # 0 /\ Translate(pa_to_va(pa)) = pa) <=> t.vir - t.phy = s.vir - s.phy
  <2>1. ASSUME t.vir - t.phy = s.vir - s.phy
        PROVE  pa_to_va(pa) # 0 /\ Translate(pa_to_va(pa)) = pa
    <3>1. s.vir - s.phy # 0 /\ s.vir + n # 0
      BY <1>1, <1>2, <1>4
    <3>2. pa_to_va(pa) = s.vir + n
      BY <1>6, <1>10, <2>1, <3>1
    <3> QED BY <1>4, <3>1, <3>2
  <2>2. ASSUME t.vir - t.phy # s.vir - s.phy, pa_to_va(pa) # 0, Translate(pa_to_va(pa)) = pa
        PROVE  FALSE
    <3>1. m # k
      BY <2>2
    <3>2. t.phy + t.size = pa /\ pa = s.phy
      BY <1>7, <1>8, <1>9, <3>1
    <3>3. t.vir - t.phy # 0 /\ pa_to_va(pa) = pa + (t.vir - t.phy)
      BY <1>10, <2>2
    <3>4. Filled(Seen[m])
      <4> HIDE DEF t
      <4>1. t.size # 0
        BY <1>9, <3>3
      <4> QED BY <1>9, <4>1
    <3>5. pa_to_va(pa) = t.vir + t.size
      <4> HIDE DEF t, s
      <4> QED BY <1>9, <3>2, <3>3
    <3>6. m \in 1 .. k - 1 /\ m < k
      BY <1>7, <1>8, <1>9, <1>11, <3>1, SeenBefore
    <3>7. t.vir + t.size = s.vir
      BY <1>2, <1>9, <2>2, <3>2, <3>4, <3>5, <3>6, BehindEnd
    <3> HIDE DEF t, s
    <3> QED BY <1>1, <1>9, <2>2, <3>2, <3>7
  <2> QED BY <2>1, <2>2
<1>13. (n = 0 /\ PhySeam(k)) <=> t.vir - t.phy # s.vir - s.phy
  <2>1. ASSUME n = 0, PhySeam(k) PROVE t.vir - t.phy # s.vir - s.phy
    <3>1. PICK j \in 1 .. k - 1 :
                /\ Sec(Seen[j]).phy + Sec(Seen[j]).size = s.phy
                /\ Sec(Seen[j]).vir - Sec(Seen[j]).phy # s.vir - s.phy
      BY <2>1 DEF PhySeam
    <3>2. j \in DOMAIN Seen /\ j < k /\ j # k
      BY <1>11, <3>1, SeenBefore
    <3>3. j \in H
      BY <1>5, <1>7, <2>1, <3>1, <3>2
    <3>4. m # k
      <4>1. m <= j
        BY <1>8, <3>3
      <4> QED BY <1>9, <3>2, <4>1
    <3>5. t.phy + t.size = pa
      BY <1>7, <1>8, <1>9, <3>4
    <3>6. Sec(Seen[j]) = t
      BY <1>5, <1>9, <2>1, <3>1, <3>2, <3>5, SameEnd
    <3> QED BY <3>1, <3>6
  <2>2. ASSUME t.vir - t.phy # s.vir - s.phy PROVE n = 0 /\ PhySeam(k)
    <3>1. m # k
      BY <2>2
    <3>2. t.phy + t.size = pa /\ pa = s.phy
      BY <1>7, <1>8, <1>9, <3>1
    <3>3. m \in 1 .. k - 1
      BY <1>7, <1>8, <1>9, <1>11, <3>1, SeenBefore
    <3> QED BY <1>5, <2>2, <3>2, <3>3 DEF PhySeam
  <2> QED BY <2>1, <2>2
<1> QED BY <1>12, <1>13 DEF pa

LEMMA LookupsHold == LInv => LookupsAgree
<1> SUFFICES ASSUME LInv, Booted PROVE LookupsAgree
  BY DEF LookupsAgree
<1>1. ZonePart /\ VirPart /\ TlbPart
  BY DEF LInv, Booted
<1>2. ASSUME NEW k \in DOMAIN Seen, NEW n \in 0 .. Sec(Seen[k]).size - 1
      PROVE  LET s == Sec(Seen[k])
                 before == {Sec(Seen[j]) : j \in 1 .. k - 1}
                 Seam(t) == t.vir - t.phy # s.vir - s.phy
             IN  /\ (phy_address(va_to_page_id(s.vir + n)) = Translate(s.vir + n))
                      = ~(n = 0 /\ \E t \in before : t.vir + t.size = s.vir /\ Seam(t))
                 /\ (pa_to_va(s.phy + n) # 0 /\ Translate(pa_to_va(s.phy + n)) = s.phy + n)
                      = ~(n = 0 /\ \E t \in before : t.phy + t.size = s.phy /\ Seam(t))
  <2> DEFINE s == Sec(Seen[k])
             before == {Sec(Seen[j]) : j \in 1 .. k - 1}
             Seam(t) == t.vir - t.phy # s.vir - s.phy
  <2>1. VirSeam(k) <=> \E t \in before : t.vir + t.size = s.vir /\ Seam(t)
    BY DEF VirSeam
  <2>2. PhySeam(k) <=> \E t \in before : t.phy + t.size = s.phy /\ Seam(t)
    BY DEF PhySeam
  <2>3. (phy_address(va_to_page_id(s.vir + n)) = Translate(s.vir + n))
          <=> ~(n = 0 /\ VirSeam(k))
    BY <1>1, VaLookup
  <2>4. (pa_to_va(s.phy + n) # 0 /\ Translate(pa_to_va(s.phy + n)) = s.phy + n)
          <=> ~(n = 0 /\ PhySeam(k))
    BY <1>1, PaLookup
  <2> HIDE DEF s, before, Seam
  <2>5. /\ (phy_address(va_to_page_id(s.vir + n)) = Translate(s.vir + n))
             = ~(n = 0 /\ \E t \in before : t.vir + t.size = s.vir /\ Seam(t))
        /\ (pa_to_va(s.phy + n) # 0 /\ Translate(pa_to_va(s.phy + n)) = s.phy + n)
             = ~(n = 0 /\ \E t \in before : t.phy + t.size = s.phy /\ Seam(t))
    BY <2>1, <2>2, <2>3, <2>4
  <2> QED BY <2>5 DEF s, before, Seam
<1> QED BY <1>2 DEF LookupsAgree

-----------------------------------------------------------------------------
(* The page numbers *)

\* What the table makes of the addresses of a zone.
Image(S) == {Translate(va) : va \in S}

LEMMA SectionImage ==
  ASSUME ZonePart, VirPart, TlbPart, NEW q \in Slots, Filled(q)
  PROVE  Image(Virt(q)) = Phys(q)
<1> DEFINE s == Sec(q)
<1>1. s.vir \in Nat /\ s.size \in Nat /\ s.phy \in Nat
  BY VirtFacts
<1>2. \A va \in Virt(q) : Translate(va) = s.phy + (va - s.vir)
  BY Mapped
<1> HIDE DEF s
<1>3. /\ \A x : x \in Virt(q) <=> x \in Int /\ s.vir <= x /\ x < s.vir + s.size
      /\ \A x : x \in Phys(q) <=> x \in Int /\ s.phy <= x /\ x < s.phy + s.size
  BY <1>1, InSpan DEF Virt, Phys, s
<1>4. ASSUME NEW va \in Virt(q) PROVE Translate(va) \in Phys(q)
  <2>1. va \in Int /\ s.vir <= va /\ va < s.vir + s.size
    BY <1>3
  <2>2. s.phy + (va - s.vir) \in Phys(q)
    BY <1>1, <1>3, <2>1
  <2> QED BY <1>2, <2>2
<1>5. ASSUME NEW x \in Phys(q) PROVE \E va \in Virt(q) : Translate(va) = x
  <2> DEFINE va == s.vir + (x - s.phy)
  <2>1. x \in Int /\ s.phy <= x /\ x < s.phy + s.size
    BY <1>3
  <2>2. va \in Virt(q) /\ s.phy + (va - s.vir) = x
    BY <1>1, <1>3, <2>1
  <2> QED BY <1>2, <2>2
<1> QED BY <1>4, <1>5 DEF Image

\* If no loop misses a section of it, a zone's addresses are its memory.
LEMMA ZoneImage ==
  ASSUME ZonePart, VirPart, TlbPart, NEW z \in Zones, z = "normal" => ~Hidden
  PROVE  Image(VirtOf(z)) = PhysOf(z)
<1>1. zone[z].nr \in Nat /\ zone[z].nr \in 0 .. ZONE_MAX_REGION
  BY ZoneEnds DEF Typed, ZonePart
<1>2. ASSUME NEW i \in 1 .. ZONE_MAX_REGION
      PROVE  /\ <<z, i>> \in Slots
             /\ Span(zone[z].sec[i].phy, zone[z].sec[i].size) = Phys(<<z, i>>)
             /\ Sec(<<z, i>>).size \in Nat /\ Sec(<<z, i>>).phy \in Nat
             /\ Sec(<<z, i>>).vir \in Nat
             /\ i > zone[z].nr => Sec(<<z, i>>).size = 0
  <2>1. <<z, i>> \in Slots
    BY DEF Slots
  <2>2. Span(zone[z].sec[i].phy, zone[z].sec[i].size) = Phys(<<z, i>>)
    BY DEF Phys, Sec
  <2>3. /\ Sec(<<z, i>>).size \in Nat /\ Sec(<<z, i>>).phy \in Nat
        /\ Sec(<<z, i>>).vir \in Nat
    BY <2>1, SecFacts
  <2>4. ASSUME i > zone[z].nr PROVE Sec(<<z, i>>).size = 0
    <3>1. CASE z = "normal"
      <4>1. i \in zone["normal"].nr + 1 .. ZONE_MAX_REGION
        BY <1>1, <2>4, <3>1, Constants
      <4>2. ~(zone["normal"].sec[i].size > 0)
        BY <3>1, <4>1 DEF Hidden
      <4> QED BY <2>3, <3>1, <4>2 DEF Sec
    <3>2. CASE z # "normal"
      <4>1. ~IsSeen(<<z, i>>)
        BY <1>1, <2>4, Constants DEF IsSeen
      <4>2. Sec(<<z, i>>) = NoSection
        BY <2>1, <3>2, <4>1 DEF ZonePart
      <4> QED BY <4>2 DEF NoSection
    <3> QED BY <3>1, <3>2
  <2> QED BY <2>1, <2>2, <2>3, <2>4
<1>3. ASSUME NEW i \in 1 .. zone[z].nr, Sec(<<z, i>>).size # 0
      PROVE  i \in 1 .. ZONE_MAX_REGION /\ Filled(<<z, i>>)
             /\ Image(Virt(<<z, i>>)) = Phys(<<z, i>>)
  <2>1. i \in 1 .. ZONE_MAX_REGION
    BY <1>1, Constants
  <2>2. <<z, i>> \in Slots /\ Sec(<<z, i>>).size \in Nat
    BY <1>2, <2>1
  <2>3. Filled(<<z, i>>)
    BY <1>1, <1>3, <2>2 DEF Filled, IsSeen
  <2> QED BY <2>1, <2>2, <2>3, SectionImage
<1>4. ASSUME NEW va \in VirtOf(z) PROVE Translate(va) \in PhysOf(z)
  <2>1. PICK i \in 1 .. zone[z].nr : va \in Virt(<<z, i>>)
    BY DEF VirtOf
  <2>2. i \in 1 .. ZONE_MAX_REGION
    BY <1>1, Constants
  <2>3. Sec(<<z, i>>).size # 0
    <3>1. Sec(<<z, i>>).vir \in Int
      BY <1>2, <2>2
    <3> QED BY <2>1, <3>1, SpanEmpty DEF Virt
  <2>4. Translate(va) \in Phys(<<z, i>>)
    BY <1>3, <2>1, <2>3 DEF Image
  <2> QED BY <1>2, <2>2, <2>4 DEF PhysOf, PhysIn
<1>5. ASSUME NEW x \in PhysOf(z) PROVE \E va \in VirtOf(z) : Translate(va) = x
  <2>1. PICK i \in 1 .. ZONE_MAX_REGION : x \in Span(zone[z].sec[i].phy, zone[z].sec[i].size)
    BY DEF PhysOf, PhysIn
  <2>2. x \in Phys(<<z, i>>)
    BY <1>2, <2>1
  <2>3. Sec(<<z, i>>).size # 0
    <3>1. Sec(<<z, i>>).phy \in Int
      BY <1>2
    <3> QED BY <2>2, <3>1, SpanEmpty DEF Phys
  <2>4. i \in 1 .. zone[z].nr
    BY <1>1, <1>2, <2>3, Constants
  <2>5. PICK va \in Virt(<<z, i>>) : Translate(va) = x
    BY <1>3, <2>2, <2>3, <2>4 DEF Image
  <2> QED BY <2>4, <2>5 DEF VirtOf
<1> QED BY <1>4, <1>5 DEF Image

\* The page numbers of a zone, its addresses and its memory.
LEMMA NumbersOf ==
  ASSUME ZonePart, VirPart, TlbPart, PagePart, ~Hidden, NEW z \in {"normal", "dma", "res"}
  PROVE  /\ {Translate(page_id_to_va(i)) : i \in PagesOf(z)} = PhysOf(z)
         /\ \A i \in PagesOf(z) : page_id_to_va(i) \in VirtOf(z)
<1>1. z \in Zones
  BY DEF Zones
<1> DEFINE b == zone[z].bm_start
           n == zone[z].pages
<1>2. /\ b \in Nat /\ n \in Nat /\ zone[z].bm_end = b + n
      /\ VirtOf(z) = Span(kernel_start + b, n)
  <2>1. /\ zone["normal"].pages \in Nat /\ zone["dma"].pages \in Nat /\ zone["res"].pages \in Nat
    BY ZoneNames DEF ZonePart, ZoneSet
  <2>2. kernel_start \in Nat
    BY AlignedConstants
  <2>3. CASE z = "normal"
    BY <2>1, <2>2, <2>3 DEF PagePart, VirPart
  <2>4. CASE z = "dma"
    BY <2>1, <2>2, <2>4 DEF PagePart, VirPart
  <2>5. CASE z = "res"
    <3>1. kernel_start + (zone["normal"].pages + zone["dma"].pages)
            = kernel_start + zone["normal"].pages + zone["dma"].pages
      BY <2>1, <2>2
    <3> QED BY <2>1, <2>2, <2>5, <3>1 DEF PagePart, VirPart
  <2> QED BY <2>3, <2>4, <2>5
<1>3. PagesOf(z) = b .. (b + n) - 1
  BY <1>2 DEF PagesOf
<1> HIDE DEF b, n
<1>4. kernel_start \in Nat
  BY AlignedConstants
<1>5. \A i \in PagesOf(z) : page_id_to_va(i) \in VirtOf(z)
  BY <1>2, <1>3, <1>4 DEF page_id_to_va, Span
<1>6. ASSUME NEW va \in VirtOf(z) PROVE \E i \in PagesOf(z) : page_id_to_va(i) = va
  <2>1. va \in Int /\ kernel_start + b <= va /\ va < (kernel_start + b) + n
    BY <1>2, <1>4, InSpan
  <2>2. va - kernel_start \in PagesOf(z) /\ kernel_start + (va - kernel_start) = va
    BY <1>2, <1>3, <1>4, <2>1
  <2> QED BY <2>2 DEF page_id_to_va
<1>7. {Translate(page_id_to_va(i)) : i \in PagesOf(z)} = Image(VirtOf(z))
  BY <1>5, <1>6 DEF Image
<1>8. Image(VirtOf(z)) = PhysOf(z)
  BY <1>1, ZoneImage
<1> QED BY <1>5, <1>7, <1>8

\* Sets without a common element count together.
LEMMA CountTogether ==
  ASSUME NEW S, NEW T, IsFiniteSet(S), IsFiniteSet(T), S \cap T = {}
  PROVE  IsFiniteSet(S \cup T) /\ Cardinality(S \cup T) = Cardinality(S) + Cardinality(T)
<1>1. /\ IsFiniteSet(S \cup T)
      /\ Cardinality(S \cup T) = Cardinality(S) + Cardinality(T) - Cardinality(S \cap T)
  BY FS_Union
<1>2. Cardinality(S \cap T) = 0
  BY FS_EmptySet
<1>3. Cardinality(S) \in Nat /\ Cardinality(T) \in Nat
  BY FS_CardinalityType
<1> QED BY <1>1, <1>2, <1>3

\* The memory of two zones is apart.
LEMMA ZonesApart ==
  ASSUME ZonePart, NEW y \in Zones, NEW z \in Zones, y # z
  PROVE  PhysOf(y) \cap PhysOf(z) = {}
<1> SUFFICES ASSUME NEW x \in PhysOf(y), x \in PhysOf(z) PROVE FALSE
  OBVIOUS
<1>1. PICK i \in 1 .. ZONE_MAX_REGION : x \in Span(zone[y].sec[i].phy, zone[y].sec[i].size)
  BY DEF PhysOf, PhysIn
<1>2. PICK j \in 1 .. ZONE_MAX_REGION : x \in Span(zone[z].sec[j].phy, zone[z].sec[j].size)
  BY DEF PhysOf, PhysIn
<1>3. x \in Phys(<<y, i>>) /\ x \in Phys(<<z, j>>)
  BY <1>1, <1>2 DEF Phys, Sec
<1>4. <<y, i>> \in Slots /\ <<z, j>> \in Slots /\ <<y, i>> # <<z, j>>
  BY DEF Slots
<1> QED BY <1>3, <1>4 DEF ZonePart

LEMMA PageNumbersHold == LInv => PageNumbersAreMemory
<1> SUFFICES ASSUME LInv, Booted, ~Hidden, ~Dropped PROVE PageNumbersAreMemory
  BY DEF PageNumbersAreMemory
<1> DEFINE At(z) == {Translate(page_id_to_va(i)) : i \in PagesOf(z)}
           N == PhysOf("normal")
           D == PhysOf("dma")
           R == PhysOf("res")
           M == Memory("normal") \cup Memory("dma") \cup Memory("res")
<1>1. ZonePart /\ MemoryPart /\ VirPart /\ TlbPart /\ PagePart
  BY DEF LInv, Booted
<1>2. At("normal") = N /\ At("dma") = D /\ At("res") = R
  BY <1>1, NumbersOf
<1>3. N \cup D \cup R = M
  <2>1. N \cup D = Memory("normal") \cup Memory("dma") /\ R = Memory("res")
    BY <1>1 DEF MemoryPart
  <2> QED BY <2>1
<1>4. N \subseteq Memory("normal") /\ D \subseteq (IF Cut THEN Memory("normal") ELSE Memory("dma"))
  BY <1>1, ZoneNames DEF MemoryPart
<1>5. total = Cardinality(M)
  <2>1. IsFiniteSet(N) /\ IsFiniteSet(D) /\ IsFiniteSet(R)
    <3>1. \A z \in Zones : zone[z] \in ZoneSet
      BY <1>1 DEF ZonePart
    <3> QED BY <3>1, PhysFinite, ZoneNames DEF PhysOf
  <2>2. N \cap D = {} /\ N \cap R = {} /\ D \cap R = {}
    BY <1>1, ZonesApart, ZoneNames
  <2> HIDE DEF N, D, R
  <2>3. IsFiniteSet(N \cup D) /\ Cardinality(N \cup D) = Cardinality(N) + Cardinality(D)
    BY <2>1, <2>2, CountTogether
  <2>4. (N \cup D) \cap R = {}
    BY <2>2
  <2>5. Cardinality((N \cup D) \cup R) = Cardinality(N) + Cardinality(D) + Cardinality(R)
    BY <2>1, <2>3, <2>4, CountTogether
  <2>6. total = Cardinality(N) + Cardinality(D) + Cardinality(R)
    <3>1. /\ zone["normal"].pages = Cardinality(N) /\ zone["dma"].pages = Cardinality(D)
          /\ zone["res"].pages = Cardinality(R)
      BY <1>1, ZoneNames DEF ZonePart, N, D, R
    <3> QED BY <1>1, <3>1 DEF MemoryPart
  <2> QED BY <1>3, <2>5, <2>6
<1>6. zone["res"].bm_end = total
  BY <1>1 DEF PagePart, MemoryPart
<1>7. ASSUME NEW z \in {"normal", "dma", "res"}, NEW i \in PagesOf(z)
      PROVE  tlb[page_id_to_va(i) \div SectionPages].cached = (z # "dma")
  <2> DEFINE va == page_id_to_va(i)
  <2>1. va \in VirtOf(z)
    BY <1>1, NumbersOf
  <2> HIDE DEF va
  <2>2. z \in Zones
    BY DEF Zones
  <2>3. zone[z].nr \in Nat /\ zone[z].nr \in 0 .. ZONE_MAX_REGION
    BY <1>1, <2>2, ZoneEnds DEF Typed, ZonePart
  <2>4. PICK j \in 1 .. zone[z].nr : va \in Virt(<<z, j>>)
    BY <2>1 DEF VirtOf
  <2>5. <<z, j>> \in Slots
    BY <2>2, <2>3, Constants DEF Slots
  <2>6. Filled(<<z, j>>)
    <3>1. Sec(<<z, j>>).size \in Nat /\ Sec(<<z, j>>).vir \in Nat
      BY <1>1, <2>5, SecFacts
    <3>2. Sec(<<z, j>>).size # 0
      BY <2>4, <3>1, SpanEmpty DEF Virt
    <3> QED BY <2>3, <2>5, <3>1, <3>2 DEF Filled, IsSeen
  <2> DEFINE q == <<z, j>>
  <2>7. tlb[va \div SectionPages]
          = build_tlb_table_entry(va \div SectionPages, Sec(q).vir, Sec(q).phy,
                                  q[1] \notin {"dma", "io"})
    BY <1>1, <2>4, <2>5, <2>6, Mapped
  <2>8. q[1] = z
    OBVIOUS
  <2> HIDE DEF q
  <2>9. tlb[va \div SectionPages].cached = (z \notin {"dma", "io"})
    BY <2>7, <2>8 DEF build_tlb_table_entry
  <2>10. (z \notin {"dma", "io"}) = (z # "dma")
    OBVIOUS
  <2> QED BY <2>9, <2>10 DEF va
<1> HIDE DEF At, N, D, R, M
<1>8. /\ At("normal") \cup At("dma") \cup At("res") = M
      /\ At("normal") \subseteq Memory("normal")
      /\ At("dma") \subseteq (IF Cut THEN Memory("normal") ELSE Memory("dma"))
  BY <1>2, <1>3, <1>4
<1>9. Cut = \A i \in DOMAIN regions : regions[i].attr # "dma"
  BY DEF Cut
<1> QED BY <1>5, <1>6, <1>7, <1>8, <1>9 DEF PageNumbersAreMemory, At, M

-----------------------------------------------------------------------------
(* Theorems *)

\* NORMAL memory is never cut away whole: the section split for the DMA zone has
\* a megabyte to spare, which the "fix me" of handle_platform_memory_region asks
\* for.  The average of at most eight sections is an eighth of the zone or more,
\* a section of two megabytes makes up for the rounding, and a sixteenth is cut.
THEOREM CutAlwaysFits == LayoutSpec => []CutFits
<1>1. LayoutSpec => []LInv
  BY LayoutInvariant
<1>2. LInv => CutFits
  BY CutHolds
<1> QED BY <1>1, <1>2, PTL

\* From boot.S to the end of trap_init the kernel runs at the addresses it is
\* linked to: no step of mm_init changes what its own megabyte is mapped to, on a
\* board whose first and largest bank of NORMAL memory is the kernel's.
THEOREM KernelAlwaysMapped == LayoutSpec => []KernelStaysMapped
<1>1. LayoutSpec => []LInv
  BY LayoutInvariant
<1>2. LInv => KernelStaysMapped
  BY KernelStaysHolds
<1> QED BY <1>1, <1>2, PTL

\* Once clear_user_tlb has run no memory has two addresses: what map_memory maps
\* above kernel_start never overlaps, and boot.S and the kernel's section leave
\* nothing below it.
THEOREM MemoryHasOneAddress == LayoutSpec => []NoAlias
<1>1. LayoutSpec => []LInv
  BY LayoutInvariant
<1>2. LInv => NoAlias
  BY NoAliasHolds
<1> QED BY <1>1, <1>2, PTL

\* va_get_pv_offset and pa_get_pv_offset find what the table maps at every
\* address of every section, but for the first page of a section behind a seam.
THEOREM SearchesAgreeWithTable == LayoutSpec => []LookupsAgree
<1>1. LayoutSpec => []LInv
  BY LayoutInvariant
<1>2. LInv => LookupsAgree
  BY LookupsHold
<1> QED BY <1>1, <1>2, PTL

\* Whatever page get_free_page_aligin gives trap_init, the exception vectors at
\* 0xffff0000 are the memory they were copied to.
THEOREM VectorsAlwaysReachable == LayoutSpec => []VectorsReachable
<1>1. LayoutSpec => []LInv
  BY LayoutInvariant
<1>2. LInv => VectorsReachable
  BY DEF LInv
<1> QED BY <1>1, <1>2, PTL

\* The numbers the page allocator goes by are the registered memory, zone by zone
\* and page for page, with the cache switched off for DMA memory only.
THEOREM NumbersAreMemory == LayoutSpec => []PageNumbersAreMemory
<1>1. LayoutSpec => []LInv
  BY LayoutInvariant
<1>2. LInv => PageNumbersAreMemory
  BY PageNumbersHold
<1> QED BY <1>1, <1>2, PTL

=============================================================================
