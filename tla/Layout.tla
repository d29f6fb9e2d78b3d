------------------------------- MODULE Layout -------------------------------
(***************************************************************************)
(* The memory layout that boot.S and mm_init (mm/mm.c) build: the regions  *)
(* the board registers become the sections of four zones, the sections get *)
(* kernel addresses one after another from kernel_start, and the first     *)
(* level table of the MMU is filled from them.  Everything after boot rests *)
(* on it: a page number is a kernel address, a zone is a range of page     *)
(* numbers, and the physical address of a page comes from a search of the  *)
(* sections.                                                               *)
(*                                                                         *)
(* Addresses and sizes are counted in pages.  The board's table is an      *)
(* input: any set of disjoint regions, with the kernel at the start of a   *)
(* NORMAL one, in any order.                                               *)
(***************************************************************************)
EXTENDS Integers, Sequences, FiniteSets, FiniteSetsExt, Functions

CONSTANTS
  SectionPages,     \* pages in a megabyte, what an entry of the table maps
  PhysSections,     \* megabytes of physical address space the board uses
  UserSections,     \* entries of the table below kernel_start
  Entries,          \* entries of the table
  KernelPhys,       \* kernel_phy_start, in pages
  KernelPages,      \* kernel image, page table and page map
  ImageSections,    \* megabytes of the kernel image (bss_end - kernel_start)
  BootIo,           \* megabytes boot.S maps to themselves for the console
  VectorOffset,     \* page of 0xffff0000 in its megabyte
  BoardRegions,     \* regions a board registers at most (bound)
  MEM_MAX_REGION, ZONE_MAX_REGION

ASSUME LayoutAssumption ==
  /\ SectionPages \in Nat \ {0} /\ PhysSections \in Nat
  /\ UserSections \in Nat /\ Entries \in Nat
  /\ KernelPhys \in Nat /\ KernelPhys % SectionPages = 0
  /\ ImageSections = 1   \* boot.S always maps one megabyte: see Boot
  /\ KernelPhys >= SectionPages * ImageSections
  /\ KernelPages \in 1 .. SectionPages
  /\ PhysSections <= UserSections
  /\ UserSections + PhysSections < Entries
  /\ VectorOffset \in 1 .. SectionPages - 1
  /\ BootIo \subseteq 0 .. PhysSections - 1
  /\ BoardRegions \in Nat /\ MEM_MAX_REGION \in Nat \ {0}
  /\ ZONE_MAX_REGION \in 1 .. 8   \* 4 in the code: see CutFits

VARIABLES
  step,      \* how far boot has come
  table,     \* the regions the board has registered so far
  regions,   \* info->region
  zone,      \* bank->zone: sections, nr_section, page_num, free_pages, bm_*
  total,     \* bank->total_page
  tlb,       \* the first level table
  vectors    \* the page of the exception vectors

layoutVars == <<step, table, regions, zone, total, tlb, vectors>>

Zones == {"normal", "dma", "res", "io"}

kernel_start == UserSections * SectionPages

NoEntry == [pa |-> -1, cached |-> FALSE]

NoSection == [phy |-> 0, vir |-> 0, size |-> 0]

-----------------------------------------------------------------------------
(* What boot starts from *)

\* The table after boot.S: the number of megabytes it wants to map is masked to
\* nothing and the loop of set_mmu_table runs once more than told, so it is one,
\* at the kernel's address and at the address it is loaded to.
Boot ==
  [e \in 0 .. Entries - 1 |->
     IF e \in {UserSections, KernelPhys \div SectionPages}
     THEN [pa |-> KernelPhys, cached |-> TRUE]
     ELSE IF e \in BootIo THEN [pa |-> e * SectionPages, cached |-> FALSE]
     ELSE NoEntry]

EmptyBank ==
  [z \in Zones |->
     [sec |-> [i \in 1 .. ZONE_MAX_REGION |-> NoSection],
      nr |-> 0, pages |-> 0, free |-> 0, bm_start |-> 0, bm_end |-> 0]]

\* init_platform_memory_region and init_memory_bank.
LayoutInit ==
  /\ step = "parse"
  /\ table = {}
  /\ regions = <<>>
  /\ zone = EmptyBank
  /\ total = 0
  /\ tlb = Boot
  /\ vectors = -1

-----------------------------------------------------------------------------
(* The regions of the board *)

baligin(n) == ((n + SectionPages - 1) \div SectionPages) * SectionPages

min_aligin(n) == (n \div SectionPages) * SectionPages

Span(start, size) == start .. start + size - 1

\* The regions a board may have.  None is smaller than its distance to the
\* next megabyte, for the difference would wrap.
Region ==
  {r \in [start : 0 .. PhysSections * SectionPages - 1,
          size : 1 .. PhysSections * SectionPages, attr : Zones] :
     /\ r.start + r.size <= PhysSections * SectionPages
     /\ r.size >= baligin(r.start) - r.start
     /\ KernelPhys \in Span(r.start, r.size)
          => /\ r.start = KernelPhys /\ r.attr = "normal"
             /\ r.size >= ImageSections * SectionPages}

\* The whole megabytes of a region.
Trimmed(r) ==
  LET start == baligin(r.start)
  IN  [start |-> start, size |-> min_aligin(r.size - (start - r.start)),
       attr |-> r.attr]

\* A full table and a region without a whole megabyte are passed over in
\* silence.
register_memory_region(r) ==
  /\ step = "parse"
  /\ Cardinality(table) < BoardRegions
  /\ \A g \in table : Span(g.start, g.size) \cap Span(r.start, r.size) = {}
  /\ table' = table \cup {r}
  /\ regions' = IF Len(regions) < MEM_MAX_REGION /\ Trimmed(r).size > 0
                THEN Append(regions, Trimmed(r)) ELSE regions
  /\ UNCHANGED <<step, zone, total, tlb, vectors>>

-----------------------------------------------------------------------------
(* handle_platform_memory_region *)

\* A section more than a zone can hold is dropped.
insert_region_to_zone(zs, r) ==
  LET z == zs[r.attr]
      n == z.nr + 1
  IN  IF z.nr = ZONE_MAX_REGION THEN zs
      ELSE [zs EXCEPT ![r.attr] =
              [z EXCEPT !.sec[n] = [phy |-> r.start, vir |-> 0, size |-> r.size],
                        !.nr = n,
                        !.pages = z.pages + r.size,
                        !.free = z.pages + r.size]]

\* The first n regions, each inserted into its zone.
Inserted(zs, rs, n) ==
  LET after[k \in 0 .. n] ==
        IF k = 0 THEN zs ELSE insert_region_to_zone(after[k - 1], rs[k])
  IN  after[n]

\* The regions in the order of their addresses: the k-th is the one that k - 1
\* others are below.
Sorted(rs) ==
  [k \in DOMAIN rs |->
     CHOOSE r \in Range(rs) :
       Cardinality({g \in Range(rs) : g.start < r.start}) = k - 1]

\* A board that can run this kernel: its bank is among the regions, and some
\* bank of NORMAL memory has two megabytes.
Complete(normal) ==
  /\ \E i \in DOMAIN regions : regions[i].start = KernelPhys
  /\ \E i \in 1 .. normal.nr : normal.sec[i].size >= 2 * SectionPages

\* The regions are sorted and inserted into their zones.  total_size leaves IO
\* memory out.
InsertRegions ==
  LET zs == Inserted(zone, Sorted(regions), Len(regions))
  IN  /\ step = "parse"
      /\ Complete(zs["normal"])
      /\ regions' = Sorted(regions)
      /\ zone' = zs
      /\ total' = zs["normal"].pages + zs["dma"].pages + zs["res"].pages
      /\ step' = "carve"
      /\ UNCHANGED <<table, tlb, vectors>>

\* Mutant of DmaPages: half of NORMAL memory.
DmaPages_half == baligin((zone["normal"].pages + 1) \div 2)

\* A sixteenth of NORMAL memory in whole megabytes.
DmaPages == baligin((zone["normal"].pages + 15) \div 16)

Sizes == [i \in 1 .. zone["normal"].nr |-> zone["normal"].sec[i].size]

\* The first of the largest sections.
Largest ==
  CHOOSE i \in DOMAIN Sizes :
    \A k \in DOMAIN Sizes : /\ Sizes[k] <= Sizes[i]
                            /\ k < i => Sizes[k] < Sizes[i]

\* The smaller sections that would hold the DMA zone, and the first of the
\* smallest of them.
Holders == {i \in DOMAIN Sizes : /\ Sizes[i] < Sizes[Largest]
                                 /\ Sizes[i] >= DmaPages}

Holder ==
  CHOOSE i \in Holders :
    \A k \in Holders : /\ Sizes[k] >= Sizes[i]
                       /\ k < i => Sizes[k] > Sizes[i]

\* It is taken whole if it is larger by a thirty-second of NORMAL memory at most.
TakeWhole ==
  Holders # {} /\ 32 * (Sizes[Holder] - DmaPages) <= zone["normal"].pages

\* NORMAL memory loses a region, which becomes the DMA zone.
Move(normal, start, size) ==
  insert_region_to_zone(
    [zone EXCEPT !["normal"] = [normal EXCEPT !.pages = @ - size,
                                              !.free = normal.pages - size]],
    [start |-> start, size |-> size, attr |-> "dma"])

\* The board has registered DMA memory.
CarveNothing ==
  /\ step = "carve" /\ zone["dma"].nr # 0
  /\ step' = "vmap"
  /\ UNCHANGED <<table, regions, zone, total, tlb, vectors>>

\* The section is blanked where it is and nr_section goes down by one, so that
\* the last section of the array is the one that is no longer seen.
CarveWhole ==
  LET normal == zone["normal"]
      s == normal.sec[Holder]
  IN  /\ step = "carve" /\ zone["dma"].nr = 0 /\ TakeWhole
      /\ zone' = Move([normal EXCEPT !.sec[Holder] = NoSection, !.nr = @ - 1],
                      s.phy, s.size)
      /\ step' = "vmap"
      /\ UNCHANGED <<table, regions, total, tlb, vectors>>

\* The end of the largest section is cut off.
CarveSplit ==
  LET normal == zone["normal"]
      s == normal.sec[Largest]
  IN  /\ step = "carve" /\ zone["dma"].nr = 0 /\ ~TakeWhole
      /\ zone' = Move([normal EXCEPT !.sec[Largest].size = @ - DmaPages],
                      s.phy + s.size - DmaPages, DmaPages)
      /\ step' = "vmap"
      /\ UNCHANGED <<table, regions, total, tlb, vectors>>

-----------------------------------------------------------------------------
(* map_zone_memory, map_memory and init_page_table_map *)

\* The sections a loop over the bank sees, in its order.
SeenOf(z) == [i \in 1 .. zone[z].nr |-> <<z, i>>]

Seen == SeenOf("normal") \o SeenOf("dma") \o SeenOf("res") \o SeenOf("io")

Sec(q) == zone[q[1]].sec[q[2]]

IsKernel(q) == q[1] = "normal" /\ Sec(q).phy = KernelPhys

\* The kernel's section is mapped first.
KernelSize ==
  IF \E k \in DOMAIN Seen : IsKernel(Seen[k])
  THEN Sec(Seen[CHOOSE k \in DOMAIN Seen : IsKernel(Seen[k])]).size ELSE 0

\* What the others take of the addresses behind it.
Rest == [k \in DOMAIN Seen |-> IF IsKernel(Seen[k]) THEN 0 ELSE Sec(Seen[k]).size]

Total(f, n) ==
  LET sum[i \in 0 .. n] == IF i = 0 THEN 0 ELSE sum[i - 1] + f[i]
  IN  sum[n]

\* A section starts where those before it end.
VirOf(k) ==
  IF IsKernel(Seen[k]) THEN kernel_start
  ELSE kernel_start + KernelSize + Total(Rest, k - 1)

map_zone_memory ==
  /\ step = "vmap"
  /\ zone' = [z \in Zones |->
                [zone[z] EXCEPT !.sec =
                   [i \in DOMAIN @ |->
                      IF i <= zone[z].nr /\ @[i].size > 0
                      THEN [@[i] EXCEPT !.vir =
                              VirOf(CHOOSE k \in DOMAIN Seen : Seen[k] = <<z, i>>)]
                      ELSE @[i]]]]
  /\ step' = "map"
  /\ UNCHANGED <<table, regions, total, tlb, vectors>>

\* Whole megabytes only; the test of the physical start tests the virtual one.
build_tlb_table_entry(e, vir, phy, cached) ==
  [pa |-> phy + e * SectionPages - vir, cached |-> cached]

\* The entries map_memory writes for a section.  The kernel's section is mapped
\* twice: first a part of it below its place, then the whole of it.
Covers(s, e) ==
  LET skip == ImageSections * SectionPages
  IN  \/ e * SectionPages \in Span(s.vir, s.size)
      \/ /\ s.vir = kernel_start
         /\ e * SectionPages \in Span(s.vir - skip, s.size - skip)

\* The last section that covers an entry sets it.  (An entry is the same in both
\* mappings of the kernel's section.)
map_memory ==
  /\ step = "map"
  /\ tlb' = [e \in DOMAIN tlb |->
               LET ks == {k \in DOMAIN Seen : Covers(Sec(Seen[k]), e)}
                   q == Seen[Max(ks)]
               IN  IF ks = {} THEN tlb[e]
                   ELSE build_tlb_table_entry(e, Sec(q).vir, Sec(q).phy,
                                              q[1] \notin {"dma", "io"})]
  /\ step' = "pages"
  /\ UNCHANGED <<table, regions, zone, total, vectors>>

\* Mutant of init_page_table_map: the ranges begin behind the kernel's pages.
init_page_table_map_behind ==
  LET n == zone["normal"].pages - KernelPages  d == zone["dma"].pages
      Set(z, first) == [zone[z] EXCEPT !.bm_start = first,
                                       !.bm_end = first + zone[z].pages]
  IN  /\ step = "pages"
      /\ zone' = [zone EXCEPT
           !["normal"] = [Set("normal", 0) EXCEPT !.free = @ - KernelPages],
           !["dma"] = Set("dma", n), !["res"] = Set("res", n + d)]
      /\ step' = "clear"
      /\ UNCHANGED <<table, regions, total, tlb, vectors>>

\* The page numbers of NORMAL, DMA and RES memory follow one another.
init_page_table_map ==
  LET n == zone["normal"].pages  d == zone["dma"].pages
      Set(z, first) == [zone[z] EXCEPT !.bm_start = first,
                                       !.bm_end = first + zone[z].pages]
  IN  /\ step = "pages"
      /\ zone' = [zone EXCEPT
           !["normal"] = [Set("normal", 0) EXCEPT !.free = @ - KernelPages],
           !["dma"] = Set("dma", n), !["res"] = Set("res", n + d)]
      /\ step' = "clear"
      /\ UNCHANGED <<table, regions, total, tlb, vectors>>

\* Mutant of clear_user_tlb: the last entry is left.
clear_user_tlb_short ==
  /\ step = "clear"
  /\ tlb' = [e \in DOMAIN tlb |-> IF e < UserSections - 1 THEN NoEntry ELSE tlb[e]]
  /\ step' = "trap"
  /\ UNCHANGED <<table, regions, zone, total, vectors>>

\* Mutant of clear_user_tlb: one entry too many.
clear_user_tlb_kernel ==
  /\ step = "clear"
  /\ tlb' = [e \in DOMAIN tlb |-> IF e <= UserSections THEN NoEntry ELSE tlb[e]]
  /\ step' = "trap"
  /\ UNCHANGED <<table, regions, zone, total, vectors>>

clear_user_tlb ==
  /\ step = "clear"
  /\ tlb' = [e \in DOMAIN tlb |-> IF e < UserSections THEN NoEntry ELSE tlb[e]]
  /\ step' = "trap"
  /\ UNCHANGED <<table, regions, zone, total, vectors>>

-----------------------------------------------------------------------------
(* Addresses after boot *)

page_id_to_va(i) == kernel_start + i

va_to_page_id(va) == va - kernel_start

\* Mutant of FirstOffset: the search goes on and the last hit counts.
FirstOffset_last(hits) ==
  IF hits = {} THEN 0
  ELSE LET s == Sec(Seen[Max(hits)]) IN s.vir - s.phy

\* The offset of the first section seen among those that hold an address, or 0.
\* Both searches include the end of a section.
FirstOffset(hits) ==
  IF hits = {} THEN 0
  ELSE LET s == Sec(Seen[Min(hits)]) IN s.vir - s.phy

va_get_pv_offset(va) ==
  FirstOffset({k \in DOMAIN Seen : /\ Sec(Seen[k]).vir <= va
                                   /\ va <= Sec(Seen[k]).vir + Sec(Seen[k]).size})

pa_get_pv_offset(pa) ==
  FirstOffset({k \in DOMAIN Seen : /\ Sec(Seen[k]).phy <= pa
                                   /\ pa <= Sec(Seen[k]).phy + Sec(Seen[k]).size})

\* The physical address init_pages gives a page; init_page_table_map gives the
\* kernel's pages theirs from the section at kernel_start.
phy_address(i) == page_id_to_va(i) - va_get_pv_offset(page_id_to_va(i))

pa_to_va(pa) == IF pa_get_pv_offset(pa) = 0 THEN 0
                ELSE pa + pa_get_pv_offset(pa)

\* What the MMU makes of a kernel address.
Translate(va) ==
  LET e == tlb[va \div SectionPages]
  IN  IF e = NoEntry THEN -1 ELSE e.pa + (va % SectionPages)

\* Mutant of AlignedIn: the offset in the megabyte is forgotten.
AlignedIn_start(k) ==
  {i \in 0 .. Entries * SectionPages - 1 :
     /\ i % SectionPages = 0 /\ i >= KernelPages
     /\ page_id_to_va(i) \in Span(zone["normal"].sec[k].vir,
                                    zone["normal"].sec[k].size)}

\* The pages get_free_page_aligin looks at in a section of NORMAL memory.
AlignedIn(k) ==
  {i \in 0 .. Entries * SectionPages - 1 :
     /\ i % SectionPages = VectorOffset /\ i >= KernelPages
     /\ page_id_to_va(i) \in Span(zone["normal"].sec[k].vir,
                                    zone["normal"].sec[k].size)}

\* trap_init: the vectors go to the first page of NORMAL memory, section by
\* section, that lies in its megabyte where 0xffff0000 lies in its own, and that
\* megabyte is mapped there as well.  Without such a page boot goes on.
trap_init ==
  LET ks == {k \in 1 .. zone["normal"].nr : AlignedIn(k) # {}}
      i == Min(AlignedIn(Min(ks)))
  IN  /\ step = "trap"
      /\ vectors' = IF ks = {} THEN -1 ELSE i
      /\ tlb' = IF ks = {} THEN tlb
                ELSE [tlb EXCEPT ![Entries - 1] =
                        build_tlb_table_entry(Entries - 1,
                          (Entries - 1) * SectionPages,
                          min_aligin(phy_address(i)), TRUE)]
      /\ step' = "run"
      /\ UNCHANGED <<table, regions, zone, total>>

LayoutNext ==
  \/ \E r \in Region : register_memory_region(r)
  \/ InsertRegions
  \/ CarveNothing \/ CarveWhole \/ CarveSplit
  \/ map_zone_memory \/ map_memory \/ init_page_table_map
  \/ clear_user_tlb \/ trap_init

LayoutSpec == LayoutInit /\ [][LayoutNext]_layoutVars

-----------------------------------------------------------------------------
(* Properties *)

Booted == step \in {"trap", "run"}

\* A section with memory in it that no loop sees any more.
Hidden == \E i \in zone["normal"].nr + 1 .. ZONE_MAX_REGION :
            zone["normal"].sec[i].size > 0

\* A zone had more regions than it has room for.
Dropped == \E z \in Zones : Cardinality({i \in DOMAIN regions :
                              regions[i].attr = z}) > ZONE_MAX_REGION

PagesOf(z) == zone[z].bm_start .. zone[z].bm_end - 1

Memory(z) == UNION {Span(regions[i].start, regions[i].size) :
                      i \in {j \in DOMAIN regions : regions[j].attr = z}}

\* The page numbers of a zone, which is all the page allocator goes by, are the
\* memory of that zone: every page of RAM that has been registered has one
\* number, in the range of its own zone or, if it was cut off for it, of the DMA
\* zone, and is mapped cached unless it is for DMA.  Known exceptions: a zone
\* with too many regions, and the section hidden by nr_section--.
PageNumbersAreMemory ==
  Booted /\ ~Hidden /\ ~Dropped =>
    LET At(z) == {Translate(page_id_to_va(i)) : i \in PagesOf(z)}
        cut == \A i \in DOMAIN regions : regions[i].attr # "dma"
    IN  /\ At("normal") \cup At("dma") \cup At("res")
             = Memory("normal") \cup Memory("dma") \cup Memory("res")
        /\ At("normal") \subseteq Memory("normal")
        /\ At("dma") \subseteq (IF cut THEN Memory("normal") ELSE Memory("dma"))
        /\ total = Cardinality(Memory("normal") \cup Memory("dma") \cup Memory("res"))
        /\ zone["res"].bm_end = total
        /\ \A z \in {"normal", "dma", "res"} : \A i \in PagesOf(z) :
             tlb[page_id_to_va(i) \div SectionPages].cached = (z # "dma")

\* The kernel goes on running through every step: the entries of its own
\* megabyte never change what they map, if its bank is the first and the largest
\* of NORMAL memory.  (The search for a DMA section may take another bank whole,
\* and neither test asks where the kernel is.)
KernelStaysMapped ==
  (\A r \in table : r.attr = "normal" =>
      /\ r.start >= KernelPhys
      /\ \A g \in table : g.start = KernelPhys
           => Trimmed(r).size <= Trimmed(g).size)
  => \A k \in 0 .. KernelPages - 1 :
       Translate(kernel_start + k) = KernelPhys + k

\* No memory has two addresses once boot is done (that of the vectors apart):
\* boot.S maps the kernel and the console to themselves, map_memory a part of the
\* kernel's section a second time, below its place, and clear_user_tlb takes all
\* of that away again.
NoAlias ==
  Booted => \A e, f \in 0 .. Entries - 2 :
              e # f /\ tlb[e] # NoEntry => tlb[e].pa # tlb[f].pa

\* va_to_pa(page) and pa_to_va, which request_io_mem is, agree with the MMU
\* except at a seam: an address where a section seen earlier ends and from which
\* the new section does not simply go on.  The comparison includes the end.
LookupsAgree ==
  Booted => \A k \in DOMAIN Seen :
    LET s == Sec(Seen[k])
        before == {Sec(Seen[j]) : j \in 1 .. k - 1}
        Seam(t) == t.vir - t.phy # s.vir - s.phy
    IN  \A n \in 0 .. s.size - 1 :
          /\ (phy_address(va_to_page_id(s.vir + n)) = Translate(s.vir + n))
               = ~(n = 0 /\ \E t \in before : t.vir + t.size = s.vir /\ Seam(t))
          /\ (pa_to_va(s.phy + n) # 0 /\ Translate(pa_to_va(s.phy + n)) = s.phy + n)
               = ~(n = 0 /\ \E t \in before : t.phy + t.size = s.phy /\ Seam(t))

\* The processor finds the vectors: the address 0xffff0000 and the page they
\* were copied to are the same memory, whatever the layout, because that page is
\* never the first of a section, where the search for its address goes wrong.
VectorsReachable ==
  step = "run" /\ vectors # -1 =>
    Translate((Entries - 1) * SectionPages + VectorOffset)
      = Translate(page_id_to_va(vectors))

\* The section that is cut for the DMA zone has the room ("fix me, we must
\* ensure that the section with max size must have enough size"), and NORMAL
\* memory keeps a part of it.  That is so up to eight sections in a zone, if one
\* of them has two megabytes.
CutFits ==
  step = "carve" /\ zone["dma"].nr = 0 /\ ~TakeWhole
    => DmaPages > 0 /\ DmaPages < Sizes[Largest]

=============================================================================
