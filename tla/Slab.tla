-------------------------------- MODULE Slab --------------------------------
(***************************************************************************)
(* kmalloc of mm/slab.c, in units of SLAB_STEP = 16 bytes, which is also   *)
(* the size of a slab_header.                                              *)
(*                                                                         *)
(* kmalloc runs under slab_mutex, so there is one call at a time; it is    *)
(* split at its requests for pages, between which other tasks take and     *)
(* free pages.  All callers pass GFP_KERNEL.  kfree does nothing to an     *)
(* address above SIZE_1G, and all addresses of the kernel are, so memory   *)
(* is never given back: no page of the slab is released, free_header stays *)
(* empty, and neither is modelled.  The list of slices of a page is read   *)
(* by kfree only.                                                          *)
(***************************************************************************)
EXTENDS Integers, FiniteSets, Sequences

CONSTANTS
  PAGE_SIZE,  \* units in a page
  Pages,      \* pages the zone has left when the slab starts
  Sizes       \* the sizes asked for, rounded up to units

ASSUME SlabAssumption ==
  /\ PAGE_SIZE \in Nat /\ PAGE_SIZE > 1
  /\ Pages \in Nat
  /\ Sizes \subseteq Nat \ {0}

VARIABLES
  used,               \* pages 1 .. used belong to the slab
  others,             \* pages other tasks have
  slab_page_current,  \* the page slices are cut from
  pg,                 \* struct page: free_base, from the start of the page, and free_size
  table,              \* slab_header_table: its page and header_in_page
  header,             \* the slab_headers in use: own place, place and size of the slice
  list,               \* the cache list of each size
  given,              \* what kmalloc has returned: place and size
  call                \* the call in progress

slabVars == <<used, others, slab_page_current, pg, table, header, list, given, call>>

NULL == 0

\* Where a call stands: "slice", "pages", "first" and "update" are its requests
\* for a page or a header; after "wild" it has used a list that does not exist
\* or a header at NULL, and nothing is known of the machine.
Points == {"none", "slice", "pages", "first", "update", "wild"}

NoCall == [at |-> "none", size |-> 0, page |-> NULL]

SLAB_NODE == PAGE_SIZE - 1

page_nr(n) == (n + PAGE_SIZE - 1) \div PAGE_SIZE

slab_init ==
  /\ used = 0
  /\ others \in 0 .. Pages
  /\ slab_page_current = NULL
  /\ pg = [p \in 1 .. Pages |-> [free_base |-> 0, free_size |-> PAGE_SIZE]]
  /\ table = [page |-> NULL, header_in_page |-> -1]
  /\ header = {}
  /\ list = [n \in 1 .. SLAB_NODE |-> <<>>]
  /\ given = {}
  /\ call = NoCall

-----------------------------------------------------------------------------
(* Pages and headers *)

\* get_free_pages: n pages next to each other, if the zone has as many.
CanGet(n) == used + others + n <= Pages

\* Mutant of HeaderInPage: one header too many.
HeaderInPage_full ==
  table.page # NULL /\ table.header_in_page <= PAGE_SIZE

\* The page of headers has room for one more.
HeaderInPage ==
  table.page # NULL /\ table.header_in_page < PAGE_SIZE

\* get_new_slab_header does not return NULL.
CanGetHeader == HeaderInPage \/ CanGet(1)

\* n units are cut off the free part of page record q.
Cut(q, n) == [free_base |-> q.free_base + n, free_size |-> q.free_size - n]

\* Mutant of get_slab_from_page: the page is charged for a unit less.
get_slab_from_page_short(p, n) ==
  LET h == IF HeaderInPage THEN table.page ELSE used + 1
  IN  /\ CanGetHeader
      /\ used' = IF HeaderInPage THEN used ELSE h
      /\ table' = [page |-> h,
                   header_in_page |-> IF HeaderInPage THEN table.header_in_page + 1 ELSE 1]
      /\ pg' = [pg EXCEPT ![h] = Cut(@, 1), ![p] = Cut(@, n - 1)]
      /\ header' = header \cup
           {[selfPage |-> h, self |-> pg[h].free_base,
             page |-> p, base |-> pg[p].free_base, size |-> n]}

\* A new header, and with it a slice of n units from page p.
get_slab_from_page(p, n) ==
  LET h == IF HeaderInPage THEN table.page ELSE used + 1
  IN  /\ CanGetHeader
      /\ used' = IF HeaderInPage THEN used ELSE h
      /\ table' = [page |-> h,
                   header_in_page |-> IF HeaderInPage THEN table.header_in_page + 1 ELSE 1]
      /\ pg' = [pg EXCEPT ![h] = Cut(@, 1), ![p] = Cut(@, n)]
      /\ header' = header \cup
           {[selfPage |-> h, self |-> pg[h].free_base,
             page |-> p, base |-> pg[p].free_base, size |-> n]}

\* It fails, and nothing has changed.
NoSlab == ~CanGetHeader /\ UNCHANGED <<used, table, pg, header>>

\* kmalloc returns n units at base in page p.
Return(p, base, n) ==
  /\ given' = given \cup {[page |-> p, base |-> base, size |-> n]}
  /\ call' = NoCall

Go(point) == call' = [call EXCEPT !.at = point]

-----------------------------------------------------------------------------
(* kmalloc *)

\* Mutant of get_slab_in_list: the slice stays in the list.
get_slab_in_list_kept(n) ==
  /\ call = NoCall
  /\ n < PAGE_SIZE /\ list[n] # <<>>
  /\ Return(list[n][1].page, list[n][1].base, n)
  /\ UNCHANGED <<used, others, slab_page_current, pg, table, header, list>>

\* kmalloc(n), for less than a page, finds a slice of its size in the cache.
get_slab_in_list(n) ==
  /\ call = NoCall
  /\ n < PAGE_SIZE /\ list[n] # <<>>
  /\ list' = [list EXCEPT ![n] = Tail(@)]
  /\ Return(list[n][1].page, list[n][1].base, n)
  /\ UNCHANGED <<used, others, slab_page_current, pg, table, header>>

\* kmalloc(n) finds none, or does not look: it goes on to the current page if
\* that has enough, and else to a new page.
KmallocMiss(n) ==
  LET inPage == /\ n < PAGE_SIZE
                /\ slab_page_current # NULL
                /\ n <= pg[slab_page_current].free_size
  IN  /\ call = NoCall
      /\ n < PAGE_SIZE => list[n] = <<>>
      /\ call' = [at |-> IF inPage THEN "slice" ELSE "pages", size |-> n, page |-> NULL]
      /\ UNCHANGED <<used, others, slab_page_current, pg, table, header, list, given>>

\* The rest of get_slab_from_page_free; without a header a new page is tried.
get_slab_from_page_free ==
  /\ call.at = "slice"
  /\ \/ /\ get_slab_from_page(slab_page_current, call.size)
        /\ Return(slab_page_current, pg[slab_page_current].free_base, call.size)
     \/ NoSlab /\ Go("pages") /\ UNCHANGED given
  /\ UNCHANGED <<others, slab_page_current, list>>

\* get_kernel_slab up to the return of get_free_pages.  Whole pages are not
\* managed by the slab.
GetPages ==
  LET n == page_nr(call.size)
  IN  /\ call.at = "pages"
      /\ \/ /\ ~CanGet(n)
            /\ call' = NoCall
            /\ UNCHANGED <<used, given>>
         \/ /\ CanGet(n)
            /\ used' = used + n
            /\ IF call.size % PAGE_SIZE = 0
               THEN Return(used + 1, 0, call.size)
               ELSE /\ call' = [call EXCEPT !.at = "first", !.page = used + 1]
                    /\ UNCHANGED given
      /\ UNCHANGED <<others, slab_page_current, pg, table, header, list>>

\* The last of the pages of the call, and what the call needs of it.
LastPage == call.page + page_nr(call.size) - 1

LeaveSize == call.size % PAGE_SIZE

\* The slice of the call is cut from its last page.  The result is ignored.
FirstSlice ==
  /\ call.at = "first"
  /\ get_slab_from_page(LastPage, LeaveSize) \/ NoSlab
  /\ Go("update")
  /\ UNCHANGED <<others, slab_page_current, list, given>>

\* Of the current page and the call's, the one with more free memory.
NewCurrent ==
  IF slab_page_current = NULL \/ pg[LastPage].free_size > pg[slab_page_current].free_size
  THEN LastPage
  ELSE slab_page_current

OldCurrent == IF NewCurrent = LastPage THEN slab_page_current ELSE LastPage

\* Mutant of RestIsWorthIt: two units are not.
RestIsWorthIt_more == OldCurrent # NULL /\ pg[OldCurrent].free_size > 2

\* The rest of the other page is put into the cache.
RestIsWorthIt == OldCurrent # NULL /\ pg[OldCurrent].free_size > 1

\* The rest goes to the front of the list of its size.
add_slab_header_to_list(h, n) == list' = [list EXCEPT ![n] = <<h>> \o @]

\* update_slab_free_page and the return of kmalloc.
update_slab_free_page ==
  LET rest == pg[OldCurrent].free_size
  IN  /\ call.at = "update"
      /\ slab_page_current' = NewCurrent
      /\ \/ /\ ~RestIsWorthIt
            /\ Return(call.page, 0, call.size)
            /\ UNCHANGED <<used, pg, table, header, list>>
         \/ /\ RestIsWorthIt
            /\ rest <= SLAB_NODE
            /\ get_slab_from_page(OldCurrent, rest)
            /\ \E h \in header' \ header : add_slab_header_to_list(h, rest)
            /\ Return(call.page, 0, call.size)
         \/ /\ RestIsWorthIt
            /\ rest > SLAB_NODE \/ ~CanGetHeader
            /\ Go("wild")
            /\ UNCHANGED <<used, pg, table, header, list, given>>
      /\ UNCHANGED others

\* Other tasks take and free pages.
OthersTake ==
  /\ call.at # "wild"
  /\ CanGet(1)
  /\ others' = others + 1
  /\ UNCHANGED <<used, slab_page_current, pg, table, header, list, given, call>>

OthersFree ==
  /\ call.at # "wild"
  /\ others > 0
  /\ others' = others - 1
  /\ UNCHANGED <<used, slab_page_current, pg, table, header, list, given, call>>

SlabNext ==
  \/ \E n \in Sizes : get_slab_in_list(n) \/ KmallocMiss(n)
  \/ get_slab_from_page_free
  \/ GetPages
  \/ FirstSlice
  \/ update_slab_free_page
  \/ OthersTake
  \/ OthersFree

SlabSpec == slab_init /\ [][SlabNext]_slabVars

-----------------------------------------------------------------------------
(* Properties *)

\* The units of a slice, counted from the start of its page.
Slice(h) == h.base .. h.base + h.size - 1

FreePart(p) == pg[p].free_base .. pg[p].free_base + pg[p].free_size - 1

\* The units of a block that may go over several pages.
Extent(b) == b.page * PAGE_SIZE + b.base .. b.page * PAGE_SIZE + b.base + b.size - 1

\* The types of the variables.
SlabTypeOK ==
  /\ used \in 0 .. Pages
  /\ others \in 0 .. Pages
  /\ used + others <= Pages
  /\ slab_page_current \in 0 .. used
  /\ pg \in [1 .. Pages -> [free_base : 0 .. PAGE_SIZE, free_size : 0 .. PAGE_SIZE]]
  /\ table \in [page : 0 .. used, header_in_page : Int]
  /\ table.header_in_page <= PAGE_SIZE
  /\ header \subseteq [selfPage : 1 .. used, self : 0 .. PAGE_SIZE - 1,
                       page : 1 .. used, base : 0 .. PAGE_SIZE - 1,
                       size : 1 .. PAGE_SIZE]
  /\ list \in [1 .. SLAB_NODE -> Seq(header)]
  /\ given \subseteq [page : 1 .. used, base : 0 .. PAGE_SIZE - 1, size : Nat \ {0}]
  /\ call \in [at : Points, size : Nat, page : 0 .. used]

\* Slices that have a header never overlap, whatever page requests failed on
\* the way: each lies before the free part of its page, which holds no header,
\* and no two headers are in one place.
SlicesApart ==
  \A h \in header :
     /\ h.base + h.size <= pg[h.page].free_base
     /\ \A k \in header :
           /\ h.page # k.selfPage
           /\ h # k => /\ h.page = k.page => Slice(h) \cap Slice(k) = {}
                       /\ <<h.selfPage, h.self>> # <<k.selfPage, k.self>>

\* What kmalloc returned as g has a header: that of its last part, if it is
\* not made of whole pages.
Headed(g) ==
  g.size % PAGE_SIZE # 0 =>
     \E h \in header :
        /\ h.size = g.size % PAGE_SIZE
        /\ Extent(h) \subseteq Extent(g)
        /\ h.page = g.page + page_nr(g.size) - 1

\* A slice in the cache list of a size has that size, is there once and shares
\* no memory with anything that is in use and has a header, so that
\* get_slab_in_list can return it unseen.
CachedIsUnused ==
  \A n \in 1 .. SLAB_NODE : \A i \in 1 .. Len(list[n]) :
     LET h == list[n][i]
     IN  /\ h.size = n
         /\ \A g \in given : Headed(g) => Extent(g) \cap Extent(h) = {}
         /\ \A j \in 1 .. Len(list[n]) : i # j => list[n][j] # h

\* Between calls no memory of a slab page is out of reach but a single unit of
\* a page that is not current: all else is in a slice or can still be cut.
NothingIsLost ==
  call = NoCall =>
     \A p \in {h.page : h \in header} :
        /\ 0 .. PAGE_SIZE - 1 =
              FreePart(p) \cup UNION {Slice(h) : h \in {k \in header : k.page = p}}
        /\ p # slab_page_current => pg[p].free_size <= 1

=============================================================================
