----------------------------- MODULE PageAlloc -----------------------------
(***************************************************************************)
(* The page allocator of mm/mm.c: a bitmap with one bit per page, and a    *)
(* search that goes on where the last one ended.  All requests of the      *)
(* kernel are for the NORMAL zone (no caller passes GFP_DMA or GFP_RES),   *)
(* so there is one zone record; the pages of the DMA zone are those that   *)
(* follow, and after them come bits that stand for no page.                *)
(*                                                                         *)
(* zone_mutex is held from the test of free_pages to the update of the     *)
(* zone, so that section is one step.  init_pages runs after the unlock    *)
(* and is another.  A request that fails changes nothing.                  *)
(***************************************************************************)
EXTENDS Integers, FiniteSets

CONSTANTS
  Clients,   \* the tasks that ask for pages
  Normal,    \* page_num of the NORMAL zone
  Dma,       \* page_num of the DMA zone
  Kernel,    \* pages of the kernel image, the page table and the page map
  Top,       \* the last bit the instance looks at
  Counts,    \* the numbers of pages that are asked for
  Aligned    \* the pages get_free_page_aligin looks at, one in each megabyte

ASSUME PageAssumption ==
  /\ Normal \in Nat /\ Dma \in Nat /\ Kernel \in Nat /\ Top \in Nat
  /\ 0 < Kernel /\ Kernel < Normal
  /\ Normal + Dma < Top
  /\ Counts \subseteq 1 .. 255
  /\ Aligned \subseteq 0 .. Normal - 1
  /\ \E p \in Aligned : p >= Kernel

VARIABLES
  page_map,    \* the set of pages whose bit is set
  bm_current,  \* where the next search starts
  free_pages,  \* pages the zone has left
  page,        \* struct page: the header flag and count
  pending,     \* the block a client has taken and not initialised
  blocks       \* the blocks a client holds: pairs (first page, count)

pageVars == <<page_map, bm_current, free_pages, page, pending, blocks>>

Bits == 0 .. Top

Block(first, n) == first .. first + n - 1

None == <<0, 0>>

-----------------------------------------------------------------------------
bm_start == 0

bm_end == Normal

\* The page get_free_page_aligin finds: the first aligned page whose bit is
\* clear.  trap_init calls it once, for the exception vectors, before any
\* other request.
get_free_page_aligin ==
  CHOOSE p \in Aligned : p >= Kernel /\ \A r \in Aligned : r >= Kernel => p <= r

\* The pages that are never given back.
Fixed == (0 .. Kernel - 1) \cup {get_free_page_aligin}

\* init_page_table_map, then the page of the vectors, which moves neither
\* bm_current nor anything but its bit and free_pages.  The bits up to the end
\* of the map are clear, and behind the map is whatever the memory holds.
PageInit ==
  /\ \E junk \in SUBSET (Normal + Dma + 1 .. Top) : page_map = Fixed \cup junk
  /\ bm_current = Kernel
  /\ free_pages = Normal - Kernel - 1
  /\ page = [p \in Bits |-> IF p = get_free_page_aligin
                             THEN [header |-> TRUE, count |-> 1]
                             ELSE [header |-> FALSE, count |-> 0]]
  /\ pending = [c \in Clients |-> None]
  /\ blocks = [c \in Clients |-> {}]

-----------------------------------------------------------------------------
(* find_continous_pages *)

Clear(from, to) == {i \in from .. to : i \notin page_map}

\* The n-th element of a set of page numbers.
Nth(S, n) == CHOOSE i \in S : Cardinality({j \in S : j <= i}) = n

\* The clear bits the search counts until it turns back at bm_end (which it
\* tests too), and from bm_start on up to the point where it began.  A search
\* that begins behind bm_end never turns back.
FirstPass ==
  Clear(bm_current, IF bm_current <= bm_end THEN bm_end ELSE Top)

SecondPass ==
  IF bm_current <= bm_end THEN Clear(bm_start, bm_current) ELSE {}

\* Mutant of find_continous_pages: the index has moved on when it is returned.
find_continous_pages_after(n) ==
  IF Cardinality(FirstPass) >= n THEN Nth(FirstPass, n) - n + 2
  ELSE IF Cardinality(SecondPass) >= n THEN Nth(SecondPass, n) - n + 2
  ELSE 0

\* The search returns at the n-th clear bit it has counted, whether or not the
\* clear bits are neighbours: sum is not reset at a set bit.  0 is failure.
find_continous_pages(n) ==
  IF Cardinality(FirstPass) >= n THEN Nth(FirstPass, n) - n + 1
  ELSE IF Cardinality(SecondPass) >= n THEN Nth(SecondPass, n) - n + 1
  ELSE 0

\* The search ends within the bits of the instance, and does not go round for
\* ever, which it does if it began at bm_end and finds too little.
SearchEnds(n) ==
  \/ bm_current < bm_end
  \/ Cardinality(FirstPass) >= n
  \/ Cardinality(SecondPass) >= n

-----------------------------------------------------------------------------
(* Operations *)

\* _get_free_pages up to the unlock.
GetFreePages(c, n) ==
  LET index == find_continous_pages(n)
  IN  /\ pending[c] = None
      /\ free_pages >= n
      /\ SearchEnds(n)
      /\ index # 0
      /\ page_map' = page_map \cup Block(index, n)
      /\ bm_current' = index + n
      /\ free_pages' = free_pages - n
      /\ pending' = [pending EXCEPT ![c] = <<index, n>>]
      /\ UNCHANGED <<page, blocks>>

\* init_pages, and the return to the caller.  The header flag sticks: every
\* page of the block gets it.  A page that is not the first has its own number
\* for a count.
InitPages(c) ==
  LET first == pending[c][1]
      n     == pending[c][2]
  IN  /\ pending[c] # None
      /\ page' = [p \in Bits |->
                    IF p \in Block(first, n)
                    THEN [header |-> TRUE,
                          count  |-> IF p = first THEN n % 256 ELSE p % 256]
                    ELSE page[p]]
      /\ pending' = [pending EXCEPT ![c] = None]
      /\ blocks' = [blocks EXCEPT ![c] = @ \cup {pending[c]}]
      /\ UNCHANGED <<page_map, bm_current, free_pages>>

\* free_pages(b) by its holder.
FreePages(c, b) ==
  LET n == page[b[1]].count
  IN  /\ b \in blocks[c]
      /\ page[b[1]].header
      /\ page_map' = page_map \ Block(b[1], n)
      /\ free_pages' = free_pages + n
      /\ bm_current' = IF bm_current = b[1] + n THEN b[1] ELSE bm_current
      /\ blocks' = [blocks EXCEPT ![c] = @ \ {b}]
      /\ UNCHANGED <<page, pending>>

-----------------------------------------------------------------------------
PageNext ==
  \E c \in Clients :
     \/ \E n \in Counts : GetFreePages(c, n)
     \/ InitPages(c)
     \/ \E b \in blocks[c] : FreePages(c, b)

PageSpec == PageInit /\ [][PageNext]_pageVars

-----------------------------------------------------------------------------
(* Properties *)

\* The blocks a client has, initialised or not.
Has(c) == blocks[c] \cup ({pending[c]} \ {None})

\* The types of the variables.
PageTypeOK ==
  /\ page_map \subseteq Bits
  /\ bm_current \in 0 .. Top + 1
  /\ free_pages \in Int
  /\ page \in [Bits -> [header : BOOLEAN, count : 0 .. 255]]
  /\ pending \in [Clients -> Bits \X Nat]
  /\ blocks \in [Clients -> SUBSET (Bits \X Nat)]

\* get_free_pages never gives a page away twice, nor a page of the kernel, in
\* whatever order blocks were taken and freed, and the bit of a page that is
\* held stays set.
NoSharing ==
  \A c \in Clients : \A b \in Has(c) :
     /\ Block(b[1], b[2]) \subseteq page_map \ Fixed
     /\ \A d \in Clients : \A e \in Has(d) :
           c # d \/ b # e => Block(b[1], b[2]) \cap Block(e[1], e[2]) = {}

\* The pages the clients have.
Held == UNION {Block(b[1], b[2]) : b \in UNION {Has(c) : c \in Clients}}

\* Nothing leaks: free_pages counts exactly the pages nobody has, and the bits
\* that are set are exactly those of the pages somebody has.
Accounting ==
  /\ free_pages = Normal - Kernel - 1 - Cardinality(Held)
  /\ page_map \cap (0 .. Normal + Dma) =
        Fixed \cup (Held \cap (0 .. Normal + Dma))

\* No page from bm_current on is in use: free_pages moves bm_current back only
\* over the block that was taken last.  So the search succeeds at the first
\* page that is not the one of the vectors and never turns back, and a page
\* that was freed out of turn is never given out again.
AheadIsFree ==
  \A c \in Clients : \A b \in Has(c) : b[1] + b[2] <= bm_current

=============================================================================
