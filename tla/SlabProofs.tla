----------------------------- MODULE SlabProofs -----------------------------
(***************************************************************************)
(* Slices with a header never overlap, for any size of a page, any number  *)
(* of pages and any sizes asked for, whatever page requests fail.          *)
(***************************************************************************)
EXTENDS Slab, TLAPS

-----------------------------------------------------------------------------
(* The inductive invariant *)

\* The types of what get_slab_from_page changes.
CutTypes ==
  /\ used \in 0 .. Pages
  /\ others \in 0 .. Pages
  /\ used + others <= Pages
  /\ pg \in [1 .. Pages -> [free_base : 0 .. PAGE_SIZE, free_size : 0 .. PAGE_SIZE]]
  /\ table \in [page : 0 .. used, header_in_page : Int]
  /\ table.header_in_page <= PAGE_SIZE
  /\ header \subseteq [selfPage : 1 .. used, self : 0 .. PAGE_SIZE - 1,
                       page : 1 .. used, base : 0 .. PAGE_SIZE - 1,
                       size : 1 .. PAGE_SIZE]

\* A page is a part in use and a free part; new pages are free; the header
\* table counts the headers of its page; headers lie before the free part of
\* theirs; and no slice is cut from the page of the table.
Tidy ==
  /\ \A p \in 1 .. Pages : pg[p].free_base + pg[p].free_size = PAGE_SIZE
  /\ \A p \in used + 1 .. Pages : pg[p].free_base = 0
  /\ table.page # NULL => table.header_in_page = pg[table.page].free_base
  /\ \A h \in header : h.self < pg[h.selfPage].free_base
  /\ \A h \in header : h.page # table.page

\* A page that slices may be cut from.
Candidate(p) ==
  /\ p \in 1 .. used
  /\ p # table.page
  /\ \A h \in header : h.selfPage # p

\* What a call in progress knows.
CallOK ==
  /\ slab_page_current # NULL => Candidate(slab_page_current)
  /\ call.at # "none" => call.size # 0
  /\ call.at = "slice" =>
        slab_page_current # NULL /\ call.size <= pg[slab_page_current].free_size
  /\ call.at \in {"first", "update"} => Candidate(LastPage) /\ call.page # NULL
  /\ call.at = "first" =>
        pg[LastPage].free_base = 0 /\ LeaveSize \in 1 .. PAGE_SIZE - 1

SInv == SlabTypeOK /\ Tidy /\ SlicesApart /\ CallOK

-----------------------------------------------------------------------------
\* The page of the header: it has room, no slice is cut from it, and it is
\* either the page of the table or a new one.
LEMMA HeaderPage ==
  ASSUME CutTypes, Tidy, others' = others,
         NEW p, Candidate(p), NEW n, get_slab_from_page(p, n)
  PROVE  \E h \in 1 .. Pages :
            /\ h \in 1 .. used' /\ used' \in used .. Pages /\ used' + others <= Pages
            /\ pg[h].free_base \in 0 .. PAGE_SIZE - 1 /\ pg[h].free_size > 0
            /\ h = table.page \/ h > used
            /\ table' = [page |-> h, header_in_page |-> pg[h].free_base + 1]
            /\ pg' = [pg EXCEPT ![h] = Cut(@, 1), ![p] = Cut(@, n)]
            /\ header' = header \cup
                 {[selfPage |-> h, self |-> pg[h].free_base,
                   page |-> p, base |-> pg[p].free_base, size |-> n]}
<1> USE SlabAssumption DEF CutTypes, NULL
<1>1. CASE HeaderInPage
  <2>1. /\ used' = used /\ table.page \in 1 .. used /\ table.page \in 1 .. Pages
        /\ table.header_in_page < PAGE_SIZE
        /\ table.header_in_page = pg[table.page].free_base
    <3>1. used' = used /\ table.page # NULL /\ table.header_in_page < PAGE_SIZE
      BY <1>1 DEF HeaderInPage, get_slab_from_page
    <3>2. table.page \in 0 .. used /\ used \in 0 .. Pages
      OBVIOUS
    <3>3. table.header_in_page = pg[table.page].free_base
      BY <3>1 DEF Tidy
    <3> HIDE DEF CutTypes
    <3> QED  BY <3>1, <3>2, <3>3
  <2>2. /\ pg[table.page].free_base \in Nat /\ pg[table.page].free_size \in Nat
        /\ pg[table.page].free_base + pg[table.page].free_size = PAGE_SIZE
    BY <2>1 DEF Tidy
  <2>3. /\ table' = [page |-> table.page, header_in_page |-> pg[table.page].free_base + 1]
        /\ pg' = [pg EXCEPT ![table.page] = Cut(@, 1), ![p] = Cut(@, n)]
        /\ header' = header \cup
                 {[selfPage |-> table.page, self |-> pg[table.page].free_base,
                   page |-> p, base |-> pg[p].free_base, size |-> n]}
    BY <1>1, <2>1 DEF get_slab_from_page
  <2>4. pg[table.page].free_base \in 0 .. PAGE_SIZE - 1 /\ pg[table.page].free_size > 0
    BY <2>1, <2>2
  <2>5. used' \in used .. Pages /\ used' + others <= Pages /\ table.page \in 1 .. used'
    BY <2>1
  <2> HIDE DEF CutTypes
  <2> QED
    BY <2>1, <2>3, <2>4, <2>5
<1>2. CASE ~HeaderInPage
  <2>1. /\ used' = used + 1 /\ used + others + 1 <= Pages
        /\ used + 1 \in used + 1 .. Pages /\ used + 1 \in 1 .. Pages
    BY <1>2 DEF CanGetHeader, CanGet, get_slab_from_page
  <2>2. /\ pg[used + 1].free_base = 0 /\ pg[used + 1].free_size \in Nat
        /\ pg[used + 1].free_base + pg[used + 1].free_size = PAGE_SIZE
    BY <2>1 DEF Tidy
  <2>3. /\ table' = [page |-> used + 1, header_in_page |-> pg[used + 1].free_base + 1]
        /\ pg' = [pg EXCEPT ![used + 1] = Cut(@, 1), ![p] = Cut(@, n)]
        /\ header' = header \cup
                 {[selfPage |-> used + 1, self |-> pg[used + 1].free_base,
                   page |-> p, base |-> pg[p].free_base, size |-> n]}
    BY <1>2, <2>2 DEF get_slab_from_page
  <2>4. pg[used + 1].free_base \in 0 .. PAGE_SIZE - 1 /\ pg[used + 1].free_size > 0
    BY <2>1, <2>2
  <2>5. /\ used' \in used .. Pages /\ used' + others <= Pages
        /\ used + 1 \in 1 .. used' /\ used + 1 > used
    BY <2>1
  <2> HIDE DEF CutTypes
  <2> QED
    BY <2>1, <2>3, <2>4, <2>5
<1> QED
  BY <1>1, <1>2

\* get_slab_from_page keeps types, tidy pages and slices apart, and a page that
\* slices may be cut from stays one.
LEMMA CutKeeps ==
  ASSUME CutTypes, Tidy, SlicesApart,
         NEW p, Candidate(p), NEW n \in 1 .. PAGE_SIZE, n <= pg[p].free_size,
         get_slab_from_page(p, n), others' = others
  PROVE  /\ CutTypes' /\ Tidy' /\ SlicesApart'
         /\ used <= used' /\ header \subseteq header'
         /\ \A q \in 1 .. used : Candidate(q) => Candidate(q)'
<1> USE SlabAssumption
<1>1. PICK h \in 1 .. Pages :
            /\ h \in 1 .. used' /\ used' \in used .. Pages /\ used' + others <= Pages
            /\ pg[h].free_base \in 0 .. PAGE_SIZE - 1 /\ pg[h].free_size > 0
            /\ h = table.page \/ h > used
            /\ table' = [page |-> h, header_in_page |-> pg[h].free_base + 1]
            /\ pg' = [pg EXCEPT ![h] = Cut(@, 1), ![p] = Cut(@, n)]
            /\ header' = header \cup
                 {[selfPage |-> h, self |-> pg[h].free_base,
                   page |-> p, base |-> pg[p].free_base, size |-> n]}
  BY HeaderPage
<1>2. PICK new : new = [selfPage |-> h, self |-> pg[h].free_base,
                        page |-> p, base |-> pg[p].free_base, size |-> n]
  OBVIOUS
<1>a. /\ h \in 1 .. used' /\ used' \in used .. Pages /\ used' + others <= Pages
      /\ pg[h].free_base \in 0 .. PAGE_SIZE - 1 /\ pg[h].free_size > 0
      /\ h = table.page \/ h > used
  BY <1>1
<1>b. /\ used \in 0 .. Pages /\ others \in 0 .. Pages /\ used + others <= Pages
      /\ \A q \in 1 .. Pages : /\ pg[q].free_base \in 0 .. PAGE_SIZE
                               /\ pg[q].free_size \in 0 .. PAGE_SIZE
                               /\ pg[q].free_base + pg[q].free_size = PAGE_SIZE
  BY DEF CutTypes, Tidy
<1>3. header' = header \cup {new}
  BY <1>1, <1>2
<1>4. /\ p \in 1 .. used /\ p \in 1 .. Pages /\ p # h
      /\ pg[p].free_base \in 0 .. PAGE_SIZE - 1
      /\ pg[p].free_base + n <= PAGE_SIZE
  <2>1. p \in 1 .. used /\ p # table.page
    BY DEF Candidate
  <2> QED
    BY <1>a, <1>b, <2>1
<1>5. /\ new.selfPage = h /\ new.page = p /\ new.size = n
      /\ new.self = pg[h].free_base /\ new.base = pg[p].free_base
  BY <1>2
<1>6. /\ pg' \in [1 .. Pages -> [free_base : 0 .. PAGE_SIZE, free_size : 0 .. PAGE_SIZE]]
      /\ pg'[h].free_base = pg[h].free_base + 1 /\ pg'[h].free_size = pg[h].free_size - 1
      /\ pg'[p].free_base = pg[p].free_base + n /\ pg'[p].free_size = pg[p].free_size - n
      /\ \A q \in 1 .. Pages : q # h /\ q # p => pg'[q] = pg[q]
  <2>1. /\ Cut(pg[h], 1) \in [free_base : 0 .. PAGE_SIZE, free_size : 0 .. PAGE_SIZE]
        /\ Cut(pg[p], n) \in [free_base : 0 .. PAGE_SIZE, free_size : 0 .. PAGE_SIZE]
    BY <1>a, <1>b, <1>4 DEF Cut
  <2>2. pg'[h] = Cut(pg[h], 1) /\ pg'[p] = Cut(pg[p], n)
    BY <1>1, <1>4 DEF CutTypes
  <2> QED
    BY <1>1, <1>4, <2>1, <2>2 DEF CutTypes, Cut
<1>7. \A q \in 1 .. Pages : pg[q].free_base \in Int /\ pg'[q].free_base \in Int
                             /\ pg[q].free_base <= pg'[q].free_base
  <2> SUFFICES ASSUME NEW q \in 1 .. Pages
               PROVE  /\ pg[q].free_base \in Int /\ pg'[q].free_base \in Int
                      /\ pg[q].free_base <= pg'[q].free_base
    OBVIOUS
  <2>1. pg[q].free_base \in Int
    BY <1>b
  <2>2. CASE q = h
    BY <1>6, <2>1, <2>2
  <2>3. CASE q = p
    BY <1>6, <2>1, <2>3
  <2>4. CASE q # h /\ q # p
    BY <1>6, <2>1, <2>4
  <2> QED
    BY <2>2, <2>3, <2>4
<1>8. \A k \in header : /\ k.page \in 1 .. used /\ k.selfPage \in 1 .. used
                          /\ k.page \in 1 .. Pages /\ k.selfPage \in 1 .. Pages
                          /\ k.self \in Nat /\ k.base \in Nat /\ k.size \in Nat
                          /\ k.page # h /\ k.selfPage # p
  <2> SUFFICES ASSUME NEW k \in header
               PROVE  /\ k.page \in 1 .. used /\ k.selfPage \in 1 .. used
                      /\ k.page \in 1 .. Pages /\ k.selfPage \in 1 .. Pages
                      /\ k.self \in Nat /\ k.base \in Nat /\ k.size \in Nat
                      /\ k.page # h /\ k.selfPage # p
    OBVIOUS
  <2>1. /\ k.page \in 1 .. used /\ k.selfPage \in 1 .. used
        /\ k.self \in Nat /\ k.base \in Nat /\ k.size \in Nat
    BY DEF CutTypes
  <2>2. k.page # table.page /\ k.selfPage # p
    BY DEF Tidy, Candidate
  <2> QED
    BY <1>a, <1>b, <2>1, <2>2
<1>9. CutTypes'
  <2>1. new \in [selfPage : 1 .. used', self : 0 .. PAGE_SIZE - 1,
                 page : 1 .. used', base : 0 .. PAGE_SIZE - 1, size : 1 .. PAGE_SIZE]
    <3>1. p \in 1 .. used'
      BY <1>a, <1>b, <1>4
    <3> QED
      BY <1>a, <1>2, <1>4, <3>1
  <2>2. header \subseteq [selfPage : 1 .. used', self : 0 .. PAGE_SIZE - 1,
                       page : 1 .. used', base : 0 .. PAGE_SIZE - 1,
                       size : 1 .. PAGE_SIZE]
    <3>1. 1 .. used \subseteq 1 .. used'
      BY <1>a, <1>b
    <3> QED
      BY <3>1 DEF CutTypes
  <2>3. table' \in [page : 0 .. used', header_in_page : Int]
        /\ table'.header_in_page <= PAGE_SIZE
    BY <1>1
  <2>4. used' \in 0 .. Pages /\ others' \in 0 .. Pages /\ used' + others' <= Pages
    <3>1. used \in 0 .. Pages /\ others' \in 0 .. Pages
      BY <1>b
    <3>2. used' + others' <= Pages
      BY <1>a
    <3>3. used' \in 0 .. Pages
      BY <1>a, <3>1
    <3> QED
      BY <3>1, <3>2, <3>3
  <2> QED
    BY <1>3, <1>6, <2>1, <2>2, <2>3, <2>4 DEF CutTypes
<1>10. Tidy'
  <2>1. \A q \in 1 .. Pages : pg'[q].free_base + pg'[q].free_size = PAGE_SIZE
    <3> SUFFICES ASSUME NEW q \in 1 .. Pages
                 PROVE  pg'[q].free_base + pg'[q].free_size = PAGE_SIZE
      OBVIOUS
    <3>1. /\ pg[q].free_base \in Int /\ pg[q].free_size \in Int
          /\ pg[q].free_base + pg[q].free_size = PAGE_SIZE
      BY <1>b
    <3>2. CASE q = h
      <4>1. pg'[q].free_base = pg[q].free_base + 1 /\ pg'[q].free_size = pg[q].free_size - 1
        BY <1>6, <3>2
      <4> QED  BY <3>1, <4>1
    <3>3. CASE q = p
      <4>1. n \in Int /\ PAGE_SIZE \in Int
        OBVIOUS
      <4>2. pg'[q].free_base = pg[q].free_base + n /\ pg'[q].free_size = pg[q].free_size - n
        BY <1>6, <3>3
      <4> QED
        BY <3>1, <4>1, <4>2
    <3>4. CASE q # h /\ q # p
      BY <1>6, <3>1, <3>4
    <3> QED
      BY <3>2, <3>3, <3>4
  <2>2. \A q \in used' + 1 .. Pages : pg'[q].free_base = 0
    <3> SUFFICES ASSUME NEW q \in used' + 1 .. Pages PROVE pg'[q].free_base = 0
      OBVIOUS
    <3>1. q # h /\ q # p /\ q \in used + 1 .. Pages /\ q \in 1 .. Pages
      BY <1>a, <1>b, <1>4
    <3> QED
      BY <1>6, <3>1 DEF Tidy
  <2>3. table'.header_in_page = pg'[table'.page].free_base
    BY <1>1, <1>6
  <2>4. \A k \in header' : k.self < pg'[k.selfPage].free_base
    <3>1. new.self < pg'[new.selfPage].free_base
      BY <1>1, <1>5, <1>6, SMTT(30)
    <3>2. \A k \in header : k.self < pg'[k.selfPage].free_base
      BY <1>7, <1>8 DEF Tidy
    <3> QED
      BY <1>3, <3>1, <3>2
  <2>5. \A k \in header' : k.page # table'.page
    BY <1>1, <1>3, <1>4, <1>5, <1>8
  <2> QED
    BY <2>1, <2>2, <2>3, <2>4, <2>5 DEF Tidy
<1>11. SlicesApart'
  <2>1. \A k \in header : k.page = new.page => Slice(k) \cap Slice(new) = {}
    <3> SUFFICES ASSUME NEW k \in header, k.page = p PROVE Slice(k) \cap Slice(new) = {}
      BY <1>5
    <3>1. k.base + k.size <= new.base
      BY <1>5 DEF SlicesApart
    <3> QED
      BY <1>4, <1>5, <1>8, <3>1 DEF Slice
  <2>2. \A k \in header : <<k.selfPage, k.self>> # <<new.selfPage, new.self>>
    <3> SUFFICES ASSUME NEW k \in header, k.selfPage = h PROVE k.self # pg[h].free_base
      BY <1>5
    <3> QED
      BY <1>1, <1>8 DEF Tidy
  <2>3. \A k \in header' : k.base + k.size <= pg'[k.page].free_base
    <3>1. new.base + new.size <= pg'[new.page].free_base
      BY <1>4, <1>5, <1>6
    <3>2. \A k \in header : k.base + k.size <= pg'[k.page].free_base
      BY <1>7, <1>8 DEF SlicesApart
    <3> QED
      BY <1>3, <3>1, <3>2
  <2>4. \A k, m \in header' : k.page # m.selfPage
    BY <1>3, <1>4, <1>5, <1>8 DEF SlicesApart
  <2>5. \A k, m \in header' : k # m =>
           /\ k.page = m.page => Slice(k) \cap Slice(m) = {}
           /\ <<k.selfPage, k.self>> # <<m.selfPage, m.self>>
    BY <1>3, <2>1, <2>2 DEF SlicesApart
  <2> QED
    BY <2>3, <2>4, <2>5 DEF SlicesApart, Slice
<1>12. \A q \in 1 .. used : Candidate(q) => Candidate(q)'
  <2> SUFFICES ASSUME NEW q \in 1 .. used, Candidate(q) PROVE Candidate(q)'
    OBVIOUS
  <2>1. q # h /\ q \in 1 .. used'
    BY <1>a, <1>b DEF Candidate
  <2> QED
    BY <1>1, <1>3, <1>5, <2>1 DEF Candidate
<1> QED
  BY <1>a, <1>b, <1>3, <1>9, <1>10, <1>11, <1>12

-----------------------------------------------------------------------------
(* The steps *)

\* The types of what get_slab_from_page leaves alone.
RestTypes ==
  /\ slab_page_current \in 0 .. used
  /\ list \in [1 .. SLAB_NODE -> Seq(header)]
  /\ given \subseteq [page : 1 .. used, base : 0 .. PAGE_SIZE - 1, size : Nat \ {0}]
  /\ call \in [at : Points, size : Nat, page : 0 .. used]

\* SlabTypeOK is CutTypes and RestTypes.
LEMMA Types == SlabTypeOK <=> CutTypes /\ RestTypes
BY DEF SlabTypeOK, CutTypes, RestTypes

\* A request needs at least one page.
LEMMA SomePage ==
  ASSUME NEW n \in Nat, n # 0
  PROVE  page_nr(n) \in Nat \ {0}
BY SlabAssumption DEF page_nr

\* What is left of a request beyond whole pages is less than a page.
LEMMA Leave ==
  ASSUME NEW n \in Nat
  PROVE  n % PAGE_SIZE \in 0 .. PAGE_SIZE - 1
BY SlabAssumption

\* The pages beyond b are among those beyond a.
LEMMA Shorter ==
  ASSUME NEW a \in Nat, NEW b \in Nat, a <= b
  PROVE  b + 1 .. Pages \subseteq a + 1 .. Pages
BY SlabAssumption

\* Lists and blocks keep their types when pages and headers are added.
LEMMA Grows ==
  ASSUME RestTypes, CutTypes, used' \in Int, used <= used', header \subseteq header'
  PROVE  /\ slab_page_current \in 0 .. used'
         /\ list \in [1 .. SLAB_NODE -> Seq(header')]
         /\ given \subseteq [page : 1 .. used', base : 0 .. PAGE_SIZE - 1, size : Nat \ {0}]
         /\ call \in [at : Points, size : Nat, page : 0 .. used']
<1>1. 0 .. used \subseteq 0 .. used' /\ 1 .. used \subseteq 1 .. used'
  BY DEF CutTypes
<1>2. \A n \in 1 .. SLAB_NODE : list[n] \in Seq(header')
  <2> SUFFICES ASSUME NEW n \in 1 .. SLAB_NODE PROVE list[n] \in Seq(header')
    OBVIOUS
  <2>1. list[n] \in Seq(header)
    BY DEF RestTypes
  <2> QED
    BY <2>1
<1>3. list \in [1 .. SLAB_NODE -> Seq(header')]
  BY <1>2 DEF RestTypes
<1>4. given \subseteq [page : 1 .. used', base : 0 .. PAGE_SIZE - 1, size : Nat \ {0}]
  BY <1>1 DEF RestTypes
<1>5. call \in [at : Points, size : Nat, page : 0 .. used']
  BY <1>1 DEF RestTypes
<1> QED
  BY <1>1, <1>3, <1>4, <1>5 DEF RestTypes

\* A step that leaves pages and headers alone keeps what is said of them.
LEMMA Still ==
  ASSUME CutTypes, Tidy, SlicesApart,
         UNCHANGED <<used, pg, table, header>>, others' \in 0 .. Pages, used + others' <= Pages
  PROVE  /\ CutTypes' /\ Tidy' /\ SlicesApart'
         /\ \A q : Candidate(q)' <=> Candidate(q)
<1>1. CutTypes'
  BY DEF CutTypes
<1>2. Tidy'
  BY DEF Tidy
<1>3. SlicesApart'
  BY DEF SlicesApart, Slice
<1> QED
  BY <1>1, <1>2, <1>3 DEF Candidate

\* The parts of the invariant after a step.
LEMMA Assemble ==
  ASSUME CutTypes', RestTypes', Tidy', SlicesApart', CallOK'
  PROVE  SInv'
BY DEF SInv, SlabTypeOK, CutTypes, RestTypes

\* kmalloc takes a slice from a cache list.
LEMMA InList ==
  ASSUME SInv, NEW n \in Sizes, get_slab_in_list(n)
  PROVE  SInv'
<1> USE SlabAssumption
<1>1. CutTypes /\ RestTypes /\ Tidy /\ SlicesApart /\ CallOK
  BY Types DEF SInv
<1>2. CutTypes' /\ Tidy' /\ SlicesApart' /\ \A q : Candidate(q)' <=> Candidate(q)
  <2>1. others' = others /\ UNCHANGED <<used, pg, table, header>>
    BY DEF get_slab_in_list
  <2>2. others' \in 0 .. Pages /\ used + others' <= Pages
    BY <1>1, <2>1 DEF CutTypes
  <2> QED
    BY <1>1, <2>1, <2>2, Still
<1>3. /\ n \in 1 .. SLAB_NODE /\ list[n] \in Seq(header) /\ list[n] # <<>>
      /\ list[n][1] \in header /\ Tail(list[n]) \in Seq(header)
  <2>1. n \in 1 .. SLAB_NODE
    BY DEF get_slab_in_list, SLAB_NODE
  <2>2. list[n] \in Seq(header) /\ list[n] # <<>>
    BY <1>1, <2>1 DEF get_slab_in_list, RestTypes
  <2> QED
    BY <2>1, <2>2
<1>4. RestTypes'
  <2>1. list' \in [1 .. SLAB_NODE -> Seq(header')]
    BY <1>1, <1>3 DEF RestTypes, get_slab_in_list
  <2>2. [page |-> list[n][1].page, base |-> list[n][1].base, size |-> n]
           \in [page : 1 .. used, base : 0 .. PAGE_SIZE - 1, size : Nat \ {0}]
    BY <1>1, <1>3 DEF CutTypes
  <2>3. given' \subseteq [page : 1 .. used', base : 0 .. PAGE_SIZE - 1, size : Nat \ {0}]
    BY <1>1, <2>2 DEF RestTypes, get_slab_in_list, Return
  <2>4. call' \in [at : Points, size : Nat, page : 0 .. used']
    BY <1>1 DEF get_slab_in_list, Return, NoCall, Points, NULL, CutTypes
  <2> QED
    BY <1>1, <2>1, <2>3, <2>4 DEF RestTypes, get_slab_in_list
<1>5. CallOK'
  BY <1>1, <1>2 DEF CallOK, get_slab_in_list, Return, NoCall
<1> QED
  BY <1>2, <1>4, <1>5, Assemble

\* kmalloc finds no slice in the lists.
LEMMA Miss ==
  ASSUME SInv, NEW n \in Sizes, KmallocMiss(n)
  PROVE  SInv'
<1> USE SlabAssumption
<1>1. CutTypes /\ RestTypes /\ Tidy /\ SlicesApart /\ CallOK
  BY Types DEF SInv
<1>2. CutTypes' /\ Tidy' /\ SlicesApart' /\ \A q : Candidate(q)' <=> Candidate(q)
  <2>1. others' = others /\ UNCHANGED <<used, pg, table, header>>
    BY DEF KmallocMiss
  <2>2. others' \in 0 .. Pages /\ used + others' <= Pages
    BY <1>1, <2>1 DEF CutTypes
  <2> QED
    BY <1>1, <2>1, <2>2, Still
<1>3. /\ call' \in [at : {"slice", "pages"}, size : Nat \ {0}, page : {NULL}]
      /\ call'.at = "slice" =>
            slab_page_current # NULL /\ call'.size <= pg[slab_page_current].free_size
  BY DEF KmallocMiss
<1>4. RestTypes'
  <2>1. call' \in [at : Points, size : Nat, page : 0 .. used']
    BY <1>1, <1>3 DEF Points, NULL, CutTypes, KmallocMiss
  <2> QED
    BY <1>1, <2>1 DEF RestTypes, KmallocMiss
<1>5. CallOK'
  <2>1. UNCHANGED <<slab_page_current, pg>>
    BY DEF KmallocMiss
  <2> QED
    BY <1>1, <1>2, <1>3, <2>1 DEF CallOK
<1> QED
  BY <1>2, <1>4, <1>5, Assemble

\* kmalloc cuts a slice from the current page, or finds no header for it.
LEMMA FromPage ==
  ASSUME SInv, get_slab_from_page_free
  PROVE  SInv'
<1> USE SlabAssumption
<1>1. CutTypes /\ RestTypes /\ Tidy /\ SlicesApart /\ CallOK
  BY Types DEF SInv
<1>2. /\ call.at = "slice" /\ others' = others
      /\ slab_page_current' = slab_page_current /\ list' = list
      /\ slab_page_current # NULL /\ Candidate(slab_page_current)
      /\ call.size # 0 /\ call.size <= pg[slab_page_current].free_size
  BY <1>1 DEF get_slab_from_page_free, CallOK
<1>3. /\ call.size \in 1 .. PAGE_SIZE /\ slab_page_current \in 1 .. used
      /\ pg[slab_page_current].free_base \in 0 .. PAGE_SIZE - 1
  <2>1. call.size \in Nat /\ slab_page_current \in 1 .. used /\ slab_page_current \in 1 .. Pages
    BY <1>1, <1>2 DEF RestTypes, CutTypes, Candidate
  <2>2. /\ pg[slab_page_current].free_base \in Nat /\ pg[slab_page_current].free_size \in Nat
        /\ pg[slab_page_current].free_base + pg[slab_page_current].free_size = PAGE_SIZE
    BY <1>1, <2>1 DEF CutTypes, Tidy
  <2> QED
    BY <1>2, <2>1, <2>2
<1>4. CASE /\ get_slab_from_page(slab_page_current, call.size)
           /\ Return(slab_page_current, pg[slab_page_current].free_base, call.size)
  <2>1. /\ CutTypes' /\ Tidy' /\ SlicesApart'
        /\ used <= used' /\ header \subseteq header'
        /\ \A q \in 1 .. used : Candidate(q) => Candidate(q)'
    BY <1>1, <1>2, <1>3, <1>4, CutKeeps
  <2>2. used' \in Int
    BY <2>1 DEF CutTypes
  <2>3. /\ slab_page_current \in 0 .. used'
        /\ list \in [1 .. SLAB_NODE -> Seq(header')]
        /\ given \subseteq [page : 1 .. used', base : 0 .. PAGE_SIZE - 1, size : Nat \ {0}]
    BY <1>1, <2>1, <2>2, Grows
  <2>4. given' \subseteq [page : 1 .. used', base : 0 .. PAGE_SIZE - 1, size : Nat \ {0}]
    <3>1. slab_page_current \in 1 .. used'
      BY <1>2, <2>3 DEF NULL
    <3> QED
      BY <1>3, <1>4, <2>3, <3>1 DEF Return
  <2>5. call' = NoCall /\ call' \in [at : Points, size : Nat, page : 0 .. used']
    BY <1>4, <2>1, <2>2 DEF Return, NoCall, Points, NULL, CutTypes
  <2>6. RestTypes'
    BY <1>2, <2>3, <2>4, <2>5 DEF RestTypes
  <2>7. CallOK'
    <3>1. Candidate(slab_page_current)'
      BY <1>2, <1>3, <2>1 DEF Candidate
    <3> QED
      BY <2>5, <3>1 DEF CallOK, NoCall
  <2> QED
    BY <2>1, <2>6, <2>7, Assemble
<1>5. CASE NoSlab /\ Go("pages") /\ UNCHANGED given
  <2>1. CutTypes' /\ Tidy' /\ SlicesApart' /\ \A q : Candidate(q)' <=> Candidate(q)
    <3>1. others' \in 0 .. Pages /\ used + others' <= Pages
      BY <1>1, <1>2 DEF CutTypes
    <3> QED
      BY <1>1, <1>5, <3>1, Still DEF NoSlab
  <2>2. /\ call' \in [at : Points, size : Nat, page : 0 .. used']
        /\ call'.at = "pages" /\ call'.size = call.size
    BY <1>1, <1>5 DEF RestTypes, Go, Points, NoSlab
  <2>3. RestTypes'
    BY <1>1, <1>2, <1>5, <2>2 DEF RestTypes, NoSlab
  <2>4. CallOK'
    BY <1>2, <2>1, <2>2 DEF CallOK
  <2> QED
    BY <2>1, <2>3, <2>4, Assemble
<1> QED
  BY <1>4, <1>5 DEF get_slab_from_page_free

\* Other tasks take and free pages.
LEMMA OtherTasks ==
  ASSUME SInv, OthersTake \/ OthersFree
  PROVE  SInv'
<1> USE SlabAssumption
<1>1. CutTypes /\ RestTypes /\ Tidy /\ SlicesApart /\ CallOK
  BY Types DEF SInv
<1>2. UNCHANGED <<used, slab_page_current, pg, table, header, list, given, call>>
  BY DEF OthersTake, OthersFree
<1>3. others' \in 0 .. Pages /\ used + others' <= Pages
  BY <1>1 DEF OthersTake, OthersFree, CanGet, CutTypes
<1>4. CutTypes' /\ Tidy' /\ SlicesApart' /\ \A q : Candidate(q)' <=> Candidate(q)
  BY <1>1, <1>2, <1>3, Still
<1>5. RestTypes'
  BY <1>1, <1>2 DEF RestTypes
<1>6. CallOK'
  BY <1>1, <1>2, <1>4 DEF CallOK, LastPage, LeaveSize
<1> QED
  BY <1>4, <1>5, <1>6, Assemble

\* kmalloc asks for pages.
LEMMA NewPages ==
  ASSUME SInv, GetPages
  PROVE  SInv'
<1> USE SlabAssumption
<1>1. CutTypes /\ RestTypes /\ Tidy /\ SlicesApart /\ CallOK
  BY Types DEF SInv
<1>2. /\ call.at = "pages" /\ others' = others
      /\ UNCHANGED <<slab_page_current, pg, table, header, list>>
  BY DEF GetPages
<1>3. call.size \in Nat \ {0}
  BY <1>1, <1>2 DEF RestTypes, CallOK
<1>4. CASE call' = NoCall /\ UNCHANGED <<used, given>>
  <2>1. CutTypes' /\ Tidy' /\ SlicesApart' /\ \A q : Candidate(q)' <=> Candidate(q)
    <3>1. others' \in 0 .. Pages /\ used + others' <= Pages
      BY <1>1, <1>2 DEF CutTypes
    <3> QED
      BY <1>1, <1>2, <1>4, <3>1, Still
  <2>2. RestTypes'
    BY <1>1, <1>2, <1>4 DEF RestTypes, CutTypes, NoCall, Points, NULL
  <2>3. CallOK'
    BY <1>1, <1>2, <1>4, <2>1 DEF CallOK, NoCall
  <2> QED
    BY <2>1, <2>2, <2>3, Assemble
<1>5. ASSUME NEW n \in Nat \ {0}, n = page_nr(call.size), CanGet(n), used' = used + n,
             \/ /\ call.size % PAGE_SIZE = 0
                /\ Return(used + 1, 0, call.size)
             \/ /\ call.size % PAGE_SIZE # 0
                /\ call' = [call EXCEPT !.at = "first", !.page = used + 1]
                /\ UNCHANGED given
      PROVE  SInv'
  <2>1. /\ used \in Nat /\ used' \in Nat /\ used <= used' /\ used' \in 0 .. Pages
        /\ used' + others' <= Pages /\ others' \in 0 .. Pages
        /\ used + 1 \in 1 .. used' /\ used' \in used + 1 .. Pages
    BY <1>1, <1>2, <1>5 DEF CutTypes, CanGet
  <2>2. CutTypes'
    <3>1. 0 .. used \subseteq 0 .. used' /\ 1 .. used \subseteq 1 .. used'
      BY <2>1
    <3>2. table' \in [page : 0 .. used', header_in_page : Int] /\ table'.header_in_page <= PAGE_SIZE
      BY <1>1, <1>2, <3>1 DEF CutTypes
    <3>3. header' \subseteq [selfPage : 1 .. used', self : 0 .. PAGE_SIZE - 1,
                       page : 1 .. used', base : 0 .. PAGE_SIZE - 1,
                       size : 1 .. PAGE_SIZE]
      BY <1>1, <1>2, <3>1 DEF CutTypes
    <3>4. pg' \in [1 .. Pages -> [free_base : 0 .. PAGE_SIZE, free_size : 0 .. PAGE_SIZE]]
      BY <1>1, <1>2 DEF CutTypes
    <3> QED
      BY <2>1, <3>2, <3>3, <3>4 DEF CutTypes
  <2>3. Tidy'
    <3>1. \A p \in used' + 1 .. Pages : pg[p].free_base = 0
      <4>1. used' + 1 .. Pages \subseteq used + 1 .. Pages
        BY <2>1, Shorter
      <4> QED
        BY <1>1, <4>1 DEF Tidy
    <3> QED
      BY <1>1, <1>2, <3>1 DEF Tidy
  <2>4. SlicesApart'
    BY <1>1, <1>2 DEF SlicesApart, Slice
  <2>5. \A q : Candidate(q) => Candidate(q)'
    BY <1>2, <2>1 DEF Candidate
  <2>6. /\ slab_page_current \in 0 .. used'
        /\ list \in [1 .. SLAB_NODE -> Seq(header')]
        /\ given \subseteq [page : 1 .. used', base : 0 .. PAGE_SIZE - 1, size : Nat \ {0}]
        /\ call \in [at : Points, size : Nat, page : 0 .. used']
    BY <1>1, <1>2, <2>1, Grows
  <2>7. CASE call.size % PAGE_SIZE = 0 /\ Return(used + 1, 0, call.size)
    <3>1. given' \subseteq [page : 1 .. used', base : 0 .. PAGE_SIZE - 1, size : Nat \ {0}]
      BY <1>3, <2>1, <2>6, <2>7 DEF Return
    <3>2. call' = NoCall /\ call' \in [at : Points, size : Nat, page : 0 .. used']
      BY <2>1, <2>7 DEF Return, NoCall, Points, NULL
    <3>3. RestTypes'
      BY <1>2, <2>6, <3>1, <3>2 DEF RestTypes
    <3>4. CallOK'
      BY <1>1, <1>2, <2>5, <3>2 DEF CallOK, NoCall
    <3> QED
      BY <2>2, <2>3, <2>4, <3>3, <3>4, Assemble
  <2>8. CASE /\ call.size % PAGE_SIZE # 0
             /\ call' = [call EXCEPT !.at = "first", !.page = used + 1]
             /\ UNCHANGED given
    <3>1. /\ call' \in [at : Points, size : Nat, page : 0 .. used']
          /\ call'.at = "first" /\ call'.page = used + 1 /\ call'.size = call.size
      <4>1. used + 1 \in 0 .. used'
        BY <2>1
      <4> QED
        BY <2>6, <2>8, <4>1 DEF Points
    <3>2. RestTypes'
      BY <1>2, <2>6, <2>8, <3>1 DEF RestTypes
    <3>3. LastPage' = used'
      BY <1>5, <2>1, <3>1 DEF LastPage, page_nr
    <3>4. LeaveSize' \in 1 .. PAGE_SIZE - 1
      <4>1. call.size % PAGE_SIZE \in 0 .. PAGE_SIZE - 1
        BY <1>3, Leave
      <4> QED
        BY <2>8, <3>1, <4>1 DEF LeaveSize
    <3>5. Candidate(LastPage)'
      <4>1. used' \in 1 .. used'
        BY <2>1
      <4>2. used' # table.page
        BY <1>1, <2>1 DEF CutTypes
      <4>3. \A h \in header : h.selfPage # used'
        BY <1>1, <2>1 DEF CutTypes
      <4> QED
        BY <1>2, <3>3, <4>1, <4>2, <4>3 DEF Candidate
    <3>6. pg'[used'].free_base = 0
      BY <1>1, <1>2, <2>1 DEF Tidy
    <3>7. call'.page # NULL
      BY <2>1, <3>1 DEF NULL
    <3>8. pg'[LastPage'].free_base = 0
      BY <3>3, <3>6
    <3>9. CallOK'
      BY <1>1, <1>2, <1>3, <2>5, <3>1, <3>4, <3>5, <3>7, <3>8 DEF CallOK
    <3> QED
      BY <2>2, <2>3, <2>4, <3>2, <3>9, Assemble
  <2> QED
    BY <1>5, <2>7, <2>8
<1>6. page_nr(call.size) \in Nat \ {0}
  BY <1>3, SomePage
<1> QED
  BY <1>4, <1>5, <1>6 DEF GetPages

\* The slice of a call is cut from its last page, or finds no header.
LEMMA First ==
  ASSUME SInv, FirstSlice
  PROVE  SInv'
<1> USE SlabAssumption
<1>1. CutTypes /\ RestTypes /\ Tidy /\ SlicesApart /\ CallOK
  BY Types DEF SInv
<1>2. /\ call.at = "first" /\ others' = others
      /\ UNCHANGED <<slab_page_current, list, given>>
      /\ call' = [call EXCEPT !.at = "update"]
  BY DEF FirstSlice, Go
<1>3. /\ Candidate(LastPage) /\ pg[LastPage].free_base = 0
      /\ LeaveSize \in 1 .. PAGE_SIZE - 1 /\ call.page # NULL /\ call.size # 0
  BY <1>1, <1>2 DEF CallOK
<1>4. /\ call'.at = "update" /\ call'.size = call.size /\ call'.page = call.page
      /\ LastPage' = LastPage
  BY <1>1, <1>2 DEF RestTypes, LastPage, page_nr
<1>5. /\ CutTypes' /\ Tidy' /\ SlicesApart'
      /\ used <= used' /\ header \subseteq header'
      /\ \A q \in 1 .. used : Candidate(q) => Candidate(q)'
  <2>1. CASE get_slab_from_page(LastPage, LeaveSize)
    <3>1. LastPage \in 1 .. Pages
      BY <1>1, <1>3 DEF Candidate, CutTypes
    <3>2. pg[LastPage].free_size = PAGE_SIZE
      <4>1. /\ pg[LastPage].free_size \in Nat
            /\ pg[LastPage].free_base + pg[LastPage].free_size = PAGE_SIZE
        BY <1>1, <3>1 DEF CutTypes, Tidy
      <4> QED
        BY <1>3, <4>1
    <3>3. LeaveSize \in 1 .. PAGE_SIZE /\ LeaveSize <= pg[LastPage].free_size
      BY <1>3, <3>2
    <3> QED
      BY <1>1, <1>2, <1>3, <2>1, <3>3, CutKeeps
  <2>2. CASE NoSlab
    <3>1. others' \in 0 .. Pages /\ used + others' <= Pages
      BY <1>1, <1>2 DEF CutTypes
    <3>2. CutTypes' /\ Tidy' /\ SlicesApart' /\ \A q : Candidate(q)' <=> Candidate(q)
      BY <1>1, <2>2, <3>1, Still DEF NoSlab
    <3>3. used \in Int
      BY <1>1 DEF CutTypes
    <3>4. used' = used /\ header' = header
      BY <2>2 DEF NoSlab
    <3> QED
      BY <3>2, <3>3, <3>4
  <2> QED
    BY <2>1, <2>2 DEF FirstSlice
<1>6. used' \in Int
  BY <1>5 DEF CutTypes
<1>7. /\ slab_page_current \in 0 .. used'
      /\ list \in [1 .. SLAB_NODE -> Seq(header')]
      /\ given \subseteq [page : 1 .. used', base : 0 .. PAGE_SIZE - 1, size : Nat \ {0}]
      /\ call \in [at : Points, size : Nat, page : 0 .. used']
  BY <1>1, <1>5, <1>6, Grows
<1>8. RestTypes'
  BY <1>2, <1>7 DEF RestTypes, Points
<1>9. CallOK'
  <2>1. Candidate(LastPage)'
    BY <1>3, <1>4, <1>5 DEF Candidate
  <2>2. slab_page_current' # NULL => Candidate(slab_page_current)'
    BY <1>1, <1>2, <1>5 DEF CallOK, Candidate
  <2> QED
    BY <1>3, <1>4, <2>1, <2>2 DEF CallOK
<1> QED
  BY <1>5, <1>8, <1>9, Assemble

\* kmalloc chooses the current page, puts the rest of the other one into the
\* cache and returns.
LEMMA Update ==
  ASSUME SInv, update_slab_free_page
  PROVE  SInv'
<1> USE SlabAssumption
<1>1. CutTypes /\ RestTypes /\ Tidy /\ SlicesApart /\ CallOK
  BY Types DEF SInv
<1>2. /\ call.at = "update" /\ others' = others /\ slab_page_current' = NewCurrent
      /\ others' \in 0 .. Pages /\ used + others' <= Pages
  BY <1>1 DEF update_slab_free_page, CutTypes
<1>3. /\ Candidate(LastPage) /\ call.page # NULL /\ call.size \in Nat \ {0}
      /\ slab_page_current # NULL => Candidate(slab_page_current)
      /\ call.page \in 1 .. used /\ used \in 0 .. Pages
  <2>1. call.page \in 0 .. used /\ call.size \in Nat /\ used \in 0 .. Pages
    BY <1>1 DEF RestTypes, CutTypes
  <2>2. call.page # NULL /\ call.size # 0
    BY <1>1, <1>2 DEF CallOK
  <2> QED
    BY <1>1, <1>2, <2>1, <2>2 DEF CallOK, NULL
<1>4. Candidate(NewCurrent) /\ NewCurrent \in 1 .. used
  BY <1>3 DEF NewCurrent, Candidate
<1>5. OldCurrent # NULL => Candidate(OldCurrent) /\ OldCurrent \in 1 .. used
  BY <1>3 DEF OldCurrent, Candidate
<1>6. ASSUME CutTypes', Tidy', SlicesApart', used <= used', header \subseteq header',
             \A q \in 1 .. used : Candidate(q) => Candidate(q)',
             list' \in [1 .. SLAB_NODE -> Seq(header')],
             Return(call.page, 0, call.size)
      PROVE  SInv'
  <2>1. used' \in Int /\ used' \in 0 .. Pages
    BY <1>6 DEF CutTypes
  <2>2. given \subseteq [page : 1 .. used', base : 0 .. PAGE_SIZE - 1, size : Nat \ {0}]
    BY <1>1, <1>6, <2>1, Grows
  <2>3. call.page \in 1 .. used' /\ NewCurrent \in 0 .. used'
    BY <1>3, <1>4, <1>6, <2>1
  <2>4. given' \subseteq [page : 1 .. used', base : 0 .. PAGE_SIZE - 1, size : Nat \ {0}]
    BY <1>3, <1>6, <2>2, <2>3 DEF Return
  <2>5. call' = NoCall /\ call' \in [at : Points, size : Nat, page : 0 .. used']
    BY <1>6, <2>1 DEF Return, NoCall, Points, NULL
  <2>6. RestTypes'
    BY <1>2, <1>6, <2>3, <2>4, <2>5 DEF RestTypes
  <2>7. CallOK'
    <3>1. Candidate(slab_page_current)'
      BY <1>2, <1>4, <1>6 DEF Candidate
    <3> QED
      BY <2>5, <3>1 DEF CallOK, NoCall
  <2> QED
    BY <1>6, <2>6, <2>7, Assemble
<1>7. CASE /\ Return(call.page, 0, call.size)
           /\ UNCHANGED <<used, pg, table, header, list>>
  <2>1. CutTypes' /\ Tidy' /\ SlicesApart' /\ \A q : Candidate(q)' <=> Candidate(q)
    BY <1>1, <1>2, <1>7, Still
  <2>2. used <= used' /\ header \subseteq header'
    BY <1>3, <1>7
  <2>3. list' \in [1 .. SLAB_NODE -> Seq(header')]
    BY <1>1, <1>7 DEF RestTypes
  <2> QED
    BY <1>6, <1>7, <2>1, <2>2, <2>3
<1>8. ASSUME NEW rest, rest = pg[OldCurrent].free_size, RestIsWorthIt, rest <= SLAB_NODE,
             get_slab_from_page(OldCurrent, rest),
             NEW h \in header', add_slab_header_to_list(h, rest),
             Return(call.page, 0, call.size)
      PROVE  SInv'
  <2>1. Candidate(OldCurrent) /\ OldCurrent \in 1 .. used /\ rest > 1
    BY <1>5, <1>8 DEF RestIsWorthIt
  <2>2. rest \in 1 .. PAGE_SIZE /\ rest \in 1 .. SLAB_NODE
    <3>1. OldCurrent \in 1 .. Pages
      BY <1>3, <2>1
    <3>2. pg[OldCurrent].free_size \in 0 .. PAGE_SIZE
      BY <1>1, <3>1 DEF CutTypes
    <3> QED
      BY <1>8, <2>1, <3>2 DEF SLAB_NODE
  <2>3. /\ CutTypes' /\ Tidy' /\ SlicesApart'
        /\ used <= used' /\ header \subseteq header'
        /\ \A q \in 1 .. used : Candidate(q) => Candidate(q)'
    BY <1>1, <1>2, <1>8, <2>1, <2>2, CutKeeps
  <2>4. used' \in Int
    BY <2>3 DEF CutTypes
  <2>5. list \in [1 .. SLAB_NODE -> Seq(header')]
    BY <1>1, <2>3, <2>4, Grows
  <2>6. <<h>> \o list[rest] \in Seq(header')
    <3>1. list[rest] \in Seq(header')
      BY <2>2, <2>5
    <3> QED
      BY <3>1
  <2>7. list' \in [1 .. SLAB_NODE -> Seq(header')]
    BY <1>8, <2>2, <2>5, <2>6 DEF add_slab_header_to_list
  <2> QED
    BY <1>6, <1>8, <2>3, <2>7
<1>9. CASE Go("wild") /\ UNCHANGED <<used, pg, table, header, list, given>>
  <2>1. CutTypes' /\ Tidy' /\ SlicesApart' /\ \A q : Candidate(q)' <=> Candidate(q)
    BY <1>1, <1>2, <1>9, Still
  <2>2. /\ call' \in [at : Points, size : Nat, page : 0 .. used']
        /\ call'.at = "wild" /\ call'.size = call.size
    BY <1>1, <1>9 DEF RestTypes, Go, Points
  <2>3. RestTypes'
    <3>1. slab_page_current' \in 0 .. used'
      BY <1>2, <1>3, <1>4, <1>9
    <3> QED
      BY <1>1, <1>9, <2>2, <3>1 DEF RestTypes
  <2>4. CallOK'
    <3>1. Candidate(slab_page_current)'
      BY <1>2, <1>4, <1>9 DEF Candidate
    <3> QED
      BY <1>3, <2>2, <3>1 DEF CallOK
  <2> QED
    BY <2>1, <2>3, <2>4, Assemble
<1> QED
  BY <1>7, <1>8, <1>9 DEF update_slab_free_page

-----------------------------------------------------------------------------
(* The theorems *)

\* slab_init establishes the invariant.
LEMMA InitInv == slab_init => SInv
<1> SUFFICES ASSUME slab_init PROVE SInv
  OBVIOUS
<1> USE SlabAssumption DEF slab_init
<1>1. CutTypes /\ Tidy
  BY DEF CutTypes, Tidy, NULL
<1>2. RestTypes
  <2>1. <<>> \in Seq(header)
    OBVIOUS
  <2> QED
    BY <2>1 DEF RestTypes, NoCall, Points, NULL
<1>3. SlicesApart /\ CallOK
  BY DEF SlicesApart, CallOK, NoCall
<1> QED
  BY <1>1, <1>2, <1>3, Types DEF SInv

\* Every step keeps it.
LEMMA NextInv == SInv /\ [SlabNext]_slabVars => SInv'
<1> SUFFICES ASSUME SInv, [SlabNext]_slabVars PROVE SInv'
  OBVIOUS
<1>1. CASE UNCHANGED slabVars
  <2>1. CutTypes /\ RestTypes /\ Tidy /\ SlicesApart /\ CallOK
    BY Types DEF SInv
  <2>2. others' \in 0 .. Pages /\ used + others' <= Pages
    BY <1>1, <2>1 DEF slabVars, CutTypes
  <2>3. CutTypes' /\ Tidy' /\ SlicesApart' /\ \A q : Candidate(q)' <=> Candidate(q)
    BY <1>1, <2>1, <2>2, Still DEF slabVars
  <2>4. RestTypes'
    BY <1>1, <2>1 DEF slabVars, RestTypes
  <2>5. CallOK'
    BY <1>1, <2>1, <2>3 DEF slabVars, CallOK, LastPage, LeaveSize
  <2> QED
    BY <2>3, <2>4, <2>5, Assemble
<1>2. CASE \E n \in Sizes : get_slab_in_list(n) \/ KmallocMiss(n)
  BY <1>2, InList, Miss
<1> QED
  BY <1>1, <1>2, FromPage, NewPages, First, Update, OtherTasks DEF SlabNext

\* The slab keeps its types, and the invariant holds in all reachable states.
THEOREM SlabInductive == SlabSpec => []SInv
BY InitInv, NextInv, PTL DEF SlabSpec

\* The variables of the slab keep their types: in particular the header page is
\* never filled beyond its end, and pages are never cut beyond theirs.
THEOREM SlabTypes == SlabSpec => []SlabTypeOK
<1>1. SInv => SlabTypeOK
  BY DEF SInv
<1> QED
  BY <1>1, SlabInductive, PTL

\* kmalloc never cuts two slices with headers from the same memory, nor a slice
\* from a page of headers, even when page requests fail on the way.
THEOREM SlicesStayApart == SlabSpec => []SlicesApart
<1>1. SInv => SlicesApart
  BY DEF SInv
<1> QED
  BY <1>1, SlabInductive, PTL

-----------------------------------------------------------------------------
(* Nothing is lost *)

\* Every unit before the free part of p is in a slice.
Covered(p) ==
  \A x \in Nat : x < pg[p].free_base =>
     \E h \in header : h.page = p /\ h.base <= x /\ x < h.base + h.size

\* Pages that slices may be cut from are covered: they have not been pages of
\* headers before.  The rest of a page that is neither current nor about to be
\* is at most a unit.
ReachPart ==
  /\ table.page # NULL => \E h \in header : h.selfPage = table.page
  /\ \A p \in 1 .. Pages : Candidate(p) => Covered(p)
  /\ call.at # "wild" =>
       \A h \in header :
          \/ h.page = slab_page_current
          \/ call.at = "update" /\ h.page = LastPage
          \/ pg[h.page].free_size <= 1

RInv == SInv /\ ReachPart

\* The types of a header.
LEMMA HeaderTypes ==
  ASSUME CutTypes, NEW k \in header
  PROVE  /\ k.base \in Nat /\ k.size \in Nat \ {0} /\ k.self \in Nat
         /\ k.page \in 1 .. used /\ k.selfPage \in 1 .. used
<1>1. k \in [selfPage : 1 .. used, self : 0 .. PAGE_SIZE - 1,
            page : 1 .. used, base : 0 .. PAGE_SIZE - 1, size : 1 .. PAGE_SIZE]
  BY DEF CutTypes
<1>2. PAGE_SIZE \in Nat
  BY SlabAssumption
<1> QED  BY <1>1, <1>2

\* What a cut adds: one header and one slice behind the others of the page; the
\* only other page it touches is that of the table.
LEMMA NewSlice ==
  ASSUME CutTypes, Tidy, SlicesApart,
         NEW p, Candidate(p), NEW n \in 1 .. PAGE_SIZE,
         get_slab_from_page(p, n), others' = others
  PROVE  \E new :
           /\ header' = header \cup {new} /\ new \notin header
           /\ new.page = p /\ new.base = pg[p].free_base /\ new.size = n
           /\ new.selfPage = table'.page
           /\ p \in 1 .. used /\ p \in 1 .. Pages /\ table'.page \in 1 .. Pages
           /\ pg'[p].free_base = pg[p].free_base + n
           /\ pg'[p].free_size = pg[p].free_size - n
           /\ table'.page # p /\ table'.page # NULL
           /\ table'.page = table.page \/ table'.page > used
           /\ \A q \in 1 .. Pages : q # p /\ q # table'.page => pg'[q] = pg[q]
           /\ \A q \in 1 .. used' : q \in 1 .. used \/ q = table'.page
           /\ \A k \in header : k.page # table'.page
<1> USE SlabAssumption
<1>1. PICK h \in 1 .. Pages :
            /\ h \in 1 .. used' /\ used' \in used .. Pages /\ used' + others <= Pages
            /\ pg[h].free_base \in 0 .. PAGE_SIZE - 1 /\ pg[h].free_size > 0
            /\ h = table.page \/ h > used
            /\ table' = [page |-> h, header_in_page |-> pg[h].free_base + 1]
            /\ pg' = [pg EXCEPT ![h] = Cut(@, 1), ![p] = Cut(@, n)]
            /\ header' = header \cup
                 {[selfPage |-> h, self |-> pg[h].free_base,
                   page |-> p, base |-> pg[p].free_base, size |-> n]}
  BY HeaderPage
<1>2. PICK new : new = [selfPage |-> h, self |-> pg[h].free_base,
                        page |-> p, base |-> pg[p].free_base, size |-> n]
  OBVIOUS
<1>3. /\ new.selfPage = h /\ new.self = pg[h].free_base
      /\ new.page = p /\ new.base = pg[p].free_base /\ new.size = n
      /\ header' = header \cup {new} /\ table'.page = h
  BY <1>1, <1>2
<1>4. /\ p \in 1 .. used /\ p \in 1 .. Pages /\ p # h /\ h # NULL
      /\ h = table.page \/ h > used
  <2>1. p \in 1 .. used /\ p # table.page /\ used \in 0 .. Pages
    BY DEF Candidate, CutTypes
  <2> QED  BY <1>1, <2>1 DEF NULL
<1>5. /\ pg'[p].free_base = pg[p].free_base + n /\ pg'[p].free_size = pg[p].free_size - n
      /\ \A q \in 1 .. Pages : q # p /\ q # h => pg'[q] = pg[q]
  <2>1. pg'[p] = Cut(pg[p], n)
    BY <1>1, <1>4 DEF CutTypes
  <2>2. \A q \in 1 .. Pages : q # p /\ q # h => pg'[q] = pg[q]
    BY <1>1, <1>4 DEF CutTypes
  <2> QED  BY <2>1, <2>2 DEF Cut
<1>6. new \notin header
  <2> SUFFICES ASSUME NEW k \in header, k.selfPage = h PROVE k.self # pg[h].free_base
    BY <1>3
  <2>1. k.self \in Nat
    BY DEF CutTypes
  <2>2. k.self < pg[h].free_base
    BY DEF Tidy
  <2> QED  BY <1>1, <2>1, <2>2
<1>7. \A q \in 1 .. used' : q \in 1 .. used \/ q = h
  <2>1. (used' = used) \/ (used' = used + 1 /\ table'.page = used + 1)
    BY DEF get_slab_from_page
  <2>2. used \in Nat
    BY DEF CutTypes
  <2> QED  BY <1>3, <2>1, <2>2
<1>8. \A k \in header : k.page # h
  <2>1. \A k \in header : k.page \in 1 .. used /\ k.page # table.page
    BY DEF CutTypes, Tidy
  <2>2. used \in Nat
    BY DEF CutTypes
  <2> QED  BY <1>1, <2>1, <2>2
<1> QED  BY <1>3, <1>4, <1>5, <1>6, <1>7, <1>8

\* The page that a cut takes the header from, and the pages that it has not cut
\* from: only p gets a slice, and it stays covered.
LEMMA CutReaches ==
  ASSUME RInv, NEW p, Candidate(p), NEW n \in 1 .. PAGE_SIZE,
         get_slab_from_page(p, n), others' = others
  PROVE  /\ table'.page # NULL /\ \E h \in header' : h.selfPage = table'.page
         /\ \A q \in 1 .. Pages : Candidate(q)' => Covered(q)'
<1> USE SlabAssumption
<1>1. CutTypes /\ Tidy /\ SlicesApart
  BY Types DEF RInv, SInv
<1>2. PICK new :
           /\ header' = header \cup {new} /\ new \notin header
           /\ new.page = p /\ new.base = pg[p].free_base /\ new.size = n
           /\ new.selfPage = table'.page
           /\ p \in 1 .. used /\ p \in 1 .. Pages /\ table'.page \in 1 .. Pages
           /\ pg'[p].free_base = pg[p].free_base + n
           /\ pg'[p].free_size = pg[p].free_size - n
           /\ table'.page # p /\ table'.page # NULL
           /\ table'.page = table.page \/ table'.page > used
           /\ \A q \in 1 .. Pages : q # p /\ q # table'.page => pg'[q] = pg[q]
           /\ \A q \in 1 .. used' : q \in 1 .. used \/ q = table'.page
           /\ \A k \in header : k.page # table'.page
  BY <1>1, NewSlice
<1>3. \E h \in header' : h.selfPage = table'.page
  BY <1>2
<1>4. ASSUME NEW q \in 1 .. Pages, Candidate(q)' PROVE Covered(q)'
  <2>1. q # table'.page /\ q \in 1 .. used /\ \A k \in header : k.selfPage # q
    BY <1>2, <1>4 DEF Candidate
  <2>2. q # table.page
    <3>1. table.page # NULL => \E k \in header : k.selfPage = table.page
      BY DEF RInv, ReachPart
    <3>2. q # NULL
      BY <2>1 DEF NULL
    <3> QED  BY <2>1, <3>1, <3>2
  <2>3. Covered(q)
    BY <2>1, <2>2 DEF Candidate, RInv, ReachPart
  <2>4. CASE q # p
    <3>1. pg'[q] = pg[q]
      BY <1>2, <2>1, <2>4
    <3> QED  BY <1>2, <2>3, <3>1 DEF Covered
  <2>5. CASE q = p
    <3> SUFFICES ASSUME NEW x \in Nat, x < pg'[p].free_base
                 PROVE  \E h \in header' : h.page = p /\ h.base <= x /\ x < h.base + h.size
      BY <2>5 DEF Covered
    <3>1. pg[p].free_base \in Nat /\ pg'[p].free_base = pg[p].free_base + n
      BY <1>1, <1>2 DEF CutTypes
    <3>2. CASE x < pg[p].free_base
      BY <1>2, <2>3, <2>5, <3>2 DEF Covered
    <3>3. CASE ~(x < pg[p].free_base)
      <4>1. new.base <= x /\ x < new.base + new.size
        BY <1>2, <3>1, <3>3
      <4> QED  BY <1>2, <4>1
    <3> QED  BY <3>2, <3>3
  <2> QED  BY <2>4, <2>5
<1> QED  BY <1>2, <1>3, <1>4

\* A step that leaves pages and headers alone keeps the rest of the pages within
\* reach, but for the last part, which is about the call.
LEMMA StillReaches ==
  ASSUME RInv, SInv', UNCHANGED <<pg, table, header>>, used <= used',
         call'.at # "wild" => \A h \in header :
            \/ h.page = slab_page_current'
            \/ call'.at = "update" /\ h.page = LastPage'
            \/ pg[h.page].free_size <= 1
  PROVE  RInv'
<1>1. table'.page # NULL => \E h \in header' : h.selfPage = table'.page
  BY DEF RInv, ReachPart
<1>2. ASSUME NEW p \in 1 .. Pages, Candidate(p)' PROVE Covered(p)'
  <2>1. CASE p \in 1 .. used
    <3>1. Candidate(p)
      BY <1>2, <2>1 DEF Candidate
    <3>2. Covered(p)
      BY <3>1 DEF RInv, ReachPart
    <3> QED  BY <3>2 DEF Covered
  <2>2. CASE p \notin 1 .. used
    <3>1. pg[p].free_base = 0
      BY <2>2 DEF RInv, SInv, SlabTypeOK, Tidy
    <3> QED  BY <3>1 DEF Covered
  <2> QED  BY <2>1, <2>2
<1> QED  BY <1>1, <1>2 DEF RInv, ReachPart

\* A cut from p keeps them within reach if p is current afterwards, or is
\* about to be, or is used up.
LEMMA CutStaysReached ==
  ASSUME RInv, SInv', NEW p, Candidate(p), NEW n \in 1 .. PAGE_SIZE,
         get_slab_from_page(p, n), others' = others,
         call'.at # "wild" =>
            /\ \/ p = slab_page_current'
               \/ call'.at = "update" /\ p = LastPage'
               \/ pg[p].free_size - n <= 1
            /\ \A h \in header : h.page # p =>
                 \/ h.page = slab_page_current'
                 \/ call'.at = "update" /\ h.page = LastPage'
                 \/ pg[h.page].free_size <= 1
  PROVE  RInv'
<1>1. CutTypes /\ Tidy /\ SlicesApart
  BY Types DEF RInv, SInv
<1>2. PICK new :
           /\ header' = header \cup {new} /\ new \notin header
           /\ new.page = p /\ new.base = pg[p].free_base /\ new.size = n
           /\ new.selfPage = table'.page
           /\ p \in 1 .. used /\ p \in 1 .. Pages /\ table'.page \in 1 .. Pages
           /\ pg'[p].free_base = pg[p].free_base + n
           /\ pg'[p].free_size = pg[p].free_size - n
           /\ table'.page # p /\ table'.page # NULL
           /\ table'.page = table.page \/ table'.page > used
           /\ \A q \in 1 .. Pages : q # p /\ q # table'.page => pg'[q] = pg[q]
           /\ \A q \in 1 .. used' : q \in 1 .. used \/ q = table'.page
           /\ \A k \in header : k.page # table'.page
  BY <1>1, NewSlice
<1>3. /\ table'.page # NULL /\ \E h \in header' : h.selfPage = table'.page
      /\ \A q \in 1 .. Pages : Candidate(q)' => Covered(q)'
  BY CutReaches
<1>4. ASSUME call'.at # "wild", NEW h \in header'
      PROVE  \/ h.page = slab_page_current'
             \/ call'.at = "update" /\ h.page = LastPage'
             \/ pg'[h.page].free_size <= 1
  <2>1. CASE h.page = p
    BY <1>2, <1>4, <2>1
  <2>2. CASE h.page # p
    <3>1. h \in header
      BY <1>2, <2>2
    <3>2. h.page \in 1 .. Pages
      <4>1. h.page \in 1 .. used /\ used \in 0 .. Pages
        BY <1>1, <3>1 DEF CutTypes
      <4> QED  BY <4>1, SlabAssumption
    <3>3. pg'[h.page] = pg[h.page]
      BY <1>2, <2>2, <3>1, <3>2
    <3> QED  BY <1>4, <2>2, <3>1, <3>3
  <2> QED  BY <2>1, <2>2
<1> QED  BY <1>3, <1>4 DEF RInv, ReachPart

\* Every step keeps the memory of the slab within reach.
LEMMA NextReaches == RInv /\ [SlabNext]_slabVars => RInv'
<1> SUFFICES ASSUME RInv, [SlabNext]_slabVars PROVE RInv'
  OBVIOUS
<1> USE SlabAssumption
<1>0. /\ SInv /\ SInv' /\ ReachPart /\ CutTypes /\ RestTypes /\ Tidy /\ CallOK
      /\ used \in Nat /\ used' \in Nat
  <2>1. SInv /\ SInv' /\ ReachPart
    BY NextInv DEF RInv
  <2>2. used \in Nat /\ used' \in Nat
    BY <2>1 DEF SInv, SlabTypeOK
  <2> QED  BY <2>1, <2>2, Types DEF SInv
<1>1. CASE UNCHANGED slabVars
  <2>1. LastPage' = LastPage
    BY <1>1 DEF slabVars, LastPage
  <2> QED  BY <1>0, <1>1, <2>1, StillReaches DEF slabVars, ReachPart
<1>2. ASSUME NEW n \in Sizes, get_slab_in_list(n) \/ KmallocMiss(n) PROVE RInv'
  <2>1. /\ UNCHANGED <<used, pg, table, header, slab_page_current>>
        /\ call.at = "none" /\ call'.at \notin {"wild", "update"}
    BY <1>2 DEF get_slab_in_list, KmallocMiss, Return, NoCall
  <2> QED  BY <1>0, <2>1, StillReaches DEF ReachPart
<1>3. CASE get_slab_from_page_free
  <2>1. /\ call.at = "slice" /\ others' = others
        /\ slab_page_current' = slab_page_current
        /\ Candidate(slab_page_current)
        /\ call.size # 0 /\ call.size <= pg[slab_page_current].free_size
    BY <1>0, <1>3 DEF get_slab_from_page_free, CallOK
  <2>2. CASE /\ get_slab_from_page(slab_page_current, call.size)
             /\ call' = NoCall
    <3>1. call.size \in 1 .. PAGE_SIZE
      <4>1. slab_page_current \in 1 .. Pages
        BY <1>0, <2>1 DEF Candidate, CutTypes
      <4>2. pg[slab_page_current].free_size \in 0 .. PAGE_SIZE
        BY <1>0, <4>1 DEF CutTypes
      <4>3. call.size \in Nat
        BY <1>0 DEF RestTypes
      <4> QED  BY <2>1, <4>2, <4>3
    <3>2. \A h \in header : h.page = slab_page_current \/ pg[h.page].free_size <= 1
      BY <1>0, <2>1 DEF ReachPart
    <3> QED  BY <1>0, <2>1, <2>2, <3>1, <3>2, CutStaysReached
  <2>3. CASE NoSlab /\ Go("pages")
    <3>1. UNCHANGED <<used, pg, table, header>> /\ call'.at = "pages"
      BY <1>0, <2>3 DEF NoSlab, Go, RestTypes
    <3> QED  BY <1>0, <2>1, <3>1, StillReaches DEF ReachPart
  <2> QED  BY <1>3, <2>2, <2>3 DEF get_slab_from_page_free, Return
<1>4. CASE GetPages
  <2>1. /\ call.at = "pages" /\ UNCHANGED <<pg, table, header, slab_page_current>>
        /\ call'.at # "wild" /\ call'.at # "update"
    <3>1. call.at = "pages" /\ UNCHANGED <<pg, table, header, slab_page_current>>
      BY <1>4 DEF GetPages
    <3>2. (call' = NoCall) \/ (call' = [call EXCEPT !.at = "first", !.page = used + 1])
      BY <1>4 DEF GetPages, Return
    <3>3. call \in [at : Points, size : Nat, page : 0 .. used]
      BY <1>0 DEF RestTypes
    <3>4. call'.at \in {"none", "first"}
      <4>1. CASE call' = NoCall
        BY <4>1 DEF NoCall
      <4>2. CASE call' = [call EXCEPT !.at = "first", !.page = used + 1]
        BY <3>3, <4>2
      <4> QED  BY <3>2, <4>1, <4>2
    <3> QED  BY <3>1, <3>4
  <2>2. used <= used'
    <3>1. call.size \in Nat /\ call.size # 0
      BY <1>0, <2>1 DEF RestTypes, CallOK
    <3>2. page_nr(call.size) \in Nat \ {0}
      BY <3>1, SomePage
    <3>3. used' = used \/ used' = used + page_nr(call.size)
      BY <1>4 DEF GetPages
    <3> QED  BY <1>0, <3>2, <3>3
  <2> QED  BY <1>0, <2>1, <2>2, StillReaches DEF ReachPart
<1>5. CASE FirstSlice
  <2>1. /\ call.at = "first" /\ others' = others
        /\ slab_page_current' = slab_page_current
        /\ call'.at = "update" /\ LastPage' = LastPage
        /\ Candidate(LastPage) /\ LeaveSize \in 1 .. PAGE_SIZE
    <3>1. call.at = "first" /\ call' = [call EXCEPT !.at = "update"]
      BY <1>5 DEF FirstSlice, Go
    <3>2. call'.at = "update" /\ call'.page = call.page /\ call'.size = call.size
      BY <1>0, <3>1 DEF RestTypes
    <3>3. LastPage' = LastPage
      BY <3>2 DEF LastPage, page_nr
    <3>4. Candidate(LastPage) /\ LeaveSize \in 1 .. PAGE_SIZE - 1
      BY <1>0, <3>1 DEF CallOK
    <3> QED  BY <1>5, <3>1, <3>2, <3>3, <3>4 DEF FirstSlice
  <2>2. \A h \in header : h.page = slab_page_current \/ pg[h.page].free_size <= 1
    BY <1>0, <2>1 DEF ReachPart
  <2>3. CASE get_slab_from_page(LastPage, LeaveSize)
    BY <1>0, <2>1, <2>2, <2>3, CutStaysReached
  <2>4. CASE NoSlab
    BY <1>0, <2>1, <2>2, <2>4, StillReaches DEF NoSlab
  <2> QED  BY <1>5, <2>3, <2>4 DEF FirstSlice
<1>6. CASE update_slab_free_page
  <2>1. call.at = "update" /\ others' = others /\ slab_page_current' = NewCurrent
    BY <1>6 DEF update_slab_free_page
  <2>2. \A h \in header :
          h.page = NewCurrent \/ h.page = OldCurrent \/ pg[h.page].free_size <= 1
    BY <1>0, <2>1 DEF ReachPart, NewCurrent, OldCurrent
  <2>3. CASE ~RestIsWorthIt /\ UNCHANGED <<used, pg, table, header>>
    <3>1. \A h \in header : h.page = OldCurrent => pg[h.page].free_size <= 1
      <4> SUFFICES ASSUME NEW h \in header, h.page = OldCurrent
                   PROVE  pg[OldCurrent].free_size <= 1
        OBVIOUS
      <4>1. h.page \in 1 .. used /\ used \in 0 .. Pages
        BY <1>0 DEF CutTypes
      <4>2. OldCurrent # NULL /\ OldCurrent \in 1 .. Pages
        BY <4>1 DEF NULL
      <4>3. pg[OldCurrent].free_size \in 0 .. PAGE_SIZE
        BY <1>0, <4>2 DEF CutTypes
      <4> QED  BY <2>3, <4>2, <4>3 DEF RestIsWorthIt
    <3> QED  BY <1>0, <2>1, <2>2, <2>3, <3>1, StillReaches
  <2>4. CASE RestIsWorthIt /\ get_slab_from_page(OldCurrent, pg[OldCurrent].free_size)
    <3>1. Candidate(OldCurrent)
      <4>1. Candidate(LastPage) /\ (slab_page_current # NULL => Candidate(slab_page_current))
        BY <1>0, <2>1 DEF CallOK
      <4> QED  BY <2>4, <4>1 DEF RestIsWorthIt, OldCurrent
    <3>2. pg[OldCurrent].free_size \in 1 .. PAGE_SIZE
      <4>1. OldCurrent \in 1 .. Pages
        BY <1>0, <3>1 DEF Candidate, CutTypes
      <4>2. pg[OldCurrent].free_size \in 0 .. PAGE_SIZE
        BY <1>0, <4>1 DEF CutTypes
      <4> QED  BY <2>4, <4>2 DEF RestIsWorthIt
    <3>3. pg[OldCurrent].free_size - pg[OldCurrent].free_size <= 1
      BY <3>2
    <3> QED  BY <1>0, <2>1, <2>2, <2>4, <3>1, <3>2, <3>3, CutStaysReached
  <2>5. CASE Go("wild") /\ UNCHANGED <<used, pg, table, header>>
    <3>1. call'.at = "wild"
      BY <1>0, <2>5 DEF Go, RestTypes
    <3> QED  BY <1>0, <2>5, <3>1, StillReaches
  <2> QED  BY <1>6, <2>3, <2>4, <2>5 DEF update_slab_free_page
<1>7. CASE OthersTake \/ OthersFree
  <2>1. UNCHANGED <<used, slab_page_current, pg, table, header, call>>
    BY <1>7 DEF OthersTake, OthersFree
  <2>2. LastPage' = LastPage
    BY <2>1 DEF LastPage
  <2> QED  BY <1>0, <2>1, <2>2, StillReaches DEF ReachPart
<1> QED  BY <1>1, <1>2, <1>3, <1>4, <1>5, <1>6, <1>7 DEF SlabNext

\* Between calls everything before the free part of a page is in a slice, and
\* the free part of a page that is not current is at most a unit.
THEOREM NoMemoryIsLost == SlabSpec => []NothingIsLost
<1>1. slab_init => RInv
  <2> SUFFICES ASSUME slab_init PROVE ReachPart
    BY InitInv DEF RInv
  <2>1. \A p \in 1 .. Pages : ~Candidate(p)
    BY SlabAssumption DEF slab_init, Candidate
  <2> QED  BY <2>1 DEF slab_init, ReachPart
<1>2. RInv => NothingIsLost
  <2> SUFFICES ASSUME RInv, call = NoCall, NEW k \in header
               PROVE  /\ 0 .. PAGE_SIZE - 1 = FreePart(k.page) \cup
                            UNION {Slice(h) : h \in {m \in header : m.page = k.page}}
                      /\ k.page # slab_page_current => pg[k.page].free_size <= 1
    BY DEF NothingIsLost
  <2> DEFINE p == k.page
             S == {m \in header : m.page = p}
  <2>1. /\ CutTypes /\ Tidy /\ SlicesApart /\ ReachPart
    BY Types DEF RInv, SInv
  <2>2. p \in 1 .. used /\ p \in 1 .. Pages /\ Candidate(p)
    <3>1. p \in 1 .. used /\ used \in 0 .. Pages
      BY <2>1 DEF CutTypes
    <3>2. p # table.page /\ \A h \in header : h.selfPage # p
      BY <2>1 DEF Tidy, SlicesApart
    <3> QED  BY <3>1, <3>2, SlabAssumption DEF Candidate
  <2>3. /\ pg[p].free_base \in 0 .. PAGE_SIZE /\ pg[p].free_size \in 0 .. PAGE_SIZE
        /\ pg[p].free_base + pg[p].free_size = PAGE_SIZE
    BY <2>1, <2>2 DEF CutTypes, Tidy
  <2>4. \A x \in Nat : x < pg[p].free_base => \E h \in S : x \in Slice(h)
    <3> SUFFICES ASSUME NEW x \in Nat, x < pg[p].free_base PROVE \E h \in S : x \in Slice(h)
      OBVIOUS
    <3>1. PICK h \in header : h.page = p /\ h.base <= x /\ x < h.base + h.size
      BY <2>1, <2>2 DEF ReachPart, Covered
    <3>2. h.base \in Nat /\ h.size \in Nat
      BY <2>1, HeaderTypes
    <3>3. x \in Slice(h)
      BY <3>1, <3>2 DEF Slice
    <3> QED  BY <3>1, <3>3
  <2>5. \A h \in S : \A x \in Slice(h) : x \in 0 .. PAGE_SIZE - 1
    <3> SUFFICES ASSUME NEW h \in S, NEW x \in Slice(h) PROVE x \in 0 .. PAGE_SIZE - 1
      OBVIOUS
    <3>1. h.base \in Nat /\ h.size \in Nat /\ h.base + h.size <= pg[p].free_base
      BY <2>1, SMTT(30) DEF CutTypes, SlicesApart
    <3> QED  BY <2>3, <3>1, SlabAssumption DEF Slice
  <2>6. FreePart(p) = pg[p].free_base .. PAGE_SIZE - 1
    BY <2>3, SlabAssumption DEF FreePart
  <2>7. 0 .. PAGE_SIZE - 1 = FreePart(p) \cup UNION {Slice(h) : h \in S}
    <3>1. ASSUME NEW x \in 0 .. PAGE_SIZE - 1 PROVE x \in FreePart(p) \cup UNION {Slice(h) : h \in S}
      <4>1. CASE x < pg[p].free_base
        BY <2>4, <4>1
      <4>2. CASE ~(x < pg[p].free_base)
        BY <2>3, <2>6, <4>2, SlabAssumption
      <4> QED  BY <4>1, <4>2
    <3>2. ASSUME NEW x \in FreePart(p) PROVE x \in 0 .. PAGE_SIZE - 1
      BY <2>3, <2>6, <3>2, SlabAssumption
    <3>3. UNION {Slice(h) : h \in S} \subseteq 0 .. PAGE_SIZE - 1
      BY <2>5
    <3> HIDE DEF S, p
    <3> QED  BY <3>1, <3>2, <3>3
  <2>8. p # slab_page_current => pg[p].free_size <= 1
    BY <2>1 DEF ReachPart, NoCall
  <2> QED  BY <2>7, <2>8
<1> QED  BY <1>1, <1>2, NextReaches, PTL DEF SlabSpec

-----------------------------------------------------------------------------
(* What is in the cache is unused *)

\* h is in no cache list.
Uncached(h) == \A n \in 1 .. SLAB_NODE : \A i \in 1 .. Len(list[n]) : list[n][i] # h

\* The pages that a block fills from end to end.
WholePages(b) == {p \in Nat : b.page <= p /\ p < b.page + b.size \div PAGE_SIZE}

\* Those pages are the slab's, and no slice is cut from them, nor ever will be.
WholeOK(b) ==
  \A p \in WholePages(b) :
     /\ p <= used /\ p # slab_page_current
     /\ call.at \in {"first", "update"} => p # LastPage
     /\ \A h \in header : h.page # p

\* The lists hold slices of their size, each once, that do not start a page; a
\* block that does not start a page has a header, which is in no list; and whole
\* pages, of the call in progress too, are left alone.
UsePart ==
  /\ \A n \in 1 .. SLAB_NODE : \A i \in 1 .. Len(list[n]) :
       /\ list[n][i].size = n /\ list[n][i].base # 0
       /\ \A j \in 1 .. Len(list[n]) : i # j => list[n][j] # list[n][i]
  /\ \A g \in given : WholeOK(g)
  /\ call.at \in {"first", "update"} => WholeOK(call) /\ LeaveSize # 0
  /\ call.at = "slice" => call.size < PAGE_SIZE
  /\ \A g \in given : g.base # 0 =>
       \E k \in header : /\ k.page = g.page /\ k.base = g.base /\ k.size = g.size
                          /\ Uncached(k)

UInv == SInv /\ UsePart

\* Pages do not overlap.
LEMMA PageEnds ==
  ASSUME NEW a \in Nat, NEW b \in Nat, a < b
  PROVE  /\ a * PAGE_SIZE \in Nat /\ b * PAGE_SIZE \in Nat
         /\ a * PAGE_SIZE + PAGE_SIZE <= b * PAGE_SIZE
<1> USE SlabAssumption
<1>1. PICK c \in Nat : b = a + 1 + c
  <2>1. b - a - 1 \in Nat /\ b = a + 1 + (b - a - 1)
    OBVIOUS
  <2> QED  BY <2>1
<1>2. (a + 1 + c) * PAGE_SIZE = a * PAGE_SIZE + PAGE_SIZE + c * PAGE_SIZE
  OBVIOUS
<1>3. c * PAGE_SIZE \in Nat /\ a * PAGE_SIZE \in Nat /\ b * PAGE_SIZE \in Nat
  OBVIOUS
<1> QED  BY <1>1, <1>2, <1>3

\* A size is a number of whole pages and a rest.
LEMMA Divide ==
  ASSUME NEW n \in Nat
  PROVE  /\ n \div PAGE_SIZE \in Nat /\ n % PAGE_SIZE \in 0 .. PAGE_SIZE - 1
         /\ n = PAGE_SIZE * (n \div PAGE_SIZE) + (n % PAGE_SIZE)
<1>1. PAGE_SIZE \in Nat /\ PAGE_SIZE > 0
  BY SlabAssumption
<1>2. n \div PAGE_SIZE \in Nat
  BY <1>1
<1>3. n % PAGE_SIZE \in 0 .. PAGE_SIZE - 1
  BY <1>1
<1>4. n = PAGE_SIZE * (n \div PAGE_SIZE) + (n % PAGE_SIZE)
  BY <1>1
<1> QED  BY <1>2, <1>3, <1>4

\* The number of pages of a request.
LEMMA PageCount ==
  ASSUME NEW n \in Nat
  PROVE  page_nr(n) = IF n % PAGE_SIZE = 0 THEN n \div PAGE_SIZE ELSE n \div PAGE_SIZE + 1
<1>1. PICK m \in Nat, r \in 0 .. PAGE_SIZE - 1 :
         m = n \div PAGE_SIZE /\ r = n % PAGE_SIZE /\ n = PAGE_SIZE * m + r
  BY Divide
<1>2. PAGE_SIZE \in Nat /\ PAGE_SIZE > 1
  BY SlabAssumption
<1>3. CASE r = 0
  <2>1. n + PAGE_SIZE - 1 = PAGE_SIZE * m + (PAGE_SIZE - 1)
    BY <1>1, <1>2, <1>3
  <2>2. (PAGE_SIZE * m + (PAGE_SIZE - 1)) \div PAGE_SIZE = m
    BY <1>1, <1>2
  <2> QED  BY <1>1, <1>3, <2>1, <2>2 DEF page_nr
<1>4. CASE r # 0
  <2>1. n + PAGE_SIZE - 1 = PAGE_SIZE * (m + 1) + (r - 1)
    BY <1>1, <1>2, <1>4
  <2>2. r - 1 \in 0 .. PAGE_SIZE - 1 /\ m + 1 \in Nat
    BY <1>1, <1>2, <1>4
  <2>3. (PAGE_SIZE * (m + 1) + (r - 1)) \div PAGE_SIZE = m + 1
    BY <1>2, <2>2
  <2> QED  BY <1>1, <1>4, <2>1, <2>3 DEF page_nr
<1> QED  BY <1>3, <1>4

\* Less than a page has no whole pages.
LEMMA LessThanPage ==
  ASSUME NEW n \in Nat, n < PAGE_SIZE
  PROVE  n \div PAGE_SIZE = 0 /\ n % PAGE_SIZE = n
BY SlabAssumption

\* Whole pages are left alone by a step that cuts from none but the current page
\* and the last page of the call, and makes none but these current.
LEMMA WholeKeeps ==
  ASSUME NEW b, WholeOK(b), used \in Nat, used' \in Nat, used <= used',
         \A p \in Nat :
            /\ p <= used /\ p # slab_page_current
            /\ call.at \in {"first", "update"} => p # LastPage
            => /\ p # slab_page_current'
               /\ call'.at \in {"first", "update"} => p # LastPage'
               /\ \A h \in header' : h \in header \/ h.page # p
  PROVE  WholeOK(b)'
<1> SUFFICES ASSUME NEW p \in WholePages(b)
             PROVE  /\ p <= used' /\ p # slab_page_current'
                    /\ call'.at \in {"first", "update"} => p # LastPage'
                    /\ \A h \in header' : h.page # p
  BY DEF WholeOK, WholePages
<1>1. /\ p \in Nat /\ p <= used /\ p # slab_page_current
      /\ call.at \in {"first", "update"} => p # LastPage
      /\ \A h \in header : h.page # p
  BY DEF WholeOK, WholePages
<1>2. p <= used'
  BY <1>1
<1> QED  BY <1>1, <1>2

\* A block of less than a page has no whole pages.
LEMMA SmallIsWhole ==
  ASSUME NEW b, b.size \in Nat, b.size < PAGE_SIZE, b.page \in Nat
  PROVE  WholeOK(b)'
<1>1. b.size \div PAGE_SIZE = 0
  BY LessThanPage
<1> QED  BY <1>1 DEF WholeOK, WholePages

\* What is in the lists after a step.
ListPart ==
  \A n \in 1 .. SLAB_NODE : \A i \in 1 .. Len(list[n]) :
     /\ list[n][i].size = n /\ list[n][i].base # 0
     /\ \A j \in 1 .. Len(list[n]) : i # j => list[n][j] # list[n][i]

\* A block that does not start a page has a header that is in no list.
HeaderOf(g) ==
  g.base # 0 => \E k \in header : /\ k.page = g.page /\ k.base = g.base /\ k.size = g.size
                                  /\ Uncached(k)

\* The parts of the invariant about use.
LEMMA UseParts ==
  UsePart <=> /\ ListPart
              /\ \A g \in given : WholeOK(g) /\ HeaderOf(g)
              /\ call.at \in {"first", "update"} => WholeOK(call) /\ LeaveSize # 0
              /\ call.at = "slice" => call.size < PAGE_SIZE
BY DEF UsePart, ListPart, HeaderOf

\* A header in a list is a header.
LEMMA CachedIsHeader ==
  ASSUME RestTypes, NEW n \in 1 .. SLAB_NODE, NEW i \in 1 .. Len(list[n])
  PROVE  list[n][i] \in header
<1>1. list[n] \in Seq(header)
  BY DEF RestTypes
<1> QED  BY <1>1

\* The lists stay as they are, and headers are added.
LEMMA ListsStill ==
  ASSUME UsePart, UNCHANGED list, header \subseteq header'
  PROVE  /\ ListPart' /\ \A k : Uncached(k)' <=> Uncached(k)
         /\ \A g \in given : HeaderOf(g)'
<1>1. ListPart' /\ \A k : Uncached(k)' <=> Uncached(k)
  BY UseParts DEF ListPart, Uncached
<1>2. \A g \in given : HeaderOf(g)
  BY UseParts
<1> QED  BY <1>1, <1>2 DEF HeaderOf

\* kmalloc takes a slice from a cache list: nobody else finds it there.
LEMMA InListUse ==
  ASSUME UInv, NEW n \in Sizes, get_slab_in_list(n)
  PROVE  UsePart'
<1> USE SlabAssumption
<1>1. RestTypes /\ CutTypes /\ UsePart /\ ListPart
  BY Types, UseParts DEF UInv, SInv
<1>2. /\ n \in 1 .. SLAB_NODE /\ n < PAGE_SIZE /\ list[n] # <<>>
      /\ list' = [list EXCEPT ![n] = Tail(@)]
      /\ UNCHANGED <<used, slab_page_current, header>>
      /\ given' = given \cup {[page |-> list[n][1].page, base |-> list[n][1].base, size |-> n]}
      /\ call' = NoCall
  BY DEF get_slab_in_list, Return, SLAB_NODE
<1>3. list[n] \in Seq(header) /\ DOMAIN list = 1 .. SLAB_NODE
  BY <1>1, <1>2 DEF RestTypes
<1>4. /\ Len(list[n]) \in Nat \ {0} /\ Len(list'[n]) = Len(list[n]) - 1
      /\ \A i \in 1 .. Len(list'[n]) : /\ i + 1 \in 1 .. Len(list[n])
                                        /\ list'[n][i] = list[n][i + 1]
      /\ \A m \in 1 .. SLAB_NODE : m # n => list'[m] = list[m]
  BY <1>2, <1>3
<1>5. PICK h : h = list[n][1] /\ 1 \in 1 .. Len(list[n]) /\ h \in header
  BY <1>3, <1>4
<1>6. h.size = n /\ h.base # 0 /\ h.page \in Nat
  BY <1>1, <1>2, <1>5, SMTT(30) DEF ListPart, CutTypes
<1>7. ListPart'
  <2> SUFFICES ASSUME NEW m \in 1 .. SLAB_NODE, NEW i \in 1 .. Len(list'[m])
               PROVE  /\ list'[m][i].size = m /\ list'[m][i].base # 0
                      /\ \A j \in 1 .. Len(list'[m]) : i # j => list'[m][j] # list'[m][i]
    BY DEF ListPart
  <2>1. CASE m # n
    BY <1>1, <1>4, <2>1 DEF ListPart
  <2>2. CASE m = n
    <3>1. i + 1 \in 1 .. Len(list[n]) /\ list'[n][i] = list[n][i + 1]
      BY <1>4, <2>2
    <3>2. list'[n][i].size = n /\ list'[n][i].base # 0
      BY <1>1, <1>2, <3>1 DEF ListPart
    <3>3. ASSUME NEW j \in 1 .. Len(list'[n]), i # j PROVE list'[n][j] # list'[n][i]
      <4>1. j + 1 \in 1 .. Len(list[n]) /\ list'[n][j] = list[n][j + 1] /\ i + 1 # j + 1
        BY <1>4, <2>2, <3>3, SMTT(30)
      <4> QED  BY <1>1, <1>2, <3>1, <4>1 DEF ListPart
    <3> QED  BY <2>2, <3>2, <3>3
  <2> QED  BY <2>1, <2>2
<1>8. \A k : Uncached(k) => Uncached(k)'
  <2> SUFFICES ASSUME NEW k, Uncached(k), NEW m \in 1 .. SLAB_NODE, NEW i \in 1 .. Len(list'[m])
               PROVE  list'[m][i] # k
    BY DEF Uncached
  <2>1. CASE m # n
    BY <1>4, <2>1 DEF Uncached
  <2>2. CASE m = n
    BY <1>2, <1>4, <2>2 DEF Uncached
  <2> QED  BY <2>1, <2>2
<1>9. Uncached(h)'
  <2> SUFFICES ASSUME NEW m \in 1 .. SLAB_NODE, NEW i \in 1 .. Len(list'[m])
               PROVE  list'[m][i] # h
    BY DEF Uncached
  <2>1. CASE m # n
    BY <1>1, <1>4, <1>6, <2>1 DEF ListPart
  <2>2. CASE m = n
    <3>1. i + 1 \in 1 .. Len(list[n]) /\ i + 1 # 1
      BY <1>4, <2>2
    <3>2. list[n][i + 1] # list[n][1]
      BY <1>1, <1>2, <1>5, <3>1 DEF ListPart
    <3> QED  BY <1>4, <1>5, <2>2, <3>2
  <2> QED  BY <2>1, <2>2
<1>10. used \in Nat
  BY <1>1 DEF CutTypes
<1>11. ASSUME NEW g \in given' PROVE WholeOK(g)' /\ HeaderOf(g)'
  <2>1. CASE g \in given
    <3>1. WholeOK(g) /\ HeaderOf(g)
      BY <1>1, <2>1, UseParts
    <3>2. WholeOK(g)'
      BY <1>2, <1>10, <3>1, WholeKeeps DEF NoCall
    <3> QED  BY <1>2, <1>8, <3>1, <3>2 DEF HeaderOf
  <2>2. CASE g \notin given
    <3>1. g.page = h.page /\ g.base = h.base /\ g.size = n
      BY <1>2, <1>5, <2>2
    <3>2. WholeOK(g)'
      BY <1>2, <1>6, <3>1, SmallIsWhole
    <3> QED  BY <1>2, <1>5, <1>6, <1>9, <3>1, <3>2 DEF HeaderOf
  <2> QED  BY <2>1, <2>2
<1>12. call'.at = "none"
  BY <1>2 DEF NoCall
<1> QED  BY <1>7, <1>11, <1>12, UseParts DEF UsePart, ListPart, HeaderOf

\* kmalloc cuts a slice from the current page: the slice has a header, and that
\* is in no list.
LEMMA FromPageUse ==
  ASSUME UInv, get_slab_from_page_free, SInv'
  PROVE  UsePart'
<1> USE SlabAssumption
<1>1. /\ RestTypes /\ CutTypes /\ Tidy /\ SlicesApart /\ CallOK /\ UsePart
      /\ used \in Nat /\ used' \in Nat /\ RestTypes'
  <2>1. used \in Nat /\ used' \in Nat /\ RestTypes'
    BY DEF UInv, SInv, SlabTypeOK, RestTypes
  <2> QED  BY <2>1, Types DEF UInv, SInv
<1>2. /\ call.at = "slice" /\ others' = others
      /\ slab_page_current' = slab_page_current /\ list' = list
      /\ slab_page_current # NULL /\ Candidate(slab_page_current)
      /\ call.size \in Nat \ {0} /\ call.size < PAGE_SIZE
  <2>1. call.size \in Nat
    BY <1>1 DEF RestTypes
  <2>2. call.at = "slice"
    BY DEF get_slab_from_page_free
  <2> QED  BY <1>1, <2>1, <2>2 DEF get_slab_from_page_free, CallOK, UsePart
<1>3. CASE /\ get_slab_from_page(slab_page_current, call.size)
           /\ Return(slab_page_current, pg[slab_page_current].free_base, call.size)
  <2>1. call.size \in 1 .. PAGE_SIZE
    BY <1>2
  <2>2. PICK new :
           /\ header' = header \cup {new} /\ new \notin header
           /\ new.page = slab_page_current
           /\ new.base = pg[slab_page_current].free_base /\ new.size = call.size
    BY <1>1, <1>2, <1>3, <2>1, NewSlice
  <2>3. used <= used'
    <3>1. used' = used \/ used' = used + 1
      BY <1>3 DEF get_slab_from_page
    <3> QED  BY <1>1, <3>1
  <2>4. /\ ListPart' /\ \A k : Uncached(k)' <=> Uncached(k)
        /\ \A g \in given : HeaderOf(g)'
    BY <1>1, <1>2, <2>2, ListsStill
  <2>5. Uncached(new)'
    <3>1. \A n \in 1 .. SLAB_NODE : \A i \in 1 .. Len(list[n]) : list[n][i] \in header
      BY <1>1, CachedIsHeader
    <3>2. Uncached(new)
      BY <2>2, <3>1 DEF Uncached
    <3> QED  BY <2>4, <3>2
  <2>6. call'.at = "none"
    BY <1>3 DEF Return, NoCall
  <2>7. ASSUME NEW g \in given' PROVE WholeOK(g)' /\ HeaderOf(g)'
    <3>1. CASE g \in given
      <4>1. WholeOK(g)
        BY <1>1, <3>1, UseParts
      <4>2. WholeOK(g)'
        BY <1>1, <1>2, <2>2, <2>3, <2>6, <4>1, WholeKeeps
      <4> QED  BY <2>4, <3>1, <4>2
    <3>2. CASE g \notin given
      <4>1. g = [page |-> slab_page_current, base |-> pg[slab_page_current].free_base,
                 size |-> call.size]
        BY <1>3, <3>2 DEF Return
      <4>2. g.page = new.page /\ g.base = new.base /\ g.size = new.size
        BY <2>2, <4>1
      <4>3. WholeOK(g)'
        <5>1. g.page \in Nat /\ g.size \in Nat /\ g.size < PAGE_SIZE
          BY <1>1, <1>2, <4>1 DEF RestTypes
        <5> QED  BY <5>1, SmallIsWhole
      <4> QED  BY <2>2, <2>5, <4>2, <4>3 DEF HeaderOf
    <3> QED  BY <3>1, <3>2
  <2> QED  BY <2>4, <2>6, <2>7 DEF UsePart, ListPart, HeaderOf
<1>4. CASE NoSlab /\ Go("pages") /\ UNCHANGED given
  <2>1. UNCHANGED <<used, header>> /\ call'.at = "pages"
    BY <1>1, <1>4 DEF NoSlab, Go, RestTypes
  <2>2. /\ ListPart' /\ \A g \in given : HeaderOf(g)'
    BY <1>1, <1>2, <2>1, ListsStill
  <2>3. \A g \in given : WholeOK(g)'
    BY <1>1, <1>2, <2>1, WholeKeeps, UseParts
  <2> QED  BY <1>4, <2>1, <2>2, <2>3 DEF UsePart, ListPart, HeaderOf
<1> QED  BY <1>3, <1>4 DEF get_slab_from_page_free

\* kmalloc takes new pages, of which no block, slice or call knows.
LEMMA NewPagesUse ==
  ASSUME UInv, GetPages, SInv'
  PROVE  UsePart'
<1> USE SlabAssumption
<1>1. /\ RestTypes /\ CutTypes /\ CallOK /\ UsePart
      /\ used \in Nat /\ used' \in Nat /\ slab_page_current \in 0 .. used
  <2>1. used \in Nat /\ used' \in Nat /\ slab_page_current \in 0 .. used
    BY DEF UInv, SInv, SlabTypeOK
  <2> QED  BY <2>1, Types DEF UInv, SInv
<1>2. /\ call.at = "pages" /\ UNCHANGED <<slab_page_current, header, list>>
      /\ call.size \in Nat \ {0} /\ call \in [at : Points, size : Nat, page : 0 .. used]
  <2>1. call.at = "pages" /\ UNCHANGED <<slab_page_current, header, list>>
    BY DEF GetPages
  <2> QED  BY <1>1, <2>1 DEF CallOK, RestTypes
<1>3. \A h \in header : h.page \in 1 .. used
  BY <1>1 DEF CutTypes
<1>4. /\ ListPart' /\ \A g \in given : HeaderOf(g)'
  BY <1>1, <1>2, ListsStill
<1>5. ASSUME used <= used', call'.at \in {"first", "update"} => LastPage' > used
      PROVE  \A g \in given : WholeOK(g)'
  <2>1. \A p \in Nat : p <= used => (call'.at \in {"first", "update"} => p # LastPage')
    <3> SUFFICES ASSUME NEW p \in Nat, p <= used, LastPage' > used PROVE p # LastPage'
      BY <1>5
    <3> QED  BY <1>1
  <2> QED  BY <1>1, <1>2, <1>5, <2>1, WholeKeeps, UseParts
<1>6. CASE call' = NoCall /\ UNCHANGED <<used, given>>
  <2>1. call'.at = "none" /\ used <= used'
    BY <1>1, <1>6 DEF NoCall
  <2>2. \A g \in given : WholeOK(g)'
    BY <1>5, <2>1
  <2> QED  BY <1>4, <1>6, <2>1, <2>2 DEF UsePart, ListPart, HeaderOf
<1>7. ASSUME NEW n, n = page_nr(call.size), used' = used + n,
             call.size % PAGE_SIZE = 0, Return(used + 1, 0, call.size)
      PROVE  UsePart'
  <2>1. n \in Nat /\ n = call.size \div PAGE_SIZE
    BY <1>2, <1>7, PageCount, Divide
  <2>2. used <= used' /\ call'.at = "none"
    BY <1>1, <1>7, <2>1 DEF Return, NoCall
  <2>3. \A g \in given : WholeOK(g)'
    BY <1>5, <2>2
  <2>4. ASSUME NEW g \in given', g \notin given PROVE WholeOK(g)' /\ HeaderOf(g)'
    <3>1. g.page = used + 1 /\ g.base = 0 /\ g.size = call.size
      BY <1>7, <2>4 DEF Return
    <3>2. ASSUME NEW p \in WholePages(g)
          PROVE  p \in Nat /\ p <= used' /\ used < p
      BY <1>1, <1>7, <2>1, <3>1, <3>2 DEF WholePages
    <3>3. WholeOK(g)'
      <4> SUFFICES ASSUME NEW p \in WholePages(g)
                   PROVE  /\ p <= used' /\ p # slab_page_current'
                          /\ call'.at \in {"first", "update"} => p # LastPage'
                          /\ \A h \in header' : h.page # p
        BY DEF WholeOK, WholePages
      <4> QED  BY <1>1, <1>2, <1>3, <2>2, <3>2
    <3> QED  BY <3>1, <3>3 DEF HeaderOf
  <2>5. \A g \in given' : WholeOK(g)' /\ HeaderOf(g)'
    BY <1>4, <2>3, <2>4
  <2> QED  BY <1>4, <2>2, <2>5 DEF UsePart, ListPart, HeaderOf
<1>8. ASSUME NEW n, n = page_nr(call.size), used' = used + n,
             call.size % PAGE_SIZE # 0, UNCHANGED given,
             call' = [call EXCEPT !.at = "first", !.page = used + 1]
      PROVE  UsePart'
  <2>1. /\ call.size \div PAGE_SIZE \in Nat /\ n = call.size \div PAGE_SIZE + 1
    BY <1>2, <1>8, PageCount, Divide
  <2>2. call'.at = "first" /\ call'.page = used + 1 /\ call'.size = call.size
    BY <1>2, <1>8
  <2>3. LastPage' = used' /\ used < used' /\ LeaveSize' # 0
    <3>1. page_nr(call'.size) = n
      BY <1>8, <2>2
    <3>2. LastPage' = call'.page + page_nr(call'.size) - 1 /\ LeaveSize' = call'.size % PAGE_SIZE
      BY DEF LastPage, LeaveSize, page_nr
    <3> QED  BY <1>1, <1>8, <2>1, <2>2, <3>1, <3>2
  <2>4. \A g \in given : WholeOK(g)'
    BY <1>1, <1>5, <2>3
  <2>5. WholeOK(call)'
    <3> SUFFICES ASSUME NEW p \in Nat, call'.page <= p, p < call'.page + call'.size \div PAGE_SIZE
                 PROVE  /\ p <= used' /\ p # slab_page_current'
                        /\ call'.at \in {"first", "update"} => p # LastPage'
                        /\ \A h \in header' : h.page # p
      BY DEF WholeOK, WholePages
    <3>1. used + 1 <= p /\ p < used + 1 + (call.size \div PAGE_SIZE)
      BY <2>2
    <3>2. used < p /\ p < used'
      BY <1>1, <1>8, <2>1, <3>1
    <3> QED  BY <1>1, <1>2, <1>3, <2>3, <3>2
  <2> QED  BY <1>4, <1>8, <2>2, <2>3, <2>4, <2>5 DEF UsePart, ListPart, HeaderOf
<1> QED  BY <1>6, <1>7, <1>8 DEF GetPages

\* The slice of a call comes from its last page, which no block has whole.
LEMMA FirstUse ==
  ASSUME UInv, FirstSlice, SInv'
  PROVE  UsePart'
<1> USE SlabAssumption
<1>1. /\ RestTypes /\ CutTypes /\ Tidy /\ SlicesApart /\ CallOK /\ UsePart
      /\ used \in Nat /\ used' \in Nat
  <2>1. used \in Nat /\ used' \in Nat
    BY DEF UInv, SInv, SlabTypeOK
  <2> QED  BY <2>1, Types DEF UInv, SInv
<1>2. /\ call.at = "first" /\ others' = others /\ UNCHANGED <<slab_page_current, list, given>>
      /\ call' = [call EXCEPT !.at = "update"]
  BY DEF FirstSlice, Go
<1>3. /\ call'.at = "update" /\ call'.page = call.page /\ call'.size = call.size
      /\ LastPage' = LastPage /\ LeaveSize' = LeaveSize
      /\ Candidate(LastPage) /\ LeaveSize \in 1 .. PAGE_SIZE /\ LeaveSize # 0
  <2>1. call'.at = "update" /\ call'.page = call.page /\ call'.size = call.size
    BY <1>1, <1>2 DEF RestTypes
  <2>2. Candidate(LastPage) /\ LeaveSize \in 1 .. PAGE_SIZE - 1
    BY <1>1, <1>2 DEF CallOK
  <2>3. LastPage' = LastPage /\ LeaveSize' = LeaveSize
    BY <2>1 DEF LastPage, LeaveSize, page_nr
  <2> QED  BY <2>1, <2>2, <2>3
<1>4. /\ used <= used' /\ header \subseteq header'
      /\ \A h \in header' : h \in header \/ h.page = LastPage
  <2>1. CASE get_slab_from_page(LastPage, LeaveSize)
    <3>1. used' = used \/ used' = used + 1
      BY <2>1 DEF get_slab_from_page
    <3>2. \E new : header' = header \cup {new} /\ new.page = LastPage
      BY <1>1, <1>2, <1>3, <2>1, NewSlice
    <3> QED  BY <1>1, <3>1, <3>2
  <2>2. CASE NoSlab
    BY <1>1, <2>2 DEF NoSlab
  <2> QED  BY <2>1, <2>2 DEF FirstSlice
<1>5. ListPart' /\ \A g \in given : HeaderOf(g)'
  BY <1>1, <1>2, <1>4, ListsStill
<1>6. ASSUME NEW b, WholeOK(b) PROVE WholeOK(b)'
  BY <1>1, <1>2, <1>3, <1>4, <1>6, WholeKeeps
<1>7. WholeOK(call)'
  <2>1. PICK c : c = call
    OBVIOUS
  <2>2. WholeOK(c)
    BY <1>1, <1>2, <2>1, UseParts
  <2>3. WholeOK(c)'
    BY <1>6, <2>2
  <2> QED  BY <1>3, <2>1, <2>3 DEF WholeOK, WholePages
<1>8. \A g \in given : WholeOK(g)'
  BY <1>1, <1>6, UseParts
<1> QED  BY <1>2, <1>3, <1>5, <1>7, <1>8 DEF UsePart, ListPart, HeaderOf

\* The rest of a page goes into the cache with a new header, which no block has.
LEMMA UpdateUse ==
  ASSUME UInv, update_slab_free_page, SInv'
  PROVE  UsePart'
<1> USE SlabAssumption
<1>1. /\ RestTypes /\ CutTypes /\ Tidy /\ SlicesApart /\ CallOK /\ UsePart /\ ListPart
      /\ used \in Nat /\ used' \in Nat
  <2>1. used \in Nat /\ used' \in Nat
    BY DEF UInv, SInv, SlabTypeOK
  <2> QED  BY <2>1, Types, UseParts DEF UInv, SInv
<1>2. /\ call.at = "update" /\ others' = others /\ slab_page_current' = NewCurrent
      /\ NewCurrent \in {slab_page_current, LastPage}
      /\ OldCurrent \in {slab_page_current, LastPage}
      /\ Candidate(LastPage) /\ (slab_page_current # NULL => Candidate(slab_page_current))
  BY <1>1 DEF update_slab_free_page, NewCurrent, OldCurrent, CallOK
<1>3. ASSUME NEW b, WholeOK(b), used <= used', call'.at \notin {"first", "update"},
             \A h \in header' : h \in header \/ h.page = OldCurrent
      PROVE  WholeOK(b)'
  BY <1>1, <1>2, <1>3, WholeKeeps
<1>4. ASSUME used <= used', \A h \in header' : h \in header \/ h.page = OldCurrent,
             Return(call.page, 0, call.size)
      PROVE  \A g \in given' : WholeOK(g)'
  <2>1. call'.at = "none"
    BY <1>4 DEF Return, NoCall
  <2>2. \A g \in given : WholeOK(g)'
    BY <1>1, <1>3, <1>4, <2>1, UseParts
  <2>3. ASSUME NEW g \in given', g \notin given PROVE WholeOK(g)'
    <3>1. g.page = call.page /\ g.size = call.size
      BY <1>4, <2>3 DEF Return
    <3>2. WholeOK(call)
      BY <1>1, <1>2, UseParts
    <3>3. WholeOK(g)
      BY <3>1, <3>2 DEF WholeOK, WholePages
    <3> QED  BY <1>3, <1>4, <2>1, <3>3
  <2> QED  BY <2>2, <2>3
<1>5. CASE /\ Return(call.page, 0, call.size)
           /\ UNCHANGED <<used, pg, table, header, list>>
  <2>1. ListPart' /\ \A g \in given : HeaderOf(g)'
    BY <1>1, <1>5, ListsStill
  <2>2. \A g \in given' : WholeOK(g)'
    BY <1>1, <1>4, <1>5
  <2>3. \A g \in given' : HeaderOf(g)'
    BY <1>5, <2>1 DEF Return, HeaderOf
  <2>4. call'.at = "none"
    BY <1>5 DEF Return, NoCall
  <2> QED  BY <2>1, <2>2, <2>3, <2>4 DEF UsePart, ListPart, HeaderOf
<1>6. ASSUME NEW rest, rest = pg[OldCurrent].free_size, RestIsWorthIt, rest <= SLAB_NODE,
             get_slab_from_page(OldCurrent, rest),
             NEW h \in header' \ header, add_slab_header_to_list(h, rest),
             Return(call.page, 0, call.size)
      PROVE  UsePart'
  <2>1. Candidate(OldCurrent) /\ OldCurrent \in 1 .. Pages
    <3>1. Candidate(OldCurrent)
      BY <1>2, <1>6 DEF RestIsWorthIt
    <3> QED  BY <1>1, <3>1 DEF Candidate, CutTypes
  <2>2. /\ rest \in 1 .. SLAB_NODE /\ rest \in 1 .. PAGE_SIZE
        /\ pg[OldCurrent].free_base \in Nat /\ pg[OldCurrent].free_base # 0
    <3>1. /\ pg[OldCurrent].free_size \in 0 .. PAGE_SIZE
          /\ pg[OldCurrent].free_base \in 0 .. PAGE_SIZE
          /\ pg[OldCurrent].free_base + pg[OldCurrent].free_size = PAGE_SIZE
      BY <1>1, <2>1 DEF CutTypes, Tidy
    <3>2. pg[OldCurrent].free_size > 1
      BY <1>6 DEF RestIsWorthIt
    <3> QED  BY <1>6, <3>1, <3>2 DEF SLAB_NODE
  <2>3. PICK new :
           /\ header' = header \cup {new} /\ new \notin header /\ new.page = OldCurrent
           /\ new.base = pg[OldCurrent].free_base /\ new.size = rest
    BY <1>1, <1>2, <1>6, <2>1, <2>2, NewSlice
  <2>4. h = new /\ h.page = OldCurrent /\ h.base # 0 /\ h.size = rest /\ h \notin header
    BY <1>6, <2>2, <2>3
  <2>5. used <= used'
    <3>1. used' = used \/ used' = used + 1
      BY <1>6 DEF get_slab_from_page
    <3> QED  BY <1>1, <3>1
  <2>6. \A g \in given' : WholeOK(g)'
    BY <1>4, <1>6, <2>3, <2>5
  <2>7. list[rest] \in Seq(header) /\ list' = [list EXCEPT ![rest] = <<h>> \o list[rest]]
        /\ DOMAIN list = 1 .. SLAB_NODE
    BY <1>1, <1>6, <2>2 DEF RestTypes, add_slab_header_to_list
  <2>8. /\ Len(list[rest]) \in Nat /\ Len(list'[rest]) = Len(list[rest]) + 1
        /\ list'[rest][1] = h
        /\ \A i \in 1 .. Len(list'[rest]) : i # 1 =>
              i - 1 \in 1 .. Len(list[rest]) /\ list'[rest][i] = list[rest][i - 1]
        /\ \A m \in 1 .. SLAB_NODE : m # rest => list'[m] = list[m]
    <3>1. list'[rest] = <<h>> \o list[rest] /\ Len(list[rest]) \in Nat
      BY <2>2, <2>7
    <3>2. \A m \in 1 .. SLAB_NODE : m # rest => list'[m] = list[m]
      BY <2>7
    <3>3. /\ Len(<<h>> \o list[rest]) = Len(list[rest]) + 1
          /\ (<<h>> \o list[rest])[1] = h
          /\ \A i \in 1 .. Len(list[rest]) + 1 : i # 1 =>
               i - 1 \in 1 .. Len(list[rest]) /\ (<<h>> \o list[rest])[i] = list[rest][i - 1]
      BY <2>7
    <3> QED  BY <3>1, <3>2, <3>3
  <2>9. \A i \in 1 .. Len(list[rest]) : list[rest][i] \in header
    BY <1>1, <2>2, CachedIsHeader
  <2>10. ListPart'
    <3> SUFFICES ASSUME NEW m \in 1 .. SLAB_NODE, NEW i \in 1 .. Len(list'[m])
                 PROVE  /\ list'[m][i].size = m /\ list'[m][i].base # 0
                        /\ \A j \in 1 .. Len(list'[m]) : i # j => list'[m][j] # list'[m][i]
      BY DEF ListPart
    <3>1. CASE m # rest
      BY <1>1, <2>8, <3>1 DEF ListPart
    <3>2. CASE m = rest /\ i = 1
      BY <2>4, <2>8, <2>9, <3>2, SMTT(30)
    <3>3. CASE m = rest /\ i # 1
      <4>1. i - 1 \in 1 .. Len(list[rest]) /\ list'[rest][i] = list[rest][i - 1]
        BY <2>8, <3>3
      <4>2. list'[rest][i].size = rest /\ list'[rest][i].base # 0 /\ list'[rest][i] \in header
        BY <1>1, <2>2, <2>9, <4>1 DEF ListPart
      <4>3. ASSUME NEW j \in 1 .. Len(list'[rest]), i # j PROVE list'[rest][j] # list'[rest][i]
        <5>1. CASE j = 1
          BY <2>4, <2>8, <4>2, <5>1
        <5>2. CASE j # 1
          <6>1. /\ j - 1 \in 1 .. Len(list[rest]) /\ list'[rest][j] = list[rest][j - 1]
                /\ j - 1 # i - 1
            BY <2>8, <3>3, <4>3, <5>2
          <6> QED  BY <1>1, <2>2, <4>1, <6>1, SMTT(30) DEF ListPart
        <5> QED  BY <5>1, <5>2
      <4> QED  BY <3>3, <4>2, <4>3
    <3> QED  BY <3>1, <3>2, <3>3
  <2>11. ASSUME NEW k \in header, Uncached(k) PROVE Uncached(k)'
    <3> SUFFICES ASSUME NEW m \in 1 .. SLAB_NODE, NEW i \in 1 .. Len(list'[m])
                 PROVE  list'[m][i] # k
      BY DEF Uncached
    <3>1. CASE m # rest
      BY <2>8, <2>11, <3>1 DEF Uncached
    <3>2. CASE m = rest /\ i = 1
      BY <2>4, <2>8, <3>2
    <3>3. CASE m = rest /\ i # 1
      BY <2>2, <2>8, <2>11, <3>3 DEF Uncached
    <3> QED  BY <3>1, <3>2, <3>3
  <2>12. \A g \in given' : HeaderOf(g)'
    <3> SUFFICES ASSUME NEW g \in given' PROVE HeaderOf(g)'
      OBVIOUS
    <3>1. CASE g \in given
      <4>1. HeaderOf(g)
        BY <1>1, <3>1, UseParts
      <4> QED  BY <2>3, <2>11, <4>1 DEF HeaderOf
    <3>2. CASE g \notin given
      BY <1>6, <3>2 DEF Return, HeaderOf
    <3> QED  BY <3>1, <3>2
  <2>13. call'.at = "none"
    BY <1>6 DEF Return, NoCall
  <2> QED  BY <2>6, <2>10, <2>12, <2>13 DEF UsePart, ListPart, HeaderOf
<1>7. CASE Go("wild") /\ UNCHANGED <<used, pg, table, header, list, given>>
  <2>1. call'.at = "wild"
    BY <1>1, <1>7 DEF Go, RestTypes
  <2>2. ListPart' /\ \A g \in given : HeaderOf(g)'
    BY <1>1, <1>7, ListsStill
  <2>3. \A g \in given : WholeOK(g)'
    BY <1>1, <1>3, <1>7, <2>1, UseParts
  <2> QED  BY <1>7, <2>1, <2>2, <2>3 DEF UsePart, ListPart, HeaderOf
<1> QED  BY <1>5, <1>6, <1>7 DEF update_slab_free_page

\* Every step keeps the invariant about use.
LEMMA NextUse == UInv /\ [SlabNext]_slabVars => UInv'
<1> SUFFICES ASSUME UInv, [SlabNext]_slabVars PROVE UsePart'
  BY NextInv DEF UInv
<1>0. SInv' /\ UsePart /\ used \in Nat /\ used' \in Nat
  <2>1. SInv /\ SInv' /\ UsePart
    BY NextInv DEF UInv
  <2>2. used \in 0 .. Pages /\ used' \in 0 .. Pages
    BY <2>1 DEF SInv, SlabTypeOK
  <2> QED  BY <2>1, <2>2, SlabAssumption
<1>1. CASE UNCHANGED <<used, slab_page_current, header, list, given, call>>
  BY <1>0, <1>1 DEF UsePart, WholeOK, WholePages, Uncached, LastPage, LeaveSize
<1>2. ASSUME NEW n \in Sizes, KmallocMiss(n) PROVE UsePart'
  <2>1. /\ UNCHANGED <<used, slab_page_current, header, list, given>>
        /\ call'.at \notin {"first", "update"}
        /\ call'.at = "slice" => call'.size < PAGE_SIZE
    BY <1>2 DEF KmallocMiss
  <2>2. ListPart' /\ \A g \in given : HeaderOf(g)'
    BY <1>0, <2>1, ListsStill
  <2>3. \A g \in given : WholeOK(g)'
    BY <1>0, <2>1, WholeKeeps, UseParts
  <2> QED  BY <2>1, <2>2, <2>3 DEF UsePart, ListPart, HeaderOf
<1>3. ASSUME NEW n \in Sizes, get_slab_in_list(n) PROVE UsePart'
  BY <1>3, InListUse
<1>4. CASE UNCHANGED slabVars \/ OthersTake \/ OthersFree
  BY <1>1, <1>4 DEF slabVars, OthersTake, OthersFree
<1> QED
  BY <1>0, <1>2, <1>3, <1>4, FromPageUse, NewPagesUse, FirstUse, UpdateUse DEF SlabNext

\* A slice lies within its page.
LEMMA InItsPage ==
  ASSUME CutTypes, SlicesApart, NEW k \in header
  PROVE  /\ k.base \in Nat /\ k.size \in Nat \ {0} /\ k.page \in Nat
         /\ k.base + k.size <= PAGE_SIZE
<1> USE SlabAssumption
<1>1. k.base \in Nat /\ k.size \in Nat \ {0} /\ k.page \in 1 .. used
  BY HeaderTypes
<1>2. k.page \in 1 .. Pages /\ k.page \in Nat
  <2>1. used \in 0 .. Pages
    BY DEF CutTypes
  <2> QED  BY <1>1, <2>1
<1>3. pg[k.page].free_base \in 0 .. PAGE_SIZE
  BY <1>2 DEF CutTypes
<1>4. k.base + k.size <= pg[k.page].free_base
  BY DEF SlicesApart
<1> QED  BY <1>1, <1>2, <1>3, <1>4

\* A unit that is in a page and in a block within a page.
LEMMA SamePage ==
  ASSUME NEW x \in Int, NEW p \in Nat, NEW q \in Nat, NEW b \in Nat, NEW c \in Nat,
         NEW y \in Nat, NEW z \in Nat, b + y <= PAGE_SIZE, c + z <= PAGE_SIZE,
         p * PAGE_SIZE + b <= x, x < p * PAGE_SIZE + b + y,
         q * PAGE_SIZE + c <= x, x < q * PAGE_SIZE + c + z
  PROVE  p = q
<1>1. ~(p < q)
  <2> SUFFICES ASSUME p < q PROVE FALSE
    OBVIOUS
  <2>1. p * PAGE_SIZE + PAGE_SIZE <= q * PAGE_SIZE
    BY PageEnds
  <2> QED  BY <2>1, SlabAssumption
<1>2. ~(q < p)
  <2> SUFFICES ASSUME q < p PROVE FALSE
    OBVIOUS
  <2>1. q * PAGE_SIZE + PAGE_SIZE <= p * PAGE_SIZE
    BY PageEnds
  <2> QED  BY <2>1, SlabAssumption
<1> QED  BY <1>1, <1>2

\* The end of n units from the start of page q.
LEMMA BlockEnds ==
  ASSUME NEW q \in Nat, NEW n \in Nat
  PROVE  /\ q + n \div PAGE_SIZE \in Nat
         /\ q * PAGE_SIZE + n = (q + n \div PAGE_SIZE) * PAGE_SIZE + (n % PAGE_SIZE)
<1>1. PICK m \in Nat, r \in Nat : /\ m = n \div PAGE_SIZE /\ r = n % PAGE_SIZE
                                  /\ n = PAGE_SIZE * m + r
  BY Divide
<1>2. (q + m) * PAGE_SIZE = q * PAGE_SIZE + PAGE_SIZE * m
  BY SlabAssumption
<1>3. q * PAGE_SIZE \in Int /\ PAGE_SIZE * m \in Int
  BY SlabAssumption
<1>4. q * PAGE_SIZE + (PAGE_SIZE * m + r) = (q * PAGE_SIZE + PAGE_SIZE * m) + r
  BY <1>3
<1> QED  BY <1>1, <1>2, <1>4

\* A unit of page p and of a block that starts page q is on a page that the
\* block fills, or in the rest on its last page.
LEMMA WholeOrLast ==
  ASSUME NEW x \in Int, NEW p \in Nat, NEW q \in Nat, NEW n \in Nat,
         p * PAGE_SIZE <= x, x < p * PAGE_SIZE + PAGE_SIZE,
         q * PAGE_SIZE <= x, x < q * PAGE_SIZE + n
  PROVE  \/ q <= p /\ p < q + n \div PAGE_SIZE
         \/ p = q + n \div PAGE_SIZE /\ x < p * PAGE_SIZE + (n % PAGE_SIZE)
<1>1. PICK l \in Nat, r \in 0 .. PAGE_SIZE - 1 :
         /\ l = q + n \div PAGE_SIZE /\ r = n % PAGE_SIZE
         /\ q * PAGE_SIZE + n = l * PAGE_SIZE + r
  BY BlockEnds, Divide
<1>2. q <= p
  <2> SUFFICES ASSUME p < q PROVE FALSE
    OBVIOUS
  <2>1. p * PAGE_SIZE + PAGE_SIZE <= q * PAGE_SIZE
    BY PageEnds
  <2> QED  BY <2>1, SlabAssumption
<1>3. p <= l
  <2> SUFFICES ASSUME l < p PROVE FALSE
    BY <1>1
  <2>1. l * PAGE_SIZE + PAGE_SIZE <= p * PAGE_SIZE
    BY <1>1, PageEnds
  <2>2. x < l * PAGE_SIZE + r
    BY <1>1
  <2>3. l * PAGE_SIZE \in Int /\ p * PAGE_SIZE \in Int /\ r < PAGE_SIZE /\ r \in Int
    BY <1>1, SlabAssumption
  <2> QED  BY <2>1, <2>2, <2>3, SlabAssumption
<1>4. CASE p < l
  BY <1>1, <1>2, <1>4
<1>5. CASE p = l
  <2>1. x < p * PAGE_SIZE + r
    BY <1>1, <1>5
  <2> QED  BY <1>1, <1>5, <2>1
<1> QED  BY <1>1, <1>3, <1>4, <1>5

\* The place of a unit in its page.
LEMMA Offset ==
  ASSUME NEW P \in Int, NEW x \in Int, NEW b \in Nat, NEW y \in Nat, NEW s \in Nat,
         P + b <= x, x < P + b + y
  PROVE  /\ x - P \in Int /\ b <= x - P /\ x - P < b + y
         /\ b + y <= s => P <= x /\ x < P + s
OBVIOUS

\* The units of a slice or a block.
LEMMA Units ==
  ASSUME NEW b, NEW x, NEW p \in Nat, NEW c \in Nat, NEW n \in Nat,
         p = b.page, c = b.base, n = b.size
  PROVE  /\ x \in Extent(b) <=> /\ x \in Int /\ p * PAGE_SIZE + c <= x
                               /\ x < p * PAGE_SIZE + c + n
         /\ x \in Slice(b) <=> x \in Int /\ c <= x /\ x < c + n
<1>1. PICK P \in Int : P = p * PAGE_SIZE
  BY SlabAssumption
<1>2. Extent(b) = P + c .. P + c + n - 1 /\ Slice(b) = c .. c + n - 1
  BY <1>1 DEF Extent, Slice
<1>3. x \in P + c .. P + c + n - 1 <=> x \in Int /\ P + c <= x /\ x < P + c + n
  OBVIOUS
<1>4. x \in c .. c + n - 1 <=> x \in Int /\ c <= x /\ x < c + n
  OBVIOUS
<1> QED  BY <1>1, <1>2, <1>3, <1>4

\* A cached slice and a block with a header have no unit in common.
LEMMA CachedApart ==
  ASSUME UInv, NEW n \in 1 .. SLAB_NODE, NEW i \in 1 .. Len(list[n]),
         NEW g \in given, Headed(g)
  PROVE  Extent(g) \cap Extent(list[n][i]) = {}
<1>1. CutTypes /\ RestTypes /\ SlicesApart /\ ListPart /\ WholeOK(g) /\ HeaderOf(g)
  BY Types, UseParts DEF UInv, SInv
<1>2. PICK h : h = list[n][i]
  OBVIOUS
<1> SUFFICES ASSUME NEW x \in Extent(g), x \in Extent(h) PROVE FALSE
  BY <1>2
<1>3. h \in header /\ h.base # 0
  BY <1>1, <1>2, CachedIsHeader DEF ListPart
<1>4. PICK p \in Nat, b \in Nat, y \in Nat :
         p = h.page /\ b = h.base /\ y = h.size /\ b + y <= PAGE_SIZE
  BY <1>1, <1>3, InItsPage
<1>5. PICK q \in Nat, c \in Nat, z \in Nat : q = g.page /\ c = g.base /\ z = g.size
  BY <1>1 DEF RestTypes
<1>6. PICK P \in Int : P = p * PAGE_SIZE
  BY SlabAssumption
<1>7. x \in Int /\ P + b <= x /\ x < P + b + y
  BY <1>4, <1>6, Units
<1>8. q * PAGE_SIZE + c <= x /\ x < q * PAGE_SIZE + c + z
  BY <1>5, Units
<1>9. x - P \in Slice(h)
  <2>1. x - P \in Int /\ b <= x - P /\ x - P < b + y
    BY <1>7, Offset
  <2> QED  BY <1>4, <2>1, Units
<1>10. ASSUME NEW k \in header, k # h, k.page = p, x - P \in Slice(k) PROVE FALSE
  BY <1>1, <1>3, <1>4, <1>9, <1>10 DEF SlicesApart
<1>11. CASE c # 0
  <2>1. PICK k \in header : /\ k.page = g.page /\ k.base = g.base /\ k.size = g.size
                            /\ Uncached(k)
    BY <1>1, <1>5, <1>11 DEF HeaderOf
  <2>2. k # h
    BY <1>2, <2>1 DEF Uncached
  <2>3. c + z <= PAGE_SIZE
    BY <1>1, <1>5, <2>1, InItsPage
  <2>4. p = q
    BY <1>4, <1>5, <1>6, <1>7, <1>8, <2>3, SamePage
  <2>5. x - P \in Slice(k)
    <3>1. x - P \in Int /\ c <= x - P /\ x - P < c + z
      <4>1. P + c <= x /\ x < P + c + z
        BY <1>6, <1>8, <2>4
      <4> QED  BY <1>7, <4>1, Offset
    <3> QED  BY <1>5, <2>1, <3>1, Units
  <2> QED  BY <1>5, <1>10, <2>1, <2>2, <2>4, <2>5
<1>12. CASE c = 0
  <2>1. P <= x /\ x < P + PAGE_SIZE
    <3>1. PAGE_SIZE \in Nat
      BY SlabAssumption
    <3> QED  BY <1>4, <1>7, <3>1, Offset
  <2>2. q * PAGE_SIZE \in Int
    BY SlabAssumption
  <2>3. q * PAGE_SIZE <= x /\ x < q * PAGE_SIZE + z
    BY <1>8, <1>12, <2>2
  <2>4. PICK m \in Nat, r \in Nat : m = z \div PAGE_SIZE /\ r = z % PAGE_SIZE
    <3>1. z \div PAGE_SIZE \in Nat /\ z % PAGE_SIZE \in 0 .. PAGE_SIZE - 1
      BY Divide
    <3> QED  BY <3>1, SlabAssumption
  <2>5. ~(q <= p /\ p < q + m)
    <3> SUFFICES ASSUME q <= p, p < q + m PROVE FALSE
      OBVIOUS
    <3>1. p \in WholePages(g)
      BY <1>5, <2>4 DEF WholePages
    <3> QED  BY <1>1, <1>3, <1>4, <3>1 DEF WholeOK
  <2>6. p = q + m /\ x < P + r
    BY <1>6, <1>7, <2>1, <2>3, <2>4, <2>5, WholeOrLast, SMTT(30)
  <2>7. r # 0
    BY <2>1, <2>6, <1>7
  <2>8. PICK k \in header : /\ k.size = r /\ Extent(k) \subseteq Extent(g)
                            /\ k.page = g.page + page_nr(g.size) - 1
    BY <1>5, <2>4, <2>7 DEF Headed
  <2>9. k.page = p
    <3>1. page_nr(z) = m + 1
      BY <2>4, <2>7, PageCount
    <3>2. k.page = q + (m + 1) - 1
      BY <1>5, <2>8, <3>1
    <3> QED  BY <2>6, <3>2
  <2>10. PICK d \in Nat : d = k.base
    BY <1>1, InItsPage
  <2>11. d = 0
    <3>1. P + d + r - 1 \in Extent(k)
      <4>1. /\ P + d + r - 1 \in Int /\ P + d <= P + d + r - 1
            /\ P + d + r - 1 < P + d + r
        BY <2>7
      <4> QED  BY <1>6, <2>8, <2>9, <2>10, <4>1, Units
    <3>2. P + d + r - 1 < q * PAGE_SIZE + c + z
      BY <1>5, <2>8, <3>1, Units
    <3>3. q * PAGE_SIZE + z = P + r
      BY <1>6, <2>4, <2>6, BlockEnds
    <3> QED  BY <1>12, <2>2, <3>2, <3>3
  <2>12. x - P \in Slice(k)
    <3>1. x - P \in Int /\ d <= x - P /\ x - P < d + r
      BY <1>7, <2>1, <2>6, <2>11
    <3> QED  BY <2>8, <2>9, <2>10, <3>1, Units
  <2>13. k # h
    BY <1>3, <2>10, <2>11
  <2> QED  BY <1>10, <2>9, <2>12, <2>13
<1> QED  BY <1>11, <1>12

\* get_slab_in_list may return what it finds: a slice in a list has the size of the
\* list, is in it once, and shares no memory with a block that has a header.
THEOREM CacheIsUnused == SlabSpec => []CachedIsUnused
<1>1. slab_init => UInv
  <2> SUFFICES ASSUME slab_init PROVE UsePart
    BY InitInv DEF UInv
  <2>1. given = {} /\ call.at = "none"
    BY DEF slab_init, NoCall
  <2>2. \A n \in 1 .. SLAB_NODE : 1 .. Len(list[n]) = {}
    BY DEF slab_init
  <2> QED  BY <2>1, <2>2 DEF UsePart
<1>2. UInv => CachedIsUnused
  <2> SUFFICES ASSUME UInv, NEW n \in 1 .. SLAB_NODE, NEW i \in 1 .. Len(list[n])
               PROVE  /\ list[n][i].size = n
                      /\ \A g \in given : Headed(g) => Extent(g) \cap Extent(list[n][i]) = {}
                      /\ \A j \in 1 .. Len(list[n]) : i # j => list[n][j] # list[n][i]
    BY DEF CachedIsUnused
  <2>1. ListPart
    BY UseParts DEF UInv
  <2> QED  BY <2>1, CachedApart DEF ListPart
<1> QED  BY <1>1, <1>2, NextUse, PTL DEF SlabSpec

=============================================================================
