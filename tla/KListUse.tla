------------------------------ MODULE KListUse ------------------------------
(***************************************************************************)
(* The pointer lists of KList used the way the scheduler uses them:        *)
(* task_structs are linked when they are on no list, unlinked when they    *)
(* are on one, and a walk may delete the node it is at.  The walk reads    *)
(* list->next from the node, deleted or not.                               *)
(***************************************************************************)
EXTENDS Integers, Sequences, FiniteSets

CONSTANTS
  Heads, Items,
  Fifo           \* the heads that list_add is not used on

ASSUME KListAssumption ==
  /\ IsFiniteSet(Items) /\ IsFiniteSet(Heads)
  /\ Heads \cap Items = {} /\ Heads # {}
  /\ Fifo \subseteq Heads

VARIABLES heap, linked, cur, head

uvars == <<heap, linked, cur, head>>

K == INSTANCE KList

Nodes == Heads \cup Items

\* A walk is under way.
Walking == cur # head

UseInit ==
  /\ heap = K!init_list(Nodes)
  /\ linked = {}
  /\ head \in Heads
  /\ cur = head

\* A task is filed on a list, at its front or at its end.
File(h, n) ==
  /\ n \notin linked /\ n # cur
  /\ \/ h \notin Fifo /\ heap' = K!list_add(heap, h, n)
     \/ heap' = K!list_add_tail(heap, h, n)
  /\ linked' = linked \cup {n}
  /\ UNCHANGED <<cur, head>>

\* A task leaves its list.
Unfile(n) ==
  /\ n \in linked /\ ~Walking
  /\ heap' = K!list_del(heap, n)
  /\ linked' = linked \ {n}
  /\ UNCHANGED <<cur, head>>

\* for (list = head->next; ...
Start(h) ==
  /\ ~Walking
  /\ head' = h
  /\ cur' = heap.next[h]
  /\ UNCHANGED <<heap, linked>>

\* The node that is visited is deleted.
DeleteVisited ==
  /\ Walking /\ cur \in linked
  /\ heap' = K!list_del(heap, cur)
  /\ linked' = linked \ {cur}
  /\ UNCHANGED <<cur, head>>

\* ...; list != head; list = list->next)
Step ==
  /\ Walking
  /\ cur' = heap.next[cur]
  /\ UNCHANGED <<heap, linked, head>>

UseNext ==
  \/ \E h \in Heads, n \in Items : File(h, n)
  \/ \E n \in Items : Unfile(n)
  \/ \E h \in Heads : Start(h)
  \/ DeleteVisited
  \/ Step

UseSpec == UseInit /\ [][UseNext]_uvars

-----------------------------------------------------------------------------
(* Properties *)

\* The nodes reached from head h by the pointers next, up to h.
ChainFrom(next, h) ==
  LET node[k \in 0 .. Cardinality(Items)] ==
        next[IF k = 0 THEN h ELSE node[k - 1]]
      n == CHOOSE k \in 0 .. Cardinality(Items) :
              node[k] = h /\ \A j \in 0 .. k - 1 : node[j] # h
  IN  [i \in 1 .. n |-> node[i - 1]]

Chain(h) == ChainFrom(heap.next, h)

\* The links of the list.h operations form rings: from a linked node or a head
\* the two pointers lead back to it, and no list reaches an unlinked node.
\* Both assignments of list_del and all four of list_add are needed for it.
Rings ==
  \A n \in linked \cup Heads :
     /\ heap.pre[heap.next[n]] = n /\ heap.next[heap.pre[n]] = n
     /\ heap.next[n] \in linked \cup Heads

Abs == INSTANCE SeqLists WITH
         lists <- [h \in Heads |-> Chain(h)],
         succ  <- IF cur \in linked \cup Heads THEN cur ELSE heap.next[cur]

\* The pointer lists implement sequences, deletion during a walk included:
\* the stale next pointer that list_del leaves in a deleted node leads to the
\* node that followed it, whatever is added meanwhile.
ImplementsSequences == Abs!AbsSpec

=============================================================================
