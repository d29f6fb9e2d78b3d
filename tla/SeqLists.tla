------------------------------ MODULE SeqLists ------------------------------
(***************************************************************************)
(* What the kernel's lists promise: a set of disjoint sequences, and one   *)
(* walk (list_for_each) that may delete the node it is at.  A node can be  *)
(* added only while it is on no list and deleted only while it is on one.  *)
(* Nodes may be added anywhere while a walk is under way; a walk whose     *)
(* node was deleted goes on at the node that followed it then.             *)
(***************************************************************************)
EXTENDS Integers, Sequences

CONSTANTS
  Heads, Items,
  Fifo           \* the heads whose list is only added to at its end

VARIABLES
  lists,   \* the sequence of each head
  cur,     \* the node the walk is at: an item, or its head when it is over
  head,    \* the head of the walk
  succ     \* where the walk goes on if its node was deleted, cur otherwise

absVars == <<lists, cur, head, succ>>

\* Item n is at position i of the list of head h.
IsAt(n, h, i) == i \in 1 .. Len(lists[h]) /\ lists[h][i] = n

Linked(n) == \E h \in Heads : \E i \in 1 .. Len(lists[h]) : IsAt(n, h, i)

Idle == cur = head

\* The node at position i of the list of h; the head follows the last one.
NodeAt(h, i) == IF i \in 1 .. Len(lists[h]) THEN lists[h][i] ELSE h

Drop(s, i) == SubSeq(s, 1, i - 1) \o SubSeq(s, i + 1, Len(s))

AddFirst(h, n) ==
  /\ h \notin Fifo
  /\ ~Linked(n) /\ n # cur
  /\ lists' = [lists EXCEPT ![h] = <<n>> \o @]
  /\ UNCHANGED <<cur, head, succ>>

AddLast(h, n) ==
  /\ ~Linked(n) /\ n # cur
  /\ lists' = [lists EXCEPT ![h] = Append(@, n)]
  /\ UNCHANGED <<cur, head, succ>>

Remove(n) ==
  /\ Idle
  /\ \E h \in Heads : \E i \in 1 .. Len(lists[h]) :
        IsAt(n, h, i) /\ lists' = [lists EXCEPT ![h] = Drop(@, i)]
  /\ UNCHANGED <<cur, head, succ>>

\* list = head->next
WalkStart(h) ==
  /\ Idle
  /\ head' = h /\ cur' = NodeAt(h, 1) /\ succ' = cur'
  /\ UNCHANGED lists

\* The body of the loop deletes the node it visits.
WalkDelete ==
  /\ ~Idle
  /\ \E i \in 1 .. Len(lists[head]) :
        /\ IsAt(cur, head, i)
        /\ lists' = [lists EXCEPT ![head] = Drop(@, i)]
        /\ succ' = NodeAt(head, i + 1)
  /\ UNCHANGED <<cur, head>>

\* list = list->next
WalkNext ==
  /\ ~Idle
  /\ cur' = IF succ # cur THEN succ
            ELSE NodeAt(head, 1 + CHOOSE i \in 1 .. Len(lists[head]) :
                                     IsAt(cur, head, i))
  /\ succ' = cur'
  /\ UNCHANGED <<lists, head>>

AbsInit ==
  /\ lists = [h \in Heads |-> <<>>]
  /\ head \in Heads /\ cur = head /\ succ = head

AbsNext ==
  \/ \E h \in Heads, n \in Items : AddFirst(h, n) \/ AddLast(h, n)
  \/ \E n \in Items : Remove(n)
  \/ \E h \in Heads : WalkStart(h)
  \/ WalkDelete
  \/ WalkNext

AbsSpec == AbsInit /\ [][AbsNext]_absVars

=============================================================================
