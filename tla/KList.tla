------------------------------- MODULE KList -------------------------------
(***************************************************************************)
(* The doubly linked lists of include/os/list.h.  A heap h of list_heads   *)
(* is a record of two functions on nodes, h.next and h.pre; a list is a    *)
(* node used as its head.  None of the operations checks that a node is or *)
(* is not linked, and list_del leaves the pointers of the deleted node     *)
(* alone.                                                                  *)
(***************************************************************************)

\* All nodes alone (init_list).
init_list(Nodes) == [next |-> [n \in Nodes |-> n], pre |-> [n \in Nodes |-> n]]

\* The four assignments of list_add, in their order.
list_add(h, head, new) ==
  LET h1 == [h EXCEPT !.pre[h.next[head]] = new]
      h2 == [h1 EXCEPT !.next[new] = h1.next[head]]
      h3 == [h2 EXCEPT !.pre[new] = head]
  IN  [h3 EXCEPT !.next[head] = new]

\* The four assignments of list_add_tail, in their order.
list_add_tail(h, head, new) ==
  LET h1 == [h EXCEPT !.next[h.pre[head]] = new]
      h2 == [h1 EXCEPT !.next[new] = head]
      h3 == [h2 EXCEPT !.pre[new] = h2.pre[head]]
  IN  [h3 EXCEPT !.pre[head] = new]

\* Mutant of list_del: the back pointer of the next node is left alone.
list_del_forward(h, n) == [h EXCEPT !.next[h.pre[n]] = h.next[n]]

\* Mutant of list_del: the deleted node is made a list of its own.
list_del_init(h, n) ==
  LET h1 == [h EXCEPT !.pre[h.next[n]] = h.pre[n]]
      h2 == [h1 EXCEPT !.next[h1.pre[n]] = h1.next[n]]
  IN  [h2 EXCEPT !.next[n] = n, !.pre[n] = n]

\* The two assignments of list_del, in their order.
list_del(h, n) ==
  LET h1 == [h EXCEPT !.pre[h.next[n]] = h.pre[n]]
  IN  [h1 EXCEPT !.next[h1.pre[n]] = h1.next[n]]

is_list_empty(h, head) == h.next[head] = head

=============================================================================
