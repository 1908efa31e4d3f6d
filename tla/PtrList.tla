------------------------------- MODULE PtrList -------------------------------
(* include/list.h at the level of its pointers.  A heap h gives every node,   *)
(* the head of the list among them, its prev and its next; a node that is in  *)
(* no list has NULL in both.                                                  *)
EXTENDS Naturals

CONSTANTS Head_, NULL   \* the node timer_queue, and no node

list_initialize(nodes) ==
  [prev |-> [n \in nodes \cup {Head_} |-> IF n = Head_ THEN Head_ ELSE NULL],
   next |-> [n \in nodes \cup {Head_} |-> IF n = Head_ THEN Head_ ELSE NULL]]

list_in_list(h, node) == ~(h.prev[node] = NULL /\ h.next[node] = NULL)

\* Links node before pos.  list_add_head, list_add_tail, list_add_before and list_add_after
\* all have this body.
list_add_before(h, pos, node) ==
  LET p == h.prev[pos]
  IN  [prev |-> [h.prev EXCEPT ![node] = p, ![pos] = node],
       next |-> [[h.next EXCEPT ![node] = pos] EXCEPT ![p] = node]]

list_add_tail(h, node) == list_add_before(h, Head_, node)

list_delete(h, node) ==
  LET n == h.next[node]
      p == h.prev[node]
  IN  [prev |-> [[h.prev EXCEPT ![n] = p] EXCEPT ![node] = NULL],
       next |-> [[h.next EXCEPT ![p] = n] EXCEPT ![node] = NULL]]

list_peek_head(h) == IF h.next[Head_] # Head_ THEN h.next[Head_] ELSE NULL
=============================================================================
