-------------------------------- MODULE Lists --------------------------------
(***************************************************************************)
(* The circular doubly linked lists of include/list.h, seen as sequences:  *)
(* the first element is head->next, the last one head->prev.  Only the     *)
(* operations the kernel uses are here.                                    *)
(***************************************************************************)
EXTENDS Naturals, Sequences, FiniteSetsExt, SequencesExt

list_is_empty(s) == s = << >>

list_in_list(s, node) == node \in Range(s)

(* list_add_tail links node between head->prev and head. *)
list_add_tail(s, node) == Append(s, node)

(* The body of list_add_head is that of list_add_tail, word for word: it   *)
(* links the node before the head of the ring, that is, last.              *)
list_add_head(s, node) == Append(s, node)

(* Unlinks a node, wherever it is in the list.  The kernel must only call  *)
(* it for a node that is linked there; the coherence invariants say so.    *)
list_delete(s, node) ==
  IF list_in_list(s, node)
  THEN RemoveAt(s, CHOOSE i \in DOMAIN s : s[i] = node)
  ELSE s

(* list_remove_head and list_peek_head return Head(s) when s is not empty. *)
list_remove_head(s) == Tail(s)

(* Not an operation: the elements that come before node. *)
Before(s, node) == {s[i] : i \in {j \in DOMAIN s : \E k \in DOMAIN s : j < k /\ s[k] = node}}

(* list_add_before(entry, node): node becomes the predecessor of s[i].     *)
list_add_before(s, i, node) == InsertAt(s, i, node)
=============================================================================
