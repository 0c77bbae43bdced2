------------------------------ MODULE ItemList ------------------------------
(***************************************************************************)
(* Singly linked chains threaded through the items themselves.  Both the   *)
(* hash buckets of cache.c and the free lists of slabs.c are such chains:  *)
(* a head pointer kept elsewhere and the items' own next pointers.  This   *)
(* module says which items a chain holds, without recursion, so that facts *)
(* about chains can be proved as well as evaluated.                        *)
(***************************************************************************)
CONSTANT NULL     \* the null pointer

(* S is closed when following next from a member never leaves S. *)
Closed(next, S) == \A i \in S : next[i] \in S \cup {NULL}

(* Starting points of a walk that stays in S: a member, or the null head. *)
StartsIn(head, S) == head \in S \cup {NULL}

(* The items met by "it = head; while(it) it = it->next": the least closed *)
(* set that the walk starts in.                                            *)
Chain(next, head) ==
  {i \in DOMAIN next :
     \A S \in SUBSET DOMAIN next :
        (StartsIn(head, S) /\ Closed(next, S)) => i \in S}

(* No walk through next ever comes back to where it was: walks terminate. *)
Acyclic(next) == \A i \in DOMAIN next : i \notin Chain(next, next[i])

(* it->prev = p, guarded by "if(it)" as every such assignment in the code. *)
SetLink(link, i, p) == IF i = NULL THEN link ELSE [link EXCEPT ![i] = p]
=============================================================================
