----------------------------- MODULE LinkedList -----------------------------
(***************************************************************************)
(* Singly linked lists over a heap, as memory.h, process.h and             *)
(* threadpool.h keep them: a global pointer to the first node, a global    *)
(* pointer to the last one, nodes from malloc.  A heap is a function       *)
(* `next' on addresses; it keeps the link of a freed node, because free    *)
(* leaves it in place where the link is not among the node's first words.  *)
(***************************************************************************)
EXTENDS Naturals, Sequences, FiniteSets

CONSTANTS Addr,     \* what malloc can return
          NULL      \* the null pointer

ASSUME NullIsNoAddress == NULL \notin Addr /\ IsFiniteSet(Addr)

\* Who walks from `first' along `next' visits these nodes in this order.
Walk(first, next) ==
  LET node[i \in 0..Cardinality(Addr)] ==
        IF i = 0 THEN first
        ELSE LET a == node[i - 1] IN IF a = NULL THEN NULL ELSE next[a]
      len == Cardinality({i \in 0..Cardinality(Addr) : node[i] # NULL})
  IN [i \in 1..len |-> node[i - 1]]

\* The nodes on that way, and the first of them with a property.
OnWalk(first, next) == LET way == Walk(first, next) IN {way[i] : i \in DOMAIN way}

PlaceOf(way, Matches(_)) ==
  IF \E i \in DOMAIN way : Matches(way[i])
  THEN CHOOSE i \in DOMAIN way :
         Matches(way[i]) /\ \A j \in 1..(i - 1) : ~Matches(way[j])
  ELSE 0

\* The node before the one at place i; NULL where the loops keep `backe'.
Before(way, i) == IF i = 1 THEN NULL ELSE way[i - 1]
=============================================================================
