------------------------------ MODULE Ordering ------------------------------
(***************************************************************************)
(* resolve_order() of core/classes/ordering.py: items in their original    *)
(* order, each with the names it answers to, a priority, and the names of  *)
(* those it wants to come before and after.  A recursive function pops the *)
(* heap; what it leaves over lies on a cycle.                              *)
(***************************************************************************)
EXTENDS Integers, Sequences, FiniteSets

LOCAL INSTANCE SequencesExt

\* Mutant of Edges: `after` is read as `before`.
EdgesOneWay(items) ==
  {e \in (DOMAIN items) \X (DOMAIN items) :
     /\ e[1] # e[2]
     /\ (items[e[1]].before \cup items[e[1]].after) \cap items[e[2]].aliases # {}}

\* A name stands for every item that answers to it; unknown names and an item's
\* own are ignored.
Edges(items) ==
  {e \in (DOMAIN items) \X (DOMAIN items) :
     /\ e[1] # e[2]
     /\ \/ items[e[1]].before \cap items[e[2]].aliases # {}
        \/ items[e[2]].after \cap items[e[1]].aliases # {}}

\* The order of the heap: higher priority first, then the original order.
Precedes(items, i, j) ==
  \/ items[i].priority > items[j].priority
  \/ items[i].priority = items[j].priority /\ i <= j

Indegree(edges, left, i) == Cardinality({e \in edges : e[2] = i /\ e[1] \in left})

\* Who is popped first, second, ...: of those of whom no predecessor is left, the
\* first of the heap; 0 for nobody.
Popped(items) ==
  LET edges == Edges(items)
      Minimum(done) ==
        LET left == DOMAIN items \ ToSet(done)
            heap == {i \in left : Indegree(edges, left, i) = 0}
        IN IF heap = {} THEN 0
           ELSE CHOOSE i \in heap : \A j \in heap : Precedes(items, i, j)
      popped[n \in 0..Len(items)] ==
        IF n = 0 THEN <<>>
        ELSE LET done == popped[n - 1] IN Append(done, Minimum(done))
  IN popped[Len(items)]

\* It raises CyclicConstraintError.
IsCyclic(items) ==
  LET popped == Popped(items) IN \E n \in DOMAIN items : popped[n] = 0

ResolveOrder(items) ==
  LET popped == Popped(items) IN [n \in DOMAIN items |-> items[popped[n]]]
=============================================================================
