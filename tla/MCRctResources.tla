-------------------------- MODULE MCRctResources --------------------------
(* Instances of RctResources for TLC. *)
EXTENDS RctResources, TLC

Symmetry == Permutations(Slot) \union Permutations(Thread)

\* Bound: one resource is held from outside the registry at a time, and not
\* while two threads are both in the middle of a creation.
OneHeld ==
  /\ Cardinality(held) <= 1
  /\ held = {} \/ \E t \in Thread : pc[t] = "idle"
=============================================================================
