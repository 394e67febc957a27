---------------------------- MODULE MCRctRoom ----------------------------
(* Instances of RctRoom for TLC. *)
EXTENDS RctRoom, TLC

Symmetry == Permutations(Session) \union Permutations(User) \union Permutations(Uuid)
              \union Permutations(Room) \union Permutations(Member)

\* Bounds: members pinned, and close events under way, at a time.
OnePinned == Cardinality({m \in Member : member[m].pinned}) <= 1
OneAsked == Cardinality(asked) <= 1
=============================================================================
