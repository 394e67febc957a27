-------------------------- MODULE MCWrcMessages --------------------------
(* Instances of WrcMessages for TLC. *)
EXTENDS WrcMessages, TLC

Symmetry == Permutations(Caller) \union Permutations(Addr)
=============================================================================
