------------------------- MODULE MCMeshDispatcher -------------------------
(* Instances of MeshDispatcher for TLC. *)
EXTENDS MeshDispatcher

Symmetry == Permutations(Conns) \cup Permutations(Pubkeys)
=============================================================================
