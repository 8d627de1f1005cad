--------------------------- MODULE MCNodeRegistry ---------------------------
(* Instances of NodeRegistry for TLC. *)
EXTENDS NodeRegistry, TLC

Symmetry ==
  Permutations(Accounts) \cup Permutations(Devices) \cup Permutations(NodeIds)
    \cup Permutations(IPs) \cup Permutations(Registrars)
=============================================================================
