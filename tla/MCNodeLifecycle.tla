-------------------------- MODULE MCNodeLifecycle --------------------------
(* Instances of NodeLifecycle for TLC. *)
EXTENDS NodeLifecycle

CONSTANTS c1, c2, e1

\* A route between two clients, which goes through the exit node if it can.
ClientPair == {<<c1, c2>>}
=============================================================================
