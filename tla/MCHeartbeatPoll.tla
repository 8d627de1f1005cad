-------------------------- MODULE MCHeartbeatPoll --------------------------
(* Instances of HeartbeatPoll for TLC. *)
EXTENDS HeartbeatPoll, TLC

Symmetry == Permutations(Devices)
=============================================================================
