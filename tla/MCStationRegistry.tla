-------------------------- MODULE MCStationRegistry --------------------------
(* Instances of StationRegistry for TLC. *)
EXTENDS StationRegistry, TLC

Symmetric == Permutations(Client) \cup Permutations(Key)
=============================================================================
