---------------------------- MODULE MCDeckEngine ----------------------------
(* Instances of DeckEngine for TLC. *)
EXTENDS DeckEngine, TLC

CONSTANTS t1, t2, t3

Symmetric == Permutations(Client)
OnAirSpec == OnAir(t1) /\ [][Next]_vars
AnyStartSpec == (Init \/ OnAir(t1)) /\ [][Next]_vars
FairOnAirSpec == OnAirSpec /\ Fairness
=============================================================================
