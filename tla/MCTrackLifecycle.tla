-------------------------- MODULE MCTrackLifecycle --------------------------
(* Instances of TrackLifecycle for TLC: the first and the third row hold the *)
(* same track.                                                               *)
EXTENDS TrackLifecycle
TrackOf == [r \in 1..MaxRow |-> IF r = 2 THEN "b" ELSE "a"]
=============================================================================
