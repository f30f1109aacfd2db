------------------------- MODULE HandoffReservation -------------------------
(***************************************************************************)
(* What the engine promises about a hand-off that is being prepared.       *)
(*                                                                         *)
(* Two decks each hold at most one descriptor, and one of them is on the   *)
(* air.  The mixer may reserve the other deck for the descriptor it holds: *)
(* the first PCM of that track is then already queued behind the end of    *)
(* the one that plays.  While the reservation stands the deck keeps that   *)
(* descriptor and the station does not change decks; the change of decks,  *)
(* the planned one or any other, ends it.                                  *)
(***************************************************************************)
CONSTANTS Deck, NoDeck, Track, NoTrack

VARIABLES
  token,     \* the descriptor each deck holds
  onair,     \* the deck that is on the air
  reserved,  \* the deck the next track is reserved on
  promised   \* the descriptor the reservation was made for

hvars == <<token, onair, reserved, promised>>

HandoffInit ==
  /\ token \in [Deck -> Track \cup {NoTrack}]
  /\ onair \in Deck \cup {NoDeck}
  /\ reserved = NoDeck /\ promised = NoTrack

\* A descriptor replaces another one, on a deck that is not reserved.
Replace(d, t) ==
  /\ reserved # d
  /\ token' = [token EXCEPT ![d] = t]
  /\ UNCHANGED <<onair, reserved, promised>>

\* The deck off the air is reserved for the descriptor it holds.
Reserve(d) ==
  /\ d # onair /\ token[d] # NoTrack
  /\ reserved' = d /\ promised' = token[d]
  /\ UNCHANGED <<token, onair>>

\* The reservation is used: its deck goes on the air with what was promised.
Switch ==
  /\ reserved \in Deck /\ token[reserved] = promised
  /\ onair' = reserved
  /\ reserved' = NoDeck /\ promised' = NoTrack
  /\ UNCHANGED token

\* The station moves, or stays, for another reason, and gives it up.
Cut(d) ==
  /\ onair' = d
  /\ reserved' = NoDeck /\ promised' = NoTrack
  /\ UNCHANGED token

HandoffNext ==
  \/ \E d \in Deck, t \in Track : Replace(d, t)
  \/ \E d \in Deck : Reserve(d)
  \/ Switch
  \/ \E d \in Deck \cup {NoDeck} : Cut(d)

HandoffSpec == HandoffInit /\ [][HandoffNext]_hvars
=============================================================================
