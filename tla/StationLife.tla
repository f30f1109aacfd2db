---------------------------- MODULE StationLife ----------------------------
(***************************************************************************)
(* What the daemon promises about the engine of a station: it is created   *)
(* once, used by the commands that found it open, closed while nobody uses *)
(* it, and freed once after that.                                          *)
(***************************************************************************)
CONSTANTS Engine, Client

VARIABLES
  phase,  \* of each engine: "new", "open", "closed" or "freed"
  users   \* the clients whose command runs on each engine

lvars == <<phase, users>>

LifeInit ==
  /\ phase = [e \in Engine |-> "new"]
  /\ users = [e \in Engine |-> {}]

\* An engine is created, in use by the command that asked for it.
Open(e, c) ==
  /\ phase[e] = "new"
  /\ phase' = [phase EXCEPT ![e] = "open"]
  /\ users' = [users EXCEPT ![e] = {c}]

Enter(e, c) ==
  /\ phase[e] = "open"
  /\ users' = [users EXCEPT ![e] = @ \cup {c}]
  /\ UNCHANGED phase

Leave(e, c) ==
  /\ phase[e] = "open"
  /\ users' = [users EXCEPT ![e] = @ \ {c}]
  /\ UNCHANGED phase

\* Nobody uses the engine, and from here on nobody may.
Close(e) ==
  /\ phase[e] = "open" /\ users[e] = {}
  /\ phase' = [phase EXCEPT ![e] = "closed"]
  /\ UNCHANGED users

Free(e) ==
  /\ phase[e] = "closed"
  /\ phase' = [phase EXCEPT ![e] = "freed"]
  /\ UNCHANGED users

LifeNext ==
  \E e \in Engine :
    \/ Close(e) \/ Free(e)
    \/ \E c \in Client : Open(e, c) \/ Enter(e, c) \/ Leave(e, c)

LifeSpec == LifeInit /\ [][LifeNext]_lvars
=============================================================================
