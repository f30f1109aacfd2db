----------------------------- MODULE QueueReplan -----------------------------
(* What the application does when the queue changes while a station plays: a    *)
(* replan keeps the deck that is heard and reloads the other one.  Replans run  *)
(* in threads of their own and overlap; a serial per station tells an older one *)
(* that it is stale; a refused load is retried by a timer.                      *)
(* A step is one call of the daemon or of the database, with what the thread     *)
(* does before the next one.                                                    *)
EXTENDS Naturals, FiniteSets, SequencesExt

CONSTANTS Thread,   \* threads and timers that replan
          Rows,     \* queue rows of a behaviour; row 1 plays at first, row 2 is loaded
          MaxEdits, \* edits of the queue
          MaxMoves, \* manual hand-offs and seeks
          Fault,    \* "blind": a read of the daemon's state fails; "away": a timer finds another station selected in the page
          MaxFaults \* how often

ASSUME ReplanAssumption ==
  /\ Rows \in Nat \ {0, 1} /\ MaxEdits \in Nat /\ MaxMoves \in Nat /\ MaxFaults \in Nat
  /\ Fault \subseteq {"blind", "away"}

Row == 1..Rows
None == 0
Deck == {"a", "b"}
Other(d) == IF d = "a" THEN "b" ELSE "a"

VARIABLES queue,    \* queue_items
          version,  \* edits so far
          planned,  \* the version the plan in force was made from
          player,   \* _AB_PLAYER_STATE: active, lines[0], lines[1], whether the inactive deck has index 1, its loaded key; manual_next_until or a pending seek
          native,   \* the daemon: active deck, row and phase of each deck, transition, start not yet handled
          replan,   \* where each thread is; whether its serial is the station's, and its generation the player's
          timers,   \* _ab_schedule_inactive_preload_after_start timers
          bounds    \* moves and faults so far

vars == <<queue, version, planned, player, native, replan, timers, bounds>>

Idle == [at |-> "none", stale |-> FALSE, version |-> 0, fresh |-> <<>>, active |-> "a",
         cur |-> None, row |-> None, keep |-> FALSE, now |-> FALSE]

Replanning == {"plan", "resolve", "apply", "load", "record"}

Init ==
  /\ queue = [i \in 1..(Rows - 2) |-> i + 1]
  /\ version = 0 /\ planned = 0 /\ bounds = [moves |-> 0, faults |-> 0] /\ timers = {}
  /\ player = [active |-> "a", cur |-> 1, next |-> 2, index |-> TRUE, key |-> 2,
               guard |-> FALSE, frozen |-> FALSE]
  /\ native = [active |-> "a", on |-> [d \in Deck |-> IF d = "a" THEN 1 ELSE 2],
               phase |-> [d \in Deck |-> IF d = "a" THEN "playing" ELSE "ready"],
               moving |-> FALSE, started |-> None]
  /\ replan = [t \in Thread |-> Idle]

\* A row is queued once.
Without(q, r) == RemoveFirst(q, r)
FirstOf(q) == IF q = <<>> THEN None ELSE Head(q)
At(t, a) == replan' = [replan EXCEPT ![t].at = a]
\* Threads differ in nothing: the first idle one begins.
NextIdle(t) == replan[t].at = "none" /\ t = CHOOSE u \in Thread : replan[u].at = "none"
Done(t) == replan' = [replan EXCEPT ![t] = Idle]

\* A new serial, _ab_invalidate_pending_replans: what other threads replan is stale.
NewSerial(t, r) ==
  replan' = [u \in Thread |-> IF u = t THEN r
                             ELSE [replan[u] EXCEPT !.stale = @ \/ replan[u].at \in Replanning]]

\* A new generation of the player's state.
Older == {[p EXCEPT !.now = FALSE] : p \in timers}

-----------------------------------------------------------------------------
(* Edits: the row change is committed, then the mutation is applied.            *)

ToFront(r) == <<r>> \o Without(queue, r)

\* queue add, remove, reorder and move to front, by the page, the scheduler, a
\* script or the AutoDJ.
Edit(t) ==
  /\ version < MaxEdits /\ NextIdle(t)
  /\ \/ \E r \in Row \ (ToSet(queue) \cup {native.on["a"], native.on["b"]}) : queue' = Append(queue, r)
     \/ \E r \in ToSet(queue) : queue' = Without(queue, r) \/ queue' = ToFront(r)
  /\ version' = version + 1
  /\ At(t, "reload")
  /\ UNCHANGED <<planned, player, native, timers, bounds>>

-----------------------------------------------------------------------------
(* _ab_replan_after_queue_mutation *)

\* Mutant: what cannot be planned now is left to somebody else.
DeferNever(t) == Idle

\* _ab_schedule_deferred_replan
Defer(t) == [Idle EXCEPT !.at = "deferred"]

Fails(f) ==
  /\ f \in Fault /\ bounds.faults < MaxFaults
  /\ bounds' = [bounds EXCEPT !.faults = @ + 1]

\* The timer runs outside station_runtime_context: it replans the station selected
\* in the page, which need not be this one.
DeferredIsLost(t) ==
  /\ replan[t].at = "deferred" /\ Fails("away")
  /\ Done(t)
  /\ UNCHANGED <<queue, version, planned, player, native, timers>>

\* During a cross-fade, an armed hand-off or a seek no deck may be reused.
Busy == native.moving \/ player.frozen

\* After an edit (_sync_reload_and_rebootstrap_after_queue_mutation) or by the
\* timer, once no manual hand-off guards the plan: every replan under way is
\* stale from here on.  A read of the daemon's state that fails looks like a
\* station that is off the air.
Begin(t) ==
  /\ \/ replan[t].at = "reload"
     \/ replan[t].at = "deferred" /\ ~player.guard
  /\ \/ /\ NewSerial(t, IF player.guard \/ Busy THEN Defer(t) ELSE [Idle EXCEPT !.at = "plan"])
        /\ UNCHANGED bounds
     \/ ~player.guard /\ NewSerial(t, Idle) /\ Fails("blind")
  /\ UNCHANGED <<queue, version, planned, player, native, timers>>

\* _build_station_queue_plan
ReadPlan(t) ==
  /\ replan[t].at = "plan"
  /\ replan' = [replan EXCEPT ![t].at = "resolve", ![t].fresh = queue, ![t].version = version]
  /\ UNCHANGED <<queue, version, planned, player, native, timers, bounds>>

\* The deck that is heard, the row that follows it, and whether the other deck
\* already holds that row.
Resolve(t) ==
  LET d == native.active
      row == FirstOf(Without(replan[t].fresh, native.on[d]))
  IN /\ replan[t].at = "resolve"
     /\ replan' = [replan EXCEPT ![t].at = "apply", ![t].active = d, ![t].cur = native.on[d],
                                 ![t].row = row, ![t].fresh = <<>>,
                                 ![t].keep = /\ row # None /\ native.on[Other(d)] = row
                                             /\ native.phase[Other(d)] # "terminal"]
     /\ UNCHANGED <<queue, version, planned, player, native, timers, bounds>>

\* Mutant: a replan never notices that it is stale.
StaleNever(t) == FALSE

\* _ab_abort_stale_replan_if_needed, before the plan, the load and the index.
Stale(t) == replan[t].stale
Abort(t) ==
  /\ replan[t].at = "apply" /\ Stale(t)
  /\ Done(t)
  /\ UNCHANGED <<queue, version, planned, player, native, timers, bounds>>

\* The plan of a new generation; a deck that holds the next row is kept.
Apply(t) ==
  /\ replan[t].at = "apply" /\ ~Stale(t)
  /\ player' = [player EXCEPT !.active = replan[t].active, !.cur = replan[t].cur,
                              !.next = replan[t].row, !.index = replan[t].keep,
                              !.key = IF replan[t].keep THEN replan[t].row ELSE None]
  /\ planned' = replan[t].version
  /\ replan' = [u \in Thread |->
                 CASE u # t -> [replan[u] EXCEPT !.now = FALSE]
                   [] u = t /\ (replan[t].row = None \/ replan[t].keep) -> Idle
                   [] OTHER -> [Idle EXCEPT !.at = "load", !.now = TRUE, !.row = replan[t].row,
                                            !.active = replan[t].active]]
  /\ timers' = Older
  /\ UNCHANGED <<queue, version, native, bounds>>

\* Mutant: the load does not ask the daemon to refuse the deck that is heard.
RefusedNever(d) == FALSE

\* reject_if_active_deck, reject_if_playback_started; a deck still heard in a
\* cross-fade is busy.
Refused(d) == d = native.active \/ native.phase[d] = "playing"

\* _ab_push, as far as the daemon.
Holds(d, r) == native' = [native EXCEPT !.on[d] = r, !.phase[d] = "ready"]

\* A row that cannot be loaded is tried again by a timer.
Preload(t) ==
  timers' = timers \cup {[now |-> TRUE, active |-> replan[t].active, cur |-> player.cur,
                          row |-> replan[t].row]}

\* The generation in the descriptor is read between the plan and the load.
Load(t) ==
  /\ replan[t].at = "load"
  /\ \/ /\ ~Refused(Other(replan[t].active))
        /\ Holds(Other(replan[t].active), replan[t].row)
        /\ \E now \in {TRUE, replan[t].now} :
             replan' = [replan EXCEPT ![t].at = "record", ![t].now = now]
        /\ UNCHANGED timers
     \/ /\ Refused(Other(replan[t].active))
        /\ IF Stale(t) THEN UNCHANGED timers ELSE Preload(t)
        /\ Done(t)
        /\ UNCHANGED native
  /\ UNCHANGED <<queue, version, planned, player, bounds>>

\* _ab_record_player_loaded_identity, not when the generation changed meanwhile;
\* and the indexes of both decks, not when the replan became stale.  The decks may
\* have changed places since.
Record(t) ==
  /\ replan[t].at = "record"
  /\ LET same == replan[t].active = player.active
     IN player' = [player EXCEPT !.key = IF same /\ replan[t].now THEN replan[t].row ELSE @,
                                 !.index = IF Stale(t) THEN @ ELSE same]
  /\ Done(t)
  /\ UNCHANGED <<queue, version, planned, native, timers, bounds>>

Replan(t) ==
  \/ DeferredIsLost(t) \/ Begin(t) \/ ReadPlan(t) \/ Resolve(t)
  \/ Abort(t) \/ Apply(t) \/ Load(t) \/ Record(t)

-----------------------------------------------------------------------------
(* The timer that loads a recycled deck *)

Gone(p) == timers' = timers \ {p}
OtherRow(p) == p.row # FirstOf(queue) /\ queue # <<>>
Loaded(p) == player.index /\ player.key = p.row
Dropped(p) == p.active # player.active \/ p.cur # player.cur \/ p.row # player.next

\* The plan, or the queue, it was made for is gone: replan, once no hand-off
\* guards the plan.
PreloadStale(p, t) ==
  /\ p \in timers
  /\ \/ ~p.now /\ ~player.guard
     \/ p.now /\ ~Dropped(p) /\ OtherRow(p)
  /\ NextIdle(t)
  /\ At(t, "deferred") /\ Gone(p)
  /\ UNCHANGED <<queue, version, planned, player, native, bounds>>

\* It ends: another plan is on, the deck is loaded already or became the one that
\* is heard, the daemon does not answer, or the timer looked at another station.
PreloadEnds(p) ==
  /\ p \in timers /\ Gone(p)
  /\ \/ /\ p.now /\ (Dropped(p) \/ Loaded(p) \/ Other(p.active) = native.active)
        /\ UNCHANGED bounds
     \/ \E f \in Fault : Fails(f)
  /\ UNCHANGED <<queue, version, planned, player, native, replan>>

\* A busy deck is tried again.
PreloadLoads(p) ==
  /\ p \in timers /\ Gone(p)
  /\ p.now /\ ~Dropped(p) /\ ~OtherRow(p) /\ ~Loaded(p)
  /\ ~Refused(Other(p.active))
  /\ Holds(Other(p.active), p.row)
  /\ player' = [player EXCEPT !.key = p.row, !.index = TRUE]
  /\ UNCHANGED <<queue, version, planned, replan, bounds>>

-----------------------------------------------------------------------------
(* The daemon, the events it sends, and the manual hand-off *)

\* At the cue-out, or by a manual hand-off, the other deck becomes the active one.
Moves(skip) ==
  /\ native.phase[Other(native.active)] = "ready" /\ ~native.moving /\ native.started = None
  /\ native' = [native EXCEPT !.active = Other(@), !.phase[Other(native.active)] = "playing",
                              !.moving = ~skip, !.started = native.on[Other(native.active)],
                              !.phase[native.active] = IF skip THEN "terminal" ELSE @]

CrossFade ==
  /\ Moves(FALSE)
  /\ UNCHANGED <<queue, version, planned, player, replan, timers, bounds>>

MayMove == bounds.moves < MaxMoves /\ bounds' = [bounds EXCEPT !.moves = @ + 1]
ManualHandOff ==
  /\ MayMove /\ Moves(TRUE)
  /\ player' = [player EXCEPT !.guard = TRUE, !.active = Other(native.active),
                              !.cur = native.on[Other(native.active)]]
  /\ replan' = [t \in Thread |-> [replan[t] EXCEPT !.now = FALSE]] /\ timers' = Older
  /\ UNCHANGED <<queue, version, planned>>
GuardPasses ==
  /\ player.guard /\ player' = [player EXCEPT !.guard = FALSE]
  /\ UNCHANGED <<queue, version, planned, native, replan, timers, bounds>>

\* A seek is pending, or a hard hand-off is armed, until it is done or its
\* deadline passes.
Seek ==
  /\ MayMove /\ ~player.frozen /\ player' = [player EXCEPT !.frozen = TRUE]
  /\ UNCHANGED <<queue, version, planned, native, replan, timers>>
SeekEnds ==
  /\ player.frozen /\ player' = [player EXCEPT !.frozen = FALSE]
  /\ UNCHANGED <<queue, version, planned, native, replan, timers, bounds>>

Finished ==
  /\ native.moving
  /\ native' = [native EXCEPT !.moving = FALSE, !.phase[Other(native.active)] = "terminal"]
  /\ UNCHANGED <<queue, version, planned, player, replan, timers, bounds>>

\* track_started: the row is committed and the plan rebuilt around it.
TrackStarted ==
  LET row == FirstOf(Without(queue, native.started))
      held == row # None /\ native.on[Other(native.active)] = row
  IN /\ native.started # None
     /\ queue' = Without(queue, native.started)
     /\ native' = [native EXCEPT !.started = None]
     /\ player' = [player EXCEPT !.active = native.active, !.cur = native.on[native.active], !.next = row,
                                 !.index = held, !.key = IF held THEN row ELSE None, !.frozen = FALSE]
     /\ planned' = version
     /\ UNCHANGED <<version, replan, timers, bounds>>

\* need_next: the daemon asks for a row while the other deck holds nothing live.
NeedNext ==
  LET row == IF player.cur = native.on[native.active] /\ player.next # None THEN player.next
             ELSE FirstOf(Without(queue, native.on[native.active]))
  IN /\ native.phase[Other(native.active)] = "terminal" /\ ~native.moving /\ row # None
     /\ native.on[Other(native.active)] # row
     /\ native' = [native EXCEPT !.on[Other(native.active)] = row, !.phase[Other(native.active)] = "ready"]
     /\ player' = IF player.active = native.active
                  THEN [player EXCEPT !.key = row, !.next = row, !.index = TRUE]
                  ELSE [player EXCEPT !.next = row]
     /\ UNCHANGED <<queue, version, planned, replan, timers, bounds>>

Next ==
  \/ \E t \in Thread : Edit(t) \/ Replan(t)
  \/ \E p \in timers : PreloadEnds(p) \/ PreloadLoads(p) \/ \E t \in Thread : PreloadStale(p, t)
  \/ CrossFade \/ ManualHandOff \/ GuardPasses \/ Seek \/ SeekEnds \/ Finished \/ TrackStarted \/ NeedNext

Spec == Init /\ [][Next]_vars

\* Threads and timers run; a cross-fade, a seek and the guard of a hand-off end.
FairSpec ==
  /\ Spec
  /\ \A t \in Thread : WF_vars(Replan(t))
  /\ WF_vars(Finished) /\ WF_vars(GuardPasses) /\ WF_vars(SeekEnds)

-----------------------------------------------------------------------------
Place == Replanning \cup {"none", "reload", "deferred"}

\* Shapes, and a row is never queued twice.
TypeOK ==
  /\ queue \in Seq(Row) /\ IsInjective(queue)
  /\ version \in 0..MaxEdits /\ planned \in 0..version
  /\ bounds \in [moves : 0..MaxMoves, faults : 0..MaxFaults]
  /\ player \in [active : Deck, cur : Row, next : Row \cup {None}, index : BOOLEAN,
                 key : Row \cup {None}, guard : BOOLEAN, frozen : BOOLEAN]
  /\ native \in [active : Deck, on : [Deck -> Row], phase : [Deck -> {"ready", "playing", "terminal"}],
                 moving : BOOLEAN, started : Row \cup {None}]
  /\ replan \in [Thread -> [at : Place, stale : BOOLEAN, version : 0..MaxEdits, fresh : Seq(Row), active : Deck,
                            cur : Row \cup {None}, row : Row \cup {None}, keep : BOOLEAN, now : BOOLEAN]]
  /\ timers \subseteq [now : BOOLEAN, active : Deck, cur : Row, row : Row]

\* While the plan in force is older than the queue, a thread is on its way that
\* will plan the queue as it is: a replan that was overtaken must not put its older
\* plan over a newer one, and one that must wait must not be forgotten.
PlanIsComing ==
  \/ planned = version \/ bounds.faults > 0
  \/ \E t \in Thread :
       \/ replan[t].at \in {"reload", "deferred", "plan"}
       \/ replan[t].at \in {"resolve", "apply"} /\ ~replan[t].stale /\ replan[t].version = version

\* Shapes, and the plan never stays behind the queue.
ReplanInv == TypeOK /\ PlanIsComing

\* Whatever replans, timers and need_next load, and however late, the deck that
\* is heard keeps its row (_ab_replan_after_queue_mutation: "must not stop, seek,
\* reload, or replace the active/on-air deck").
ActiveUntouched == [][\A d \in Deck : native.phase[d] = "playing" => native'.on[d] = native.on[d]]_vars

\* Every edit of the queue reaches a plan, through stale replans, the guard of a
\* manual hand-off, cross-fades and seeks; unless a fault loses the replan.
EditReachesPlan ==
  \A v \in 1..MaxEdits : version = v ~> (planned >= v \/ bounds.faults > 0)
=============================================================================
