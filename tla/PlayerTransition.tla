-------------------------- MODULE PlayerTransition --------------------------
(* The application's view of the two decks (_AB_PLAYER_STATE) while transitions  *)
(* happen: manual next and script interrupts, the seek handler, the monitor loop,*)
(* the reader of the daemon's events and the worker that rebuilds the plan after *)
(* a start all write it, each with what it read from the daemon before.          *)
(* The daemon decides; its events and its answers come through one socket, in    *)
(* the order they were sent.  A step ends at a call that waits.                  *)
EXTENDS Naturals, Sequences

CONSTANTS Rows,    \* queue rows of a behaviour: 1 is heard at first, 2 is ready
          Fault,   \* "blind": the monitor's read of the daemon fails; "lost": an answer; "load": a load
          MaxOps   \* manual hand-offs, script interrupts, seeks and faults together

ASSUME TransitionAssumption ==
  /\ Rows \in Nat /\ Rows >= 2 /\ MaxOps \in Nat
  /\ Fault \subseteq {"blind", "lost", "load"}

Row == 1..Rows
None == 0
Deck == {"a", "b"}
Other(d) == IF d = "a" THEN "b" ELSE "a"
Thread == {"next", "monitor", "seek", "worker"}

VARIABLES native, \* the daemon: active deck, row of each deck, whether the other one is ready to start, last row loaded, transition, due hand-off, transition whose end is not sent yet, seek; whether a seek or a completion misled it
          socket, \* events and answers on their way
          jobs,   \* track_started events queued for the lifecycle worker
          player, \* _AB_PLAYER_STATE
          thread, \* where each thread is and what it read
          ops,    \* manual hand-offs, script interrupts, seeks and faults so far
          blind,  \* whether the monitor was blind
          writer  \* who wrote the active deck or the plan last: "event", "select", or "stray", a thread the daemon had outrun

vars == <<native, socket, jobs, player, thread, ops, blind, writer>>

Idle == [at |-> "none", deck |-> "a", row |-> None, flag |-> FALSE, how |-> "none", old |-> FALSE]

Init ==
  /\ native = [active |-> "a", row |-> [d \in Deck |-> IF d = "a" THEN 1 ELSE 2], ready |-> TRUE,
               last |-> 2, moving |-> FALSE, due |-> "none", ended |-> None, over |-> "a", seeking |-> None, astray |-> FALSE]
  /\ player = [active |-> "a", row |-> [d \in Deck |-> IF d = "a" THEN 1 ELSE 2], moving |-> FALSE,
               starting |-> FALSE, seek |-> None, seekDeck |-> "a", late |-> FALSE, armed |-> "no"]
  /\ socket = <<>> /\ jobs = <<>> /\ writer = "event"
  /\ thread = [t \in Thread |-> Idle]
  /\ ops = 0 /\ blind = FALSE

Event(kind, d, r) == [kind |-> kind, deck |-> d, row |-> r]
Answer(t) == [kind |-> "answer", deck |-> t, row |-> None]

\* Thread t goes on at a.
Goes(t, a) == thread' = [thread EXCEPT ![t].at = a]
Ends(t) == thread' = [thread EXCEPT ![t] = Idle]
Op == ops < MaxOps /\ ops' = ops + 1
Fails(f) == f \in Fault /\ Op /\ blind' = (blind \/ f = "blind")

\* What a thread read is old once the daemon moved.
Outrun(ts) ==
  [t \in Thread |-> [thread[t] EXCEPT !.old = @ \/ (t \in ts /\ thread[t].how \notin {"none", "forget"})]]

\* Thread t writes the active deck or the plan, if it does, by what it read.
Wrote(t, does, how) ==
  writer' = IF does /\ thread[t].old THEN "stray"
            ELSE IF how = "select" /\ writer # "stray" THEN "select" ELSE writer

\* A select is the last word until the daemon moves on.
Superseded == writer' = IF writer = "select" THEN "event" ELSE writer

\* A plan of a new generation.
Replaced == thread["monitor"].at # "none"

-----------------------------------------------------------------------------
(* The daemon                                                                   *)

\* Its active deck becomes d.
Moved(d, moving) ==
  native' = [native EXCEPT !.active = d, !.moving = moving, !.ready = FALSE, !.due = "none", !.seeking = None,
                           !.astray = FALSE]

\* At the cue-out, or when an armed hand-off or a script interrupt is due.
Starts ==
  LET d == Other(native.active) IN
  /\ native.ready /\ ~native.moving
  /\ Moved(d, native.due # "hard")
  /\ socket' = Append(socket, Event("started", d, native.row[d]))
  /\ thread' = Outrun(Thread) /\ Superseded
  /\ UNCHANGED <<jobs, player, ops, blind>>

\* The end of a cross-fade, and the event of it: a select may come in between.
Finishes ==
  /\ native.moving /\ native.ended = None
  /\ native' = [native EXCEPT !.moving = FALSE, !.ended = native.row[native.active], !.over = native.active]
  /\ UNCHANGED <<socket, jobs, player, thread, ops, blind, writer>>
Finished ==
  /\ native.ended # None
  /\ native' = [native EXCEPT !.ended = None, !.over = "a"]
  /\ socket' = Append(socket, Event("finished", native.over, native.ended))
  /\ UNCHANGED <<jobs, player, thread, ops, blind, writer>>

\* A row for the deck that is not heard, by need_next, which comes behind the start
\* through the same socket and the same worker.
NewRow == native.last + 1
Loaded(d) == native' = [native EXCEPT !.row[d] = NewRow, !.ready = TRUE, !.last = NewRow]
CanLoad == ~native.moving /\ ~native.ready /\ NewRow \in Row
NeedNext ==
  LET d == Other(native.active) IN
  /\ CanLoad /\ socket = <<>> /\ jobs = <<>> /\ thread["next"].at = "none" /\ Loaded(d)
  /\ player' = [player EXCEPT !.row[d] = NewRow]
  /\ UNCHANGED <<socket, jobs, thread, ops, blind, writer>>

\* The decoder delivers the first samples of a seek.
SeekDone ==
  /\ native.seeking # None
  /\ native' = [native EXCEPT !.seeking = None]
  /\ socket' = Append(socket, Event("applied", native.active, native.seeking))
  /\ UNCHANGED <<jobs, player, thread, ops, blind, writer>>

-----------------------------------------------------------------------------
(* Events                                                                       *)

\* Python's view of a transition is over; d is heard.
Cleared(d) == [player EXCEPT !.active = d, !.moving = FALSE, !.starting = FALSE]

\* Mutant: a completion is believed whatever it names.
OwnAny(e) == TRUE

\* A late completion of an older transition names neither the active deck nor the
\* row planned on its deck.
Own(e) == player.active = e.deck \/ player.row[e.deck] = e.row

\* _ab_reconcile_native_transition_finished
TransitionFinished(e) == player' = IF Own(e) THEN Cleared(e.deck) ELSE player

\* _ab_seek_event_identity_matches
SeekMatches(e) == player.seek = e.row /\ player.seekDeck = e.deck

\* _ab_mark_native_seek_pending
Pending(e) ==
  IF SeekMatches(e) \/ (player.seek = None /\ player.row[e.deck] = e.row)
  THEN [player EXCEPT !.seek = e.row, !.seekDeck = e.deck, !.late = FALSE,
                      !.moving = FALSE, !.starting = FALSE]
  ELSE player

\* _ab_mark_native_seek_applied
SeekApplied(e) ==
  player' = IF player.seek # None /\ SeekMatches(e)
            THEN [player EXCEPT !.active = e.deck, !.seek = None, !.late = FALSE, !.seekDeck = "a"]
            ELSE player

\* The reader, one message at a time.
Handle ==
  LET e == Head(socket) IN
  /\ socket # <<>> /\ socket' = Tail(socket)
  /\ \/ e.kind = "started" /\ jobs' = Append(jobs, e) /\ UNCHANGED <<player, thread>>
     \/ e.kind = "finished" /\ TransitionFinished(e) /\ UNCHANGED <<jobs, thread>>
     \/ e.kind = "applied" /\ SeekApplied(e) /\ UNCHANGED <<jobs, thread>>
     \/ /\ e.kind = "answer" /\ UNCHANGED <<jobs, player>>
        /\ thread' = [thread EXCEPT ![e.deck].at = "publish"]
  /\ UNCHANGED <<native, ops, blind, writer>>

\* The worker reads the daemon's state, then rebuilds the plan around the track
\* that started, if it is still the one that is heard.
Reads(t, d, r, flag, how) ==
  /\ thread[t].at = "none"
  /\ thread' = [thread EXCEPT ![t] = [Idle EXCEPT !.at = "read", !.deck = d, !.row = r, !.flag = flag, !.how = how]]

Current(e) == native.active = e.deck /\ native.row[e.deck] = e.row
WorkerReads ==
  /\ jobs # <<>>
  /\ LET e == Head(jobs) IN
       \/ /\ Current(e) /\ UNCHANGED jobs
          /\ Reads("worker", "a", IF native.ready THEN native.row[Other(e.deck)] ELSE None, native.moving, "none")
       \/ ~Current(e) /\ thread["worker"].at = "none" /\ jobs' = Tail(jobs) /\ UNCHANGED thread
  /\ UNCHANGED <<native, socket, player, ops, blind, writer>>

\* Mutant: the rebuild leaves Python's active deck as it is.
RebuiltAround(e, other, moving) ==
  [player EXCEPT !.row = [d \in Deck |-> IF d = e.deck THEN e.row ELSE other],
                 !.moving = moving, !.starting = FALSE, !.seek = None, !.late = FALSE,
                 !.seekDeck = "a", !.armed = "no"]

\* _native_rebuild_plan_after_track_started
Rebuilt(e, other, moving) ==
  [player EXCEPT !.active = e.deck, !.row = [d \in Deck |-> IF d = e.deck THEN e.row ELSE other],
                 !.moving = moving, !.starting = FALSE, !.seek = None, !.late = FALSE,
                 !.seekDeck = "a", !.armed = "no"]

Rebuild ==
  /\ thread["worker"].at = "read"
  /\ player' = Rebuilt(Head(jobs), thread["worker"].row, thread["worker"].flag)
  /\ jobs' = Tail(jobs) /\ writer' = IF native.astray /\ writer = "stray" THEN writer ELSE "event"
  /\ thread' = [Outrun({"next"}) EXCEPT !["worker"] = Idle]
  /\ UNCHANGED <<native, socket, ops, blind>>

-----------------------------------------------------------------------------
(* A start: _ab_start_cueout_transition_now, for a manual next, a script         *)
(* interrupt or the monitor                                                      *)

\* Manual next reads which deck is heard and whether a cross-fade runs.
ManualNext(how) ==
  /\ thread["next"].at = "none" /\ Op /\ UNCHANGED blind
  /\ Reads("next", native.active, native.row[native.active], native.moving, how)
  /\ UNCHANGED <<native, socket, jobs, player, writer>>

\* _ab_reconcile_stale_transition_before_manual_next
Reconciled(p, moving, d) == IF p.moving /\ ~moving THEN Cleared(d) ELSE p

Reconcile ==
  /\ thread["next"].at = "read"
  /\ player' = Reconciled(player, thread["next"].flag, thread["next"].deck)
  /\ Wrote("next", player' # player, "event")
  /\ Goes("next", "reserve")
  /\ UNCHANGED <<native, socket, jobs, ops, blind>>

\* Whether p lets a start from deck d claim the transition.
Claimable(p, d) == ~p.moving /\ ~p.starting /\ p.active = d

\* reserve_plan writes the plan of this hand-off over whatever was claimed; the
\* claim follows at once.
Reserve ==
  LET d == thread["next"].deck
      head == IF native.ready THEN native.row[Other(d)] ELSE NewRow
      p == [player EXCEPT !.row = [x \in Deck |-> IF x = d THEN thread["next"].row ELSE head],
                          !.starting = FALSE]
      skips == thread["next"].how = "interrupt" /\ (player.armed # "no" \/ player.seek # None)
  IN /\ thread["next"].at = "reserve" /\ head \in Row
     /\ IF ~skips /\ Claimable(p, d)
        THEN /\ player' = [p EXCEPT !.starting = TRUE]
             /\ thread' = [thread EXCEPT !["next"] = [@ EXCEPT !.at = "prepare", !.row = None, !.flag = FALSE],
                                         !["monitor"].flag = Replaced]
        ELSE player' = p /\ thread' = [thread EXCEPT !["next"] = Idle, !["monitor"].flag = Replaced]
     /\ Wrote("next", TRUE, "plan")
     /\ UNCHANGED <<native, socket, jobs, ops, blind>>

\* Mutant: a start that gives up keeps its claim.
GivenUpClaimed == player

GivenUp == [player EXCEPT !.starting = FALSE]

\* The target deck is loaded unless it is ready; a load may fail.
Prepare(t) ==
  LET d == Other(thread[t].deck) IN
  /\ thread[t].at = "prepare"
  /\ \/ native.ready /\ Goes(t, "command") /\ UNCHANGED <<native, player, ops, blind>>
     \/ /\ CanLoad /\ d # native.active /\ Loaded(d)
        /\ player' = [player EXCEPT !.row[d] = NewRow]
        /\ Goes(t, "command") /\ UNCHANGED <<ops, blind>>
     \/ /\ ~native.ready /\ (Fails("load") \/ (~(CanLoad /\ d # native.active) /\ UNCHANGED <<ops, blind>>))
        /\ player' = GivenUp /\ Ends(t) /\ UNCHANGED native
  /\ UNCHANGED <<socket, jobs, writer>>

\* The daemon starts row of the other deck now; an interrupt starts it when the
\* outgoing track is low enough.
Starting(t, how) ==
  LET d == Other(native.active) IN
  \/ /\ how \in {"select", "fade"}
     /\ Moved(d, how = "fade")
     /\ socket' = socket \o <<Event("started", d, native.row[d]), Answer(t)>>
     /\ thread' = [Outrun(Thread \ {t}) EXCEPT ![t].at = "called"] /\ Superseded
  \/ /\ how \in {"interrupt", "hand"}
     /\ native' = [native EXCEPT !.due = IF how = "hand" THEN "hard" ELSE "interrupt"]
     /\ socket' = Append(socket, Answer(t)) /\ Goes(t, "called") /\ UNCHANGED writer

\* What the daemon accepts: a target that is ready, and no second transition.
Accepted(d, how) == native.active = d /\ native.ready /\ (how = "select" \/ ~native.moving)

\* The command, unless the plan moved on.
Command(t) ==
  LET d == thread[t].deck
      current == ~player.moving /\ player.active = d
  IN /\ thread[t].at = "command"
     /\ \/ current /\ Accepted(d, thread[t].how) /\ Starting(t, thread[t].how) /\ UNCHANGED player
        \/ /\ ~(current /\ Accepted(d, thread[t].how))
           /\ player' = GivenUp /\ Ends(t) /\ UNCHANGED <<native, socket, writer>>
     /\ UNCHANGED <<jobs, ops, blind>>

\* What a successful start writes: the target is active at once, but for an
\* interrupt, whose outgoing track is still heard.
Started(t) ==
  LET d == thread[t].deck IN
  CASE thread[t].how = "select" ->
         [player EXCEPT !.active = Other(d), !.moving = FALSE, !.starting = FALSE,
                        !.row[d] = IF t = "next" THEN None ELSE @]
    [] thread[t].how = "fade" -> [player EXCEPT !.active = Other(d), !.moving = TRUE, !.starting = FALSE]
    [] OTHER -> [player EXCEPT !.active = d, !.moving = TRUE, !.starting = FALSE]

\* Or the answer does not come, whatever the daemon did.
Publish(t) ==
  /\ thread[t].at = "publish" /\ thread[t].how \in {"select", "interrupt"}
  /\ \/ player' = Started(t) /\ Wrote(t, TRUE, IF t = "next" THEN thread[t].how ELSE "event") /\ UNCHANGED <<ops, blind>>
     \/ player' = GivenUp /\ Fails("lost") /\ UNCHANGED writer
  /\ Ends(t)
  /\ UNCHANGED <<native, socket, jobs>>

Start(t) == Prepare(t) \/ Command(t) \/ Publish(t)

-----------------------------------------------------------------------------
(* The monitor, _ab_monitor_loop                                                *)

\* A pending seek of another track, or past its deadline.
Expired == player.seekDeck # player.active \/ player.row[player.active] # player.seek \/ player.late

\* It forgets such a seek, whatever it read of the daemon.
Forgets ==
  \/ /\ player.seek # None /\ Expired
     /\ Reads("monitor", "a", None, FALSE, "forget")
     /\ UNCHANGED player
  \/ /\ thread["monitor"].at = "read"
     /\ player' = [player EXCEPT !.seek = None, !.late = FALSE, !.seekDeck = "a"]
     /\ Ends("monitor")

\* A daemon that answers owns the timing.  One that does not leaves it to the
\* application's clock, here any time, and to what it knew before the read.
Blind(how) ==
  /\ thread["monitor"].at = "none" /\ Fails("blind")
  /\ player.seek = None
  /\ IF player.moving THEN how = "end" ELSE ~player.starting /\ how \in {"select", "fade", "hand"}
  /\ thread' = [thread EXCEPT !["monitor"] = [Idle EXCEPT !.at = "blind", !.deck = player.active, !.how = how]]
  /\ UNCHANGED <<native, socket, jobs, player, writer>>

\* At the end of a track without cross-fade: the start above.
BlindSelect ==
  /\ thread["monitor"].how = "select"
  /\ IF player.seek = None /\ Claimable(player, thread["monitor"].deck)
     THEN player' = [player EXCEPT !.starting = TRUE, !.armed = "no"] /\ Goes("monitor", "prepare")
     ELSE player' = [player EXCEPT !.armed = "no"] /\ Ends("monitor")
  /\ UNCHANGED <<native, socket, writer>>

\* At the cue-out: a claim and a fade of its own, and a refused fade keeps the claim.
BlindFade ==
  LET d == thread["monitor"].deck IN
  /\ thread["monitor"].how = "fade"
  /\ IF player.moving \/ player.starting
     THEN Ends("monitor") /\ player' = [player EXCEPT !.armed = "no"] /\ UNCHANGED <<native, socket, writer>>
     ELSE /\ player' = [player EXCEPT !.starting = TRUE, !.armed = "no"]
          /\ \/ Accepted(d, "fade") /\ Starting("monitor", "fade")
             \/ ~Accepted(d, "fade") /\ Ends("monitor") /\ UNCHANGED <<native, socket, writer>>

\* _ab_arm_native_hard_handoff, shortly before such an end.
BlindArm ==
  LET d == thread["monitor"].deck IN
  /\ thread["monitor"].how = "hand"
  /\ IF Claimable(player, d) /\ Accepted(d, "hand")
     THEN Starting("monitor", "hand") ELSE Ends("monitor") /\ UNCHANGED <<native, socket, writer>>
  /\ player' = [player EXCEPT !.armed = "no"]

\* The end of a fade, told to the daemon as well.
BlindEnd ==
  /\ thread["monitor"].how = "end"
  /\ IF thread["monitor"].flag
     THEN Ends("monitor") /\ UNCHANGED <<native, socket, writer>>
     ELSE /\ native' = [native EXCEPT !.active = thread["monitor"].deck, !.moving = FALSE,
                                      !.ready = @ /\ native.active = thread["monitor"].deck,
                                      !.astray = @ \/ native.active # thread["monitor"].deck]
          /\ socket' = Append(socket, Answer("monitor"))
          /\ thread' = [Outrun(IF native'.active = native.active THEN {} ELSE Thread) EXCEPT !["monitor"].at = "called"]
          /\ IF native'.active = native.active THEN UNCHANGED writer ELSE Superseded
  /\ UNCHANGED player

Blinded ==
  /\ thread["monitor"].at = "blind"
  /\ BlindSelect \/ BlindFade \/ BlindArm \/ BlindEnd
  /\ UNCHANGED <<jobs, ops, blind>>

\* The hand-off the daemon accepted, unless the active deck is another by now.
Latched(d) == IF player.active = d THEN [player EXCEPT !.armed = d] ELSE player

\* Each writes what the daemon accepted; a fade not when the plan was replaced.
BlindPublish ==
  LET d == thread["monitor"].deck
      how == thread["monitor"].how
  IN /\ thread["monitor"].at = "publish" /\ how \in {"fade", "hand", "end"}
     /\ player' = CASE how = "hand" -> Latched(d)
                     [] how = "end" -> Cleared(d)
                     [] how = "fade" /\ thread["monitor"].flag -> player
                     [] OTHER -> Started("monitor")
     /\ Wrote("monitor", how # "hand", "event")
     /\ thread' = [Outrun({"next"}) EXCEPT !["monitor"] = Idle]
     /\ UNCHANGED <<native, socket, jobs, ops, blind>>

Monitor ==
  \/ Forgets /\ UNCHANGED <<native, socket, jobs, ops, blind, writer>>
  \/ Blinded \/ BlindPublish \/ Start("monitor")

-----------------------------------------------------------------------------
(* The seek handler, _perform_native_seek_request                               *)

Seek ==
  /\ thread["seek"].at = "none" /\ Op /\ UNCHANGED blind
  /\ Reads("seek", native.active, native.row[native.active], FALSE, "seek")
  /\ UNCHANGED <<native, socket, jobs, player, writer>>

\* The seek is pending before the daemon hears of it.  The daemon takes the deck
\* for the active one; only its decoder asks whether the row is still there.
SeekLatch ==
  LET d == thread["seek"].deck
      r == thread["seek"].row
      reached == [native EXCEPT !.active = d, !.row[d] = r, !.moving = FALSE, !.due = "none",
                                !.ready = @ /\ native.active = d, !.astray = @ \/ native.active # d \/ native.row[d] # r,
                                !.seeking = IF native.active = d /\ native.row[d] = r THEN r ELSE None]
  IN /\ thread["seek"].at = "read"
     /\ player' = [Cleared(d) EXCEPT !.seek = r, !.seekDeck = d, !.late = FALSE]
     /\ \/ /\ native' = reached /\ socket' = Append(socket, Answer("seek")) /\ UNCHANGED <<ops, blind>>
           /\ thread' = [Outrun(IF native.active = d THEN {} ELSE Thread \ {"seek"}) EXCEPT
                            !["seek"].at = "called", !["monitor"].flag = Replaced]
        \/ /\ Fails("lost") /\ UNCHANGED <<native, socket>>
           /\ thread' = [thread EXCEPT !["seek"] = Idle, !["monitor"].flag = Replaced]
     /\ Wrote("seek", TRUE, "event")
     /\ UNCHANGED jobs

\* The handler publishes the seek on the event bus, which marks it pending, and
\* writes the deck it read.
SeekPublish ==
  /\ thread["seek"].at = "publish"
  /\ player' = [Pending(thread["seek"]) EXCEPT !.active = thread["seek"].deck]
  /\ Wrote("seek", TRUE, "event")
  /\ Ends("seek")
  /\ UNCHANGED <<native, socket, jobs, ops, blind>>

\* Its deadline passes.
SeekLate ==
  /\ player.seek # None /\ ~player.late /\ player' = [player EXCEPT !.late = TRUE]
  /\ UNCHANGED <<native, socket, jobs, thread, ops, blind, writer>>

-----------------------------------------------------------------------------
Next ==
  \/ Starts \/ Finishes \/ Finished \/ NeedNext \/ SeekDone
  \/ Handle \/ WorkerReads \/ Rebuild
  \/ \E how \in {"select", "interrupt"} : ManualNext(how)
  \/ Reconcile \/ Reserve \/ Start("next")
  \/ Monitor \/ \E how \in {"select", "fade", "hand", "end"} : Blind(how)
  \/ Seek \/ SeekLatch \/ SeekPublish \/ SeekLate

Spec == Init /\ [][Next]_vars

\* Threads run, the reader reads, and ten seconds pass.
FairSpec ==
  /\ Spec
  /\ WF_vars(Handle) /\ WF_vars(Finished) /\ WF_vars(WorkerReads) /\ WF_vars(Rebuild)
  /\ WF_vars(Reconcile) /\ WF_vars(Reserve) /\ WF_vars(Start("next"))
  /\ WF_vars(Monitor) /\ WF_vars(SeekLatch) /\ WF_vars(SeekPublish) /\ WF_vars(SeekLate)

-----------------------------------------------------------------------------
Place == {"none", "read", "reserve", "prepare", "command", "blind", "called", "publish"}
How == {"none", "select", "interrupt", "fade", "hand", "end", "forget", "seek"}
Message ==
  [kind : {"started", "finished", "applied"}, deck : Deck, row : Row] \cup
  [kind : {"answer"}, deck : Thread, row : {None}]

\* Shapes, and a deadline is that of a pending seek.
TypeOK ==
  /\ native \in [active : Deck, row : [Deck -> Row], ready : BOOLEAN, last : Row, moving : BOOLEAN, over : Deck,
                  due : {"none", "hard", "interrupt"}, ended : Row \cup {None}, seeking : Row \cup {None},
                  astray : BOOLEAN]
  /\ socket \in Seq(Message) /\ jobs \in Seq(Message)
  /\ player \in [active : Deck, row : [Deck -> Row \cup {None}], moving : BOOLEAN, starting : BOOLEAN,
                  seek : Row \cup {None}, seekDeck : Deck, late : BOOLEAN, armed : Deck \cup {"no"}]
  /\ thread \in [Thread -> [at : Place, deck : Deck, row : Row \cup {None}, flag : BOOLEAN,
                            how : How, old : BOOLEAN]]
  /\ ops \in 0..MaxOps /\ blind \in BOOLEAN
  /\ writer \in {"event", "select", "stray"}
  /\ player.late => player.seek # None

\* Every event is handled and no thread is between a read and what it writes.
Quiet ==
  /\ socket = <<>> /\ jobs = <<>> /\ native.ended = None
  /\ \A t \in Thread : thread[t].at = "none"

\* Whatever order starts, completions, seeks and commands come in, Python and the
\* daemon agree on the active deck once all is handled; unless the last to write it
\* was a thread the daemon had outrun, or such a thread misled the daemon.
Agree == player.active = native.active \/ writer = "stray" \/ native.astray

\* And a latched hand-off is not one that happened already: nothing but the next
\* start would release it.
LatchIsCurrent == player.armed # "no" => (player.armed = native.active \/ writer = "stray")

\* The player's state has its shape always, and is true of the daemon once all is
\* quiet.
Settled == TypeOK /\ (Quiet => Agree /\ LatchIsCurrent)

\* "Ignore a delayed completion from an older transition after a newer hard select
\* has already made the opposite deck authoritative."
LateCompletionIgnored ==
  [][(/\ socket # <<>> /\ Head(socket).kind = "finished" /\ socket' = Tail(socket)
      /\ writer = "select" /\ player.active = native.active) => player'.active = native.active]_vars

\* What freezes every other start and replan is taken back: a pending seek, applied
\* or not, and a claim, whatever fails; but for the claim of the monitor's own fade.
FreezeEnds ==
  /\ player.seek # None ~> player.seek = None
  /\ player.starting ~> (~player.starting \/ blind)

\* "pre-latching prevents that applied event from being overwritten by a late
\* pending write": only the latch makes a seek pending.
LatchedFirst ==
  [][player.seek = None /\ player'.seek # None => thread["seek"].at = "read"]_vars
=============================================================================
