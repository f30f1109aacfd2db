------------------------------ MODULE Automation ------------------------------
(* What fills a station's queue by itself: scripts with a time, which interrupt  *)
(* what is heard; rules of the scheduler; AutoDJ, which refills the queue from a *)
(* rotation.  Each has its threads, and the page starts, stops and edits them    *)
(* meanwhile.  A step ends where a thread waits for a lock, the daemon, another  *)
(* thread, or a transaction of the database.                                     *)
EXTENDS Naturals, FiniteSets, SequencesExt

CONSTANTS Uses,       \* what a station may be configured with: sets of "scripts", "scheduler", "autodj"
          Due,        \* seconds at which the script and the rule are due
          LastSecond, \* of a behaviour
          Grace,      \* how late a script may still run (5 seconds)
          Replay,     \* how far back missed ticks are replayed (60 seconds)
          Late,       \* how late a rule may still fire (30 seconds)
          Zone,       \* by how much UTC, of which the page computes a rule's next run, is ahead of the clock
          Keep,       \* keep_queue
          Slots,      \* length of the rotation
          Fault,      \* "insert", "front", "raise", "locked", "enqueue"
          MaxOps      \* what the page and the listener do

ASSUME AutomationAssumption ==
  /\ Uses \subseteq SUBSET {"scripts", "scheduler", "autodj"}
  /\ LastSecond \in Nat /\ Due \subseteq 1..LastSecond
  /\ Grace \in Nat /\ Replay \in Nat \ {0} /\ Late \in Nat /\ Zone \in Nat
  /\ Keep \in Nat \ {0} /\ Slots \in Nat \ {0} /\ MaxOps \in Nat
  /\ Fault \subseteq {"insert", "front", "raise", "locked", "enqueue"}

None == 0
Second == 0..LastSecond
Filler == {"worker", "start"}

VARIABLES uses,   \* what this station is configured with
          now,    \* the clock
          air,    \* whether the station is on the air, and what is heard
          queue,  \* queue rows, each with who inserted it and for which occurrence or slot
          script, \* the script's status, whether its definition is cached, _SCRIPT_ENGINE_LAST_RUN; since when it is started
          engine, \* the station's script worker: pending, its tick, the latest deferred one, where it is, its occurrence
          rule,   \* the scheduler's rule: whether it is enabled and when it runs next
          sched,  \* the scheduler's thread: where it is, which occurrence it fires, whether it saw the station on the air
          dj,     \* AutoDJ: stored cursor and rotation, current rotation, lock, fillers, worker; the slot whose turn it is
          done,   \* occurrences the script inserted, those it skipped, those the rule fired
          ops

vars == <<uses, now, air, queue, script, engine, rule, sched, dj, done, ops>>
scriptVars == <<script, engine>>
ruleVars == <<rule, sched>>

NotFilling == [at |-> "none", need |-> 0, from |-> 0, rotation |-> 0]

Init ==
  /\ uses \in Uses
  /\ now = 0 /\ queue = <<>> /\ ops = 0
  /\ air = [on |-> TRUE, heard |-> "user"]
  /\ script = [status |-> "stopped", cached |-> FALSE, last |-> None, since |-> None]
  /\ engine = [pending |-> FALSE, tick |-> None, deferred |-> None, at |-> "none", key |-> None,
               run |-> 0, wasOn |-> TRUE, unstopped |-> FALSE, behind |-> FALSE]
  /\ rule = [on |-> FALSE, next |-> None]
  /\ sched = [at |-> "none", key |-> None, wasOn |-> TRUE]
  /\ dj = [cursor |-> 0, stored |-> 0, rotation |-> 0, lock |-> "free", fill |-> [f \in Filler |-> NotFilling],
           worker |-> IF "autodj" \in uses THEN "running" ELSE "none", turn |-> 0]
  /\ done = [script |-> {}, skipped |-> {}, rule |-> {}]

Op == ops < MaxOps /\ ops' = ops + 1
Fails(f) == f \in Fault /\ Op

\* _station_script_interrupt_block_reason: a rule's row or a stream is heard.
Protected == air.on /\ air.heard \in {"rule", "url"}

\* The rows of an occurrence have ids of their own: run tells a repeated one apart.
Row(who, key, run) == [by |-> who, key |-> key, run |-> run]
Without(row) == RemoveFirst(queue, row)
ToFront(row) == IF row \in ToSet(queue) THEN <<row>> \o Without(row) ELSE queue

-----------------------------------------------------------------------------
(* Scripts                                                                      *)

\* _script_due_run_datetime, for the tick t: the latest due second within grace.
DueAt(t) ==
  LET due == {d \in Due : d <= t /\ t - d <= Grace} IN IF due = {} THEN None ELSE Max(due)

\* Mutant: a tick that comes while the worker is busy is discarded.
DispatchedIfIdle(t) ==
  IF engine.pending THEN engine
  ELSE [engine EXCEPT !.pending = TRUE, !.tick = t, !.deferred = None, !.at = "tick"]

\* _script_engine_dispatch_station: such a tick is deferred, the latest is kept.
Dispatched(t) ==
  IF engine.pending THEN [engine EXCEPT !.deferred = t, !.behind = @ \/ t - engine.tick > Replay]
  ELSE [engine EXCEPT !.pending = TRUE, !.tick = t, !.deferred = None, !.at = "tick"]

Tick ==
  /\ uses \cap {"scripts", "scheduler"} # {} /\ now < LastSecond
  /\ now' = now + 1
  /\ engine' = IF "scripts" \in uses THEN Dispatched(now + 1) ELSE engine
  /\ UNCHANGED <<uses, air, queue, script, ruleVars, dj, done, ops>>

\* The worker replays the seconds it missed, one by one, or is idle again.
NextTick(e) ==
  IF e.deferred = None \/ e.deferred <= e.tick
  THEN [e EXCEPT !.pending = FALSE, !.deferred = None, !.at = "none", !.key = None, !.run = 0, !.unstopped = FALSE]
  ELSE [e EXCEPT !.tick = IF e.deferred + 1 > e.tick + 1 + Replay THEN e.deferred + 1 - Replay ELSE e.tick + 1,
                 !.at = "tick", !.key = None, !.run = 0, !.unstopped = FALSE]

\* Off the air, scripts stop at the first tick.
TickOffAir ==
  /\ engine.at = "tick" /\ ~air.on
  /\ script' = IF engine.wasOn THEN [script EXCEPT !.status = "stopped"] ELSE script
  /\ engine' = NextTick([engine EXCEPT !.wasOn = FALSE])
  /\ UNCHANGED <<uses, now, air, queue, ruleVars, dj, done, ops>>

\* On the air, the worker reads the script's status and its cached definition.
ReadScript ==
  /\ engine.at = "tick" /\ air.on
  /\ LET active == script.status = "waiting"
         e == [engine EXCEPT !.wasOn = TRUE]
     IN IF active /\ script.cached
        THEN engine' = [e EXCEPT !.at = "known", !.unstopped = script.since # None] /\ UNCHANGED script
        ELSE /\ engine' = NextTick(e)
             /\ script' = [script EXCEPT !.status = IF active THEN "error" ELSE "stopped", !.since = None]
  /\ UNCHANGED <<uses, now, air, queue, ruleVars, dj, done, ops>>

\* It writes the countdown, whatever the status is by now, and goes on when an
\* occurrence is due that it has not run.
Begin ==
  LET key == DueAt(engine.tick) IN
  /\ engine.at = "known"
  /\ script' = [script EXCEPT !.status = "waiting"]
  /\ engine' = IF key \in {None, script.last} THEN NextTick(engine)
               ELSE [engine EXCEPT !.at = "look", !.key = key, !.run = ops]
  /\ UNCHANGED <<uses, now, air, queue, ruleVars, dj, done, ops>>

Created == Row("script", engine.key, engine.run)

\* Mutant: an occurrence that failed is not consumed, and the script goes on.
EndsUnlessFailed(status) ==
  /\ script' = [script EXCEPT !.last = IF status = "error" THEN @ ELSE engine.key, !.status = "waiting"]
  /\ engine' = NextTick(engine)

\* However an occurrence ends, it is consumed; a script in error has stopped.
Ends(status) ==
  /\ script' = [script EXCEPT !.last = engine.key, !.status = status, !.since = IF status = "error" THEN None ELSE @]
  /\ engine' = NextTick(engine)

\* Mutant: rows that are in the queue stay.
SkipsOnly ==
  /\ Ends("waiting") /\ UNCHANGED queue
  /\ done' = [done EXCEPT !.skipped = @ \cup {Created}]

\* _mark_station_script_skip, after _cancel_scheduled_script_queue_items.
Skips ==
  /\ Ends("waiting") /\ queue' = Without(Created)
  /\ done' = [done EXCEPT !.skipped = @ \cup {Created}]

\* The four guards: before the rows, after them, and after the reorder.
Look ==
  /\ engine.at \in {"look", "inserted", "ahead"}
  /\ \/ Protected /\ Skips
     \/ /\ ~Protected /\ UNCHANGED <<script, queue, done>>
        /\ engine' = [engine EXCEPT !.at = CASE @ = "look" -> "insert" [] @ = "inserted" -> "front" [] OTHER -> "next"]
  /\ UNCHANGED <<uses, now, air, ruleVars, dj, ops>>

\* The rows of the occurrence, here one; a failure leaves none, and a missing file
\* is no error.
Insert ==
  /\ engine.at = "insert"
  /\ \/ /\ queue' = Append(queue, Created)
        /\ done' = [done EXCEPT !.script = @ \cup {engine.key}]
        /\ engine' = [engine EXCEPT !.at = "inserted"]
        /\ UNCHANGED <<script, ops>>
     \/ Fails("insert") /\ (\E status \in {"error", "waiting"} : Ends(status)) /\ UNCHANGED <<queue, done>>
  /\ UNCHANGED <<uses, now, air, ruleVars, dj>>

\* To the front, unless the script says end; files before the third guard.  When it
\* fails, rows of files are removed, those of a directory stay.
Reorder ==
  /\ engine.at \in {"inserted", "front"}
  /\ \/ /\ queue' \in {queue, ToFront(Created)}
        /\ engine' = [engine EXCEPT !.at = "ahead"]
        /\ UNCHANGED <<script, ops>>
     \/ /\ Fails("front") /\ Ends("error")
        /\ queue' = IF engine.at = "front" THEN queue ELSE Without(Created)
  /\ UNCHANGED <<uses, now, air, ruleVars, dj, done>>

\* The serialised manual next (module ManualNext): it succeeds, fails, in which
\* case the rows stay, or is skipped.  A script without next() has it succeed.
Interrupt ==
  /\ engine.at = "next"
  /\ \/ Ends("waiting") /\ UNCHANGED <<queue, done, ops>>
     \/ Fails("front") /\ Ends("error") /\ UNCHANGED <<queue, done>>
     \/ Protected /\ Skips /\ UNCHANGED ops
  /\ UNCHANGED <<uses, now, air, ruleVars, dj>>

\* Anything in an occurrence may raise; what it inserted stays.
Raise ==
  /\ engine.at \in {"insert", "inserted", "front", "ahead", "next"}
  /\ Fails("raise") /\ Ends("error")
  /\ UNCHANGED <<uses, now, air, queue, ruleVars, dj, done>>

Engine == TickOffAir \/ ReadScript \/ Begin \/ Look \/ Insert \/ Reorder \/ Interrupt \/ Raise

\* The page: an explicit start forgets which occurrence was run.
Started == [status |-> "waiting", cached |-> TRUE, last |-> None, since |-> now + 1]
StartScript ==
  /\ "scripts" \in uses /\ air.on /\ Op
  /\ script' = Started
  /\ done' = [done EXCEPT !.script = {}, !.skipped = {}]
  /\ UNCHANGED <<uses, now, air, queue, engine, ruleVars, dj>>

Stopped == [script EXCEPT !.status = "stopped", !.cached = FALSE, !.last = None, !.since = None]
StopScript ==
  /\ script.since # None /\ Op
  /\ script' = Stopped
  /\ done' = [done EXCEPT !.script = {}, !.skipped = {}]
  /\ UNCHANGED <<uses, now, air, queue, engine, ruleVars, dj>>

-----------------------------------------------------------------------------
(* The scheduler                                                                *)

\* compute_next_run_at, of a recurring rule
NextDue(t) == LET due == {d \in Due : d > t} IN IF due = {} THEN None ELSE Min(due)

\* _scheduler_normalize_overdue_rules_for_station: a run that is too late is not
\* caught up.
Overdue == rule.next # None /\ rule.next + Late < now

\* The thread polls each second: it normalises, then reads the rules that are due.
Poll ==
  /\ sched.at = "none" /\ "scheduler" \in uses /\ air.on
  /\ \/ rule.on /\ Overdue /\ rule' = [rule EXCEPT !.next = NextDue(now)] /\ sched' = [sched EXCEPT !.wasOn = TRUE]
     \/ /\ rule.on /\ ~Overdue /\ rule.next # None /\ rule.next <= now
        /\ sched' = [at |-> "insert", key |-> rule.next, wasOn |-> TRUE] /\ UNCHANGED rule
     \/ ~sched.wasOn /\ sched' = [sched EXCEPT !.wasOn = TRUE] /\ UNCHANGED rule
  /\ UNCHANGED <<uses, now, air, queue, scriptVars, dj, done, ops>>

\* The first poll off the air disables the rules, also one enabled meanwhile.
PollOffAir ==
  /\ sched.at = "none" /\ "scheduler" \in uses /\ ~air.on /\ sched.wasOn
  /\ sched' = [sched EXCEPT !.wasOn = FALSE]
  /\ rule' = IF rule.on THEN [on |-> FALSE, next |-> None] ELSE rule
  /\ UNCHANGED <<uses, now, air, queue, scriptVars, dj, done, ops>>

\* Its rows, to the front unless the priority is the end, and a manual next if it
\* is immediate.  A failure leaves no row, or leaves them at the end.
Fire ==
  /\ sched.at = "insert"
  /\ \/ /\ queue' \in {Append(queue, Row("rule", sched.key, 0)), <<Row("rule", sched.key, 0)>> \o queue}
        /\ UNCHANGED ops
     \/ Fails("insert") /\ UNCHANGED queue
  /\ sched' = [sched EXCEPT !.at = "update"]
  /\ UNCHANGED <<uses, now, air, scriptVars, rule, dj, done>>

\* _scheduler_update_after_run_for_station: enabled again, whatever the page did;
\* unless something raised, and then the rule is still due.
UpdateRule ==
  /\ sched.at = "update"
  /\ \/ /\ rule' = [on |-> NextDue(now) # None, next |-> NextDue(now)]
        /\ done' = [done EXCEPT !.rule = @ \cup {sched.key}] /\ UNCHANGED ops
     \/ Fails("locked") /\ UNCHANGED <<rule, done>>
  /\ sched' = [sched EXCEPT !.at = "none", !.key = None]
  /\ UNCHANGED <<uses, now, air, queue, scriptVars, dj>>

Scheduler == Poll \/ PollOffAir \/ Fire \/ UpdateRule

\* The page switches the rule on or off.
ToggleRule ==
  /\ "scheduler" \in uses /\ Op
  /\ rule' = IF rule.on THEN [on |-> FALSE, next |-> None] ELSE [on |-> TRUE, next |-> NextDue(now + Zone)]
  /\ UNCHANGED <<uses, now, air, queue, scriptVars, sched, dj, done>>

-----------------------------------------------------------------------------
(* AutoDJ                                                                       *)

\* Mutant: two fills may overlap.
UnlockedAlways == TRUE

Unlocked == dj.lock = "free"

\* fill_queue_once, under the station's lock: a first step counts the rows and
\* reads the cursor, which starts again with another rotation.
StartFill(f) ==
  /\ Unlocked /\ Len(queue) < Keep
  /\ dj' = [dj EXCEPT !.lock = f, !.stored = dj.rotation,
                      !.fill[f] = [at |-> "counted", need |-> Keep - Len(queue), rotation |-> dj.rotation,
                                   from |-> IF dj.stored = dj.rotation THEN dj.cursor ELSE 0]]
  /\ UNCHANGED <<uses, now, air, queue, scriptVars, ruleVars, done, ops>>

\* The worker fills while the station runs; a track that starts has one fill as well.
WorkerFills == dj.worker = "running" /\ air.on /\ dj.fill["worker"].at = "none" /\ StartFill("worker")
TrackFills == dj.fill["start"].at = "wanted" /\ StartFill("start")
TrackNeedsNone ==
  /\ dj.fill["start"].at = "wanted" /\ Unlocked /\ Len(queue) >= Keep
  /\ dj' = [dj EXCEPT !.fill["start"] = NotFilling]
  /\ UNCHANGED <<uses, now, air, queue, scriptVars, ruleVars, done, ops>>

\* It picks a track for each slot in turn, or finds none, and stores the cursor
\* before the rows are there.
Pick(f) ==
  LET n == dj.fill[f].from + dj.fill[f].need IN
  /\ dj.fill[f].at = "counted"
  /\ \/ dj' = [dj EXCEPT !.cursor = n % Slots, !.stored = dj.fill[f].rotation, !.fill[f].at = "picked",
                          !.turn = IF dj.fill[f].rotation = dj.rotation THEN n % Slots ELSE @]
        /\ UNCHANGED ops
     \/ /\ Fails("enqueue")
        /\ dj' = [dj EXCEPT !.cursor = n % Slots, !.stored = dj.fill[f].rotation, !.lock = "free",
                            !.turn = IF dj.fill[f].rotation = dj.rotation THEN n % Slots ELSE @,
                            !.fill[f] = NotFilling]
  /\ UNCHANGED <<uses, now, air, queue, scriptVars, ruleVars, done>>

\* The rows go to the end; should that fail, the slots are spent.
Slot(f, i) == (dj.fill[f].from + i - 1) % Slots
Enqueue(f) ==
  /\ dj.fill[f].at = "picked"
  /\ \/ queue' = queue \o [i \in 1..dj.fill[f].need |-> Row("autodj", Slot(f, i), 0)] /\ UNCHANGED ops
     \/ Fails("enqueue") /\ UNCHANGED queue
  /\ dj' = [dj EXCEPT !.lock = "free", !.fill[f] = NotFilling]
  /\ UNCHANGED <<uses, now, air, scriptVars, ruleVars, done>>

\* The worker leaves when it sees the station off the air; until its thread has
\* ended, no other is started.
Leave ==
  /\ dj.worker = "running" /\ ~air.on /\ dj.fill["worker"].at = "none"
  /\ dj' = [dj EXCEPT !.worker = "leaving"]
  /\ UNCHANGED <<uses, now, air, queue, scriptVars, ruleVars, done, ops>>
Gone ==
  /\ dj.worker = "leaving" /\ dj' = [dj EXCEPT !.worker = "none"]
  /\ UNCHANGED <<uses, now, air, queue, scriptVars, ruleVars, done, ops>>

AutoDJ ==
  \/ WorkerFills \/ TrackFills \/ TrackNeedsNone \/ Leave \/ Gone
  \/ \E f \in Filler : Pick(f) \/ Enqueue(f)

\* The page saves another rotation.
EditRotation ==
  /\ "autodj" \in uses /\ Op
  /\ dj' = [dj EXCEPT !.rotation = @ + 1, !.turn = 0]
  /\ UNCHANGED <<uses, now, air, queue, scriptVars, ruleVars, done>>

-----------------------------------------------------------------------------
(* The station                                                                  *)

\* start_thread
WorkerFor(w) == IF "autodj" \in uses /\ w = "none" THEN "running" ELSE w

\* Mutant: a track that starts does not look after the worker.
WorkerAsIs(w) == w

\* start_autodj_thread, for a track that starts
LookedAfter(w) == WorkerFor(w)

\* The head starts: it is heard, its row goes, and AutoDJ refills.
Plays ==
  /\ air.on /\ queue # <<>>
  /\ air' = [air EXCEPT !.heard = IF Head(queue).by = "rule" THEN "rule" ELSE "user"]
  /\ queue' = Tail(queue)
  /\ dj' = [dj EXCEPT !.worker = LookedAfter(@),
                      !.fill["start"] = IF "autodj" \in uses /\ @.at = "none" THEN [NotFilling EXCEPT !.at = "wanted"] ELSE @]
  /\ UNCHANGED <<uses, now, scriptVars, ruleVars, done, ops>>

\* A stream is heard.
PlaysStream ==
  /\ "scripts" \in uses /\ air.on /\ Op
  /\ air' = [air EXCEPT !.heard = "url"]
  /\ UNCHANGED <<uses, now, queue, scriptVars, ruleVars, dj, done>>

\* STOP: scripts and rules stop; AutoDJ's worker sees it later.
OffAir ==
  /\ air.on /\ Op
  /\ air' = [on |-> FALSE, heard |-> "user"]
  /\ script' = [script EXCEPT !.status = "stopped", !.last = None, !.since = None]
  /\ rule' = [on |-> FALSE, next |-> None]
  /\ done' = [done EXCEPT !.script = {}, !.skipped = {}]
  /\ UNCHANGED <<uses, now, queue, engine, sched, dj>>

\* START fills an empty queue first, and is refused without a row; automatic
\* scripts and rules start with it unless they are active, and a worker.
StartupFill ==
  /\ ~air.on /\ "autodj" \in uses /\ queue = <<>> /\ dj.fill["start"].at = "none" /\ Op
  /\ dj' = [dj EXCEPT !.fill["start"].at = "wanted"]
  /\ UNCHANGED <<uses, now, air, queue, scriptVars, ruleVars, done>>
OnAir ==
  /\ ~air.on /\ ("autodj" \in uses => queue # <<>>) /\ Op
  /\ air' = [on |-> TRUE, heard |-> "user"]
  /\ script' = IF "scripts" \notin uses THEN script
               ELSE IF script.status = "waiting" THEN [script EXCEPT !.since = now + 1]
               ELSE [Started EXCEPT !.last = script.last]
  /\ rule' = IF "scheduler" \notin uses \/ (rule.on /\ rule.next # None) THEN rule
             ELSE [on |-> TRUE, next |-> NextDue(now + Zone)]
  /\ dj' = [dj EXCEPT !.worker = WorkerFor(@)]
  /\ UNCHANGED <<uses, now, queue, engine, sched, done>>

Next ==
  \/ Tick \/ Engine \/ StartScript \/ StopScript
  \/ Scheduler \/ ToggleRule
  \/ AutoDJ \/ EditRotation
  \/ Plays \/ PlaysStream \/ OffAir \/ StartupFill \/ OnAir

Spec == Init /\ [][Next]_vars

\* Threads run and tracks end.
FairSpec ==
  /\ Spec /\ WF_vars(Plays)
  /\ WF_vars(Gone) /\ WF_vars(TrackFills) /\ WF_vars(TrackNeedsNone)
  /\ \A f \in Filler : WF_vars(Pick(f)) /\ WF_vars(Enqueue(f))

-----------------------------------------------------------------------------
Place == {"none", "tick", "known", "look", "insert", "inserted", "front", "ahead", "next"}
QueueRow == [by : {"script", "rule", "autodj"}, key : Nat, run : 0..MaxOps]

\* Shapes, and a lock is held by the filler that counted or picked.
TypeOK ==
  /\ uses \in Uses /\ now \in Second /\ ops \in 0..MaxOps
  /\ air \in [on : BOOLEAN, heard : {"user", "rule", "url"}]
  /\ queue \in Seq(QueueRow)
  /\ script \in [status : {"stopped", "waiting", "error"}, cached : BOOLEAN, last : Second,
                  since : 0..LastSecond + 1]
  /\ engine \in [pending : BOOLEAN, tick : Second, deferred : Second, at : Place, key : Second,
                  run : 0..MaxOps, wasOn : BOOLEAN, unstopped : BOOLEAN, behind : BOOLEAN]
  /\ rule \in [on : BOOLEAN, next : Second]
  /\ sched \in [at : {"none", "insert", "update"}, key : Second, wasOn : BOOLEAN]
  /\ dj \in [cursor : 0..Slots - 1, stored : 0..MaxOps, rotation : 0..MaxOps, lock : Filler \cup {"free"},
              fill : [Filler -> [at : {"none", "wanted", "counted", "picked"}, need : 0..Keep,
                                 from : 0..Slots - 1, rotation : 0..MaxOps]],
              worker : {"none", "running", "leaving"}, turn : 0..Slots - 1]
  /\ done.script \subseteq Due /\ done.rule \subseteq Due /\ done.skipped \subseteq QueueRow
  /\ \A f \in Filler : dj.lock = f <=> dj.fill[f].at \in {"counted", "picked"}

\* An occurrence that gives way to a rule's row or a stream leaves none of its
\* rows, wherever in the occurrence that was noticed.
SkippedLeavesNoRow == \A i \in DOMAIN queue : queue[i] \notin done.skipped

\* A started script runs each second it is due, however long an earlier occurrence
\* keeps the worker, within the minute that is replayed.
NoTickMissed ==
  ~engine.pending /\ script.since # None /\ ~engine.behind =>
    \A d \in Due : script.since <= d /\ d <= now => script.last >= d

\* An enabled rule waits for each run that is to come.
RuleAwaitsRuns == rule.on => \A d \in Due : d > now => (rule.next # None /\ rule.next <= d)

\* Of scripts and rules, no occurrence is missed while ticks are late, replayed and
\* deferred, and while the page edits and restarts what runs.
NoneMissed == NoTickMissed /\ RuleAwaitsRuns

\* No occurrence of a script runs twice, though ticks are replayed and runs fail
\* halfway; a rule fires once for each run that was recorded; and a stopped script
\* begins none ("A manual STOP must remain stopped"), unless an occurrence that had
\* read its status before overwrites it.
OncePerOccurrence ==
  [][/\ engine.at = "insert" /\ engine'.at = "inserted" => engine.key \notin done.script
     /\ sched.at = "insert" => (sched'.at = "insert" \/ sched.key \notin done.rule)
     /\ engine.at = "known" /\ engine'.at = "look" => (engine.unstopped \/ script.since # None)]_vars

\* What two fills at once could break.
KeepHeld == Cardinality({i \in DOMAIN queue : queue[i].by = "autodj"}) <= Keep
InTurn ==
  \A f \in Filler :
    dj.fill[f].at = "counted" /\ dj.fill[f].rotation = dj.rotation => dj.fill[f].from = dj.turn

\* "Keep queue-count, rotation selection and enqueue atomic per station": two fills
\* at once neither overfill the queue nor take a slot of the rotation out of turn.
FillInv == TypeOK /\ KeepHeld /\ InTurn

\* A station that was stopped and started while its worker was leaving is without
\* one for good only when there is nothing left to play.
WorkerComesBack ==
  <>[]("autodj" \in uses /\ air.on /\ dj.worker # "running") => <>[](queue = <<>>)
=============================================================================
