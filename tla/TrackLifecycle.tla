--------------------------- MODULE TrackLifecycle ---------------------------
(* How the Python side of one station learns what the native engine plays and   *)
(* books it: the lifecycle coordinator with its bounded queue of started        *)
(* tracks, the worker that commits them to the history and shows them as Now    *)
(* Playing, the answer to a request for the next track, and the start and stop  *)
(* of the station around them.                                                  *)
(*                                                                              *)
(* A row is an item of the station's queue; its number is its queue_id, given   *)
(* once (AUTOINCREMENT).  Several rows may hold the same track.  A step is one  *)
(* database transaction or one hold of _AB_PLAYER_LOCK or of the coordinator's  *)
(* lock.  The engine itself is what its events and get_state show of it.        *)
(* LoadNext, Resolve and Rebuild use the player and the plan the queue gives in *)
(* one step: that either changes between their reads is not modelled, nor are   *)
(* two calls of StationService at once.                                         *)
EXTENDS Naturals, FiniteSets, SequencesExt

CONSTANTS MaxRow,      \* rows that may ever be enqueued
          Track, trackOf,
          QueueSize,   \* of the queue of started tracks
          RetryCount,  \* attempts after the first
          MaxStarts,   \* track_started events of a behaviour
          MaxTroubles  \* failures, stops and removals of a behaviour, together

Row == 1..MaxRow
NoRow == 0
WorkerStep == {"resolve", "check", "commit", "refill", "rebuild"}

ASSUME LifecycleAssumption ==
  /\ MaxRow \in Nat /\ trackOf \in [Row -> Track]
  /\ QueueSize \in Nat \ {0} /\ RetryCount \in Nat
  /\ MaxStarts \in Nat /\ MaxTroubles \in Nat

VARIABLES queue,    \* queue_items by position
          history,  \* committed rows, each with the row whose start committed it
          player,   \* _AB_PLAYER_STATE: enabled, lines, last_commit_queue_key
          now,      \* the row of the Now Playing store, and when the start it shows was announced
          native,   \* get_state: running, the row on the air, the other deck's, whether that is live
          wire,     \* track_started events on their way to handle_event
          pending, done,  \* _track_queue_id_pending, _track_queue_id_done
          jobs,     \* _track_queue
          worker,   \* the locals of _track_worker and of the callback it runs
          service,  \* where StationService.start or stop is, with the plan it read
          announced, bounds  \* when each row was last announced; what is used of the bounds

books == <<queue, history>>
dispatch == <<pending, done, jobs>>
vars == <<books, player, now, native, wire, dispatch, worker, service, announced, bounds>>

Idle == [at |-> "idle", row |-> NoRow, attempt |-> 0, line |-> NoRow, held |-> FALSE]
NoPlan == [at |-> "idle", plan |-> <<>>]
Nothing == [row |-> NoRow, start |-> 0]
Stopped == [enabled |-> FALSE, lines |-> <<>>, last |-> NoRow]

Init ==
  /\ \E n \in 0..MaxRow :
       /\ queue = [i \in 1..n |-> i]
       /\ bounds = [rows |-> n, starts |-> 0, replays |-> 0, failures |-> 0, stops |-> 0,
                    removals |-> 0, unread |-> 0, dropped |-> 0]
  /\ history = {}
  /\ player = [enabled |-> TRUE, lines |-> <<>>, last |-> NoRow]
  /\ now = Nothing
  /\ native = [running |-> FALSE, current |-> NoRow, next |-> NoRow, live |-> FALSE]
  /\ wire = <<>> /\ jobs = <<>>
  /\ pending = {} /\ done = {}
  /\ worker = Idle
  /\ service = NoPlan
  /\ announced = [r \in Row |-> 0]

-----------------------------------------------------------------------------
(* The queue store *)

\* Of a failing database only the first of an event's attempts counts.
More(kind) == bounds' = [bounds EXCEPT ![kind] = @ + 1]
Trouble(kind) ==
  /\ bounds.failures + bounds.stops + bounds.removals + bounds.unread < MaxTroubles
  /\ More(kind)

\* A new row gets the next number and the last position.
Enqueued == [q |-> Append(queue, bounds.rows + 1), b |-> [bounds EXCEPT !.rows = @ + 1]]
Enqueue ==
  /\ bounds.rows < MaxRow
  /\ queue' = Enqueued.q /\ bounds' = Enqueued.b
  /\ UNCHANGED <<history, player, now, native, wire, dispatch, worker, service, announced>>

RemoveRow(r) ==
  /\ r \in ToSet(queue)
  /\ queue' = RemoveFirst(queue, r)
  /\ Trouble("removals")
  /\ UNCHANGED <<history, player, now, native, wire, dispatch, worker, service, announced>>

\* Where row r is in a list: the row itself, or else the only line of its track.
FindLine(s, r) ==
  LET exact == {i \in DOMAIN s : s[i] = r}
      alike == {i \in DOMAIN s : trackOf[s[i]] = trackOf[r]}
  IN CASE exact # {} -> CHOOSE i \in exact : \A j \in exact : i <= j
       [] exact = {} /\ Cardinality(alike) = 1 -> CHOOSE i \in alike : TRUE
       [] OTHER -> 0

\* The row a commit takes out of the queue: the row itself, or the first of its track.
Chosen(q, r) ==
  LET alike == {i \in DOMAIN q : trackOf[q[i]] = trackOf[r]}
  IN CASE r \in ToSet(q) -> r
       [] r \notin ToSet(q) /\ alike # {} -> q[CHOOSE i \in alike : \A j \in alike : i <= j]
       [] OTHER -> NoRow

-----------------------------------------------------------------------------
(* The native engine, as its events and get_state show it *)

\* A replay is the start of a row that was announced before the one on the air.
Replayed(r) == announced[r] # 0 /\ r # native.current
Announce(r) ==
  /\ bounds.starts < MaxStarts
  /\ bounds' = [bounds EXCEPT !.starts = @ + 1, !.replays = IF Replayed(r) THEN @ + 1 ELSE @]
  /\ announced' = [announced EXCEPT ![r] = bounds.starts + 1]
  /\ wire' = Append(wire, r)

Playing == native.running /\ service.at \notin {"bootstrap", "select"} /\ native.current # NoRow

\* The loaded deck goes on the air; the other keeps the row it played.
StartNext ==
  /\ Playing /\ native.live
  /\ native' = [native EXCEPT !.current = native.next, !.next = native.current, !.live = FALSE]
  /\ Announce(native.next)
  /\ UNCHANGED <<books, player, now, dispatch, worker, service>>

\* A second event for the start of the same row: a select that was sent again.
Repeat ==
  /\ Playing
  /\ Announce(native.current)
  /\ UNCHANGED <<books, player, now, native, dispatch, worker, service>>

\* recover_from_persisted_queue: the lines from the queue, behind the line on the
\* air or, when that is unknown, behind all others, and the first of them.
Recovered(lines, at, spent) ==
  LET kept == RemoveFirst(lines, spent)
      found == RemoveFirst(RemoveFirst(queue, native.current), spent)
      fresh == IF at = 0 THEN found ELSE RemoveFirst(found, lines[at])
      next == IF fresh = <<>> THEN NoRow ELSE Head(fresh)
  IN [next |-> next,
      lines |-> CASE next = NoRow -> lines
                  [] next # NoRow /\ at # 0 -> SubSeq(lines, 1, at) \o fresh
                  [] OTHER -> IF next \in ToSet(kept) THEN kept ELSE kept \o fresh]

Loadable(choice) == player.enabled /\ choice.next # NoRow

\* _native_load_requested_next_track: the line after the one on the air, or one
\* recovered when there is none or the other deck is seen to have played it.
LoadNext ==
  LET at == FindLine(player.lines, native.current)
      first == IF at # 0 /\ at < Len(player.lines)
               THEN [next |-> player.lines[at + 1], lines |-> player.lines]
               ELSE Recovered(player.lines, at, NoRow)
      choice == IF first.next # native.next THEN first
                ELSE Recovered(first.lines, FindLine(first.lines, native.current), native.next)
  IN /\ Playing /\ ~native.live /\ Loadable(choice)
     /\ player' = [player EXCEPT !.lines = choice.lines]
     /\ native' = [native EXCEPT !.next = choice.next, !.live = TRUE]
     /\ UNCHANGED <<books, now, wire, dispatch, worker, service, announced, bounds>>

-----------------------------------------------------------------------------
(* The coordinator *)

\* _queue_track_started, in the socket reader's thread: an event for a row that
\* waits or was handled is dropped, and so is one for which there is no room.
Deliver ==
  /\ wire # <<>>
  /\ wire' = Tail(wire)
  /\ LET r == Head(wire)
         known == r \in pending \cup done
     IN \/ known /\ UNCHANGED <<pending, jobs, bounds>>
        \/ ~known /\ Len(jobs) = QueueSize /\ More("dropped") /\ UNCHANGED <<pending, jobs>>
        \/ /\ ~known /\ Len(jobs) < QueueSize
           /\ pending' = pending \cup {r}
           /\ jobs' = Append(jobs, [row |-> r, attempt |-> 0])
           /\ UNCHANGED bounds
  /\ UNCHANGED <<books, player, now, native, done, worker, service, announced>>

\* Ten minutes pass: more than any event or retry takes.
Expire ==
  /\ wire = <<>> /\ jobs = <<>> /\ worker = Idle
  /\ \E r \in done : done' = done \ {r}
  /\ UNCHANGED <<books, player, now, native, wire, pending, jobs, worker, service, announced, bounds>>

TakeJob ==
  /\ worker = Idle /\ jobs # <<>>
  /\ jobs' = Tail(jobs)
  /\ worker' = [Idle EXCEPT !.at = "look", !.row = Head(jobs).row, !.attempt = Head(jobs).attempt]
  /\ UNCHANGED <<books, player, now, native, wire, pending, done, service, announced, bounds>>

\* Mutant: a handled row stays among those that wait.
FinishPending ==
  /\ pending' = pending
  /\ done' = done \cup {worker.row}
  /\ worker' = Idle

\* The callback returned TRUE: the row is handled.
Finish ==
  /\ pending' = pending \ {worker.row}
  /\ done' = done \cup {worker.row}
  /\ worker' = Idle

\* Mutant: a failed event is not tried again.
FailForGood ==
  /\ pending' = pending \ {worker.row}
  /\ worker' = Idle /\ done' = done

\* It returned FALSE or raised: the event is put back, or given up.
Fail ==
  \/ /\ worker.attempt < RetryCount
     /\ worker' = [worker EXCEPT !.at = "requeue"]
     /\ UNCHANGED <<pending, done>>
  \/ /\ worker.attempt >= RetryCount
     /\ pending' = pending \ {worker.row}
     /\ worker' = Idle /\ done' = done

\* put without a timeout: it waits while the queue is full.
Requeue ==
  /\ worker.at = "requeue" /\ Len(jobs) < QueueSize
  /\ jobs' = Append(jobs, [row |-> worker.row, attempt |-> worker.attempt + 1])
  /\ worker' = Idle
  /\ UNCHANGED <<books, player, now, native, wire, pending, done, service, announced, bounds>>

-----------------------------------------------------------------------------
(* _process_native_track_started_event, run by the worker *)

Goes(to) == worker' = [worker EXCEPT !.at = to] /\ UNCHANGED <<pending, done>>

\* A step raises.  _ab_commit_started_track returns FALSE instead, which only
\* matters for a row that was in the queue.
Raise ==
  /\ worker.at \in WorkerStep
  /\ \/ worker.attempt = 0 /\ Trouble("failures")
     \/ worker.attempt > 0 /\ More("failures")
  /\ \/ (worker.at # "commit" \/ worker.held) /\ Fail
     \/ worker.at = "commit" /\ ~worker.held /\ Goes("refill")
  /\ UNCHANGED <<books, player, now, native, wire, jobs, service, announced>>

Look ==
  /\ worker.at = "look"
  /\ \/ player.enabled /\ Goes("resolve")
     \/ ~player.enabled /\ Finish
  /\ UNCHANGED <<books, player, now, native, wire, jobs, service, announced, bounds>>

\* _native_resolve_track_started_line: in the lines of the player, or else in the
\* plan the queue gives.  A row found nowhere is taken to be committed already.
LineOf(r) ==
  LET i == FindLine(player.lines, r)
      j == FindLine(queue, r)
  IN CASE i # 0 -> player.lines[i]
       [] i = 0 /\ j # 0 -> queue[j]
       [] OTHER -> NoRow
Resolve ==
  /\ worker.at = "resolve"
  /\ \/ /\ LineOf(worker.row) # NoRow
        /\ worker' = [worker EXCEPT !.at = "check", !.line = LineOf(worker.row)]
        /\ UNCHANGED <<pending, done>>
     \/ LineOf(worker.row) = NoRow /\ Finish
  /\ UNCHANGED <<books, player, now, native, wire, jobs, service, announced, bounds>>

\* existed_before
Check ==
  /\ worker.at = "check"
  /\ worker' = [worker EXCEPT !.at = "commit", !.held = worker.row \in ToSet(queue)]
  /\ UNCHANGED <<books, player, now, native, wire, pending, done, jobs, service, announced, bounds>>

\* Mutant: what was committed last is not remembered.
CommittedNever == FALSE

\* _ab_commit_started_track.  Nothing is done twice in a row for one line; a line
\* whose row and track are not in the queue is refused.
Committed == worker.line = player.last

\* Mutant: the work that follows a commit is not taken up again.
AgainFinished == Committed /\ Finish /\ UNCHANGED <<books, player>>

Again == Committed /\ Goes("refill") /\ UNCHANGED <<books, player>>
Commit ==
  LET r == Chosen(queue, worker.line)
  IN /\ worker.at = "commit"
     /\ \/ Again
        \/ /\ ~Committed /\ r # NoRow
           /\ queue' = RemoveFirst(queue, r)
           /\ history' = history \cup {[row |-> r, by |-> worker.row]}
           /\ player' = [player EXCEPT !.last = worker.line]
           /\ Goes("refill")
        \/ ~Committed /\ r = NoRow /\ worker.held /\ Fail /\ UNCHANGED <<books, player>>
        \/ ~Committed /\ r = NoRow /\ ~worker.held /\ Goes("refill") /\ UNCHANGED <<books, player>>
     /\ UNCHANGED <<now, native, wire, jobs, service, announced, bounds>>

\* autodj_fill_queue_once may add a row.
Refill ==
  /\ worker.at = "refill"
  /\ Goes("read")
  /\ \/ UNCHANGED <<queue, bounds>>
     \/ bounds.rows < MaxRow /\ queue' = Enqueued.q /\ bounds' = Enqueued.b
  /\ UNCHANGED <<history, player, now, native, wire, jobs, service, announced>>

\* Mutant: a late event is shown too.
CurrentAlways == TRUE

\* The engine is asked what it plays; only that row may become Now Playing.  An
\* engine that cannot be asked is taken to have stopped.
Current == native.current \in {NoRow, worker.row}
ReadState ==
  /\ worker.at = "read"
  /\ \/ player.enabled /\ native.running /\ Current /\ Goes("show") /\ UNCHANGED bounds
     \/ ~(player.enabled /\ native.running /\ Current) /\ Finish /\ UNCHANGED bounds
     \/ Trouble("unread") /\ Finish
  /\ UNCHANGED <<books, player, now, native, wire, jobs, service, announced>>

\* _ab_apply_now_playing_line
Show ==
  /\ worker.at = "show"
  /\ now' = [row |-> worker.line, start |-> announced[worker.row]]
  /\ Goes("rebuild")
  /\ UNCHANGED <<books, player, native, wire, jobs, service, announced, bounds>>

\* _native_rebuild_plan_after_track_started
Rebuild ==
  /\ worker.at = "rebuild"
  /\ player' = [player EXCEPT !.enabled = TRUE,
                  !.lines = <<worker.line>> \o RemoveFirst(queue, worker.line)]
  /\ Finish
  /\ UNCHANGED <<books, now, native, wire, jobs, service, announced, bounds>>

Worker == \/ TakeJob \/ Requeue \/ Look \/ Resolve \/ Check \/ Commit
          \/ Refill \/ ReadState \/ Show \/ Rebuild
-----------------------------------------------------------------------------
(* StationService *)

Moves(to) == service' = [service EXCEPT !.at = to]

StartEngine ==
  /\ service.at = "idle" /\ ~native.running /\ queue # <<>>
  /\ native' = [native EXCEPT !.running = TRUE]
  /\ service' = [at |-> "bootstrap", plan |-> queue]
  /\ UNCHANGED <<books, player, now, wire, dispatch, worker, announced, bounds>>

\* _ab_bootstrap_from_queue_plan loads both decks; get_state keeps naming the
\* deck that was active last, with what is on it now.
Bootstrap ==
  /\ service.at = "bootstrap"
  /\ Moves("select")
  /\ player' = [enabled |-> TRUE, lines |-> service.plan, last |-> NoRow]
  /\ \E r \in {native.current} \cup {service.plan[i] : i \in DOMAIN service.plan \cap {1, 2}} :
       native' = [native EXCEPT !.current = r, !.live = Len(service.plan) > 1,
                    !.next = IF Len(service.plan) > 1 THEN service.plan[2] ELSE NoRow]
  /\ UNCHANGED <<books, now, wire, dispatch, worker, announced, bounds>>

Select ==
  /\ service.at = "select"
  /\ native' = [native EXCEPT !.current = service.plan[1]]
  /\ Announce(service.plan[1])
  /\ service' = NoPlan
  /\ UNCHANGED <<books, player, now, dispatch, worker>>

BootstrapFails ==
  /\ service.at = "select"
  /\ player' = [player EXCEPT !.enabled = FALSE]
  /\ native' = [native EXCEPT !.running = FALSE, !.live = FALSE]
  /\ service' = NoPlan
  /\ UNCHANGED <<books, now, wire, dispatch, worker, announced, bounds>>

Stop ==
  /\ service.at = "idle" /\ native.running
  /\ Trouble("stops")
  /\ player' = [player EXCEPT !.enabled = FALSE]
  /\ Moves("engine")
  /\ UNCHANGED <<books, now, native, wire, dispatch, worker, announced>>

StopEngine ==
  /\ service.at = "engine"
  /\ native' = [native EXCEPT !.running = FALSE, !.live = FALSE]
  /\ Moves("finalize")
  /\ UNCHANGED <<books, player, now, wire, dispatch, worker, announced, bounds>>

StopFinalize ==
  /\ service.at = "finalize"
  /\ player' = Stopped
  /\ Moves("clear")
  /\ UNCHANGED <<books, now, native, wire, dispatch, worker, announced, bounds>>

ClearNowPlaying ==
  /\ service.at = "clear"
  /\ now' = Nothing
  /\ service' = NoPlan
  /\ UNCHANGED <<books, player, native, wire, dispatch, worker, announced, bounds>>

Service == \/ StartEngine \/ Bootstrap \/ Select \/ BootstrapFails
           \/ Stop \/ StopEngine \/ StopFinalize \/ ClearNowPlaying

Next == \/ Enqueue \/ \E r \in Row : RemoveRow(r)
        \/ StartNext \/ Repeat \/ LoadNext
        \/ Deliver \/ Expire \/ Worker \/ Raise
        \/ Service

\* The reader and the worker are loops of threads of their own.  Nothing obliges
\* a track to end, a database to fail or an operator to act.
Fairness == WF_vars(Deliver) /\ WF_vars(Worker)

Spec == Init /\ [][Next]_vars
FairSpec == Spec /\ Fairness

-----------------------------------------------------------------------------
(* Properties *)

\* Types; a step of the worker has the row and, after Resolve, the line it needs.
TypeOK ==
  /\ queue \in Seq(Row) /\ history \subseteq [row : Row, by : Row]
  /\ player \in [enabled : BOOLEAN, lines : Seq(Row), last : Row \cup {NoRow}]
  /\ now \in [row : Row \cup {NoRow}, start : 0..MaxStarts]
  /\ native \in [running : BOOLEAN, current : Row \cup {NoRow}, next : Row \cup {NoRow}, live : BOOLEAN]
  /\ native.live => native.next # NoRow
  /\ wire \in Seq(Row) /\ pending \subseteq Row /\ done \subseteq Row
  /\ jobs \in Seq([row : Row, attempt : 0..RetryCount]) /\ Len(jobs) <= QueueSize
  /\ worker \in [at : {"idle", "look", "read", "show", "requeue"} \cup WorkerStep, row : Row \cup {NoRow},
                 attempt : 0..RetryCount, line : Row \cup {NoRow}, held : BOOLEAN]
  /\ worker.at = "idle" <=> worker.row = NoRow
  /\ worker.at \in {"check", "commit", "refill", "read", "show", "rebuild"} => worker.line # NoRow
  /\ worker.at = "requeue" => worker.attempt < RetryCount
  /\ service \in [at : {"idle", "bootstrap", "select", "engine", "finalize", "clear"}, plan : Seq(Row)]
  /\ service.at \in {"bootstrap", "select"} => service.plan # <<>>
  /\ announced \in [Row -> 0..MaxStarts]
  /\ bounds \in [rows : 0..MaxRow, starts : 0..MaxStarts, replays : Nat, failures : Nat,
               stops : 0..MaxTroubles, removals : 0..MaxTroubles, unread : 0..MaxTroubles,
               dropped : 0..MaxStarts]

\* A row is pending exactly while one job for it is in the queue or with the
\* worker: nothing waits for ever as pending with nobody to handle it, and no
\* row is handled twice at a time (_queue_track_started, _track_worker).
Jobs(r) == {i \in DOMAIN jobs : jobs[i].row = r}
PendingHasOneJob ==
  \A r \in Row :
    Cardinality(Jobs(r)) + (IF worker.row = r THEN 1 ELSE 0) = (IF r \in pending THEN 1 ELSE 0)

\* The two as one invariant: whatever fails, repeats or is dropped, the books of
\* the dispatch keep their shape and agree with its queue and its worker.
DispatchInv == TypeOK /\ PendingHasOneJob

\* What is booked is the row whose start was announced (the contract of
\* _process_native_track_started_event), until a stop or a removal by hand.  The
\* code breaks it after one failed attempt.
HistoryFollowsEvent ==
  bounds.stops = 0 /\ bounds.removals = 0 => \A h \in history : h.row = h.by

\* A start takes its own row out of the queue and no other, though several rows
\* hold the same track and both _ab_find_line_index_by_identity and
\* _choose_queue_row settle for the track.  It holds while every event is
\* handled at its first attempt, in order, and no row is replayed: a worker two
\* tracks behind leaves rows in the queue that LoadNext takes up again, and the
\* second start of such a row finds no line of its own.
StartCommitsItself ==
  bounds.failures = 0 /\ bounds.dropped = 0 /\ bounds.replays = 0 => HistoryFollowsEvent

\* Until the first stop Now Playing never goes back to a track that was announced
\* before the start it shows, however late an event or a retry is handled.
AsRecent(r, start) == \E s \in Row : trackOf[s] = trackOf[r] /\ announced[s] >= start
NowPlayingForward ==
  [][bounds.stops = 0 /\ now.row # NoRow /\ now'.row # NoRow => AsRecent(now'.row, now.start)]_vars

\* Every attempt may have failed; and the worker may wait for room in the queue
\* that nobody but itself empties.
GaveUp == bounds.failures + bounds.removals > RetryCount
Jammed == worker.at = "requeue" /\ Len(jobs) = QueueSize

\* An accepted start takes a row out of the queue (its own unless a failure let
\* another row take its place), or the station is stopped or the worker failed.
AcceptedIsCommitted ==
  \A r \in Row : r \in pending ~>
    \/ r \notin ToSet(queue) \/ \E h \in history : h.by = r
    \/ ~player.enabled \/ GaveUp \/ Jammed

\* An accepted start is shown as Now Playing before the first stop, unless the row
\* is off the air again, was taken out of the queue by hand or by another start,
\* some row was replayed, or the engine could not be asked.
Shows(r) == now.row # NoRow /\ trackOf[now.row] = trackOf[r]
AcceptedIsShown ==
  \A r \in Row : r \in pending /\ bounds.stops = 0 ~>
    \/ Shows(r) \/ native.current # r
    \/ bounds.removals > 0 \/ bounds.replays > 0 \/ \E h \in history : h.row = r /\ h.by # r
    \/ ~player.enabled \/ GaveUp \/ Jammed \/ bounds.unread > 0
=============================================================================
