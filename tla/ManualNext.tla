----------------------------- MODULE ManualNext -----------------------------
(* ManualNextOrchestrator: the requests of one station to skip to the head of   *)
(* its queue, served one at a time by a worker thread that waits for the native *)
(* start of its target to be committed.  Around it: the daemon, which also      *)
(* moves on by itself, the events of the starts, and edits of the queue.  Each  *)
(* hold of _condition, and each read of the queue or of the daemon, is a step.  *)
EXTENDS Naturals, FiniteSets, SequencesExt

CONSTANTS Worker,       \* threads a station may have had
          MaxRequests,  \* requests of a behaviour
          MaxPending,   \* max_pending of the orchestrator
          Rows,         \* queue rows of a behaviour; row 1 plays at first
          Protected,    \* rows that are internet streams or come from the scheduler
          MaxEdits      \* edits of the queue by somebody else

ASSUME NextAssumption ==
  /\ MaxRequests \in Nat /\ MaxPending \in Nat \ {0} /\ MaxEdits \in Nat
  /\ Rows \in Nat \ {0} /\ Protected \subseteq 1..Rows /\ 0 \notin Worker

Request == 1..MaxRequests
Row == 1..Rows
None == 0
Source == {"http", "script"}  \* a scheduler_stream request differs from http in the fade only
Ended == {"committed", "failed", "skipped", "dropped", "refused"}
Nothing == [source |-> "http", guarded |-> None]

VARIABLES state,    \* one of _states: pending, processing, active target, the last lifecycle mark
          workers,  \* the thread _workers names
          thread,   \* where each worker thread is in _worker and _execute_one
          request,  \* source and guarded row of each request
          outcome,  \* what became of each request
          seq,      \* request_seq
          queue,    \* queue_items of the station
          native,   \* the daemon: running, the row it plays, whether it is heard, the hand-off under way
          starts,   \* track_started events not yet committed
          fresh,    \* was the reserved row committed since the reservation?
          edits     \* bound

asking == <<state, workers, request, outcome, seq>>
air == <<queue, native, starts, edits>>
vars == <<asking, thread, fresh, air>>

Idle == [at |-> "none", id |-> None, target |-> None, live |-> None]

Init ==
  /\ state = [pending |-> <<>>, processing |-> FALSE, target |-> None, last |-> None]
  /\ workers = None
  /\ thread = [w \in Worker |-> Idle]
  /\ request = [r \in Request |-> Nothing] /\ outcome = [r \in Request |-> "none"]
  /\ seq = 0
  /\ queue = [i \in 1..(Rows - 1) |-> i + 1]
  /\ native = [running |-> TRUE, live |-> 1, heard |-> TRUE, moving |-> None]
  /\ starts = <<>> /\ fresh = FALSE /\ edits = 0

Without(q) == RemoveFirst(queue, q)
Outstanding == Len(state.pending) + (IF state.processing THEN 1 ELSE 0)
At(w, a) == thread' = [thread EXCEPT ![w].at = a]

-----------------------------------------------------------------------------
(* Requests *)

Full == Outstanding >= MaxPending

\* Mutant: a thread is started whenever nothing waits.
NeedsWorkerIdle == state.pending = <<>>

NeedsWorker == IF workers = None THEN TRUE ELSE thread[workers].at = "none"

\* enqueue; a script names the row it put at the head of the queue.
Enqueue ==
  /\ seq < MaxRequests
  /\ seq' = seq + 1
  /\ \E s \in Source :
       request' = [request EXCEPT ![seq'] =
         [source |-> s, guarded |-> IF s = "script" /\ queue # <<>> THEN Head(queue) ELSE None]]
  /\ \/ /\ Full
        /\ outcome' = [outcome EXCEPT ![seq'] = "refused"]
        /\ UNCHANGED <<state, workers, thread>>
     \/ /\ ~Full
        /\ outcome' = [outcome EXCEPT ![seq'] = "accepted"]
        /\ state' = [state EXCEPT !.pending = Append(@, seq')]
        /\ \/ /\ NeedsWorker
              /\ \E w \in Worker : thread[w].at = "none"
              /\ workers' = CHOOSE w \in Worker : thread[w].at = "none"
              /\ thread' = [thread EXCEPT ![workers'] = [Idle EXCEPT !.at = "take"]]
           \/ ~NeedsWorker /\ UNCHANGED <<workers, thread>>
  /\ UNCHANGED <<fresh, air>>

-----------------------------------------------------------------------------
(* _worker and _execute_one, one step per read or hold of the lock *)

\* Mutant: the newest request comes first.
NextNewest == Last(state.pending)

NextRequest == Head(state.pending)
Take(w) ==
  /\ thread[w].at = "take" /\ state.pending # <<>>
  /\ state' = [state EXCEPT !.pending = RemoveFirst(@, NextRequest),
                            !.processing = TRUE, !.target = None]
  /\ thread' = [thread EXCEPT ![w] = [Idle EXCEPT !.at = "check", !.id = NextRequest]]
  /\ outcome' = [outcome EXCEPT ![NextRequest] = "serving"]
  /\ UNCHANGED <<workers, request, seq, fresh, air>>

\* Mutant: the thread stays registered until it ends.
RetireLate(w) == UNCHANGED workers

Retire(w) == workers' = None

\* Nothing waits: the thread takes itself off, then wakes the monitor and ends.
Leave(w) ==
  /\ thread[w].at = "take" /\ state.pending = <<>>
  /\ state' = [state EXCEPT !.processing = FALSE, !.target = None]
  /\ Retire(w)
  /\ At(w, "leaving")
  /\ UNCHANGED <<request, outcome, seq, fresh, air>>
EndThread(w) ==
  /\ thread[w].at = "leaving" /\ thread' = [thread EXCEPT ![w] = Idle]
  /\ UNCHANGED <<asking, fresh, air>>

Finish(w, how) ==
  /\ thread' = [thread EXCEPT ![w] = [Idle EXCEPT !.at = "take"]]
  /\ state' = [state EXCEPT !.target = None, !.pending = IF how = "failed" THEN <<>> ELSE @]
  /\ outcome' = [r \in Request |->
       IF r = thread[w].id THEN how
       ELSE IF how = "failed" /\ r \in ToSet(state.pending) THEN "dropped" ELSE outcome[r]]
  /\ request' = IF how = "skipped" THEN request ELSE [request EXCEPT ![thread[w].id] = Nothing]
  /\ UNCHANGED <<workers, seq>>

PlaybackProtected == native.running /\ native.live \in Protected
Skips(w) == request[thread[w].id].source = "script" /\ PlaybackProtected

\* Mutant: the row of a skipped script stays in the queue.
CancelNothing(w) == UNCHANGED queue

Cancel(w) == queue' = Without(request[thread[w].id].guarded)

\* A script does not interrupt a stream or an item of the scheduler.
Skip(w, a) ==
  /\ thread[w].at = a /\ Skips(w)
  /\ Cancel(w) /\ Finish(w, "skipped")
  /\ UNCHANGED <<native, starts, edits, fresh>>

Check(w) ==
  \/ Skip(w, "check")
  \/ thread[w].at = "check" /\ ~Skips(w) /\ At(w, "plan") /\ UNCHANGED <<asking, fresh, air>>

ReadPlan(w) ==
  /\ thread[w].at = "plan"
  /\ \/ queue = <<>> /\ Finish(w, "failed")
     \/ /\ queue # <<>>
        /\ thread' = [thread EXCEPT ![w].at = "look", ![w].target = Head(queue)]
        /\ UNCHANGED asking
  /\ UNCHANGED <<fresh, air>>

\* The head of the queue is what is heard: wait for its row to be committed,
\* for at most three seconds.
Look(w) ==
  /\ thread[w].at = "look"
  /\ \/ ~native.running /\ Finish(w, "failed")
     \/ /\ native.running /\ (native.live # thread[w].target \/ ~native.heard)
        /\ At(w, "reserve") /\ UNCHANGED asking
     \/ /\ native.running /\ native.live = thread[w].target /\ native.heard
        /\ At(w, "plan") /\ UNCHANGED asking
  /\ UNCHANGED <<fresh, air>>
LookLast(w) ==
  /\ thread[w].at = "look"
  /\ native.running /\ native.live = thread[w].target /\ native.heard
  /\ Finish(w, "failed")
  /\ UNCHANGED <<fresh, air>>

Reserve(w) ==
  /\ thread[w].at = "reserve"
  /\ state' = [state EXCEPT !.target = thread[w].target,
                            !.last = IF @ = thread[w].target THEN None ELSE @]
  /\ thread' = [thread EXCEPT ![w].at = "present",
                              ![w].live = IF request[thread[w].id].source = "script" THEN native.live ELSE None]
  /\ fresh' = FALSE
  /\ UNCHANGED <<workers, request, outcome, seq, air>>

Present(w) ==
  /\ thread[w].at = "present"
  /\ \/ thread[w].target \notin ToSet(queue) /\ Finish(w, "failed")
     \/ thread[w].target \in ToSet(queue) /\ At(w, "recheck") /\ UNCHANGED asking
  /\ UNCHANGED <<fresh, air>>

Recheck(w) ==
  \/ Skip(w, "recheck")
  \/ thread[w].at = "recheck" /\ ~Skips(w) /\ At(w, "hand_off") /\ UNCHANGED <<asking, fresh, air>>

\* perform_direct_handoff: the daemon selects the target, or it fails or raises.
HandOff(w) ==
  /\ thread[w].at = "hand_off"
  /\ \/ /\ native.running
        /\ native' = [native EXCEPT !.moving = thread[w].target]
        /\ thread' = [thread EXCEPT ![w].at = "wait", ![w].live = None] /\ UNCHANGED asking
     \/ Finish(w, "failed") /\ UNCHANGED native
  /\ UNCHANGED <<fresh, queue, starts, edits>>

\* Mutant: any start ends the wait.
MarkedAny(w) == state.last # None

Marked(w) == state.last = thread[w].target
GivesUp(w) == ~Marked(w)

\* _wait_for_lifecycle, at most thirty seconds.
Wait(w) ==
  /\ thread[w].at = "wait"
  /\ \/ Marked(w) /\ Finish(w, "committed")
     \/ GivesUp(w) /\ Finish(w, "failed")
  /\ UNCHANGED <<fresh, air>>

Serve(w) ==
  \/ Take(w) \/ Leave(w) \/ EndThread(w) \/ Check(w) \/ ReadPlan(w) \/ Look(w) \/ LookLast(w)
  \/ Reserve(w) \/ Present(w) \/ Recheck(w) \/ HandOff(w) \/ Wait(w)

-----------------------------------------------------------------------------
(* The daemon, its events, and the other users of the queue *)

Plays(q) ==
  /\ native' = [native EXCEPT !.live = q, !.heard = TRUE, !.moving = None]
  /\ starts' = Append(starts, q)
  /\ UNCHANGED <<asking, thread, fresh, queue, edits>>

\* The hand-off takes effect, or the item that plays ends by itself.
Switch == native.moving # None /\ Plays(native.moving)
MoveOn ==
  /\ native.running /\ queue # <<>> /\ Head(queue) # native.live /\ Len(starts) < 2
  /\ Plays(Head(queue))
FallSilent ==
  /\ native.heard /\ native.live \in ToSet(queue)  \* it is read only then
  /\ native' = [native EXCEPT !.heard = FALSE]
  /\ UNCHANGED <<asking, thread, fresh, queue, starts, edits>>
StopStation ==
  /\ native.running
  /\ native' = [running |-> FALSE, live |-> None, heard |-> FALSE, moving |-> None]
  /\ UNCHANGED <<asking, thread, fresh, queue, starts, edits>>

\* A start is committed: its row leaves the queue, then mark_lifecycle.
CommitStart ==
  /\ starts # <<>>
  /\ queue' = Without(Head(starts)) /\ starts' = Tail(starts)
  /\ native' = [native EXCEPT !.heard = @ \/ native.live = Head(starts)]
  /\ state' = [state EXCEPT !.last = Head(starts)]
  /\ fresh' = (fresh \/ Head(starts) = state.target)
  /\ UNCHANGED <<workers, thread, request, outcome, seq, edits>>

ToFront(q) == <<q>> \o Without(q)

\* The page, a script or the AutoDJ removes a row or moves it to the front.
EditQueue ==
  /\ edits < MaxEdits /\ edits' = edits + 1
  /\ \E q \in ToSet(queue) : queue' = Without(q) \/ queue' = ToFront(q)
  /\ UNCHANGED <<asking, thread, fresh, native, starts>>

Next ==
  \/ Enqueue \/ \E w \in Worker : Serve(w)
  \/ Switch \/ MoveOn \/ FallSilent \/ StopStation \/ CommitStart \/ EditQueue

Spec == Init /\ [][Next]_vars

\* The worker thread runs, and its wait for an audible head has a limit: a loop
\* that reads it as audible for ever reaches the last look.
FairSpec == Spec /\ \A w \in Worker : WF_vars(Serve(w)) /\ SF_vars(LookLast(w))

-----------------------------------------------------------------------------
Place == {"none", "take", "leaving", "check", "plan", "look", "reserve", "present", "recheck", "hand_off", "wait"}

\* Every variable has the shape the code gives it, and no row is queued twice.
TypeOK ==
  /\ state \in [pending : Seq(Request), processing : BOOLEAN, target : Row \cup {None}, last : Row \cup {None}]
  /\ workers \in Worker \cup {None}
  /\ thread \in [Worker -> [at : Place, id : Request \cup {None}, target : Row \cup {None}, live : Row \cup {None}]]
  /\ request \in [Request -> [source : Source, guarded : Row \cup {None}]]
  /\ outcome \in [Request -> Ended \cup {"none", "accepted", "serving"}]
  /\ queue \in Seq(Row) /\ IsInjective(queue) /\ starts \in Seq(Row) /\ fresh \in BOOLEAN
  /\ native \in [running : BOOLEAN, live : Row \cup {None}, heard : BOOLEAN, moving : Row \cup {None}]

\* At most max_pending requests of a station are accepted and not yet ended,
\* the one in execution included (enqueue's count against _max_pending).
PendingBounded ==
  Cardinality({r \in Request : outcome[r] \in {"accepted", "serving"}}) <= MaxPending

\* A station has one thread at a time in the serving loop, though one thread
\* takes itself off while a request starts the next (_workers, _worker).
OneServes == Cardinality({w \in Worker : thread[w].at \notin {"none", "leaving"}}) <= 1

\* As one invariant: whichever thread leaves, fails or begins, the books keep
\* their shape, the bound counts what is in execution, and one thread serves.
ServingInv == TypeOK /\ PendingBounded /\ OneServes

\* Requests are served in the order they were accepted: while one waits, none
\* accepted after it is served or over, unless a failure dropped both.
InOrder ==
  \A r \in Request, s \in Request :
    r < s /\ outcome[r] = "accepted" => outcome[s] \in {"none", "accepted", "refused"}

\* A request is reported as committed only when the row it reserved was started
\* and committed after the reservation: neither an earlier mark of that row nor
\* the start of another row ends its wait.
CommittedWasStarted ==
  [][\A w \in Worker :
       thread[w].at = "wait" /\ thread[w].id # None /\ outcome'[thread[w].id] = "committed"
         => fresh]_vars

\* A script that was skipped leaves no row behind: otherwise its row
\* would play later, at no scheduled time (_cancel_scheduled_script_queue_items).
SkippedLeavesNoRow ==
  \A r \in Request : outcome[r] = "skipped" => request[r].guarded \notin ToSet(queue)

\* Every accepted request ends: committed, failed, skipped, or dropped behind a
\* failure; none is lost between a thread that leaves and its successor.  The
\* requests are finitely many, so each ends if none is open again and again.
AcceptedEnds == []<>(\A r \in Request : outcome[r] \notin {"accepted", "serving"})
=============================================================================
