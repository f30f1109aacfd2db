---------------------------- MODULE NativeClient ----------------------------
(* The Python client of the native daemon: threads that ask over one shared    *)
(* socket, the reader thread of each connection, and the daemon the client      *)
(* starts when there is none.  Each hold of _connection_lock or _pending_lock   *)
(* is one step, but for the start of a daemon, which keeps _connection_lock     *)
(* over several.  Time is abstract: a request may time out, and a reconnect     *)
(* delay may pass, at any step.                                                 *)
EXTENDS Naturals, FiniteSets, SequencesExt

CONSTANTS Thread,       \* threads that call the client
          MaxRequests,  \* requests of a behaviour
          MaxLinks,     \* connections of a behaviour
          MaxDaemons,   \* daemons launched in a behaviour
          MaxRestarts   \* crashes of the application

ASSUME ClientAssumption ==
  /\ MaxRequests \in Nat /\ MaxLinks \in Nat /\ MaxDaemons \in Nat /\ MaxRestarts \in Nat
  /\ 0 \notin Thread

Request == 1..MaxRequests
Link == 1..MaxLinks
Daemon == 1..MaxDaemons
None == 0

VARIABLES client,   \* _closing, the generation _socket belongs to, _connection_generation, the reconnect delay, _daemon_process
          lock,     \* the thread that keeps _connection_lock while it starts a daemon
          pending,  \* _pending
          reply,    \* _PendingReply of each request
          thread,   \* where each call is, with its request and its socket
          link,     \* each connection: its daemon, its state, the lines in both directions
          reader,   \* the reader thread of each connection
          daemon,   \* each launched process
          path,     \* the daemon whose socket the path names
          exit,     \* how far close() is
          bounds    \* requests, daemons and restarts used

calls == <<pending, reply, thread>>
wires == <<link, reader>>
procs == <<daemon, path>>
vars == <<client, lock, calls, wires, procs, exit, bounds>>

Quiet == [at |-> "idle", id |-> None, sock |-> None]
NoLink == [to |-> None, state |-> "none", out |-> <<>>, in |-> <<>>]
Fresh == [closing |-> FALSE, sock |-> None, gen |-> 0, delay |-> FALSE, process |-> None]

Init ==
  /\ client = Fresh /\ lock = None
  /\ pending = {} /\ reply = [r \in Request |-> "none"]
  /\ thread = [t \in Thread |-> Quiet]
  /\ link = [g \in Link |-> NoLink] /\ reader = [g \in Link |-> "none"]
  /\ daemon = [d \in Daemon |-> "none"] /\ path = None
  /\ exit = "no"
  /\ bounds = [requests |-> 0, links |-> 0, daemons |-> 0, restarts |-> 0]

Alive(d) == d # None /\ daemon[d] \in {"starting", "serving"}
Serving == path # None /\ daemon[path] = "serving"
Free == lock = None

-----------------------------------------------------------------------------
(* A call *)

\* Any public method: a request number, and its place in _pending, come first.
\* Threads differ in nothing: the first idle one calls.
Begin ==
  /\ \E t \in Thread : thread[t].at = "idle"
  /\ bounds.requests < MaxRequests
  /\ LET t == CHOOSE t \in Thread : thread[t].at = "idle"
         r == bounds.requests + 1
     IN /\ bounds' = [bounds EXCEPT !.requests = r]
        /\ pending' = pending \cup {r}
        /\ thread' = [thread EXCEPT ![t] = [at |-> "connect", id |-> r, sock |-> None]]
  /\ UNCHANGED <<client, lock, reply, wires, procs, exit>>

\* request's handler of an exception while it connects or sends.
Raise(t) ==
  /\ pending' = pending \ {thread[t].id}
  /\ thread' = [thread EXCEPT ![t].at = "raised", ![t].sock = None]
  /\ reply' = [reply EXCEPT ![thread[t].id] = "none"]

\* _open_socket and what follows it: a new generation with its reader.
Open(t) ==
  /\ Serving /\ bounds.links < MaxLinks
  /\ LET g == bounds.links + 1
     IN /\ bounds' = [bounds EXCEPT !.links = g]
        /\ client' = [client EXCEPT !.sock = g, !.gen = g, !.delay = FALSE]
        /\ link' = [link EXCEPT ![g] = [NoLink EXCEPT !.to = path, !.state = "open"]]
        /\ reader' = [reader EXCEPT ![g] = "reading"]
        /\ thread' = [thread EXCEPT ![t].at = "send", ![t].sock = g]
  /\ UNCHANGED <<pending, reply>>

OpenFails(t) ==
  /\ client' = [client EXCEPT !.delay = TRUE]
  /\ Raise(t)
  /\ UNCHANGED <<wires, bounds>>

\* _connect without a socket: nothing answers at the path, so a daemon is wanted;
\* or connecting fails otherwise.
Connect(t) ==
  /\ thread[t].at = "connect" /\ Free
  /\ \/ /\ client.closing \/ (client.sock = None /\ client.delay)
        /\ Raise(t)
        /\ UNCHANGED <<client, lock, wires, bounds>>
     \/ /\ ~client.closing /\ client.sock # None
        /\ thread' = [thread EXCEPT ![t].at = "send", ![t].sock = client.sock]
        /\ UNCHANGED <<client, lock, pending, reply, wires, bounds>>
     \/ /\ ~client.closing /\ client.sock = None /\ ~client.delay
        /\ \/ Open(t) /\ UNCHANGED lock
           \/ Serving /\ OpenFails(t) /\ UNCHANGED lock
           \/ /\ ~Serving
              /\ lock' = t
              /\ thread' = [thread EXCEPT ![t].at = "ensure"]
              /\ UNCHANGED <<client, pending, reply, wires, bounds>>
  /\ UNCHANGED <<procs, exit>>

\* The process this client launched still runs, or somebody serves the path.
Launched == Alive(client.process) \/ Serving

\* _ensure_managed_daemon: a running process is left alone, otherwise one is
\* launched, unless the binary is not there.
Ensure(t) ==
  /\ thread[t].at = "ensure"
  /\ \/ /\ Launched
        /\ client' = [client EXCEPT !.process = IF Alive(@) THEN @ ELSE None]
        /\ thread' = [thread EXCEPT ![t].at = "reopen"]
        /\ UNCHANGED <<lock, pending, reply, procs, bounds>>
     \/ /\ ~Launched /\ bounds.daemons < MaxDaemons
        /\ LET d == bounds.daemons + 1
           IN /\ bounds' = [bounds EXCEPT !.daemons = d]
              /\ client' = [client EXCEPT !.process = d]
              /\ daemon' = [daemon EXCEPT ![d] = "starting"]
        /\ path' = None
        /\ thread' = [thread EXCEPT ![t].at = "launch"]
        /\ UNCHANGED <<lock, pending, reply>>
     \/ /\ ~Launched
        /\ client' = [client EXCEPT !.process = None]
        /\ Raise(t) /\ lock' = None /\ UNCHANGED <<procs, bounds>>
  /\ UNCHANGED <<wires, exit>>

\* The wait for a launched daemon: it answers, or it ended or takes too long.
Await(t) ==
  /\ thread[t].at = "launch"
  /\ \/ Serving /\ thread' = [thread EXCEPT ![t].at = "reopen"] /\ UNCHANGED <<lock, pending, reply>>
     \/ ~Serving /\ Raise(t) /\ lock' = None
  /\ UNCHANGED <<client, wires, procs, exit, bounds>>

Reopen(t) ==
  /\ thread[t].at = "reopen"
  /\ lock' = None
  /\ Open(t) \/ OpenFails(t)
  /\ UNCHANGED <<procs, exit>>

Send(t) ==
  LET g == thread[t].sock
  IN /\ thread[t].at = "send"
     /\ \/ /\ link[g].state # "closed"
           /\ link' = [link EXCEPT ![g].out = IF link[g].state = "open" THEN Append(@, thread[t].id) ELSE @]
           /\ thread' = [thread EXCEPT ![t].at = "wait"]
           /\ UNCHANGED <<pending, reply>>
        \/ link[g].state # "open" /\ Raise(t) /\ UNCHANGED link
     /\ UNCHANGED <<client, lock, reader, procs, exit, bounds>>

\* The event of the reply is set: the call returns or raises.
Return(t) ==
  /\ thread[t].at = "wait" /\ reply[thread[t].id] # "none"
  /\ thread' = [thread EXCEPT ![t] = Quiet] /\ reply' = [reply EXCEPT ![thread[t].id] = "none"]
  /\ UNCHANGED <<client, lock, pending, wires, procs, exit, bounds>>

\* Mutant: a request that timed out stays among the pending ones.
ExpireKept(t) ==
  /\ pending' = pending
  /\ thread' = [thread EXCEPT ![t].at = "drop", ![t].sock = None]

Expire(t) ==
  /\ pending' = pending \ {thread[t].id}
  /\ thread' = [thread EXCEPT ![t].at = "drop", ![t].sock = None]

\* Mutant: a call waits for its answer without a limit.
TimeOutNever(t) == FALSE

TimeOut(t) ==
  /\ thread[t].at = "wait" /\ reply[thread[t].id] = "none"
  /\ Expire(t)
  /\ UNCHANGED <<client, lock, reply, wires, procs, exit, bounds>>

\* After an exception: is there a connection (whoever made it) to drop?
Connected(t) ==
  /\ thread[t].at = "raised" /\ Free
  /\ thread' = [thread EXCEPT ![t] = IF client.sock # None THEN [@ EXCEPT !.at = "drop"] ELSE Quiet]
  /\ UNCHANGED <<client, lock, pending, reply, wires, procs, exit, bounds>>

-----------------------------------------------------------------------------
(* _disconnect: the socket is forgotten under the lock, closed after it, and    *)
(* every pending request is failed.                                             *)

Forget == client' = [client EXCEPT !.sock = None, !.delay = TRUE]
Closed(g) == IF g = None THEN link ELSE [link EXCEPT ![g].state = "closed", ![g].out = <<>>]
FailPending ==
  /\ reply' = [r \in Request |-> IF r \in pending THEN "error" ELSE reply[r]]
  /\ pending' = {}

Drop(t) ==
  /\ thread[t].at = "drop" /\ Free
  /\ Forget
  /\ thread' = [thread EXCEPT ![t].at = "fail", ![t].sock = client.sock]
  /\ UNCHANGED <<lock, pending, reply, wires, procs, exit, bounds>>
Fail(t) ==
  /\ thread[t].at = "fail"
  /\ link' = Closed(thread[t].sock)
  /\ FailPending
  /\ thread' = [thread EXCEPT ![t] = Quiet]
  /\ UNCHANGED <<client, lock, reader, procs, exit, bounds>>

Call(t) ==
  \/ Connect(t) \/ Ensure(t) \/ Await(t) \/ Reopen(t) \/ Send(t)
  \/ Return(t) \/ TimeOut(t) \/ Connected(t) \/ Drop(t) \/ Fail(t)

-----------------------------------------------------------------------------
(* The reader of connection g *)

\* Lines already received are handled even after the socket was closed.
Handle(g) ==
  /\ reader[g] = "reading" /\ link[g].in # <<>>
  /\ LET r == Head(link[g].in)
     IN \/ /\ r \in pending
           /\ pending' = pending \ {r} /\ reply' = [reply EXCEPT ![r] = "answer"]
        \/ r \notin pending /\ UNCHANGED <<pending, reply>>
  /\ link' = [link EXCEPT ![g].in = Tail(@)]
  /\ UNCHANGED <<client, lock, thread, reader, procs, exit, bounds>>

\* The connection broke or was closed; or the reader sees _closing, no error.
ReaderEnds(g) ==
  /\ reader[g] = "reading"
  /\ \/ link[g].state # "open" /\ reader' = [reader EXCEPT ![g] = "drop"]
     \/ client.closing /\ reader' = [reader EXCEPT ![g] = "leave"]
  /\ link' = [link EXCEPT ![g].in = <<>>]
  /\ UNCHANGED <<client, lock, calls, procs, exit, bounds>>

\* Mutant: the reader drops whatever connection there is.
OwnAny(g) == TRUE

\* Only the reader of the newest generation may disconnect.
Own(g) == g = client.gen
ReaderDrops(g) ==
  /\ reader[g] = "drop" /\ Free
  /\ \/ Own(g) /\ Forget /\ link' = Closed(client.sock) /\ reader' = [reader EXCEPT ![g] = "fail"]
     \/ ~Own(g) /\ reader' = [reader EXCEPT ![g] = "ended"] /\ UNCHANGED <<client, link>>
  /\ UNCHANGED <<lock, calls, procs, exit, bounds>>
\* Without an error nothing is failed and no delay begins.
ReaderLeaves(g) ==
  /\ reader[g] = "leave" /\ Free
  /\ reader' = [reader EXCEPT ![g] = "ended"]
  /\ \/ Own(g) /\ client' = [client EXCEPT !.sock = None] /\ link' = Closed(client.sock)
     \/ ~Own(g) /\ UNCHANGED <<client, link>>
  /\ UNCHANGED <<lock, calls, procs, exit, bounds>>
ReaderFails(g) ==
  /\ reader[g] = "fail"
  /\ FailPending
  /\ reader' = [reader EXCEPT ![g] = "ended"]
  /\ UNCHANGED <<client, lock, thread, link, procs, exit, bounds>>

Reader(g) == Handle(g) \/ ReaderEnds(g) \/ ReaderDrops(g) \/ ReaderLeaves(g) \/ ReaderFails(g)

-----------------------------------------------------------------------------
(* The daemon processes, and the end of the application *)

Broken(d) == [g \in Link |-> IF link[g].to = d /\ link[g].state = "open"
                             THEN [link[g] EXCEPT !.state = "broken", !.out = <<>>] ELSE link[g]]

DaemonServes(d) ==
  /\ daemon[d] = "starting"
  /\ daemon' = [daemon EXCEPT ![d] = "serving"] /\ path' = d
  /\ UNCHANGED <<client, lock, calls, wires, exit, bounds>>

Answer(g) ==
  /\ link[g].state = "open" /\ link[g].out # <<>>
  /\ link' = [link EXCEPT ![g].in = Append(@, Head(link[g].out)), ![g].out = Tail(@)]
  /\ UNCHANGED <<client, lock, calls, reader, procs, exit, bounds>>

\* It crashes: nothing listens at the path any more.
DaemonDies(d) ==
  /\ Alive(d)
  /\ daemon' = [daemon EXCEPT ![d] = "dead"]
  /\ link' = Broken(d)
  /\ path' = IF path = d THEN None ELSE path
  /\ UNCHANGED <<client, lock, calls, reader, exit, bounds>>

\* A daemon whose parent died unlinks the path again when it ends.
DaemonLeaves(d) ==
  /\ daemon[d] = "leaving"
  /\ daemon' = [daemon EXCEPT ![d] = "dead"]
  /\ path' = None
  /\ UNCHANGED <<client, lock, calls, wires, exit, bounds>>

\* The application is killed and started again; its daemon gets SIGTERM, stops
\* listening and unlinks the path at once.
Restart ==
  /\ bounds.restarts < MaxRestarts
  /\ bounds' = [bounds EXCEPT !.restarts = @ + 1]
  /\ client' = [Fresh EXCEPT !.gen = client.gen] /\ lock' = None
  /\ pending' = {} /\ thread' = [t \in Thread |-> Quiet]
  /\ link' = [g \in Link |-> IF link[g].state = "none" THEN link[g] ELSE [NoLink EXCEPT !.state = "closed"]]
  /\ reader' = [g \in Link |-> IF reader[g] = "none" THEN "none" ELSE "ended"]
  /\ daemon' = [d \in Daemon |-> IF Alive(d) THEN "leaving" ELSE daemon[d]]
  /\ path' = None
  /\ exit' = "no"
  /\ reply' = [r \in Request |-> "none"]

\* Mutant: close() leaves the reconnect open.
ClosingForgotten == Free /\ client' = client

\* close(), at exit.
Closing == Free /\ client' = [client EXCEPT !.closing = TRUE]
Close ==
  /\ exit = "no" /\ Closing
  /\ exit' = "drop"
  /\ UNCHANGED <<lock, calls, wires, procs, bounds>>
CloseDrops ==
  /\ exit = "drop" /\ Free
  /\ Forget /\ link' = Closed(client.sock)
  /\ exit' = "fail"
  /\ UNCHANGED <<lock, calls, reader, procs, bounds>>
CloseFails ==
  /\ exit = "fail"
  /\ FailPending
  /\ exit' = "stop"
  /\ UNCHANGED <<client, lock, thread, wires, procs, bounds>>

\* _stop_managed_daemon: SIGTERM and, after five seconds, SIGKILL.
StopDaemon ==
  /\ exit = "stop"
  /\ client' = [client EXCEPT !.process = None]
  /\ \/ /\ Alive(client.process)
        /\ daemon' = [daemon EXCEPT ![client.process] = "dead"]
        /\ link' = Broken(client.process)
        /\ path' = None
     \/ ~Alive(client.process) /\ UNCHANGED <<daemon, link, path>>
  /\ exit' = "done"
  /\ UNCHANGED <<lock, calls, reader, bounds>>
Exit == Close \/ CloseDrops \/ CloseFails \/ StopDaemon

\* The reconnect delay has passed.
DelayPasses ==
  /\ client.delay
  /\ client' = [client EXCEPT !.delay = FALSE]
  /\ UNCHANGED <<lock, calls, wires, procs, exit, bounds>>

Next ==
  \/ Begin \/ \E t \in Thread : Call(t)
  \/ \E g \in Link : Reader(g) \/ Answer(g)
  \/ \E d \in Daemon : DaemonServes(d) \/ DaemonDies(d) \/ DaemonLeaves(d)
  \/ Restart \/ Exit \/ DelayPasses

\* Threads run; nothing obliges a daemon to start, to answer or to end.
Fairness ==
  /\ \A t \in Thread : WF_vars(Call(t))
  /\ \A g \in Link : WF_vars(Reader(g))

Spec == Init /\ [][Next]_vars
FairSpec == Spec /\ Fairness

-----------------------------------------------------------------------------
(* Properties *)

\* Types; who holds the lock is starting a daemon, and what is connected has a
\* reader.
TypeOK ==
  /\ client \in [closing : BOOLEAN, sock : Link \cup {None}, gen : Link \cup {0}, delay : BOOLEAN,
                process : Daemon \cup {None}]
  /\ lock \in Thread \cup {None} /\ pending \subseteq Request
  /\ reply \in [Request -> {"none", "answer", "error"}]
  /\ thread \in [Thread -> [at : {"idle", "connect", "ensure", "launch", "reopen", "send", "wait",
                                "raised", "drop", "fail"},
                          id : Request \cup {None}, sock : Link \cup {None}]]
  /\ \A t \in Thread :
       /\ thread[t].at = "idle" <=> thread[t].id = None
       /\ thread[t].at \in {"ensure", "launch", "reopen"} <=> lock = t
       /\ thread[t].at \in {"send", "wait"} => thread[t].sock # None
  /\ link \in [Link -> [to : Daemon \cup {None}, state : {"none", "open", "broken", "closed"},
                      out : Seq(Request), in : Seq(Request)]]
  /\ reader \in [Link -> {"none", "reading", "drop", "leave", "fail", "ended"}]
  /\ client.sock # None => reader[client.sock] # "none"
  /\ daemon \in [Daemon -> {"none", "starting", "serving", "leaving", "dead"}]
  /\ path \in Daemon \cup {None} /\ exit \in {"no", "drop", "fail", "stop", "done"}
  /\ bounds \in [requests : 0..MaxRequests, links : 0..MaxLinks, daemons : 0..MaxDaemons, restarts : 0..MaxRestarts]

\* A request in _pending is one that somebody still waits for: none is left
\* behind by a time-out, an exception or a disconnect (request, _fail_pending).
NoPendingLeft ==
  \A r \in pending : \E t \in Thread :
    thread[t].id = r /\ thread[t].at \in {"connect", "ensure", "launch", "reopen", "send", "wait"}

\* The two as one invariant: what a call left behind is the matter of a call that
\* goes on, in every failure.
CallInv == TypeOK /\ NoPendingLeft

\* However many threads find no daemon, or a slow one, at most one process that
\* this application launched runs (_ensure_managed_daemon); after close() there is
\* none, and no connection, whoever was connecting.
OneDaemon ==
  /\ Cardinality({d \in Daemon : Alive(d)}) <= 1
  /\ exit = "done" => client.sock = None /\ \A d \in Daemon : ~Alive(d)

\* A connection that still works is not dropped for another one's sake, but by
\* close() or by a call that raised: the reader of an older connection, which
\* may end much later, leaves it alone.
DroppedForCause ==
  [][LET g == client.sock
     IN g # None /\ client'.sock # g =>
          \/ link[g].state # "open" \/ client.closing \/ bounds'.restarts # bounds.restarts
          \/ \E t \in Thread : thread[t].at = "drop"]_vars

\* Every call returns or raises, also while another thread starts a daemon that
\* never answers.
CallReturns == \A t \in Thread : thread[t].at # "idle" ~> thread[t].at = "idle"
=============================================================================
