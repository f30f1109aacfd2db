------------------------ MODULE NativeClient_proofs ------------------------
(***************************************************************************)
(* Theorems about NativeClient, for any number of threads, requests,       *)
(* connections and daemons: no request is left behind among the pending    *)
(* ones, at most one daemon of the application runs and none survives      *)
(* close(), and a connection is dropped only for its own sake.             *)
(***************************************************************************)
EXTENDS NativeClient, FiniteSetTheorems, TLAPS

(* The parts of TypeOK, and what the three theorems need besides. *)

ClientType ==
  client \in [closing : BOOLEAN, sock : Link \cup {None}, gen : Link \cup {0}, delay : BOOLEAN,
              process : Daemon \cup {None}]
Places == {"idle", "connect", "ensure", "launch", "reopen", "send", "wait", "raised", "drop", "fail"}
ThreadType ==
  thread \in [Thread -> [at : Places, id : Request \cup {None}, sock : Link \cup {None}]]
ThreadShape ==
  \A t \in Thread :
    /\ thread[t].at = "idle" <=> thread[t].id = None
    /\ thread[t].at \in {"ensure", "launch", "reopen"} <=> lock = t
    /\ thread[t].at \in {"send", "wait"} => thread[t].sock # None
CallType ==
  lock \in Thread \cup {None} /\ pending \subseteq Request /\ reply \in [Request -> {"none", "answer", "error"}]
LinkType ==
  link \in [Link -> [to : Daemon \cup {None}, state : {"none", "open", "broken", "closed"},
                     out : Seq(Request), in : Seq(Request)]]
ReaderType ==
  /\ reader \in [Link -> {"none", "reading", "drop", "leave", "fail", "ended"}]
  /\ client.sock # None => reader[client.sock] # "none"
ProcType ==
  /\ daemon \in [Daemon -> {"none", "starting", "serving", "leaving", "dead"}]
  /\ path \in Daemon \cup {None} /\ exit \in {"no", "drop", "fail", "stop", "done"}
BoundType ==
  bounds \in [requests : 0..MaxRequests, links : 0..MaxLinks, daemons : 0..MaxDaemons, restarts : 0..MaxRestarts]

\* A reply is set for a request that left _pending, and requests are numbered in
\* the order they begin.
Numbered ==
  /\ \A r \in pending : r <= bounds.requests
  /\ \A r \in Request : reply[r] # "none" => r \notin pending /\ r <= bounds.requests

\* A process that lives is the one _daemon_process names; and while a thread
\* starts one, or after close() has begun, nobody else connects.
Owned ==
  /\ \A d \in Daemon : Alive(d) => client.process = d
  /\ exit # "no" => client.closing
  /\ client.closing => lock = None
  /\ exit \in {"fail", "stop", "done"} => client.sock = None
  /\ exit = "done" => client.process = None

\* The socket is that of the newest generation, a thread that starts a daemon
\* found none, and a reader disconnects only after its connection ended.
Generations ==
  /\ client.sock # None => client.sock = client.gen
  /\ lock # None => client.sock = None
  /\ \A g \in Link : reader[g] = "drop" => link[g].state # "open"
  /\ \A g \in Link : reader[g] = "leave" => client.closing

LEMMA TypeParts ==
  TypeOK <=> /\ ClientType /\ CallType /\ ThreadType /\ ThreadShape /\ LinkType
             /\ ReaderType /\ ProcType /\ BoundType
BY DEF TypeOK, ClientType, CallType, ThreadType, ThreadShape, Places, LinkType, ReaderType, ProcType, BoundType

LEMMA TypePartsNext ==
  TypeOK' <=> /\ ClientType' /\ CallType' /\ ThreadType' /\ ThreadShape' /\ LinkType'
              /\ ReaderType' /\ ProcType' /\ BoundType'
BY DEF TypeOK, ClientType, CallType, ThreadType, ThreadShape, Places, LinkType, ReaderType, ProcType, BoundType

Inv == TypeOK /\ NoPendingLeft /\ Numbered /\ Owned /\ Generations

\* What a step does to its own thread, and leaves alone.
Moved(t, a, i, g) ==
  /\ ThreadType'
  /\ thread'[t].at = a /\ thread'[t].id = i /\ thread'[t].sock = g
  /\ \A u \in Thread : u # t => thread'[u] = thread[u]

LEMMA MoveAt ==
  ASSUME ThreadType, NEW t \in Thread, NEW a \in Places, thread' = [thread EXCEPT ![t].at = a]
  PROVE  Moved(t, a, thread[t].id, thread[t].sock)
BY DEF ThreadType, Moved

LEMMA MoveAtSock ==
  ASSUME ThreadType, NEW t \in Thread, NEW a \in Places, NEW g \in Link \cup {None},
         thread' = [thread EXCEPT ![t].at = a, ![t].sock = g]
  PROVE  Moved(t, a, thread[t].id, g)
BY DEF ThreadType, Moved

LEMMA MoveQuiet ==
  ASSUME ThreadType, NEW t \in Thread, thread' = [thread EXCEPT ![t] = Quiet]
  PROVE  Moved(t, "idle", None, None)
BY DEF ThreadType, Moved, Quiet, Places

-----------------------------------------------------------------------------
(* The steps, sorted by what they do to the calls: to the threads, their    *)
(* requests and the lock.                                                   *)

Waiting == {"connect", "ensure", "launch", "reopen", "send", "wait"}
Starting == {"ensure", "launch", "reopen"}

SameCount == bounds'.requests = bounds.requests
SameCalls == UNCHANGED <<pending, reply, thread, lock>> /\ SameCount

Begins ==
  \E t \in Thread :
    /\ bounds'.requests = bounds.requests + 1 /\ bounds.requests < MaxRequests
    /\ thread[t].at = "idle" /\ Moved(t, "connect", bounds.requests + 1, None)
    /\ pending' = pending \cup {bounds.requests + 1}
    /\ UNCHANGED <<reply, lock>>

GoesOn(t) ==
  \E a \in Waiting, g \in Link \cup {None} :
    /\ thread[t].at \in Waiting /\ Moved(t, a, thread[t].id, g)
    /\ a \in {"send", "wait"} => g # None
    /\ a \in Starting => lock \in {t, None}
    /\ lock' = IF a \in Starting THEN t ELSE IF thread[t].at \in Starting THEN None ELSE lock
    /\ UNCHANGED <<pending, reply>> /\ SameCount

Raises(t) ==
  /\ thread[t].at \in Waiting /\ Moved(t, "raised", thread[t].id, None)
  /\ pending' = pending \ {thread[t].id}
  /\ reply' = [reply EXCEPT ![thread[t].id] = "none"]
  /\ lock' = IF thread[t].at \in Starting THEN None ELSE lock
  /\ SameCount

\* A call that need not wait any more.
Leaves(t) ==
  /\ thread[t].at \in {"wait", "raised", "drop"}
  /\ \E g \in Link \cup {None} :
       \/ \E a \in {"drop", "fail"} : Moved(t, a, thread[t].id, g)
       \/ Moved(t, "idle", None, g)
  /\ thread[t].at = "wait" => thread[t].id \notin pending'
  /\ pending' \in {pending, pending \ {thread[t].id}}
  /\ reply' \in {reply, [reply EXCEPT ![thread[t].id] = "none"]}
  /\ UNCHANGED lock /\ SameCount

FailsAll ==
  /\ FailPending
  /\ \/ UNCHANGED thread
     \/ \E t \in Thread : thread[t].at = "fail" /\ Moved(t, "idle", None, None)
  /\ UNCHANGED lock /\ SameCount

Answers ==
  /\ \E r \in pending : pending' = pending \ {r} /\ reply' = [reply EXCEPT ![r] = "answer"]
  /\ UNCHANGED <<thread, lock>> /\ SameCount

StartsAgain ==
  /\ lock' = None /\ pending' = {} /\ thread' = [t \in Thread |-> Quiet]
  /\ reply' = [r \in Request |-> "none"] /\ SameCount

Shaped == CallType /\ ThreadType /\ ThreadShape /\ BoundType
Kept == CallType /\ ThreadType /\ ThreadShape /\ NoPendingLeft /\ Numbered

LEMMA Ids ==
  ASSUME Shaped, NEW t \in Thread, thread[t].at # "idle"
  PROVE  thread[t].id \in Request /\ thread[t].id # None
BY DEF Shaped, ThreadType, ThreadShape, Request, None

LEMMA BeginKind ==
  ASSUME Shaped, Begin
  PROVE  Begins
<1> DEFINE t == CHOOSE t \in Thread : thread[t].at = "idle"
           r == bounds.requests + 1
<1>1. t \in Thread /\ thread[t].at = "idle"
  BY DEF Begin
<1>2. /\ bounds.requests < MaxRequests /\ bounds' = [bounds EXCEPT !.requests = r]
      /\ pending' = pending \cup {r}
      /\ thread' = [thread EXCEPT ![t] = [at |-> "connect", id |-> r, sock |-> None]]
      /\ UNCHANGED <<reply, lock>>
  BY DEF Begin
<1>3. bounds.requests \in 0..MaxRequests /\ r \in Request /\ bounds'.requests = r
  BY <1>2, ClientAssumption DEF Shaped, BoundType, Request
<1> HIDE DEF t, r
<1>4. Moved(t, "connect", r, None)
  BY <1>1, <1>2, <1>3 DEF Shaped, ThreadType, Moved, Places
<1> QED
  BY <1>1, <1>2, <1>3, <1>4 DEF Begins, r

LEMMA OpenKind ==
  ASSUME Shaped, NEW t \in Thread, Open(t)
  PROVE  /\ \E g \in Link : Moved(t, "send", thread[t].id, g)
         /\ UNCHANGED <<pending, reply>> /\ SameCount
<1> DEFINE g == bounds.links + 1
<1>1. /\ bounds.links < MaxLinks /\ bounds' = [bounds EXCEPT !.links = g]
      /\ thread' = [thread EXCEPT ![t].at = "send", ![t].sock = g]
      /\ UNCHANGED <<pending, reply>>
  BY DEF Open
<1>2. g \in Link
  BY <1>1, ClientAssumption DEF Shaped, BoundType, Link
<1>3. SameCount
  BY <1>1 DEF SameCount, Shaped, BoundType
<1> HIDE DEF g
<1>4. Moved(t, "send", thread[t].id, g)
  BY <1>1, <1>2, MoveAtSock DEF Shaped, Places
<1> QED
  BY <1>1, <1>2, <1>3, <1>4

LEMMA RaiseKind ==
  ASSUME Shaped, NEW t \in Thread, Raise(t)
  PROVE  /\ Moved(t, "raised", thread[t].id, None)
         /\ pending' = pending \ {thread[t].id}
         /\ reply' = [reply EXCEPT ![thread[t].id] = "none"]
BY MoveAtSock DEF Raise, Shaped, Places

LEMMA ConnectKind ==
  ASSUME Shaped, ClientType, NEW t \in Thread, Connect(t)
  PROVE  GoesOn(t) \/ Raises(t)
<1>1. thread[t].at = "connect" /\ lock = None /\ thread[t].sock \in Link \cup {None}
  BY DEF Connect, Free, Shaped, ThreadType
<1>2. CASE Raise(t) /\ UNCHANGED <<lock, bounds>>
  BY <1>1, <1>2, RaiseKind DEF Raises, Waiting, Starting, SameCount
<1>3. CASE /\ client.sock # None
           /\ thread' = [thread EXCEPT ![t].at = "send", ![t].sock = client.sock]
           /\ UNCHANGED <<lock, pending, reply, bounds>>
  <2>1. client.sock \in Link \cup {None}
    BY DEF ClientType
  <2>2. Moved(t, "send", thread[t].id, client.sock)
    BY <1>3, <2>1, MoveAtSock DEF Shaped, Places
  <2> QED
    BY <1>1, <1>3, <2>1, <2>2 DEF GoesOn, Waiting, Starting, SameCount
<1>4. CASE Open(t) /\ UNCHANGED lock
  <2>1. PICK g \in Link : Moved(t, "send", thread[t].id, g)
    BY <1>4, OpenKind
  <2>2. g # None
    BY DEF Link, None
  <2> QED
    BY <1>1, <1>4, <2>1, <2>2, OpenKind DEF GoesOn, Waiting, Starting
<1>5. CASE /\ lock' = t /\ thread' = [thread EXCEPT ![t].at = "ensure"]
           /\ UNCHANGED <<pending, reply, bounds>>
  <2>1. Moved(t, "ensure", thread[t].id, thread[t].sock)
    BY <1>5, MoveAt DEF Shaped, Places
  <2> QED
    BY <1>1, <1>5, <2>1 DEF GoesOn, Waiting, Starting, SameCount
<1> QED
  BY <1>2, <1>3, <1>4, <1>5 DEF Connect, OpenFails

LEMMA EnsureKind ==
  ASSUME Shaped, NEW t \in Thread, Ensure(t)
  PROVE  GoesOn(t) \/ Raises(t)
<1>1. thread[t].at = "ensure" /\ lock = t /\ thread[t].sock \in Link \cup {None}
  BY DEF Ensure, Shaped, ThreadType, ThreadShape
<1>2. ASSUME NEW a \in {"reopen", "launch"}, thread' = [thread EXCEPT ![t].at = a],
             UNCHANGED <<lock, pending, reply>>, SameCount
      PROVE  GoesOn(t)
  <2>1. Moved(t, a, thread[t].id, thread[t].sock)
    BY <1>2, MoveAt DEF Shaped, Places
  <2> QED
    BY <1>1, <1>2, <2>1 DEF GoesOn, Waiting, Starting
<1>3. ASSUME NEW n, bounds' = [bounds EXCEPT !.daemons = n]
      PROVE  SameCount
  BY <1>3 DEF Shaped, BoundType, SameCount
<1>4. CASE Raise(t) /\ lock' = None /\ UNCHANGED bounds
  BY <1>1, <1>4, RaiseKind DEF Raises, Waiting, Starting, SameCount
<1>5. UNCHANGED bounds => SameCount
  BY DEF SameCount
<1> QED
  BY <1>2, <1>3, <1>4, <1>5 DEF Ensure

LEMMA AwaitKind ==
  ASSUME Shaped, NEW t \in Thread, Await(t)
  PROVE  GoesOn(t) \/ Raises(t)
<1>1. /\ thread[t].at = "launch" /\ lock = t /\ thread[t].sock \in Link \cup {None}
      /\ SameCount
  BY DEF Await, Shaped, ThreadType, ThreadShape, SameCount
<1>2. CASE thread' = [thread EXCEPT ![t].at = "reopen"] /\ UNCHANGED <<lock, pending, reply>>
  <2>1. Moved(t, "reopen", thread[t].id, thread[t].sock)
    BY <1>2, MoveAt DEF Shaped, Places
  <2> QED
    BY <1>1, <1>2, <2>1 DEF GoesOn, Waiting, Starting
<1>3. CASE Raise(t) /\ lock' = None
  BY <1>1, <1>3, RaiseKind DEF Raises, Waiting, Starting
<1> QED
  BY <1>2, <1>3 DEF Await

LEMMA ReopenKind ==
  ASSUME Shaped, NEW t \in Thread, Reopen(t)
  PROVE  GoesOn(t) \/ Raises(t)
<1>1. thread[t].at = "reopen" /\ lock = t /\ lock' = None
  BY DEF Reopen, Shaped, ThreadShape
<1>2. CASE Open(t)
  <2>1. PICK g \in Link : Moved(t, "send", thread[t].id, g)
    BY <1>2, OpenKind
  <2>2. g # None
    BY DEF Link, None
  <2> QED
    BY <1>1, <1>2, <2>1, <2>2, OpenKind DEF GoesOn, Waiting, Starting
<1>3. CASE OpenFails(t)
  BY <1>1, <1>3, RaiseKind DEF OpenFails, Raises, Waiting, Starting, SameCount
<1> QED
  BY <1>2, <1>3 DEF Reopen

LEMMA SendKind ==
  ASSUME Shaped, NEW t \in Thread, Send(t)
  PROVE  GoesOn(t) \/ Raises(t)
<1>1. /\ thread[t].at = "send" /\ thread[t].sock \in Link \cup {None} /\ thread[t].sock # None
      /\ UNCHANGED lock /\ SameCount
  BY DEF Send, Shaped, ThreadType, ThreadShape, SameCount
<1>2. CASE thread' = [thread EXCEPT ![t].at = "wait"] /\ UNCHANGED <<pending, reply>>
  <2>1. Moved(t, "wait", thread[t].id, thread[t].sock)
    BY <1>2, MoveAt DEF Shaped, Places
  <2> QED
    BY <1>1, <1>2, <2>1 DEF GoesOn, Waiting, Starting
<1>3. CASE Raise(t)
  BY <1>1, <1>3, RaiseKind DEF Raises, Waiting, Starting
<1> QED
  BY <1>2, <1>3 DEF Send

LEMMA LeavesKind ==
  ASSUME Shaped, Numbered, ClientType, NEW t \in Thread,
         Return(t) \/ TimeOut(t) \/ Connected(t) \/ Drop(t)
  PROVE  Leaves(t)
<1>1. CASE Return(t)
  <2>1. Moved(t, "idle", None, None)
    BY <1>1, MoveQuiet DEF Return, Shaped
  <2>2. thread[t].id \notin pending
    BY <1>1, Ids DEF Return, Numbered
  <2> QED
    BY <1>1, <2>1, <2>2 DEF Return, Leaves, SameCount
<1>2. CASE TimeOut(t)
  <2>1. Moved(t, "drop", thread[t].id, None)
    BY <1>2, MoveAtSock DEF TimeOut, Expire, Shaped, Places
  <2> QED
    BY <1>2, <2>1 DEF TimeOut, Expire, Leaves, SameCount
<1>3. CASE Connected(t)
  <2>1. thread[t].sock \in Link \cup {None} /\ thread[t] \in [at : Places, id : Request \cup {None}, sock : Link \cup {None}]
    BY DEF Shaped, ThreadType
  <2>2. CASE client.sock # None
    <3>1. Moved(t, "drop", thread[t].id, thread[t].sock)
      BY <1>3, <2>2, <2>1 DEF Connected, Shaped, ThreadType, Moved, Places
    <3> QED
      BY <1>3, <2>1, <3>1 DEF Connected, Leaves, SameCount
  <2>3. CASE client.sock = None
    <3>1. Moved(t, "idle", None, None)
      BY <1>3, <2>3, MoveQuiet DEF Connected, Shaped
    <3> QED
      BY <1>3, <3>1 DEF Connected, Leaves, SameCount
  <2> QED
    BY <2>2, <2>3
<1>4. CASE Drop(t)
  <2>1. client.sock \in Link \cup {None}
    BY DEF ClientType
  <2>2. Moved(t, "fail", thread[t].id, client.sock)
    BY <1>4, <2>1, MoveAtSock DEF Drop, Shaped, Places
  <2> QED
    BY <1>4, <2>1, <2>2 DEF Drop, Leaves, SameCount
<1> QED
  BY <1>1, <1>2, <1>3, <1>4

LEMMA FailKind ==
  ASSUME Shaped, NEW t \in Thread, Fail(t)
  PROVE  FailsAll
BY MoveQuiet DEF Fail, Shaped, FailsAll, SameCount

LEMMA OtherKind ==
  ASSUME Shaped,
         \/ \E g \in Link : Reader(g) \/ Answer(g)
         \/ \E d \in Daemon : DaemonServes(d) \/ DaemonDies(d) \/ DaemonLeaves(d)
         \/ Exit \/ DelayPasses
  PROVE  SameCalls \/ Answers \/ FailsAll
<1>1. ASSUME NEW g \in Link, Handle(g)
      PROVE  SameCalls \/ Answers
  BY <1>1 DEF Handle, SameCalls, Answers, SameCount
<1>2. ASSUME NEW g \in Link, ReaderEnds(g) \/ ReaderDrops(g) \/ ReaderLeaves(g) \/ Answer(g)
      PROVE  SameCalls
  BY <1>2 DEF ReaderEnds, ReaderDrops, ReaderLeaves, Answer, SameCalls, SameCount, calls
<1>3. ASSUME NEW g \in Link, ReaderFails(g)
      PROVE  FailsAll
  BY <1>3 DEF ReaderFails, FailsAll, SameCount
<1>4. ASSUME NEW d \in Daemon, DaemonServes(d) \/ DaemonDies(d) \/ DaemonLeaves(d)
      PROVE  SameCalls
  BY <1>4 DEF DaemonServes, DaemonDies, DaemonLeaves, SameCalls, SameCount, calls
<1>5. CASE Exit
  BY <1>5 DEF Exit, Close, CloseDrops, CloseFails, StopDaemon, SameCalls, FailsAll, SameCount, calls
<1>6. CASE DelayPasses
  BY <1>6 DEF DelayPasses, SameCalls, SameCount, calls
<1> QED
  BY <1>1, <1>2, <1>3, <1>4, <1>5, <1>6 DEF Reader

LEMMA RestartKind ==
  ASSUME Shaped, Restart
  PROVE  StartsAgain
BY DEF Restart, StartsAgain, SameCount, Shaped, BoundType

-----------------------------------------------------------------------------
(* Each kind keeps what is said of the calls. *)

LEMMA BeginsKeeps ==
  ASSUME Shaped, NoPendingLeft, Numbered, Begins
  PROVE  Kept'
<1> DEFINE r == bounds.requests + 1
<1>1. PICK t \in Thread :
        /\ bounds'.requests = r /\ bounds.requests < MaxRequests
        /\ thread[t].at = "idle" /\ Moved(t, "connect", r, None)
        /\ pending' = pending \cup {r} /\ UNCHANGED <<reply, lock>>
  BY DEF Begins
<1>2. r \in Request /\ r # None /\ bounds.requests \in Nat
  BY <1>1, ClientAssumption DEF Shaped, BoundType, Request, None
<1>3. CallType' /\ ThreadType'
  BY <1>1, <1>2 DEF Shaped, CallType, Moved
<1>4. ThreadShape'
  BY <1>1, <1>2 DEF Shaped, ThreadShape, Moved
<1>5. NoPendingLeft'
  BY <1>1 DEF NoPendingLeft, Moved
<1>6. Numbered'
  BY <1>1, <1>2, <1>3 DEF Numbered, Shaped, CallType, Request
<1> QED
  BY <1>3, <1>4, <1>5, <1>6 DEF Kept

LEMMA GoesOnKeeps ==
  ASSUME Shaped, NoPendingLeft, Numbered, NEW t \in Thread, GoesOn(t)
  PROVE  Kept'
<1>1. PICK a \in Waiting, g \in Link \cup {None} :
        /\ thread[t].at \in Waiting /\ Moved(t, a, thread[t].id, g)
        /\ a \in {"send", "wait"} => g # None
        /\ a \in Starting => lock \in {t, None}
        /\ lock' = IF a \in Starting THEN t ELSE IF thread[t].at \in Starting THEN None ELSE lock
        /\ UNCHANGED <<pending, reply>> /\ SameCount
  BY DEF GoesOn
<1>2. 0 \notin Thread
  BY ClientAssumption
<1>3. CallType' /\ ThreadType'
  BY <1>1 DEF Shaped, CallType, Moved
<1>4. ThreadShape'
  BY <1>1, <1>2, Ids DEF Shaped, ThreadShape, Moved, Waiting, Starting, None
<1>5. NoPendingLeft'
  BY <1>1 DEF NoPendingLeft, Moved, Waiting
<1>6. Numbered'
  BY <1>1 DEF Numbered, SameCount
<1> QED
  BY <1>3, <1>4, <1>5, <1>6 DEF Kept

\* Who gives up takes its own request out of _pending, and only that.
LEMMA OthersStillWait ==
  ASSUME Shaped, NoPendingLeft, NEW t \in Thread, NEW r \in pending, r # thread[t].id,
         \A u \in Thread : u # t => thread'[u] = thread[u]
  PROVE  \E u \in Thread : thread'[u].id = r /\ thread'[u].at \in Waiting
<1>1. PICK u \in Thread : thread[u].id = r /\ thread[u].at \in Waiting
  BY DEF NoPendingLeft, Waiting
<1> QED
  BY <1>1

LEMMA RaisesKeeps ==
  ASSUME Shaped, NoPendingLeft, Numbered, NEW t \in Thread, Raises(t)
  PROVE  Kept'
<1>1. /\ thread[t].at \in Waiting /\ Moved(t, "raised", thread[t].id, None)
      /\ pending' = pending \ {thread[t].id}
      /\ reply' = [reply EXCEPT ![thread[t].id] = "none"]
      /\ lock' = IF thread[t].at \in Starting THEN None ELSE lock
      /\ SameCount
  BY DEF Raises
<1>2. 0 \notin Thread
  BY ClientAssumption
<1>3. thread[t].id \in Request /\ thread[t].id # None
  BY <1>1, Ids DEF Waiting
<1>4. CallType' /\ ThreadType'
  BY <1>1, <1>3 DEF Shaped, CallType, Moved
<1>5. ThreadShape'
  BY <1>1, <1>2, <1>3 DEF Shaped, ThreadShape, Moved, Waiting, Starting, None
<1>6. NoPendingLeft'
  BY <1>1, OthersStillWait DEF NoPendingLeft, Moved, Waiting
<1>7. Numbered'
  BY <1>1, <1>3 DEF Numbered, SameCount, Shaped, CallType
<1> QED
  BY <1>4, <1>5, <1>6, <1>7 DEF Kept

LEMMA LeavesKeeps ==
  ASSUME Shaped, NoPendingLeft, Numbered, NEW t \in Thread, Leaves(t)
  PROVE  Kept'
<1>1. PICK g \in Link \cup {None}, a \in {"drop", "fail", "idle"} :
        Moved(t, a, IF a = "idle" THEN None ELSE thread[t].id, g)
  BY DEF Leaves
<1>2. /\ thread[t].at \in {"wait", "raised", "drop"}
      /\ thread[t].at = "wait" => thread[t].id \notin pending'
      /\ pending' \in {pending, pending \ {thread[t].id}}
      /\ reply' \in {reply, [reply EXCEPT ![thread[t].id] = "none"]}
      /\ UNCHANGED lock /\ SameCount
  BY DEF Leaves
<1>3. thread[t].id \in Request /\ thread[t].id # None
  BY <1>2, Ids
<1>4. CallType' /\ ThreadType'
  BY <1>1, <1>2, <1>3 DEF Shaped, CallType, Moved
<1>5. ThreadShape'
  BY <1>1, <1>2, <1>3 DEF Shaped, ThreadShape, Moved
<1>6. NoPendingLeft'
  <2> SUFFICES ASSUME NEW r \in pending'
               PROVE  \E u \in Thread : thread'[u].id = r /\ thread'[u].at \in Waiting
    BY DEF NoPendingLeft, Waiting
  <2>1. r \in pending
    BY <1>2
  <2>2. CASE r # thread[t].id
    BY <1>1, <2>1, <2>2, OthersStillWait DEF Moved
  <2>3. CASE r = thread[t].id
    <3>1. thread[t].at # "wait"
      BY <1>2, <2>3
    <3>2. PICK u \in Thread : thread[u].id = r /\ thread[u].at \in Waiting
      BY <2>1 DEF NoPendingLeft, Waiting
    <3> QED
      BY <1>1, <1>2, <3>1, <3>2 DEF Moved, Waiting
  <2> QED
    BY <2>2, <2>3
<1>7. Numbered'
  BY <1>2, <1>3 DEF Numbered, SameCount, Shaped, CallType
<1> QED
  BY <1>4, <1>5, <1>6, <1>7 DEF Kept

LEMMA FailsAllKeeps ==
  ASSUME Shaped, NoPendingLeft, Numbered, FailsAll
  PROVE  Kept'
<1>1. /\ reply' = [r \in Request |-> IF r \in pending THEN "error" ELSE reply[r]]
      /\ pending' = {} /\ UNCHANGED lock /\ SameCount
  BY DEF FailsAll, FailPending
<1>2. CallType' /\ Numbered'
  BY <1>1 DEF Shaped, CallType, Numbered, SameCount
<1>3. ThreadType' /\ ThreadShape'
  BY <1>1 DEF FailsAll, Shaped, ThreadType, ThreadShape, Moved
<1> QED
  BY <1>1, <1>2, <1>3 DEF Kept, NoPendingLeft

LEMMA AnswersKeeps ==
  ASSUME Shaped, NoPendingLeft, Numbered, Answers
  PROVE  Kept'
<1>1. PICK r \in pending : pending' = pending \ {r} /\ reply' = [reply EXCEPT ![r] = "answer"]
  BY DEF Answers
<1>2. UNCHANGED <<thread, lock>> /\ SameCount
  BY DEF Answers
<1>3. CallType' /\ ThreadType' /\ ThreadShape'
  BY <1>1, <1>2 DEF Shaped, CallType, ThreadType, ThreadShape
<1>4. NoPendingLeft' /\ Numbered'
  BY <1>1, <1>2 DEF Shaped, CallType, NoPendingLeft, Numbered, SameCount
<1> QED
  BY <1>3, <1>4 DEF Kept

LEMMA StartsAgainKeeps ==
  ASSUME StartsAgain
  PROVE  Kept'
<1>1. 0 \notin Thread
  BY ClientAssumption
<1>2. CallType' /\ ThreadType' /\ ThreadShape'
  BY <1>1 DEF StartsAgain, CallType, ThreadType, ThreadShape, Quiet, Places, None
<1> QED
  BY <1>2 DEF StartsAgain, NoPendingLeft, Numbered, Kept

LEMMA SameCallsKeeps ==
  ASSUME Shaped, NoPendingLeft, Numbered, SameCalls
  PROVE  Kept'
BY DEF Shaped, Kept, SameCalls, SameCount, CallType, ThreadType, ThreadShape, NoPendingLeft, Numbered

LEMMA CallsKeep ==
  ASSUME Inv, Next
  PROVE  Kept'
<1>1. Shaped /\ ClientType /\ NoPendingLeft /\ Numbered
  BY TypeParts DEF Inv, Shaped
<1>2. CASE Begin
  BY <1>1, <1>2, BeginKind, BeginsKeeps
<1>3. ASSUME NEW t \in Thread, Call(t)
      PROVE  Kept'
  <2>1. CASE Connect(t) \/ Ensure(t) \/ Await(t) \/ Reopen(t) \/ Send(t)
    BY <1>1, <2>1, ConnectKind, EnsureKind, AwaitKind, ReopenKind, SendKind, GoesOnKeeps, RaisesKeeps
  <2>2. CASE Return(t) \/ TimeOut(t) \/ Connected(t) \/ Drop(t)
    BY <1>1, <2>2, LeavesKind, LeavesKeeps
  <2>3. CASE Fail(t)
    BY <1>1, <2>3, FailKind, FailsAllKeeps
  <2> QED
    BY <1>3, <2>1, <2>2, <2>3 DEF Call
<1>4. CASE Restart
  BY <1>1, <1>4, RestartKind, StartsAgainKeeps
<1>5. CASE \/ \E g \in Link : Reader(g) \/ Answer(g)
           \/ \E d \in Daemon : DaemonServes(d) \/ DaemonDies(d) \/ DaemonLeaves(d)
           \/ Exit \/ DelayPasses
  BY <1>1, <1>5, OtherKind, SameCallsKeeps, AnswersKeeps, FailsAllKeeps
<1> QED
  BY <1>2, <1>3, <1>4, <1>5 DEF Next

-----------------------------------------------------------------------------
(* The steps, by what they do to connections, readers and processes. *)

Wired == ClientType /\ LinkType /\ ReaderType /\ ProcType /\ BoundType /\ Owned /\ Generations

\* No connection opens, whatever else happens to the connections.
NoneOpens ==
  /\ LinkType'
  /\ \A h \in Link : link'[h].state = "open" => link[h].state = "open"

Connection ==
  [to : Daemon \cup {None}, state : {"none", "open", "broken", "closed"}, out : Seq(Request), in : Seq(Request)]

LEMMA LineFields ==
  ASSUME NEW l \in Connection, NEW s \in {"broken", "closed"}, NEW o \in Seq(Request), NEW m,
         m = [l EXCEPT !.state = s, !.out = o]
  PROVE  m \in Connection /\ m.state = s
BY DEF Connection

LEMMA EndOne ==
  ASSUME NEW l \in Connection, NEW s \in {"broken", "closed"}, NEW m, m = [l EXCEPT !.state = s, !.out = <<>>]
  PROVE  m \in Connection /\ m.state = s
<1>1. <<>> \in Seq(Request)
  OBVIOUS
<1> QED
  BY LineFields, <1>1, Zenon

LEMMA OneLink ==
  ASSUME LinkType, NEW g \in Link, NEW l,
         l \in Connection,
         l.state = "open" => link[g].state = "open", link' = [link EXCEPT ![g] = l]
  PROVE  NoneOpens
BY DEF LinkType, NoneOpens, Connection

LEMMA CloseLinks ==
  ASSUME LinkType, NEW g \in Link \cup {None}, link' = Closed(g)
  PROVE  NoneOpens
<1>1. CASE g = None
  BY <1>1 DEF Closed, NoneOpens, LinkType
<1>2. CASE g # None
  <2> DEFINE l == [link[g] EXCEPT !.state = "closed", !.out = <<>>]
  <2>1. l \in Connection /\ l.state = "closed"
    <3>1. link[g] \in Connection
      BY <1>2 DEF LinkType, Connection
    <3> QED
      BY <3>1, EndOne, Zenon
  <2>2. link' = [link EXCEPT ![g] = l]
    BY <1>2 DEF Closed
  <2> HIDE DEF l
  <2> QED
    BY <1>2, <2>1, <2>2, OneLink
<1> QED
  BY <1>1, <1>2

LEMMA BreakLinks ==
  ASSUME LinkType, NEW d, link' = Broken(d)
  PROVE  NoneOpens
<1>1. ASSUME NEW h \in Link
      PROVE  link'[h] \in Connection /\ (link'[h].state = "open" => link[h].state = "open")
  <2>1. link[h] \in Connection
    BY DEF LinkType, Connection
  <2>2. CASE link'[h] = link[h]
    BY <2>1, <2>2
  <2>3. CASE link'[h] = [link[h] EXCEPT !.state = "broken", !.out = <<>>]
    <3>1. link'[h] \in Connection /\ link'[h].state = "broken"
      BY <2>1, <2>3, EndOne, Zenon
    <3> QED
      BY <3>1
  <2> QED
    BY <2>2, <2>3 DEF Broken
<1>2. link' = [h \in Link |-> link'[h]]
  BY DEF Broken
<1> QED
  BY <1>1, <1>2 DEF LinkType, NoneOpens, Connection

LEMMA SendLinks ==
  ASSUME Shaped, LinkType, NEW t \in Thread, Send(t)
  PROVE  NoneOpens
<1> DEFINE g == thread[t].sock
           l == [link[g] EXCEPT !.out = IF link[g].state = "open" THEN Append(@, thread[t].id) ELSE @]
<1>1. CASE UNCHANGED link
  BY <1>1 DEF LinkType, NoneOpens
<1>2. CASE link' = [link EXCEPT ![g].out = IF link[g].state = "open" THEN Append(@, thread[t].id) ELSE @]
  <2>1. g \in Link /\ thread[t].id \in Request
    BY Ids DEF Send, Shaped, ThreadType, ThreadShape
  <2>2. link' = [link EXCEPT ![g] = l]
    BY <1>2
  <2>3. l \in Connection /\ l.state = link[g].state
    <3>1. link[g] \in Connection
      BY <2>1 DEF LinkType, Connection
    <3>2. (IF link[g].state = "open" THEN Append(link[g].out, thread[t].id) ELSE link[g].out) \in Seq(Request)
      BY <2>1, <3>1 DEF Connection
    <3> QED
      BY <3>1, <3>2 DEF Connection
  <2> HIDE DEF l, g
  <2> QED
    BY <2>1, <2>2, <2>3, OneLink
<1> QED
  BY <1>1, <1>2 DEF Send

LEMMA LineLinks ==
  ASSUME LinkType, NEW g \in Link, Handle(g) \/ ReaderEnds(g) \/ Answer(g)
  PROVE  NoneOpens
<1>1. ASSUME NEW i \in Seq(Request), NEW o \in Seq(Request),
             link' = [link EXCEPT ![g].in = i, ![g].out = o]
      PROVE  NoneOpens
  <2> DEFINE l == [link[g] EXCEPT !.in = i, !.out = o]
  <2>1. link' = [link EXCEPT ![g] = l]
    BY <1>1
  <2>2. l \in Connection /\ l.state = link[g].state
    BY DEF LinkType, Connection
  <2> HIDE DEF l
  <2> QED
    BY <2>1, <2>2, OneLink
<1>2. link[g].out \in Seq(Request) /\ link[g].in \in Seq(Request)
  BY DEF LinkType
<1>3. CASE Handle(g)
  <2>1. Tail(link[g].in) \in Seq(Request)
    BY <1>2, <1>3 DEF Handle
  <2>2. link' = [link EXCEPT ![g].in = Tail(link[g].in), ![g].out = link[g].out]
    BY <1>3 DEF Handle, LinkType
  <2> QED
    BY <1>1, <1>2, <2>1, <2>2
<1>4. CASE ReaderEnds(g)
  <2>1. link' = [link EXCEPT ![g].in = <<>>, ![g].out = link[g].out]
    BY <1>4 DEF ReaderEnds, LinkType
  <2>2. <<>> \in Seq(Request)
    OBVIOUS
  <2> QED
    BY <1>1, <1>2, <2>1, <2>2
<1>5. CASE Answer(g)
  <2>1. Append(link[g].in, Head(link[g].out)) \in Seq(Request) /\ Tail(link[g].out) \in Seq(Request)
    BY <1>2, <1>5 DEF Answer
  <2>2. link' = [link EXCEPT ![g].in = Append(link[g].in, Head(link[g].out)), ![g].out = Tail(link[g].out)]
    BY <1>5 DEF Answer
  <2> QED
    BY <1>1, <2>1, <2>2
<1> QED
  BY <1>3, <1>4, <1>5

-----------------------------------------------------------------------------
(* Each step keeps what is said of the wires. *)

\* Lines travel and calls go on, over the connections there are.
Traffic ==
  /\ UNCHANGED <<client, reader, procs, exit>> /\ lock' \in {lock, None}
  /\ BoundType' /\ NoneOpens

LEMMA TrafficWires ==
  ASSUME Wired, Traffic
  PROVE  Wired'
BY DEF Wired, Traffic, NoneOpens, ClientType, LinkType, ReaderType, ProcType, Owned, Generations, Alive, procs

LEMMA TrafficKind ==
  ASSUME Shaped, Wired,
         \/ Begin
         \/ \E t \in Thread : Await(t) \/ Send(t) \/ Return(t) \/ TimeOut(t) \/ Connected(t) \/ Fail(t)
         \/ \E g \in Link : Handle(g) \/ Answer(g)
  PROVE  Traffic
<1>1. LinkType /\ BoundType
  BY DEF Wired
<1>2. UNCHANGED link => NoneOpens
  BY <1>1 DEF LinkType, NoneOpens
<1>3. UNCHANGED bounds => BoundType'
  BY <1>1 DEF BoundType
<1>4. CASE Begin
  <2>1. bounds.requests + 1 \in 0..MaxRequests
    BY <1>1, <1>4, ClientAssumption DEF Begin, BoundType
  <2>2. BoundType'
    BY <1>1, <1>4, <2>1 DEF Begin, BoundType
  <2> QED
    BY <1>2, <1>4, <2>2 DEF Begin, Traffic, wires, procs
<1>5. ASSUME NEW t \in Thread, Await(t) \/ Return(t) \/ TimeOut(t) \/ Connected(t)
      PROVE  Traffic
  BY <1>2, <1>3, <1>5 DEF Await, Return, TimeOut, Connected, Traffic, wires, procs
<1>6. ASSUME NEW t \in Thread, Send(t)
      PROVE  Traffic
  BY <1>1, <1>3, <1>6, SendLinks DEF Send, Traffic, procs
<1>7. ASSUME NEW t \in Thread, Fail(t)
      PROVE  Traffic
  <2>1. NoneOpens
    BY <1>1, <1>7, CloseLinks DEF Fail, Shaped, ThreadType
  <2> QED
    BY <1>3, <1>7, <2>1 DEF Fail, Traffic, procs
<1>8. ASSUME NEW g \in Link, Handle(g) \/ Answer(g)
      PROVE  Traffic
  BY <1>1, <1>3, <1>8, LineLinks DEF Handle, Answer, Traffic, procs, calls
<1> QED
  BY <1>4, <1>5, <1>6, <1>7, <1>8

\* A connection opens only for who found none.
LEMMA OpenWires ==
  ASSUME Wired, Shaped, NEW t \in Thread, Open(t), ~client.closing, client.sock = None,
         lock' = None, UNCHANGED <<procs, exit>>
  PROVE  Wired'
<1> DEFINE g == bounds.links + 1
<1>1. /\ bounds.links < MaxLinks /\ bounds' = [bounds EXCEPT !.links = g]
      /\ client' = [client EXCEPT !.sock = g, !.gen = g, !.delay = FALSE]
      /\ link' = [link EXCEPT ![g] = [NoLink EXCEPT !.to = path, !.state = "open"]]
      /\ reader' = [reader EXCEPT ![g] = "reading"]
  BY DEF Open
<1>2. /\ ClientType /\ LinkType /\ ReaderType /\ ProcType /\ BoundType /\ Owned /\ Generations
  BY DEF Wired
<1>3. g \in Link /\ g # None /\ g \in 0..MaxLinks
  BY <1>1, <1>2, ClientAssumption DEF BoundType, Link, None
<1>4. BoundType'
  BY <1>1, <1>2, <1>3 DEF BoundType
<1> HIDE DEF g
<1>5. /\ ClientType' /\ client'.sock = g /\ client'.gen = g
      /\ client'.closing = client.closing /\ client'.process = client.process
  BY <1>1, <1>2, <1>3 DEF ClientType
<1>6. LinkType' /\ \A h \in Link : h # g => link'[h] = link[h]
  <2> DEFINE l == [NoLink EXCEPT !.to = path, !.state = "open"]
  <2>1. l \in Connection
    <3>1. <<>> \in Seq(Request)
      OBVIOUS
    <3>2. NoLink \in Connection
      BY <3>1 DEF NoLink, Connection
    <3>3. path \in Daemon \cup {None}
      BY <1>2 DEF ProcType
    <3> HIDE DEF NoLink
    <3> QED
      BY <3>2, <3>3 DEF Connection
  <2>2. link' = [link EXCEPT ![g] = l]
    BY <1>1
  <2> HIDE DEF l
  <2> QED
    BY <1>2, <1>3, <2>1, <2>2 DEF LinkType, Connection
<1>7. ReaderType' /\ \A h \in Link : reader'[h] # "reading" => reader'[h] = reader[h] /\ h # g
  BY <1>1, <1>2, <1>3, <1>5 DEF ReaderType
<1>8. ProcType' /\ Owned'
  BY <1>2, <1>5 DEF ProcType, Owned, Alive, procs
<1>9. Generations'
  BY <1>2, <1>5, <1>6, <1>7 DEF Generations
<1> QED
  BY <1>4, <1>5, <1>6, <1>7, <1>8, <1>9 DEF Wired

\* A step that fails to connect, or gives the lock to who found no daemon.
LEMMA NoConnectionWires ==
  ASSUME Wired, UNCHANGED <<wires, procs, exit, bounds>>, client' \in {client, [client EXCEPT !.delay = TRUE]},
         \/ lock' \in {lock, None}
         \/ lock' \in Thread /\ ~client.closing /\ client.sock = None
  PROVE  Wired'
<1>1. /\ ClientType' /\ client'.sock = client.sock /\ client'.gen = client.gen
      /\ client'.closing = client.closing /\ client'.process = client.process
  BY DEF Wired, ClientType
<1> QED
  BY <1>1 DEF Wired, LinkType, ReaderType, ProcType, BoundType, Owned, Generations, Alive, wires, procs

LEMMA ConnectWires ==
  ASSUME Shaped, Wired, NEW t \in Thread, Connect(t)
  PROVE  Wired'
<1>1. CASE Open(t) /\ ~client.closing /\ client.sock = None /\ UNCHANGED lock
  BY <1>1, OpenWires DEF Connect, Free
<1>2. CASE /\ UNCHANGED <<wires, bounds>> /\ client' \in {client, [client EXCEPT !.delay = TRUE]}
           /\ \/ lock' \in {lock, None}
              \/ lock' \in Thread /\ ~client.closing /\ client.sock = None
  BY <1>2, NoConnectionWires DEF Connect
<1> QED
  BY <1>1, <1>2 DEF Connect, OpenFails

LEMMA ReopenWires ==
  ASSUME Shaped, Wired, NEW t \in Thread, Reopen(t)
  PROVE  Wired'
<1>1. lock = t /\ t # None
  BY ClientAssumption DEF Reopen, Shaped, ThreadShape, None
<1>2. ~client.closing /\ client.sock = None
  BY <1>1 DEF Wired, Owned, Generations
<1> QED
  BY <1>2, OpenWires, NoConnectionWires DEF Reopen, OpenFails

LEMMA EnsureWires ==
  ASSUME Shaped, Wired, NEW t \in Thread, Ensure(t)
  PROVE  Wired'
<1>1. lock = t /\ t # None /\ ~client.closing /\ exit = "no"
  BY ClientAssumption DEF Ensure, Shaped, ThreadShape, Wired, Owned, None
<1>2. client.process \in Daemon \cup {None} /\ client.sock = None
  BY <1>1 DEF Wired, ClientType, Generations
<1>3. ASSUME NEW p \in Daemon \cup {None}, client' = [client EXCEPT !.process = p],
             UNCHANGED <<wires, exit>>, BoundType', ProcType', lock' \in {lock, None},
             \A d \in Daemon : Alive(d)' => p = d
      PROVE  Wired'
  <2>1. /\ ClientType' /\ client'.sock = client.sock /\ client'.gen = client.gen
        /\ client'.closing = client.closing /\ client'.process = p
    BY <1>3 DEF Wired, ClientType
  <2> QED
    BY <1>1, <1>2, <1>3, <2>1 DEF Wired, LinkType, ReaderType, Owned, Generations, wires
<1>4. CASE UNCHANGED <<procs, bounds>> /\ client' = [client EXCEPT !.process = IF Alive(@) THEN @ ELSE None]
           /\ lock' \in {lock, None}
  BY <1>1, <1>2, <1>3, <1>4 DEF Ensure, Wired, ProcType, BoundType, Owned, Alive, procs
<1>5. CASE /\ ~Launched /\ client' = [client EXCEPT !.process = None]
           /\ UNCHANGED <<procs, bounds>> /\ lock' \in {lock, None}
  BY <1>1, <1>2, <1>3, <1>5 DEF Ensure, Wired, ProcType, BoundType, Owned, Alive, Launched, procs
<1>6. CASE /\ ~Launched /\ bounds.daemons < MaxDaemons
           /\ bounds' = [bounds EXCEPT !.daemons = bounds.daemons + 1]
           /\ client' = [client EXCEPT !.process = bounds.daemons + 1]
           /\ daemon' = [daemon EXCEPT ![bounds.daemons + 1] = "starting"]
           /\ path' = None /\ UNCHANGED lock
  <2>1. bounds.daemons + 1 \in Daemon /\ BoundType'
    BY <1>6, ClientAssumption DEF Wired, BoundType, Daemon
  <2>2. ProcType'
    BY <1>6, <2>1 DEF Ensure, Wired, ProcType
  <2>3. \A d \in Daemon : Alive(d)' => d = bounds.daemons + 1
    BY <1>6, <2>1 DEF Wired, Owned, ProcType, Alive, Launched
  <2> QED
    BY <1>3, <1>6, <2>1, <2>2, <2>3 DEF Ensure
<1> QED
  BY <1>4, <1>5, <1>6 DEF Ensure

LEMMA DropWires ==
  ASSUME Shaped, Wired, NEW t \in Thread, Drop(t)
  PROVE  Wired'
<1>1. NoneOpens
  BY DEF Drop, Wired, LinkType, NoneOpens, wires
<1>2. UNCHANGED <<procs, exit, reader>> /\ exit \in {"no", "drop", "fail", "stop", "done"} /\ Owned /\ Generations /\ ReaderType
  BY DEF Drop, Wired, ProcType, wires
<1>3. client.closing \/ exit = "no"
  BY <1>2 DEF Owned
<1>4. /\ ClientType' /\ client'.sock = None
      /\ client'.closing = client.closing /\ client'.process = client.process
  BY DEF Drop, Forget, Wired, ClientType
<1> QED
  BY <1>1, <1>2, <1>4 DEF Drop, Wired, NoneOpens, LinkType, ReaderType, ProcType, BoundType, Owned, Generations, Alive, procs

LEMMA ReaderWires ==
  ASSUME Wired, NEW g \in Link, ReaderEnds(g) \/ ReaderDrops(g) \/ ReaderLeaves(g) \/ ReaderFails(g)
  PROVE  Wired'
<1>1. /\ ClientType /\ LinkType /\ ReaderType /\ ProcType /\ BoundType /\ Owned /\ Generations
      /\ client.sock \in Link \cup {None}
  BY DEF Wired, ClientType
<1>2. ASSUME UNCHANGED <<client, procs, exit, bounds>>, lock' = lock, NoneOpens,
             NEW s \in {"drop", "leave", "ended"}, reader' = [reader EXCEPT ![g] = s],
             s = "drop" => link'[g].state # "open", s = "leave" => client.closing
      PROVE  Wired'
  <2>1. ReaderType'
    BY <1>1, <1>2 DEF ReaderType, ClientType
  <2>2. Generations'
    BY <1>1, <1>2 DEF Generations, NoneOpens, ReaderType
  <2> QED
    BY <1>1, <1>2, <2>1, <2>2 DEF Wired, NoneOpens, ClientType, ProcType, BoundType, Owned, Alive, procs
<1>3. ASSUME NEW e \in BOOLEAN, client' = [client EXCEPT !.sock = None, !.delay = e],
             link' = Closed(client.sock), NEW s \in {"fail", "ended"}, reader' = [reader EXCEPT ![g] = s],
             UNCHANGED <<procs, exit, bounds>>, lock' = lock
      PROVE  Wired'
  <2>1. NoneOpens
    BY <1>1, <1>3, CloseLinks
  <2>2. /\ ClientType' /\ client'.sock = None
        /\ client'.closing = client.closing /\ client'.process = client.process
    BY <1>1, <1>3 DEF ClientType
  <2>3. ReaderType'
    BY <1>1, <1>3, <2>2 DEF ReaderType
  <2>4. Generations'
    BY <1>1, <1>3, <2>1, <2>2 DEF Generations, NoneOpens, ReaderType
  <2> QED
    BY <1>1, <1>3, <2>1, <2>2, <2>3, <2>4 DEF Wired, NoneOpens, ProcType, BoundType, Owned, Alive, procs
<1>4. CASE ReaderEnds(g)
  <2>1. NoneOpens
    BY <1>1, <1>4, LineLinks
  <2>2. link'[g].state = link[g].state
    BY <1>1, <1>4 DEF ReaderEnds, LinkType
  <2> QED
    BY <1>2, <1>4, <2>1, <2>2 DEF ReaderEnds
<1>5. CASE ReaderDrops(g)
  <2>1. UNCHANGED link => NoneOpens
    BY <1>1 DEF LinkType, NoneOpens
  <2>2. UNCHANGED <<procs, exit, bounds>> /\ lock' = lock
    BY <1>5 DEF ReaderDrops
  <2>3. CASE Own(g)
    BY <1>3, <1>5, <2>2, <2>3 DEF ReaderDrops, Forget
  <2>4. CASE ~Own(g)
    BY <1>2, <1>5, <2>1, <2>2, <2>4 DEF ReaderDrops
  <2> QED
    BY <2>3, <2>4
<1>6. CASE ReaderLeaves(g)
  <2>1. UNCHANGED link => NoneOpens
    BY <1>1 DEF LinkType, NoneOpens
  <2>2. UNCHANGED <<procs, exit, bounds>> /\ lock' = lock
    BY <1>6 DEF ReaderLeaves
  <2>3. CASE Own(g)
    <3>1. client.delay \in BOOLEAN /\ client' = [client EXCEPT !.sock = None, !.delay = client.delay]
      BY <1>1, <1>6, <2>3 DEF ReaderLeaves, ClientType
    <3> QED
      BY <1>3, <1>6, <2>2, <2>3, <3>1 DEF ReaderLeaves
  <2>4. CASE ~Own(g)
    BY <1>2, <1>6, <2>1, <2>2, <2>4 DEF ReaderLeaves
  <2> QED
    BY <2>3, <2>4
<1>7. CASE ReaderFails(g)
  <2>1. UNCHANGED link => NoneOpens
    BY <1>1 DEF LinkType, NoneOpens
  <2> QED
    BY <1>2, <1>7, <2>1 DEF ReaderFails
<1> QED
  BY <1>4, <1>5, <1>6, <1>7

LEMMA DaemonWires ==
  ASSUME Wired, NEW d \in Daemon, DaemonServes(d) \/ DaemonDies(d) \/ DaemonLeaves(d)
  PROVE  Wired'
<1>1. /\ ClientType /\ LinkType /\ ReaderType /\ ProcType /\ BoundType /\ Owned /\ Generations
  BY DEF Wired
<1>2. UNCHANGED <<client, lock, reader, exit, bounds>>
  BY DEF DaemonServes, DaemonDies, DaemonLeaves, wires
<1>3. NoneOpens
  BY <1>1, BreakLinks DEF DaemonServes, DaemonDies, DaemonLeaves, wires, NoneOpens, LinkType
<1>4. ProcType' /\ \A e \in Daemon : Alive(e)' => Alive(e)
  BY <1>1 DEF DaemonServes, DaemonDies, DaemonLeaves, ProcType, Alive
<1> QED
  BY <1>1, <1>2, <1>3, <1>4 DEF Wired, NoneOpens, ClientType, ReaderType, BoundType, Owned, Generations

LEMMA RestartWires ==
  ASSUME Wired, Restart
  PROVE  Wired'
<1>1. /\ ClientType /\ LinkType /\ ReaderType /\ ProcType /\ BoundType
  BY DEF Wired
<1>2. BoundType' /\ lock' = None /\ exit' = "no" /\ path' = None
  BY <1>1, ClientAssumption DEF Restart, BoundType
<1>3. ClientType' /\ client'.sock = None /\ client'.closing = FALSE
  BY <1>1 DEF Restart, ClientType, Fresh
<1>4. LinkType' /\ \A g \in Link : link'[g].state # "open"
  <2>1. NoLink \in Connection /\ [NoLink EXCEPT !.state = "closed"] \in Connection
        /\ [NoLink EXCEPT !.state = "closed"].state = "closed"
    <3>1. <<>> \in Seq(Request)
      OBVIOUS
    <3>2. NoLink \in Connection
      BY <3>1 DEF NoLink, Connection
    <3> HIDE DEF NoLink
    <3> QED
      BY <3>2 DEF Connection
  <2>2. /\ link' = [g \in Link |-> IF link[g].state = "none" THEN link[g] ELSE [NoLink EXCEPT !.state = "closed"]]
        /\ \A g \in Link : link[g] \in Connection
    BY <1>1 DEF Restart, LinkType, Connection
  <2> DEFINE l == [NoLink EXCEPT !.state = "closed"]
  <2> HIDE DEF l
  <2> QED
    BY <2>1, <2>2 DEF LinkType, Connection, l
<1>5. ReaderType' /\ \A g \in Link : reader'[g] \in {"none", "ended"}
  BY <1>3 DEF Restart, ReaderType
<1>6. ProcType' /\ \A d \in Daemon : ~Alive(d)'
  BY <1>1 DEF Restart, ProcType, Alive
<1> QED
  BY <1>2, <1>3, <1>4, <1>5, <1>6 DEF Wired, Owned, Generations

LEMMA ExitWires ==
  ASSUME Wired, Exit
  PROVE  Wired'
<1>1. /\ ClientType /\ LinkType /\ ReaderType /\ ProcType /\ BoundType /\ Owned /\ Generations
      /\ client.sock \in Link \cup {None} /\ client.process \in Daemon \cup {None}
  BY DEF Wired, ClientType
<1>2. UNCHANGED link => NoneOpens
  BY <1>1 DEF LinkType, NoneOpens
<1>3. CASE Close
  <2>1. /\ ClientType' /\ client'.sock = client.sock /\ client'.gen = client.gen
        /\ client'.closing = TRUE /\ client'.process = client.process /\ lock = None
    BY <1>1, <1>3 DEF Close, Closing, Free, ClientType
  <2> QED
    BY <1>1, <1>3, <2>1 DEF Close, Wired, LinkType, ReaderType, ProcType, BoundType, Owned, Generations,
                            Alive, wires, procs
<1>4. CASE CloseDrops
  <2>1. NoneOpens
    BY <1>1, <1>4, CloseLinks DEF CloseDrops
  <2>2. /\ ClientType' /\ client'.sock = None
        /\ client'.closing = client.closing /\ client'.process = client.process
    BY <1>1, <1>4 DEF CloseDrops, Forget, ClientType
  <2> QED
    BY <1>1, <1>4, <2>1, <2>2 DEF CloseDrops, Wired, NoneOpens, ReaderType, ProcType, BoundType, Owned,
                                  Generations, Alive, procs
<1>5. CASE CloseFails
  BY <1>1, <1>5 DEF CloseFails, Wired, ClientType, LinkType, ReaderType, ProcType, BoundType, Owned,
                    Generations, Alive, wires, procs
<1>6. CASE StopDaemon
  <2>1. NoneOpens /\ UNCHANGED <<lock, reader, bounds>>
    BY <1>1, <1>2, <1>6, BreakLinks DEF StopDaemon
  <2>2. /\ ClientType' /\ client'.sock = client.sock /\ client'.gen = client.gen
        /\ client'.closing = client.closing /\ client'.process = None
    BY <1>1, <1>6 DEF StopDaemon, ClientType
  <2>3. ProcType' /\ \A d \in Daemon : ~Alive(d)'
    BY <1>1, <1>6 DEF StopDaemon, ProcType, Alive, Owned
  <2> QED
    BY <1>1, <1>6, <2>1, <2>2, <2>3 DEF StopDaemon, Wired, NoneOpens, ReaderType, BoundType, Owned, Generations
<1> QED
  BY <1>3, <1>4, <1>5, <1>6 DEF Exit

LEMMA WiresKeep ==
  ASSUME Inv, Next
  PROVE  Wired'
<1>1. Shaped /\ Wired
  BY TypeParts DEF Inv, Shaped, Wired
<1>2. ASSUME NEW t \in Thread, Call(t)
      PROVE  Wired'
  BY <1>1, <1>2, TrafficKind, TrafficWires, ConnectWires, EnsureWires, ReopenWires, DropWires DEF Call
<1>3. ASSUME NEW g \in Link, Reader(g) \/ Answer(g)
      PROVE  Wired'
  BY <1>1, <1>3, TrafficKind, TrafficWires, ReaderWires DEF Reader
<1>4. CASE DelayPasses
  BY <1>1, <1>4, NoConnectionWires DEF DelayPasses, Wired, ClientType, LinkType, ReaderType, ProcType,
     BoundType, Owned, Generations, Alive, wires, procs
<1> QED
  BY <1>1, <1>2, <1>3, <1>4, TrafficKind, TrafficWires, DaemonWires, RestartWires, ExitWires DEF Next

-----------------------------------------------------------------------------
(* The theorems *)

LEMMA InitInv == Init => Inv
<1> SUFFICES ASSUME Init
             PROVE  Inv
  OBVIOUS
<1>1. MaxRequests \in Nat /\ MaxLinks \in Nat /\ MaxDaemons \in Nat /\ MaxRestarts \in Nat /\ 0 \notin Thread
  BY ClientAssumption
<1>2. ClientType /\ CallType /\ ReaderType /\ ProcType /\ BoundType
  BY <1>1 DEF Init, Fresh, ClientType, CallType, ReaderType, ProcType, BoundType
<1>3. ThreadType /\ ThreadShape
  BY <1>1 DEF Init, Quiet, ThreadType, ThreadShape, Places, None
<1>4. LinkType
  <2>1. NoLink \in Connection
    <3>1. <<>> \in Seq(Request)
      OBVIOUS
    <3> QED
      BY <3>1 DEF NoLink, Connection
  <2> HIDE DEF NoLink
  <2> QED
    BY <2>1 DEF Init, LinkType, Connection
<1>5. NoPendingLeft /\ Numbered /\ Owned /\ Generations
  BY DEF Init, Fresh, NoPendingLeft, Numbered, Owned, Generations, Alive
<1> QED
  BY <1>2, <1>3, <1>4, <1>5, TypeParts DEF Inv

LEMMA NextInv == Inv /\ [Next]_vars => Inv'
<1>1. ASSUME Inv, Next
      PROVE  Inv'
  BY <1>1, CallsKeep, WiresKeep, TypePartsNext DEF Inv, Kept, Wired
<1>2. ASSUME Inv, UNCHANGED vars
      PROVE  Inv'
  BY <1>2 DEF vars, calls, wires, procs, Inv, TypeOK, NoPendingLeft, Numbered, Owned, Generations, Alive
<1> QED
  BY <1>1, <1>2

LEMMA AlwaysInv == Spec => []Inv
BY InitInv, NextInv, PTL DEF Spec

\* Each request in _pending has a caller that still waits, and each variable its
\* type: a time-out, an exception, a disconnect and the end of the application
\* leave no entry behind (request, _fail_pending).
THEOREM CallsAccounted == Spec => []CallInv
<1>1. Inv => CallInv
  BY DEF Inv, CallInv
<1> QED
  BY <1>1, AlwaysInv, PTL

\* At most one process that the application launched runs, and after close()
\* none does and there is no connection (_ensure_managed_daemon, close).
THEOREM OneDaemonRuns == Spec => []OneDaemon
<1>1. ASSUME Inv
      PROVE  OneDaemon
  <2>1. {d \in Daemon : Alive(d)} \subseteq {client.process}
    BY <1>1 DEF Inv, Owned
  <2>2. /\ IsFiniteSet({client.process}) /\ Cardinality({client.process}) = 1
    BY FS_Singleton
  <2>3. /\ IsFiniteSet({d \in Daemon : Alive(d)})
        /\ Cardinality({d \in Daemon : Alive(d)}) <= Cardinality({client.process})
    BY <2>1, <2>2, FS_Subset, Zenon
  <2>4. Cardinality({d \in Daemon : Alive(d)}) \in Nat
    BY <2>3, FS_CardinalityType
  <2>5. exit = "done" => client.sock = None /\ \A d \in Daemon : ~Alive(d)
    BY <1>1 DEF Inv, Owned, Alive, Daemon, None
  <2> QED
    BY <2>2, <2>3, <2>4, <2>5 DEF OneDaemon
<1> QED
  BY <1>1, AlwaysInv, PTL

\* What DroppedForCause says of one step.
Caused ==
  client.sock # None /\ client'.sock # client.sock =>
    \/ link[client.sock].state # "open" \/ client.closing \/ bounds'.restarts # bounds.restarts
    \/ \E t \in Thread : thread[t].at = "drop"

LEMMA StepCaused ==
  ASSUME Inv, Next
  PROVE  Caused
<1>1. /\ Shaped /\ ClientType /\ BoundType /\ Owned /\ Generations
  BY TypeParts DEF Inv, Shaped
<1>2. ASSUME NEW t \in Thread, Call(t)
      PROVE  Caused
  <2>1. CASE Connect(t)
    BY <1>1, <2>1 DEF Connect, Open, OpenFails, Caused, ClientType
  <2>2. CASE Ensure(t) \/ Await(t) \/ Send(t) \/ Return(t) \/ TimeOut(t) \/ Connected(t) \/ Fail(t)
    BY <1>1, <2>2 DEF Ensure, Await, Send, Return, TimeOut, Connected, Fail, Caused, ClientType
  <2>3. CASE Reopen(t)
    <3>1. lock = t /\ t # None
      BY <1>1, <2>3, ClientAssumption DEF Reopen, Shaped, ThreadShape, None
    <3> QED
      BY <1>1, <3>1 DEF Generations, Caused
  <2>4. CASE Drop(t)
    BY <2>4 DEF Drop, Caused
  <2> QED
    BY <1>2, <2>1, <2>2, <2>3, <2>4 DEF Call
<1>3. ASSUME NEW g \in Link, Reader(g) \/ Answer(g)
      PROVE  Caused
  BY <1>1, <1>3 DEF Reader, Handle, ReaderEnds, ReaderDrops, ReaderLeaves, ReaderFails, Answer, Own,
                    Generations, Caused
<1>4. CASE Restart
  BY <1>1, <1>4 DEF Restart, Caused, BoundType
<1>5. CASE Begin \/ Exit \/ DelayPasses \/ \E d \in Daemon : DaemonServes(d) \/ DaemonDies(d) \/ DaemonLeaves(d)
  BY <1>1, <1>5 DEF Begin, Exit, Close, Closing, CloseDrops, CloseFails, StopDaemon, DelayPasses, DaemonServes,
                    DaemonDies, DaemonLeaves, Caused, ClientType, Owned
<1> QED
  BY <1>2, <1>3, <1>4, <1>5 DEF Next

\* The reader of an old connection never disconnects a newer one that works: each
\* drop has its cause at the moment it happens (_reader_loop, _disconnect).
THEOREM DropsHaveCause == Spec => DroppedForCause
<1>1. Inv /\ [Next]_vars => [Caused]_vars
  BY StepCaused
<1>2. Spec => [][Caused]_vars
  BY <1>1, AlwaysInv, PTL DEF Spec
<1> QED
  BY <1>2 DEF DroppedForCause, Caused
=============================================================================
