----------------------- MODULE PlayerTransition_proofs -----------------------
(***************************************************************************)
(* Theorems about PlayerTransition, for any number of rows, operations and *)
(* faults: Python and the daemon agree on the deck that is heard once all  *)
(* events and answers are handled, and a late completion does not take     *)
(* back what a select made authoritative.                                  *)
(*                                                                         *)
(* While something is on its way they may disagree.  What carries the      *)
(* argument is that a start of the track that is heard is then still to be *)
(* handled (Owed), and its rebuild sets things right; that rows are loaded *)
(* in their order, so that a start or an end is never taken for that of a  *)
(* later row (Numbered); and that what a thread read is true of the daemon *)
(* unless the daemon moved on, which makes its writes stray (Known).       *)
(***************************************************************************)
EXTENDS PlayerTransition, SequenceTheorems, TLAPS

\* What stands in a sequence; the messages on their way and the starts the worker has to look at.
In(s) == {s[i] : i \in 1..Len(s)}
Sent == In(socket)
Queued == In(jobs)

\* What the reader queues for the worker: starts only.
StartEvent == [kind : {"started"}, deck : Deck, row : Row]

(* The parts of the type invariant *)

NativeType ==
  native \in [active : Deck, row : [Deck -> Row], ready : BOOLEAN, last : Row, moving : BOOLEAN, over : Deck,
              due : {"none", "hard", "interrupt"}, ended : Row \cup {None}, seeking : Row \cup {None},
              astray : BOOLEAN]
WireType == socket \in Seq(Message) /\ jobs \in Seq(StartEvent)
PlayerType ==
  /\ player \in [active : Deck, row : [Deck -> Row \cup {None}], moving : BOOLEAN, starting : BOOLEAN,
                 seek : Row \cup {None}, seekDeck : Deck, late : BOOLEAN, armed : Deck \cup {"no"}]
  /\ player.late => player.seek # None
ThreadType ==
  thread \in [Thread -> [at : Place, deck : Deck, row : Row \cup {None}, flag : BOOLEAN, how : How, old : BOOLEAN]]
BoundType == ops \in 0..MaxOps /\ blind \in BOOLEAN /\ writer \in {"event", "select", "stray"}

\* Where each thread can be, and what for.
Places ==
  /\ thread["seek"].at \in {"none", "read", "called", "publish"}
  /\ thread["seek"].at # "none" => thread["seek"].how = "seek" /\ thread["seek"].row # None
  /\ thread["next"].at \in {"none", "read", "reserve", "prepare", "command", "called", "publish"}
  /\ thread["next"].at # "none" => thread["next"].how \in {"select", "interrupt"}
  /\ thread["monitor"].at \in {"none", "read", "blind", "prepare", "command", "called", "publish"}
  /\ thread["monitor"].at # "none" => thread["monitor"].how \in {"select", "fade", "hand", "end", "forget"}
  /\ thread["monitor"].how = "forget" => thread["monitor"].at = "read"
  /\ thread["monitor"].at = "read" => thread["monitor"].how = "forget"
  /\ thread["monitor"].at \in {"prepare", "command"} => thread["monitor"].how = "select"
  /\ thread["worker"].at \in {"none", "read"}
  /\ thread["worker"].how = "none"

\* The threads that wait for an answer; each is answered once.
Called == {t \in Thread : thread[t].at = "called"}

Answered(s, ts) ==
  /\ \A i \in 1..Len(s) : s[i].kind = "answer" => s[i].deck \in ts
  /\ \A i, j \in 1..Len(s) : s[i].kind = "answer" /\ s[i] = s[j] => i = j
Answers == Answered(socket, Called)

\* The worker rebuilds around the start it read the daemon for.
Working == thread["worker"].at = "read" => jobs # <<>>

Typed == NativeType /\ WireType /\ PlayerType /\ ThreadType /\ BoundType /\ Places /\ Answers /\ Working

\* A message that is sent is the only one that is new.
LEMMA InAppend ==
  ASSUME NEW S, NEW s \in Seq(S), NEW e \in S
  PROVE  In(Append(s, e)) = In(s) \cup {e}
<1>1. Len(Append(s, e)) = Len(s) + 1 /\ Len(s) \in Nat
  OBVIOUS
<1>2. \A i \in 1..Len(s) + 1 : Append(s, e)[i] = IF i = Len(s) + 1 THEN e ELSE s[i]
  OBVIOUS
<1> DEFINE t == Append(s, e)
<1> HIDE DEF t
<1>3. \A i \in 1..Len(s) : t[i] = s[i]
  BY <1>1, <1>2 DEF t
<1>4. t[Len(t)] = e /\ Len(t) \in 1..Len(t) /\ 1..Len(t) = 1..Len(s) \cup {Len(t)}
  BY <1>1, <1>2 DEF t
<1> QED
  BY <1>3, <1>4 DEF In, t

\* One that is taken was the head; the others move up.
LEMMA InTail ==
  ASSUME NEW S, NEW s \in Seq(S), s # <<>>
  PROVE  /\ In(s) = In(Tail(s)) \cup {Head(s)} /\ Head(s) \in In(s) /\ Head(s) \in S
         /\ Tail(s) \in Seq(S) /\ Len(Tail(s)) = Len(s) - 1
         /\ \A i \in 1..Len(Tail(s)) : Tail(s)[i] = s[i + 1]
<1>1. Len(s) \in Nat \ {0} /\ Head(s) = s[1] /\ s[1] \in S
  OBVIOUS
<1>2. Tail(s) \in Seq(S) /\ Len(Tail(s)) = Len(s) - 1 /\ \A i \in 1..Len(Tail(s)) : Tail(s)[i] = s[i + 1]
  OBVIOUS
<1> DEFINE t == Tail(s)
<1> HIDE DEF t
<1>3. In(t) \subseteq In(s)
  BY <1>1, <1>2 DEF In, t
<1>4. Head(s) \in In(s)
  BY <1>1 DEF In
<1>5. ASSUME NEW i \in 1..Len(s), i # 1
      PROVE  s[i] \in In(t)
  <2>1. i - 1 \in 1..Len(t) /\ t[i - 1] = s[i]
    BY <1>1, <1>2 , <1>5 DEF t
  <2> QED
    BY <2>1 DEF In
<1>6. In(s) \subseteq In(t) \cup {Head(s)}
  BY <1>1, <1>5 DEF In
<1> QED
  BY <1>1, <1>2, <1>3, <1>4, <1>6 DEF t

\* A start and the answer to its command go out one after the other.
LEMMA Concat2 ==
  ASSUME NEW S, NEW s \in Seq(S), NEW e \in S, NEW f \in S
  PROVE  s \o <<e, f>> = Append(Append(s, e), f)
OBVIOUS

\* What the threads hold.
Threads == [Thread -> [at : Place, deck : Deck, row : Row \cup {None}, flag : BOOLEAN, how : How, old : BOOLEAN]]

\* Two views of a thread that differ at most in whether what it read is old.
Fields(a, b) == a.at = b.at /\ a.deck = b.deck /\ a.row = b.row /\ a.flag = b.flag /\ a.how = b.how

\* The daemon outruns threads without changing anything else that they hold.
LEMMA OutrunFacts ==
  ASSUME ThreadType, NEW ts
  PROVE  /\ Outrun(ts) \in Threads
         /\ \A t \in Thread :
              /\ Fields(Outrun(ts)[t], thread[t])
              /\ Outrun(ts)[t].old <=> thread[t].old \/ (t \in ts /\ thread[t].how \notin {"none", "forget"})
<1> DEFINE F == [at : Place, deck : Deck, row : Row \cup {None}, flag : BOOLEAN, how : How, old : BOOLEAN]
<1>1. ASSUME NEW t \in Thread, NEW x \in BOOLEAN
      PROVE  /\ [thread[t] EXCEPT !.old = x] \in F /\ Fields([thread[t] EXCEPT !.old = x], thread[t])
             /\ [thread[t] EXCEPT !.old = x].old = x
  BY DEF ThreadType, Fields
<1> HIDE DEF F
<1> DEFINE x(t) == thread[t].old \/ (t \in ts /\ thread[t].how \notin {"none", "forget"})
<1>2. \A t \in Thread : x(t) \in BOOLEAN
  OBVIOUS
<1>3. \A t \in Thread : Outrun(ts)[t] = [thread[t] EXCEPT !.old = x(t)]
  BY DEF Outrun
<1>4. Outrun(ts) = [t \in Thread |-> [thread[t] EXCEPT !.old = x(t)]]
  BY DEF Outrun
<1> HIDE DEF x
<1>5. \A t \in Thread : [thread[t] EXCEPT !.old = x(t)] \in F /\ Fields([thread[t] EXCEPT !.old = x(t)], thread[t])
             /\ [thread[t] EXCEPT !.old = x(t)].old = x(t)
  BY <1>1, <1>2
<1>6. Outrun(ts) \in [Thread -> F]
  BY <1>4, <1>5
<1> QED
  BY <1>3, <1>5, <1>6 DEF Threads, F, x

\* Events and answers are messages.
LEMMA MessageTypes ==
  /\ \A k \in {"started", "finished", "applied"}, d \in Deck, r \in Row :
       Event(k, d, r) \in Message /\ Event(k, d, r).kind = k /\ Event(k, d, r).deck = d /\ Event(k, d, r).row = r
  /\ \A t \in Thread : Answer(t) \in Message /\ Answer(t).kind = "answer" /\ Answer(t).deck = t /\ Answer(t).row = None
BY DEF Message, Event, Answer

\* More threads may wait than are answered.
LEMMA AnsweredMore ==
  ASSUME NEW s, NEW T, NEW U, Answered(s, T), T \subseteq U
  PROVE  Answered(s, U)
BY DEF Answered

\* A thread that begins to wait may be answered.
LEMMA AnsweredAppend ==
  ASSUME NEW s \in Seq(Message), NEW T, NEW U, Answered(s, T), T \subseteq U, NEW e \in Message,
         e.kind = "answer" => e.deck \in U \ T
  PROVE  Answered(Append(s, e), U) /\ Append(s, e) \in Seq(Message)
<1> DEFINE t == Append(s, e)
           n == Len(s)
<1>1. n \in Nat /\ Len(t) = n + 1 /\ t \in Seq(Message)
  OBVIOUS
<1>2. \A i \in 1..n : t[i] = s[i]
  OBVIOUS
<1>3. t[n + 1] = e
  OBVIOUS
<1> HIDE DEF t, n
<1>4. \A i \in 1..Len(t) : t[i].kind = "answer" => t[i].deck \in U
  BY <1>1, <1>2, <1>3 DEF Answered, n
<1>5. ASSUME NEW i \in 1..Len(t), NEW j \in 1..Len(t), t[i].kind = "answer", t[i] = t[j]
      PROVE  i = j
  <2>1. CASE i \in 1..n /\ j \in 1..n
    BY <1>2, <1>5, <2>1 DEF Answered, n
  <2>2. CASE i \in 1..n /\ j = n + 1
    <3>1. s[i].deck \in T /\ s[i] = e
      BY <1>2, <1>3, <1>5, <2>2 DEF Answered, n
    <3> QED
      BY <1>2, <1>5, <2>2, <3>1
  <2>3. CASE i = n + 1 /\ j \in 1..n
    <3>1. s[j].deck \in T /\ s[j] = e
      BY <1>2, <1>3, <1>5, <2>3 DEF Answered, n
    <3> QED
      BY <1>3, <1>5, <2>3, <3>1
  <2> QED
    BY <1>1, <2>1, <2>2, <2>3
<1> QED
  BY <1>1, <1>4, <1>5 DEF Answered, t

\* A thread that got its answer waits no more.
LEMMA AnsweredTail ==
  ASSUME NEW s \in Seq(Message), s # <<>>, NEW T, Answered(s, T)
  PROVE  Answered(Tail(s), IF Head(s).kind = "answer" THEN T \ {Head(s).deck} ELSE T)
<1> DEFINE t == Tail(s)
<1>1. Len(s) \in Nat \ {0} /\ Len(t) = Len(s) - 1 /\ Head(s) = s[1] /\ s[1] \in Message
  OBVIOUS
<1>2. \A i \in 1..Len(t) : t[i] = s[i + 1] /\ i + 1 \in 1..Len(s) /\ s[i + 1] \in Message
  BY InTail, <1>1
<1> HIDE DEF t
<1>3. \A i \in 1..Len(t) : t[i].kind = "answer" => t[i].deck \in T /\ (t[i] # Head(s))
  BY <1>1, <1>2 DEF Answered
<1>4. \A x, y \in Message : x.kind = "answer" /\ y.kind = "answer" /\ x.deck = y.deck => x = y
  BY DEF Message
<1>5. \A i, j \in 1..Len(t) : t[i].kind = "answer" /\ t[i] = t[j] => i = j
  BY <1>1, <1>2 DEF Answered
<1>6. \A i \in 1..Len(t) : t[i].kind = "answer" /\ Head(s).kind = "answer" => t[i].deck # Head(s).deck
  BY <1>1, <1>2, <1>3, <1>4
<1> QED
  BY <1>3, <1>5, <1>6 DEF Answered, t

\* What a start of the other deck leaves of the daemon.
LEMMA MovedFacts ==
  ASSUME NativeType, NEW d \in Deck, NEW m \in BOOLEAN, Moved(d, m)
  PROVE  /\ NativeType'
         /\ native'.active = d /\ native'.row = native.row /\ native'.last = native.last
         /\ native'.ready = FALSE /\ native'.astray = FALSE /\ native'.seeking = None
         /\ native'.ended = native.ended /\ native'.over = native.over
BY DEF NativeType, Moved, Row, None

(* Every step keeps the type invariant *)

\* The daemon starts the other deck of its own.
LEMMA StartsTyped ==
  ASSUME Typed, Starts
  PROVE  Typed'
<1> DEFINE d == Other(native.active)
<1>1. d \in Deck /\ (native.due # "hard") \in BOOLEAN /\ Moved(d, native.due # "hard")
      /\ socket' = Append(socket, Event("started", d, native.row[d])) /\ thread' = Outrun(Thread)
      /\ UNCHANGED <<jobs, player, ops, blind>> /\ Superseded
  BY DEF Typed, NativeType, Starts, Deck, Other
<1> HIDE DEF d
<1>2. NativeType'
  BY <1>1, MovedFacts DEF Typed
<1>3. thread' \in Threads /\ \A t \in Thread : Fields(thread'[t], thread[t])
  BY <1>1, OutrunFacts DEF Typed
<1>4. Called' = Called /\ Places' /\ ThreadType'
  BY <1>3 DEF Called, Typed, Places, Fields, Thread, Threads, ThreadType
<1>5. WireType' /\ Answers'
  <2> DEFINE e == Event("started", d, native.row[d])
  <2>1. e \in Message /\ e.kind = "started"
    BY <1>1, MessageTypes DEF Typed, NativeType
  <2> HIDE DEF e
  <2>2. Answered(Append(socket, e), Called) /\ Append(socket, e) \in Seq(Message)
    BY <2>1, AnsweredAppend DEF Typed, WireType, Answers
  <2> QED
    BY <1>1, <1>4, <2>2 DEF Typed, WireType, Answers, e
<1>6. PlayerType' /\ BoundType'
  BY <1>1 DEF Typed, PlayerType, BoundType, Superseded
<1>7. Working'
  BY <1>1, <1>3 DEF Typed, Working, Fields, Thread
<1> QED
  BY <1>2, <1>4, <1>5, <1>6, <1>7 DEF Typed

\* It ends a transition, sends that end, and sends a seek's first samples.
LEMMA FinishesTyped ==
  ASSUME Typed, Finishes \/ Finished \/ SeekDone
  PROVE  Typed'
<1>1. NativeType'
  <2>1. CASE Finishes
    BY <2>1 DEF Typed, NativeType, Finishes
  <2>2. CASE Finished
    BY <2>2 DEF Typed, NativeType, Finished, Deck
  <2>3. CASE SeekDone
    BY <2>3 DEF Typed, NativeType, SeekDone
  <2> QED
    BY <2>1, <2>2, <2>3
<1>2. /\ UNCHANGED <<jobs, player, thread, ops, blind, writer>>
      /\ \/ socket' = socket
         \/ \E k \in {"finished", "applied"}, d \in Deck, r \in Row : socket' = Append(socket, Event(k, d, r))
  BY DEF Typed, NativeType, Finishes, Finished, SeekDone
<1>3. WireType' /\ Answers'
  <2>1. CASE socket' = socket
    BY <1>2, <2>1 DEF Typed, WireType, Answers, Called
  <2>2. ASSUME NEW k \in {"finished", "applied"}, NEW d \in Deck, NEW r \in Row,
               socket' = Append(socket, Event(k, d, r))
        PROVE  WireType' /\ Answers'
    BY <1>2, <2>2, MessageTypes, AnsweredAppend DEF Typed, WireType, Answers, Called
  <2> QED
    BY <1>2, <2>1, <2>2
<1>4. PlayerType' /\ ThreadType' /\ BoundType' /\ Places' /\ Working'
  BY <1>2 DEF Typed, PlayerType, ThreadType, BoundType, Places, Working
<1> QED
  BY <1>1, <1>3, <1>4 DEF Typed

\* What loading a row changes of the daemon.
LEMMA LoadedFacts ==
  ASSUME NativeType, NEW d \in Deck, NewRow \in Row, Loaded(d)
  PROVE  /\ NativeType'
         /\ native'.active = native.active /\ native'.row = [native.row EXCEPT ![d] = NewRow]
         /\ native'.last = NewRow /\ native'.ready = TRUE /\ native'.astray = native.astray
         /\ native'.seeking = native.seeking /\ native'.ended = native.ended /\ native'.over = native.over
BY DEF NativeType, Loaded, Row

\* Nothing but the daemon or the player's view changes.
LEMMA WireKept ==
  ASSUME Typed, UNCHANGED <<socket, jobs, thread>>
  PROVE  WireType' /\ ThreadType' /\ Places' /\ Answers' /\ Working'
BY DEF Typed, WireType, ThreadType, Places, Answers, Called, Working

\* The row that the daemon asks for.
LEMMA NeedNextTyped ==
  ASSUME Typed, NeedNext
  PROVE  Typed'
<1> DEFINE d == Other(native.active)
<1>1. d \in Deck /\ NewRow \in Row /\ Loaded(d) /\ player' = [player EXCEPT !.row[d] = NewRow]
      /\ UNCHANGED <<socket, jobs, thread, ops, blind, writer>>
  BY DEF NeedNext, CanLoad, Typed, NativeType, Deck, Other
<1> HIDE DEF d
<1>2. NativeType'
  BY <1>1, LoadedFacts DEF Typed
<1>3. PlayerType' /\ BoundType'
  BY <1>1 DEF Typed, PlayerType, BoundType
<1> QED
  BY <1>1, <1>2, <1>3, WireKept DEF Typed

\* Python's view of the deck that is heard.
LEMMA ClearedType ==
  ASSUME PlayerType, NEW d \in Deck, player' = Cleared(d)
  PROVE  PlayerType'
BY DEF PlayerType, Cleared

\* The reader takes an event to the player, or an answer to the thread that waits.
LEMMA HandleTyped ==
  ASSUME Typed, Handle
  PROVE  Typed'
<1> DEFINE e == Head(socket)
<1>1. /\ socket \in Seq(Message) /\ socket # <<>> /\ socket' = Tail(socket)
      /\ UNCHANGED <<native, ops, blind, writer>>
  BY DEF Handle, Typed, WireType
<1>2. e \in Message /\ socket' \in Seq(Message)
  BY <1>1, InTail
<1>3. /\ e.kind = "answer" => e.deck \in Called
      /\ Answered(socket', IF e.kind = "answer" THEN Called \ {e.deck} ELSE Called)
  <2>1. Answered(socket, Called)
    BY DEF Typed, Answers
  <2>2. e = socket[1] /\ 1 \in 1..Len(socket)
    BY <1>1
  <2>3. e.kind = "answer" => e.deck \in Called
    BY <2>1, <2>2 DEF Answered
  <2> QED
    BY <1>1, <2>1, <2>3, AnsweredTail
<1>4. NativeType' /\ BoundType'
  BY <1>1 DEF Typed, NativeType, BoundType
<1>5. CASE e.kind = "started"
  <2>1. jobs' = Append(jobs, e) /\ UNCHANGED <<player, thread>>
    BY <1>5 DEF Handle
  <2>2. e \in StartEvent
    BY <1>2, <1>5 DEF Message, StartEvent
  <2>3. WireType' /\ Answers'
    <3>1. jobs \in Seq(StartEvent)
      BY DEF Typed, WireType
    <3>2. Called' = Called
      BY <2>1 DEF Called
    <3> HIDE DEF e
    <3>3. jobs' \in Seq(StartEvent)
      BY <2>1, <2>2, <3>1
    <3> QED
      BY <1>2, <1>3, <1>5, <3>2, <3>3 DEF WireType, Answers
  <2>4. Append(jobs, e) # <<>>
    <3>1. jobs \in Seq(StartEvent) /\ Len(jobs) \in Nat
      BY DEF Typed, WireType
    <3> HIDE DEF e
    <3>2. Len(Append(jobs, e)) = Len(jobs) + 1
      BY <2>2, <3>1
    <3> QED
      BY <3>1, <3>2
  <2> QED
    BY <1>4, <2>1, <2>3, <2>4 DEF Typed, PlayerType, ThreadType, Places, Working
<1>6. CASE e.kind \in {"finished", "applied"}
  <2>1. UNCHANGED <<jobs, thread>> /\ (TransitionFinished(e) \/ SeekApplied(e))
    BY <1>6 DEF Handle
  <2>2. e.deck \in Deck
    BY <1>2, <1>6 DEF Message
  <2> HIDE DEF e
  <2>3. PlayerType'
    BY <2>1, <2>2 DEF Typed, PlayerType, TransitionFinished, SeekApplied, Cleared, Deck
  <2>4. WireType' /\ Answers'
    BY <1>2, <1>3, <1>6, <2>1 DEF Typed, WireType, Answers, Called
  <2> QED
    BY <1>4, <2>1, <2>3, <2>4 DEF Typed, ThreadType, Places, Working
<1>7. CASE e.kind = "answer"
  <2>1. UNCHANGED <<jobs, player>> /\ thread' = [thread EXCEPT ![e.deck].at = "publish"]
    BY <1>7 DEF Handle
  <2>2. e.deck \in Thread /\ thread[e.deck].at = "called"
    BY <1>3, <1>7 DEF Called
  <2> HIDE DEF e
  <2>3. ThreadType' /\ Places'
    BY <2>1, <2>2 DEF Typed, ThreadType, Places, Place, Thread
  <2>4. Called' = Called \ {e.deck}
    BY <2>1, <2>2 DEF Called, Typed, ThreadType
  <2>5. WireType' /\ Answers'
    BY <1>2, <1>3, <1>7, <2>1, <2>4 DEF Typed, WireType, Answers
  <2>6. Working'
    BY <2>1, <2>2 DEF Typed, Working, ThreadType, Thread
  <2> QED
    BY <1>4, <2>1, <2>3, <2>5, <2>6 DEF Typed, PlayerType
<1> QED
  BY <1>2, <1>5, <1>6, <1>7 DEF Message

\* A thread that sends a command and waits for its answer.
LEMMA CalledOne ==
  ASSUME Typed, NEW t \in Thread, thread[t].at # "called", Called' = Called \cup {t}, jobs' = jobs,
         NEW s \in Seq(Message), Answered(s, Called), socket' = Append(s, Answer(t))
  PROVE  WireType' /\ Answers'
<1> DEFINE e == Answer(t)
<1>1. e \in Message /\ e.kind = "answer" /\ e.deck = t /\ t \notin Called
  BY MessageTypes DEF Called
<1> DEFINE U == Called \cup {t}
           C == Called
<1>2. C \subseteq U /\ e.deck \in U \ C /\ Answered(s, C)
  BY <1>1
<1> HIDE DEF e, U, C
<1>3. Answered(Append(s, e), U) /\ Append(s, e) \in Seq(Message)
  BY <1>1, <1>2, AnsweredAppend
<1> QED
  BY <1>3 DEF Typed, WireType, Answers, e, U

\* Only the fields of t but for old change, and t waits.
Calls(t) ==
  /\ thread' \in Threads /\ Called' = Called \cup {t}
  /\ thread'[t].at = "called" /\ thread'[t].deck = thread[t].deck /\ thread'[t].row = thread[t].row
  /\ thread'[t].how = thread[t].how
  /\ \A u \in Thread \ {t} : Fields(thread'[u], thread[u])

\* A thread that begins to wait is in a place that its kind can be in.
LEMMA CallsPlaces ==
  ASSUME Typed, NEW t \in {"next", "monitor", "seek"}, thread[t].at \notin {"none", "read"}, Calls(t)
  PROVE  Places'
<1>1. \A u \in Thread \ {t} : Fields(thread'[u], thread[u])
  BY DEF Calls
<1>2. thread'[t].at = "called" /\ thread'[t].how = thread[t].how /\ thread'[t].row = thread[t].row
  BY DEF Calls
<1>3. CASE t = "next"
  BY <1>1, <1>2, <1>3 DEF Typed, Places, Fields, Thread
<1>4. CASE t = "monitor"
  BY <1>1, <1>2, <1>4 DEF Typed, Places, Fields, Thread
<1>5. CASE t = "seek"
  BY <1>1, <1>2, <1>5 DEF Typed, Places, Fields, Thread
<1> QED
  BY <1>3, <1>4, <1>5

\* And the worker still has the start it read the daemon for.
LEMMA CallsWorking ==
  ASSUME Typed, NEW t \in Thread \ {"worker"}, Calls(t), jobs' = jobs
  PROVE  Working'
BY DEF Typed, Working, Calls, Fields, Thread

\* A command that moves the daemon outruns the others.
LEMMA OutrunCalls ==
  ASSUME Typed, NEW t \in Thread, NEW ts, NEW o, o = Outrun(ts), thread' = [o EXCEPT ![t].at = "called"]
  PROVE  /\ Calls(t)
         /\ \A u \in Thread : thread'[u].old <=>
              thread[u].old \/ (u \in ts /\ thread[u].how \notin {"none", "forget"})
<1>1. /\ o \in Threads
      /\ \A u \in Thread :
           /\ Fields(o[u], thread[u])
           /\ o[u].old <=> thread[u].old \/ (u \in ts /\ thread[u].how \notin {"none", "forget"})
  BY OutrunFacts DEF Typed
<1>2. thread' \in Threads
  BY <1>1 DEF Threads, Place
<1>3. \A u \in Thread \ {t} : thread'[u] = o[u]
  BY <1>1 DEF Threads
<1>4. /\ thread'[t].at = "called" /\ thread'[t].deck = o[t].deck /\ thread'[t].row = o[t].row
      /\ thread'[t].how = o[t].how /\ thread'[t].old = o[t].old
  BY <1>1 DEF Threads
<1>5. Called' = Called \cup {t}
  BY <1>1, <1>2, <1>3, <1>4 DEF Called, Fields
<1> QED
  BY <1>1, <1>2, <1>3, <1>4, <1>5 DEF Calls, Fields

\* One that does not outruns nobody.
LEMMA GoesCalls ==
  ASSUME Typed, NEW t \in Thread, Goes(t, "called")
  PROVE  Calls(t) /\ \A u \in Thread : thread'[u].old = thread[u].old
<1>1. thread \in Threads /\ thread' = [thread EXCEPT ![t].at = "called"]
  BY DEF Typed, ThreadType, Threads, Goes
<1>2. thread' \in Threads
  BY <1>1 DEF Threads, Place
<1>3. /\ \A u \in Thread \ {t} : thread'[u] = thread[u]
      /\ thread'[t].at = "called" /\ thread'[t].deck = thread[t].deck /\ thread'[t].row = thread[t].row
      /\ thread'[t].how = thread[t].how /\ thread'[t].old = thread[t].old
  BY <1>1 DEF Threads
<1>4. Called' = Called \cup {t}
  BY <1>1, <1>3 DEF Called
<1> QED
  BY <1>2, <1>3, <1>4 DEF Calls, Fields

\* A start that the daemon accepts.
LEMMA StartingTyped ==
  ASSUME Typed, NEW t \in {"next", "monitor"}, thread[t].at \in {"command", "blind"},
         NEW how \in {"select", "fade", "interrupt", "hand"}, Starting(t, how), jobs' = jobs
  PROVE  NativeType' /\ WireType' /\ ThreadType' /\ Places' /\ Answers' /\ Working' /\ writer' \in {"event", "select", "stray"}
<1>1. t \in Thread \ {"worker"} /\ thread[t].at # "called" /\ thread[t].at \notin {"none", "read"}
  BY DEF Thread
<1>2. socket \in Seq(Message) /\ Answered(socket, Called)
  BY DEF Typed, WireType, Answers
<1>3. CASE how \in {"select", "fade"}
  <2> DEFINE d == Other(native.active)
             e == Event("started", d, native.row[d])
             o == Outrun(Thread \ {t})
  <2>1. d \in Deck /\ Moved(d, how = "fade") /\ socket' = socket \o <<e, Answer(t)>>
        /\ thread' = [o EXCEPT ![t].at = "called"] /\ Superseded
    BY <1>3 DEF Typed, NativeType, Starting, Deck, Other
  <2>2. e \in Message /\ e.kind = "started" /\ Answer(t) \in Message
    BY <1>1, <2>1, MessageTypes DEF Typed, NativeType
  <2>3. (how = "fade") \in BOOLEAN
    OBVIOUS
  <2> HIDE DEF d, e
  <2>4. NativeType'
    BY <2>1, <2>3, MovedFacts DEF Typed
  <2>5. Calls(t)
    BY <1>1, <2>1, OutrunCalls
  <2>6. Answered(Append(socket, e), Called) /\ Append(socket, e) \in Seq(Message)
    BY <1>2, <2>2, AnsweredAppend
  <2>7. socket' = Append(Append(socket, e), Answer(t))
    BY <1>2, <2>1, <2>2, Concat2
  <2>8. WireType' /\ Answers'
    BY <1>1, <2>5, <2>6, <2>7, CalledOne DEF Calls
  <2> QED
    BY <1>1, <2>1, <2>4, <2>5, <2>8, CallsPlaces, CallsWorking DEF Calls, Threads, ThreadType, Superseded, Typed, BoundType
<1>4. CASE how \in {"interrupt", "hand"}
  <2>1. /\ native' = [native EXCEPT !.due = IF how = "hand" THEN "hard" ELSE "interrupt"]
        /\ socket' = Append(socket, Answer(t)) /\ Goes(t, "called") /\ UNCHANGED writer
    BY <1>4 DEF Starting
  <2>2. NativeType'
    BY <2>1 DEF Typed, NativeType
  <2>3. Calls(t)
    BY <1>1, <2>1, GoesCalls
  <2>4. WireType' /\ Answers'
    BY <1>1, <1>2, <2>1, <2>3, CalledOne DEF Calls
  <2> QED
    BY <1>1, <2>1, <2>2, <2>3, <2>4, CallsPlaces, CallsWorking DEF Calls, Threads, ThreadType, Typed, BoundType
<1> QED
  BY <1>3, <1>4

\* Steps that no daemon and no socket sees, and that leave the threads that wait.
LEMMA QuietTyped ==
  ASSUME Typed, UNCHANGED <<native, socket>>, Called' = Called, jobs' \in Seq(StartEvent)
  PROVE  NativeType' /\ WireType' /\ Answers'
BY DEF Typed, NativeType, WireType, Answers

\* Thread t, which waited, holds what it read; the others are as they were.
ReadBy(t, d, r, flag, how) ==
  /\ thread[t].at = "none" /\ thread' \in Threads /\ Called' = Called
  /\ thread'[t].at = "read" /\ thread'[t].deck = d /\ thread'[t].row = r /\ thread'[t].flag = flag
  /\ thread'[t].how = how /\ thread'[t].old = FALSE
  /\ \A u \in Thread \ {t} : thread'[u] = thread[u]

\* A thread reads the daemon's state.
LEMMA ReadsFacts ==
  ASSUME Typed, NEW t \in Thread, NEW d \in Deck, NEW r \in Row \cup {None}, NEW flag \in BOOLEAN,
         NEW how \in How, Reads(t, d, r, flag, how)
  PROVE  ReadBy(t, d, r, flag, how)
<1> DEFINE x == [Idle EXCEPT !.at = "read", !.deck = d, !.row = r, !.flag = flag, !.how = how]
<1>1. /\ x \in [at : Place, deck : Deck, row : Row \cup {None}, flag : BOOLEAN, how : How, old : BOOLEAN]
      /\ x.at = "read" /\ x.deck = d /\ x.row = r /\ x.flag = flag /\ x.how = how /\ x.old = FALSE
  BY DEF Idle, Place
<1>2. thread' = [thread EXCEPT ![t] = x] /\ thread[t].at = "none" /\ thread \in Threads
  BY DEF Reads, Typed, ThreadType, Threads
<1> HIDE DEF x
<1>3. thread' \in Threads
  BY <1>1, <1>2 DEF Threads
<1>4. thread'[t] = x /\ \A u \in Thread \ {t} : thread'[u] = thread[u]
  BY <1>2 DEF Threads
<1>5. Called' = Called
  BY <1>1, <1>2, <1>4 DEF Called
<1> QED
  BY <1>1, <1>2, <1>3, <1>4, <1>5 DEF ReadBy

\* The worker reads it for the start at the head of its queue, or drops that start.
LEMMA WorkerReadsTyped ==
  ASSUME Typed, WorkerReads
  PROVE  Typed'
<1> DEFINE e == Head(jobs)
           r == IF native.ready THEN native.row[Other(e.deck)] ELSE None
<1>1. jobs \in Seq(StartEvent) /\ jobs # <<>> /\ UNCHANGED <<native, socket, player, ops, blind, writer>>
  BY DEF Typed, WireType, WorkerReads
<1>2. e \in StartEvent /\ Tail(jobs) \in Seq(StartEvent)
  BY <1>1, InTail
<1>3. r \in Row \cup {None} /\ native.moving \in BOOLEAN
  BY <1>2 DEF Typed, NativeType, StartEvent, Deck, Other
<1>4. \/ jobs' = jobs /\ Reads("worker", "a", r, native.moving, "none")
      \/ jobs' = Tail(jobs) /\ thread' = thread
  BY DEF WorkerReads
<1> HIDE DEF r, e
<1>6. ThreadType' /\ Places' /\ Called' = Called
  <2>1. CASE thread' = thread
    BY <2>1 DEF Typed, ThreadType, Places, Called
  <2>2. CASE Reads("worker", "a", r, native.moving, "none")
    <3>1. ReadBy("worker", "a", r, native.moving, "none")
      BY <1>3, <2>2, ReadsFacts DEF Thread, Deck, How
    <3> QED
      BY <3>1 DEF ReadBy, Typed, ThreadType, Threads, Places, Thread
  <2> QED
    BY <1>4, <2>1, <2>2
<1>7. jobs' \in Seq(StartEvent)
  BY <1>1, <1>2, <1>4
<1>8. Working'
  <2>1. CASE jobs' = jobs
    BY <1>1, <2>1 DEF Working
  <2>2. CASE thread' = thread /\ jobs' # jobs
    <3>1. thread["worker"].at = "none"
      BY <1>4, <2>2 DEF WorkerReads
    <3> QED
      BY <2>2, <3>1 DEF Working
  <2> QED
    BY <1>4, <2>1, <2>2
<1> QED
  BY <1>1, <1>6, <1>7, <1>8, QuietTyped DEF Typed, PlayerType, BoundType

\* It rebuilds the plan around that start.
LEMMA RebuildTyped ==
  ASSUME Typed, Rebuild
  PROVE  Typed'
<1> DEFINE e == Head(jobs)
           o == Outrun({"next"})
           w == thread["worker"]
<1>1. jobs \in Seq(StartEvent) /\ jobs # <<>>
  BY DEF Typed, WireType, Working, Rebuild
<1>2. e \in StartEvent /\ Tail(jobs) \in Seq(StartEvent)
  BY <1>1, InTail
<1>3. /\ player' = Rebuilt(e, w.row, w.flag) /\ jobs' = Tail(jobs)
      /\ thread' = [o EXCEPT !["worker"] = Idle]
      /\ UNCHANGED <<native, socket, ops, blind>> /\ writer' \in {writer, "event"}
  BY DEF Rebuild
<1>4. w.row \in Row \cup {None} /\ w.flag \in BOOLEAN
  BY DEF Typed, ThreadType, Thread
<1> HIDE DEF e, w
<1>5. PlayerType'
  <2> DEFINE rows == [d \in Deck |-> IF d = e.deck THEN e.row ELSE w.row]
  <2>1. rows \in [Deck -> Row \cup {None}] /\ e.deck \in Deck
    BY <1>2, <1>4 DEF StartEvent
  <2>2. player' = [player EXCEPT !.active = e.deck, !.row = rows, !.moving = w.flag, !.starting = FALSE,
                                 !.seek = None, !.late = FALSE, !.seekDeck = "a", !.armed = "no"]
    BY <1>3 DEF Rebuilt
  <2> HIDE DEF rows
  <2> QED
    BY <1>4, <2>1, <2>2 DEF Typed, PlayerType, Deck, None
<1>6. /\ o \in Threads /\ \A t \in Thread : Fields(o[t], thread[t])
  BY OutrunFacts DEF Typed
<1> HIDE DEF o
<1>7. thread' \in Threads /\ \A t \in Thread \ {"worker"} : thread'[t] = o[t]
  BY <1>3, <1>6 DEF Threads, Idle, Place, How, Deck
<1>8. thread'["worker"] = Idle
  BY <1>3, <1>6 DEF Threads, Thread
<1>9. thread["worker"].at # "called"
  BY DEF Typed, Places
<1>10. Called' = Called
  BY <1>6, <1>7, <1>8, <1>9 DEF Called, Fields, Idle
<1>11. Places' /\ Working'
  BY <1>6, <1>7, <1>8 DEF Typed, Places, Working, Fields, Idle, Thread
<1>12. NativeType' /\ WireType' /\ Answers'
  BY <1>2, <1>3, <1>10, QuietTyped
<1> QED
  BY <1>3, <1>5, <1>7, <1>11, <1>12 DEF Typed, BoundType, ThreadType, Threads

\* Thread t goes on at another place, or is done; nobody's answer is involved.
LEMMA GoesFacts ==
  ASSUME Typed, NEW t \in Thread, NEW a \in Place \ {"called"}, thread[t].at # "called", Goes(t, a)
  PROVE  /\ thread' \in Threads /\ Called' = Called
         /\ thread'[t].at = a /\ thread'[t].deck = thread[t].deck /\ thread'[t].row = thread[t].row
         /\ thread'[t].how = thread[t].how /\ thread'[t].old = thread[t].old /\ thread'[t].flag = thread[t].flag
         /\ \A u \in Thread \ {t} : thread'[u] = thread[u]
<1>1. thread \in Threads /\ thread' = [thread EXCEPT ![t].at = a]
  BY DEF Typed, ThreadType, Threads, Goes
<1>2. thread' \in Threads
  BY <1>1 DEF Threads
<1>3. /\ \A u \in Thread \ {t} : thread'[u] = thread[u]
      /\ thread'[t].at = a /\ thread'[t].deck = thread[t].deck /\ thread'[t].row = thread[t].row
      /\ thread'[t].how = thread[t].how /\ thread'[t].old = thread[t].old /\ thread'[t].flag = thread[t].flag
  BY <1>1 DEF Threads
<1>4. Called' = Called
  BY <1>1, <1>3 DEF Called
<1> QED
  BY <1>2, <1>3, <1>4

\* A thread is done.
LEMMA EndsFacts ==
  ASSUME Typed, NEW t \in Thread, thread[t].at # "called", Ends(t)
  PROVE  /\ thread' \in Threads /\ Called' = Called /\ Places'
         /\ thread'[t] = Idle
         /\ \A u \in Thread \ {t} : thread'[u] = thread[u]
<1>1. thread \in Threads /\ thread' = [thread EXCEPT ![t] = Idle]
  BY DEF Typed, ThreadType, Threads, Ends
<1>2. Idle \in [at : Place, deck : Deck, row : Row \cup {None}, flag : BOOLEAN, how : How, old : BOOLEAN]
      /\ Idle.at = "none" /\ Idle.how = "none"
  BY DEF Idle, Place, How, Deck
<1>3. thread' \in Threads /\ thread'[t] = Idle /\ \A u \in Thread \ {t} : thread'[u] = thread[u]
  BY <1>1, <1>2 DEF Threads
<1>4. Called' = Called
  BY <1>2, <1>3 DEF Called
<1>5. Places'
  BY <1>2, <1>3 DEF Typed, Places, Thread
<1> QED
  BY <1>3, <1>4, <1>5

\* A step of another thread than the worker that leaves the daemon, the socket and
\* the jobs.
LEMMA SilentTyped ==
  ASSUME Typed, UNCHANGED <<native, socket, jobs>>, Called' = Called,
         thread' \in Threads, thread'["worker"] = thread["worker"]
  PROVE  NativeType' /\ WireType' /\ Answers' /\ Working' /\ ThreadType'
<1>1. Working'
  BY DEF Typed, Working
<1> QED
  BY <1>1, QuietTyped DEF Typed, WireType, ThreadType, Threads

\* A manual next, an interrupt and a seek begin with reading the daemon.
LEMMA ReadsTyped ==
  ASSUME Typed, NEW how \in {"select", "interrupt"}, ManualNext(how) \/ Seek
  PROVE  Typed'
<1> DEFINE r == native.row[native.active]
           Asks(t, flag, h) == ReadBy(t, native.active, r, flag, h)
<1>1. native.active \in Deck /\ r \in Row /\ r # None /\ native.moving \in BOOLEAN
  BY DEF Typed, NativeType, Row, None
<1>2. UNCHANGED <<native, socket, jobs, player, blind, writer>> /\ ops' = ops + 1 /\ ops < MaxOps
  BY DEF ManualNext, Seek, Op
<1>3. PlayerType' /\ BoundType'
  BY <1>2, TransitionAssumption DEF Typed, PlayerType, BoundType
<1>4. CASE ManualNext(how)
  <2>1. ReadBy("next", native.active, r, native.moving, how)
    BY <1>1, <1>4, ReadsFacts DEF ManualNext, Thread, How
  <2>2. Places'
    BY <2>1 DEF ReadBy, Typed, Places, Thread
  <2> QED
    BY <1>2, <1>3, <2>1, <2>2, SilentTyped DEF ReadBy, Typed, Thread
<1>5. CASE Seek
  <2>1. ReadBy("seek", native.active, r, FALSE, "seek")
    BY <1>1, <1>5, ReadsFacts DEF Seek, Thread, How
  <2>2. Places'
    BY <1>1, <2>1 DEF ReadBy, Typed, Places, Thread
  <2> QED
    BY <1>2, <1>3, <2>1, <2>2, SilentTyped DEF ReadBy, Typed, Thread
<1> QED
  BY <1>4, <1>5

\* Who wrote last is one of three.
LEMMA WroteType ==
  ASSUME Typed, NEW t, NEW does, NEW how, Wrote(t, does, how)
  PROVE  writer' \in {"event", "select", "stray"}
BY DEF Typed, BoundType, Wrote

\* A stale transition is cleared before a manual next.
LEMMA ReconcileTyped ==
  ASSUME Typed, Reconcile
  PROVE  Typed'
<1>1. /\ thread["next"].at = "read" /\ Goes("next", "reserve")
      /\ UNCHANGED <<native, socket, jobs, ops, blind>> /\ Wrote("next", player' # player, "event")
      /\ player' = player \/ player' = Cleared(thread["next"].deck)
  BY DEF Reconcile, Reconciled
<1>2. thread["next"].deck \in Deck
  BY DEF Typed, ThreadType, Thread
<1>3. PlayerType' /\ BoundType'
  BY <1>1, <1>2, ClearedType, WroteType DEF Typed, PlayerType, BoundType
<1>4. /\ thread' \in Threads /\ Called' = Called
      /\ thread'["next"].at = "reserve" /\ thread'["next"].how = thread["next"].how
      /\ \A u \in Thread \ {"next"} : thread'[u] = thread[u]
  BY <1>1, GoesFacts DEF Thread, Place
<1>5. Places'
  BY <1>1, <1>4 DEF Typed, Places, Thread
<1> QED
  BY <1>1, <1>3, <1>4, <1>5, SilentTyped DEF Typed, Thread

\* Whether the monitor's plan is replaced.
LEMMA MonitorFlag ==
  ASSUME NEW th \in Threads, NEW f \in BOOLEAN, thread' = [th EXCEPT !["monitor"].flag = f]
  PROVE  /\ thread' \in Threads
         /\ \A u \in Thread \ {"monitor"} : thread'[u] = th[u]
         /\ thread'["monitor"].at = th["monitor"].at /\ thread'["monitor"].deck = th["monitor"].deck
         /\ thread'["monitor"].row = th["monitor"].row /\ thread'["monitor"].how = th["monitor"].how
         /\ thread'["monitor"].old = th["monitor"].old
<1>1. thread' \in Threads
  BY DEF Threads, Thread
<1> QED
  BY <1>1 DEF Threads, Thread

\* The player's state but for what a start claims and what it plans.
Plans(rows) ==
  /\ PlayerType' /\ player'.active = player.active /\ player'.row = rows
  /\ player'.seek = player.seek /\ player'.seekDeck = player.seekDeck /\ player'.armed = player.armed

\* The hand-off goes on or is done; the monitor's plan is replaced.
ReserveGoes ==
  \E a \in {"none", "prepare"} :
    /\ thread' \in Threads /\ thread'["next"].at = a
    /\ a = "prepare" => /\ thread'["next"].deck = thread["next"].deck /\ thread'["next"].how = thread["next"].how
                        /\ thread'["next"].old = thread["next"].old
    /\ thread'["seek"] = thread["seek"] /\ thread'["worker"] = thread["worker"]
    /\ thread'["monitor"].at = thread["monitor"].at /\ thread'["monitor"].deck = thread["monitor"].deck
    /\ thread'["monitor"].row = thread["monitor"].row /\ thread'["monitor"].how = thread["monitor"].how
    /\ thread'["monitor"].old = thread["monitor"].old

\* What the reservation of a plan writes, whether it may claim the transition or not.
LEMMA ReserveFacts ==
  ASSUME Typed, Reserve
  PROVE  /\ ReserveGoes /\ thread["next"].at = "reserve" /\ UNCHANGED <<native, socket, jobs, ops, blind>>
         /\ Wrote("next", TRUE, "plan")
         /\ LET d == thread["next"].deck
                head == IF native.ready THEN native.row[Other(d)] ELSE NewRow
                rows == [x \in Deck |-> IF x = d THEN thread["next"].row ELSE head]
            IN  head \in Row /\ Plans(rows)
<1> DEFINE d == thread["next"].deck
           head == IF native.ready THEN native.row[Other(d)] ELSE NewRow
           rows == [x \in Deck |-> IF x = d THEN thread["next"].row ELSE head]
           p == [player EXCEPT !.row = rows, !.starting = FALSE]
           goes == [thread EXCEPT !["next"] = [@ EXCEPT !.at = "prepare", !.row = None, !.flag = FALSE]]
           stops == [thread EXCEPT !["next"] = Idle]
<1>1. /\ thread["next"].at = "reserve" /\ head \in Row /\ UNCHANGED <<native, socket, jobs, ops, blind>>
      /\ Wrote("next", TRUE, "plan")
  BY DEF Reserve
<1>2. \/ player' = [p EXCEPT !.starting = TRUE] /\ thread' = [goes EXCEPT !["monitor"].flag = Replaced]
      \/ player' = p /\ thread' = [stops EXCEPT !["monitor"].flag = Replaced]
  BY DEF Reserve
<1>3. Plans(rows)
  <2>1. rows \in [Deck -> Row \cup {None}]
    BY <1>1 DEF Typed, ThreadType, Thread
  <2> HIDE DEF rows
  <2> QED
    BY <1>2, <2>1 DEF Plans, Typed, PlayerType
<1>4. thread \in Threads /\ Replaced \in BOOLEAN
  BY DEF Typed, ThreadType, Threads, Replaced
<1>5. goes \in Threads /\ stops \in Threads
  BY <1>4 DEF Threads, Thread, Idle, Place, How, Deck
<1>6. goes["next"].at = "prepare" /\ goes["next"].deck = thread["next"].deck /\ goes["next"].how = thread["next"].how
      /\ goes["next"].old = thread["next"].old /\ \A u \in Thread \ {"next"} : goes[u] = thread[u]
  BY <1>4 DEF Threads, Thread
<1>7. stops["next"].at = "none" /\ \A u \in Thread \ {"next"} : stops[u] = thread[u]
  BY <1>4 DEF Threads, Thread, Idle
<1> HIDE DEF goes, stops
<1>8. ReserveGoes
  <2>1. CASE thread' = [goes EXCEPT !["monitor"].flag = Replaced]
    <3>1. /\ thread' \in Threads /\ \A u \in Thread \ {"monitor"} : thread'[u] = goes[u]
          /\ thread'["monitor"].at = goes["monitor"].at /\ thread'["monitor"].deck = goes["monitor"].deck
          /\ thread'["monitor"].row = goes["monitor"].row /\ thread'["monitor"].how = goes["monitor"].how
          /\ thread'["monitor"].old = goes["monitor"].old
      BY <1>4, <1>5, <2>1, MonitorFlag
    <3> QED
      BY <1>6, <3>1 DEF ReserveGoes, Thread
  <2>2. CASE thread' = [stops EXCEPT !["monitor"].flag = Replaced]
    <3>1. /\ thread' \in Threads /\ \A u \in Thread \ {"monitor"} : thread'[u] = stops[u]
          /\ thread'["monitor"].at = stops["monitor"].at /\ thread'["monitor"].deck = stops["monitor"].deck
          /\ thread'["monitor"].row = stops["monitor"].row /\ thread'["monitor"].how = stops["monitor"].how
          /\ thread'["monitor"].old = stops["monitor"].old
      BY <1>4, <1>5, <2>2, MonitorFlag
    <3> QED
      BY <1>7, <3>1 DEF ReserveGoes, Thread
  <2> QED
    BY <1>2, <2>1, <2>2
<1> QED
  BY <1>1, <1>3, <1>8

\* A manual next reserves its plan and claims the transition.
LEMMA ReserveTyped ==
  ASSUME Typed, Reserve
  PROVE  Typed'
<1>1. /\ ReserveGoes /\ thread["next"].at = "reserve" /\ UNCHANGED <<native, socket, jobs, ops, blind>>
      /\ Wrote("next", TRUE, "plan") /\ PlayerType'
  BY ReserveFacts DEF Plans
<1>2. Called' = Called /\ Places'
  BY <1>1 DEF ReserveGoes, Typed, Called, Places, Thread
<1> QED
  BY <1>1, <1>2, WroteType, SilentTyped DEF ReserveGoes, Typed, BoundType

\* A claim that is given up.
LEMMA GivenUpType ==
  ASSUME PlayerType, player' = GivenUp
  PROVE  PlayerType'
BY DEF PlayerType, GivenUp

\* A start that goes on from a place where it waits for nobody.
LEMMA GoesTyped ==
  ASSUME Typed, NEW t \in {"next", "monitor"}, thread[t].at \in {"prepare", "blind"},
         NEW a \in {"prepare", "command"}, Goes(t, a), thread[t].how = "select" \/ t = "next"
  PROVE  /\ thread' \in Threads /\ Called' = Called /\ thread'["worker"] = thread["worker"] /\ Places'
<1>1. t \in Thread /\ thread[t].at # "called" /\ a \in Place \ {"called"}
  BY DEF Thread, Place
<1>2. thread' \in Threads /\ Called' = Called /\ (\A u \in Thread \ {t} : thread'[u] = thread[u])
      /\ thread'[t].at = a /\ thread'[t].how = thread[t].how
  BY <1>1, GoesFacts
<1>3. CASE t = "next"
  BY <1>1, <1>2, <1>3 DEF Typed, Places, Thread
<1>4. CASE t = "monitor"
  BY <1>1, <1>2, <1>4 DEF Typed, Places, Thread
<1> QED
  BY <1>2, <1>3, <1>4 DEF Thread

\* One that is done there.
LEMMA EndsTyped ==
  ASSUME Typed, NEW t \in Thread \ {"worker"}, thread[t].at # "called", Ends(t)
  PROVE  /\ thread' \in Threads /\ Called' = Called /\ thread'["worker"] = thread["worker"] /\ Places'
BY EndsFacts DEF Thread

\* The target deck is loaded.
LEMMA PrepareTyped ==
  ASSUME Typed, NEW t \in {"next", "monitor"}, Prepare(t)
  PROVE  Typed'
<1> DEFINE d == Other(thread[t].deck)
<1>1. thread[t].at = "prepare" /\ UNCHANGED <<socket, jobs, writer>> /\ d \in Deck /\ t \in Thread \ {"worker"}
  BY DEF Prepare, Other, Deck, Thread
<1>2. \/ UNCHANGED native /\ (UNCHANGED player \/ player' = GivenUp)
      \/ NewRow \in Row /\ Loaded(d) /\ player' = [player EXCEPT !.row[d] = NewRow]
  BY DEF Prepare, CanLoad
<1>3. BoundType'
  BY TransitionAssumption DEF Prepare, Fails, Op, Typed, BoundType
<1>4. Goes(t, "command") \/ Ends(t)
  BY DEF Prepare
<1> HIDE DEF d
<1>5. NativeType' /\ PlayerType'
  <2>1. CASE UNCHANGED native /\ (UNCHANGED player \/ player' = GivenUp)
    BY <2>1, GivenUpType DEF Typed, NativeType, PlayerType
  <2>2. CASE NewRow \in Row /\ Loaded(d) /\ player' = [player EXCEPT !.row[d] = NewRow]
    <3>1. NativeType'
      BY <1>1, <2>2, LoadedFacts DEF Typed
    <3>2. PlayerType'
      BY <1>1, <2>2 DEF Typed, PlayerType
    <3> QED
      BY <3>1, <3>2
  <2> QED
    BY <1>2, <2>1, <2>2
<1>6. thread' \in Threads /\ Called' = Called /\ thread'["worker"] = thread["worker"] /\ Places'
  <2>1. thread[t].how = "select" \/ t = "next"
    BY <1>1 DEF Typed, Places
  <2> QED
    BY <1>1, <1>4, <2>1, GoesTyped, EndsTyped
<1>7. WireType' /\ Answers' /\ Working' /\ ThreadType'
  BY <1>1, <1>6 DEF Typed, WireType, Answers, Working, ThreadType, Threads
<1> QED
  BY <1>3, <1>5, <1>6, <1>7 DEF Typed

\* The command goes out, or the plan moved on.
LEMMA CommandTyped ==
  ASSUME Typed, NEW t \in {"next", "monitor"}, Command(t)
  PROVE  Typed'
<1>1. thread[t].at = "command" /\ UNCHANGED <<jobs, ops, blind>> /\ t \in Thread \ {"worker"}
      /\ thread[t].how \in {"select", "interrupt"}
  BY DEF Command, Thread, Typed, Places
<1>2. CASE Starting(t, thread[t].how) /\ UNCHANGED player
  BY <1>1, <1>2, StartingTyped DEF Typed, PlayerType, BoundType
<1>3. CASE player' = GivenUp /\ Ends(t) /\ UNCHANGED <<native, socket, writer>>
  BY <1>1, <1>3, EndsTyped, GivenUpType, SilentTyped DEF Typed, BoundType
<1> QED
  BY <1>2, <1>3 DEF Command

\* What a successful start writes.
LEMMA StartedType ==
  ASSUME Typed, NEW t \in {"next", "monitor"}, player' = Started(t)
  PROVE  PlayerType'
<1> DEFINE d == thread[t].deck
<1>1. d \in Deck /\ Other(d) \in Deck
  BY DEF Typed, ThreadType, Thread, Other, Deck
<1>2. \/ \E r \in {None, player.row[d]} :
           player' = [player EXCEPT !.active = Other(d), !.moving = FALSE, !.starting = FALSE, !.row[d] = r]
      \/ player' = [player EXCEPT !.active = Other(d), !.moving = TRUE, !.starting = FALSE]
      \/ player' = [player EXCEPT !.active = d, !.moving = TRUE, !.starting = FALSE]
  BY DEF Started
<1> HIDE DEF d
<1>3. ASSUME NEW r \in {None, player.row[d]},
             player' = [player EXCEPT !.active = Other(d), !.moving = FALSE, !.starting = FALSE, !.row[d] = r]
      PROVE  PlayerType'
  <2> DEFINE rows == [player.row EXCEPT ![d] = r]
             x == Other(d)
  <2>1. r \in Row \cup {None} /\ player.row \in [Deck -> Row \cup {None}]
    BY <1>1 DEF Typed, PlayerType
  <2>2. rows \in [Deck -> Row \cup {None}]
    BY <2>1
  <2>3. player' = [player EXCEPT !.active = x, !.moving = FALSE, !.starting = FALSE, !.row = rows]
    BY <1>3 DEF Typed, PlayerType
  <2> HIDE DEF rows, x
  <2>4. x \in Deck
    BY <1>1 DEF x
  <2> QED
    BY <2>2, <2>3, <2>4 DEF Typed, PlayerType
<1>4. ASSUME NEW x \in Deck, player' = [player EXCEPT !.active = x, !.moving = TRUE, !.starting = FALSE]
      PROVE  PlayerType'
  BY <1>4 DEF Typed, PlayerType
<1> QED
  BY <1>1, <1>2, <1>3, <1>4

\* The thread writes it, or got no answer.
LEMMA PublishTyped ==
  ASSUME Typed, NEW t \in {"next", "monitor"}, Publish(t)
  PROVE  Typed'
<1>1. thread[t].at = "publish" /\ Ends(t) /\ UNCHANGED <<native, socket, jobs>> /\ t \in Thread \ {"worker"}
      /\ (player' = Started(t) \/ player' = GivenUp)
  BY DEF Publish, Thread
<1>2. PlayerType'
  BY <1>1, StartedType, GivenUpType DEF Typed
<1>3. BoundType'
  <2>1. CASE \E how : Wrote(t, TRUE, how) /\ UNCHANGED <<ops, blind>>
    BY <2>1, WroteType DEF Typed, BoundType
  <2>2. CASE Fails("lost") /\ UNCHANGED writer
    BY <2>2, TransitionAssumption DEF Fails, Op, Typed, BoundType
  <2> QED
    BY <2>1, <2>2 DEF Publish
<1> QED
  BY <1>1, <1>2, <1>3, EndsTyped, SilentTyped DEF Typed

\* The monitor forgets a seek.
LEMMA ForgetsTyped ==
  ASSUME Typed, Forgets, UNCHANGED <<native, socket, jobs, ops, blind, writer>>
  PROVE  Typed'
<1>1. CASE Reads("monitor", "a", None, FALSE, "forget") /\ UNCHANGED player
  <2>1. ReadBy("monitor", "a", None, FALSE, "forget")
    BY <1>1, ReadsFacts DEF Thread, Deck, How
  <2>2. Places'
    BY <2>1 DEF ReadBy, Typed, Places, Thread
  <2> QED
    BY <1>1, <2>1, <2>2, SilentTyped DEF ReadBy, Typed, PlayerType, BoundType, Thread
<1>2. CASE /\ thread["monitor"].at = "read" /\ Ends("monitor")
           /\ player' = [player EXCEPT !.seek = None, !.late = FALSE, !.seekDeck = "a"]
  <2>1. PlayerType'
    BY <1>2 DEF Typed, PlayerType, Deck
  <2>2. thread' \in Threads /\ Called' = Called /\ thread'["worker"] = thread["worker"] /\ Places'
    BY <1>2, EndsTyped DEF Thread
  <2> QED
    BY <2>1, <2>2, SilentTyped DEF Typed, BoundType
<1> QED
  BY <1>1, <1>2 DEF Forgets

\* What the monitor knew before it was blind.
LEMMA BlindFacts ==
  ASSUME Typed, NEW how \in {"select", "fade", "hand", "end"}, Blind(how)
  PROVE  /\ thread["monitor"].at = "none" /\ thread' \in Threads /\ Called' = Called
         /\ thread'["monitor"].at = "blind" /\ thread'["monitor"].how = how
         /\ \A u \in Thread \ {"monitor"} : thread'[u] = thread[u]
         /\ UNCHANGED <<native, socket, jobs, player, writer>> /\ ops' \in 0..MaxOps /\ blind' \in BOOLEAN
<1> DEFINE x == [Idle EXCEPT !.at = "blind", !.deck = player.active, !.how = how]
<1>1. /\ x \in [at : Place, deck : Deck, row : Row \cup {None}, flag : BOOLEAN, how : How, old : BOOLEAN]
      /\ x.at = "blind" /\ x.how = how
  BY DEF Idle, Place, How, Typed, PlayerType
<1>2. /\ thread' = [thread EXCEPT !["monitor"] = x] /\ thread["monitor"].at = "none" /\ thread \in Threads
      /\ UNCHANGED <<native, socket, jobs, player, writer>>
  BY DEF Blind, Typed, ThreadType, Threads
<1>3. ops' \in 0..MaxOps /\ blind' \in BOOLEAN
  BY TransitionAssumption DEF Blind, Fails, Op, Typed, BoundType
<1> HIDE DEF x
<1>4. thread' \in Threads /\ thread'["monitor"] = x /\ \A u \in Thread \ {"monitor"} : thread'[u] = thread[u]
  BY <1>1, <1>2 DEF Threads, Thread
<1>5. Called' = Called
  BY <1>1, <1>2, <1>4 DEF Called
<1> QED
  BY <1>1, <1>2, <1>3, <1>4, <1>5

\* The monitor cannot read the daemon.
LEMMA BlindTyped ==
  ASSUME Typed, NEW how \in {"select", "fade", "hand", "end"}, Blind(how)
  PROVE  Typed'
<1>1. Places'
  BY BlindFacts DEF Typed, Places, Thread
<1> QED
  BY <1>1, BlindFacts, SilentTyped DEF Typed, PlayerType, BoundType, Thread

\* It starts the next track by a select,
LEMMA BlindSelectTyped ==
  ASSUME Typed, thread["monitor"].at = "blind", BlindSelect, UNCHANGED <<jobs, ops, blind>>
  PROVE  Typed'
<1>1. /\ thread["monitor"].how = "select" /\ UNCHANGED <<native, socket, writer>>
      /\ Goes("monitor", "prepare") \/ Ends("monitor")
      /\ \/ player' = [player EXCEPT !.starting = TRUE, !.armed = "no"]
         \/ player' = [player EXCEPT !.armed = "no"]
  BY DEF BlindSelect
<1>2. PlayerType'
  BY <1>1 DEF Typed, PlayerType
<1>3. thread' \in Threads /\ Called' = Called /\ thread'["worker"] = thread["worker"] /\ Places'
  BY <1>1, GoesTyped, EndsTyped DEF Thread
<1> QED
  BY <1>1, <1>2, <1>3, SilentTyped DEF Typed, BoundType

\* by a fade or by arming a hand-off,
LEMMA BlindStartTyped ==
  ASSUME Typed, thread["monitor"].at = "blind", BlindFade \/ BlindArm, UNCHANGED <<jobs, ops, blind>>
  PROVE  Typed'
<1>1. \/ \E how \in {"fade", "hand"} : Starting("monitor", how)
      \/ Ends("monitor") /\ UNCHANGED <<native, socket, writer>>
  BY DEF BlindFade, BlindArm
<1>2. \/ player' = [player EXCEPT !.starting = TRUE, !.armed = "no"]
      \/ player' = [player EXCEPT !.armed = "no"]
  BY DEF BlindFade, BlindArm
<1>3. PlayerType'
  BY <1>2 DEF Typed, PlayerType
<1>4. ASSUME NEW how \in {"fade", "hand"}, Starting("monitor", how)
      PROVE  Typed'
  BY <1>3, <1>4, StartingTyped DEF Typed, BoundType
<1>5. CASE Ends("monitor") /\ UNCHANGED <<native, socket, writer>>
  BY <1>3, <1>5, EndsTyped, SilentTyped DEF Typed, BoundType, Thread
<1> QED
  BY <1>1, <1>4, <1>5

\* The end of a fade that the daemon is told: it may find another deck active.
LEMMA BlindEndFacts ==
  ASSUME Typed, thread["monitor"].at = "blind", BlindEnd, ~thread["monitor"].flag
  PROVE  LET d == thread["monitor"].deck
             same == native.active = d
         IN  /\ NativeType' /\ native'.active = d /\ native'.row = native.row /\ native'.last = native.last
             /\ native'.ready = (native.ready /\ same) /\ native'.astray = (native.astray \/ ~same)
             /\ native'.seeking = native.seeking /\ native'.ended = native.ended /\ native'.over = native.over
             /\ Calls("monitor") /\ socket' = Append(socket, Answer("monitor"))
             /\ \A u \in Thread : thread'[u].old <=>
                  thread[u].old \/ (~same /\ thread[u].how \notin {"none", "forget"})
             /\ writer' = (IF writer = "select" /\ ~same THEN "event" ELSE writer) /\ UNCHANGED player
<1> DEFINE d == thread["monitor"].deck
           same == native.active = d
           s == native.active # d
           ready == native.ready /\ same
           astray == native.astray \/ s
           ts == IF native'.active = native.active THEN {} ELSE Thread
           o == Outrun(ts)
<1>1. d \in Deck /\ ready \in BOOLEAN /\ astray \in BOOLEAN
  BY DEF Typed, ThreadType, Thread, NativeType
<1>2. /\ native' = [native EXCEPT !.active = d, !.moving = FALSE, !.ready = ready, !.astray = astray]
      /\ socket' = Append(socket, Answer("monitor")) /\ thread' = [o EXCEPT !["monitor"].at = "called"]
      /\ IF native'.active = native.active THEN UNCHANGED writer ELSE Superseded
      /\ UNCHANGED player
  BY DEF BlindEnd
<1> HIDE DEF ready, astray, o
<1>3. /\ NativeType' /\ native'.active = d /\ native'.row = native.row /\ native'.last = native.last
      /\ native'.ready = ready /\ native'.astray = astray
      /\ native'.seeking = native.seeking /\ native'.ended = native.ended /\ native'.over = native.over
  BY <1>1, <1>2 DEF Typed, NativeType
<1>4. /\ Calls("monitor")
      /\ \A u \in Thread : thread'[u].old <=>
           thread[u].old \/ (u \in ts /\ thread[u].how \notin {"none", "forget"})
  BY <1>2, OutrunCalls DEF o, Thread
<1>5. \A u \in Thread : u \in ts <=> ~same
  BY <1>3
<1>6. writer' = (IF writer = "select" /\ ~same THEN "event" ELSE writer)
  BY <1>2, <1>3 DEF Superseded
<1> QED
  BY <1>2, <1>3, <1>4, <1>5, <1>6 DEF ready, astray

\* and tells the end of a fade.
LEMMA BlindEndTyped ==
  ASSUME Typed, thread["monitor"].at = "blind", BlindEnd, UNCHANGED <<jobs, ops, blind>>
  PROVE  Typed'
<1>1. CASE thread["monitor"].flag
  BY <1>1, EndsTyped, SilentTyped DEF BlindEnd, Typed, PlayerType, BoundType, Thread
<1>2. CASE ~thread["monitor"].flag
  <2>1. /\ NativeType' /\ Calls("monitor") /\ socket' = Append(socket, Answer("monitor"))
        /\ writer' \in {writer, "event"} /\ UNCHANGED player
    BY <1>2, BlindEndFacts
  <2>2. socket \in Seq(Message) /\ Answered(socket, Called) /\ "monitor" \in Thread \ {"worker"}
    BY DEF Typed, WireType, Answers, Thread
  <2>3. WireType' /\ Answers'
    BY <2>1, <2>2, CalledOne DEF Calls
  <2> QED
    BY <2>1, <2>2, <2>3, CallsPlaces, CallsWorking DEF Calls, Threads, ThreadType, Typed, PlayerType, BoundType
<1> QED
  BY <1>1, <1>2

\* The monitor is done, and what manual next read is old.
LEMMA MonitorDone ==
  ASSUME Typed, thread["monitor"].at = "publish", thread' = [Outrun({"next"}) EXCEPT !["monitor"] = Idle]
  PROVE  /\ thread' \in Threads /\ Called' = Called /\ Places' /\ thread'["worker"] = thread["worker"]
         /\ thread'["monitor"] = Idle /\ \A u \in Thread \ {"monitor"} : Fields(thread'[u], thread[u])
         /\ \A u \in Thread \ {"monitor"} : thread[u].old => thread'[u].old
<1> DEFINE o == Outrun({"next"})
<1>1. /\ o \in Threads
      /\ \A u \in Thread :
           /\ Fields(o[u], thread[u])
           /\ o[u].old <=> thread[u].old \/ (u \in {"next"} /\ thread[u].how \notin {"none", "forget"})
  BY OutrunFacts DEF Typed
<1>2. thread' = [o EXCEPT !["monitor"] = Idle]
  OBVIOUS
<1>3. Idle \in [at : Place, deck : Deck, row : Row \cup {None}, flag : BOOLEAN, how : How, old : BOOLEAN]
  BY DEF Idle, Place, How, Deck
<1>4. o["worker"] = thread["worker"]
  <2>1. o = [u \in Thread |-> [thread[u] EXCEPT !.old = @ \/ (u \in {"next"} /\ thread[u].how \notin {"none", "forget"})]]
    BY DEF Outrun
  <2>2. o["worker"] = [thread["worker"] EXCEPT !.old = @ \/ FALSE]
    BY <2>1 DEF Thread
  <2>3. thread["worker"] \in [at : Place, deck : Deck, row : Row \cup {None}, flag : BOOLEAN, how : How, old : BOOLEAN]
    BY DEF Typed, ThreadType, Thread
  <2> QED
    BY <2>2, <2>3
<1> HIDE DEF o
<1>5. thread' \in Threads /\ thread'["monitor"] = Idle /\ \A u \in Thread \ {"monitor"} : thread'[u] = o[u]
  <2> DEFINE x == Idle
             F == [at : Place, deck : Deck, row : Row \cup {None}, flag : BOOLEAN, how : How, old : BOOLEAN]
  <2>1. thread' = [o EXCEPT !["monitor"] = x] /\ x \in F /\ o \in [Thread -> F] /\ "monitor" \in Thread
    BY <1>1, <1>2, <1>3 DEF Threads, Thread
  <2> HIDE DEF x, F
  <2>2. thread' \in [Thread -> F] /\ thread'["monitor"] = x /\ \A u \in Thread \ {"monitor"} : thread'[u] = o[u]
    BY <2>1
  <2> QED
    BY <2>2 DEF Threads, x, F
<1>6. Called' = Called
  BY <1>1, <1>5 DEF Called, Fields, Idle
<1>7. Places'
  BY <1>1, <1>5 DEF Typed, Places, Fields, Idle, Thread
<1> QED
  BY <1>1, <1>4, <1>5, <1>6, <1>7 DEF Thread

\* It writes what came of it.
LEMMA BlindPublishTyped ==
  ASSUME Typed, BlindPublish
  PROVE  Typed'
<1> DEFINE d == thread["monitor"].deck
<1>1. /\ thread["monitor"].at = "publish" /\ thread' = [Outrun({"next"}) EXCEPT !["monitor"] = Idle]
      /\ UNCHANGED <<native, socket, jobs, ops, blind>>
      /\ \E does \in BOOLEAN : Wrote("monitor", does, "event")
      /\ \/ player' = Latched(d)
         \/ player' = Cleared(d)
         \/ player' = player
         \/ player' = Started("monitor")
  BY DEF BlindPublish
<1>2. d \in Deck
  BY DEF Typed, ThreadType, Thread
<1>3. PlayerType'
  <2>1. CASE player' = Latched(d)
    BY <1>2, <2>1 DEF Latched, Typed, PlayerType
  <2>2. CASE player' = player
    BY <2>2 DEF Typed, PlayerType
  <2> QED
    BY <1>1, <1>2, <2>1, <2>2, ClearedType, StartedType DEF Typed
<1> QED
  BY <1>1, <1>3, MonitorDone, WroteType, SilentTyped DEF Typed, BoundType

\* What the daemon makes of a seek that reaches it.
SeekReaches ==
  LET d == thread["seek"].deck
      r == thread["seek"].row
      same == native.active = d
  IN  /\ NativeType' /\ native'.active = d /\ native'.row = [native.row EXCEPT ![d] = r] /\ native'.last = native.last
      /\ native'.ready = (native.ready /\ same)
      /\ native'.astray = (native.astray \/ ~same \/ native.row[d] # r)
      /\ native'.seeking \in {None, r} /\ native'.ended = native.ended /\ native'.over = native.over
      /\ socket' = Append(socket, Answer("seek")) /\ UNCHANGED <<ops, blind>>
      /\ thread'["seek"].at = "called"
      /\ \A u \in Thread \ {"seek"} : thread'[u].old <=>
           thread[u].old \/ (~same /\ thread[u].how \notin {"none", "forget"})

\* The daemon hears of the seek, or the handler does not hear of the daemon.
LEMMA SeekLatchFacts ==
  ASSUME Typed, SeekLatch
  PROVE  LET d == thread["seek"].deck
             r == thread["seek"].row
         IN  /\ thread["seek"].at = "read" /\ d \in Deck /\ r \in Row /\ UNCHANGED jobs /\ Wrote("seek", TRUE, "event")
             /\ PlayerType' /\ player'.active = d /\ player'.row = player.row /\ player'.seek = r
             /\ player'.seekDeck = d /\ player'.armed = player.armed
             /\ thread' \in Threads
             /\ \A u \in {"next", "monitor", "worker"} :
                  /\ thread'[u].at = thread[u].at /\ thread'[u].deck = thread[u].deck
                  /\ thread'[u].row = thread[u].row /\ thread'[u].how = thread[u].how
             /\ \/ thread'["seek"].deck = d /\ thread'["seek"].row = r /\ thread'["seek"].how = "seek"
                \/ thread'["seek"] = Idle
             /\ \/ SeekReaches /\ thread'["seek"].deck = d /\ thread'["seek"].old = thread["seek"].old
                   /\ thread'["seek"].row = r /\ thread'["seek"].how = "seek"
                \/ /\ UNCHANGED <<native, socket>> /\ Fails("lost") /\ thread'["seek"] = Idle
                   /\ \A u \in Thread \ {"seek"} : thread'[u].old = thread[u].old
<1> DEFINE d == thread["seek"].deck
           r == thread["seek"].row
           same == native.active = d
           astray == native.astray \/ native.active # d \/ native.row[d] # r
           ready == native.ready /\ same
           seeking == IF native.active = d /\ native.row[d] = r THEN r ELSE None
           ts == IF native.active = d THEN {} ELSE Thread \ {"seek"}
           o == Outrun(ts)
           calls == [o EXCEPT !["seek"].at = "called"]
           ends == [thread EXCEPT !["seek"] = Idle]
           rows == [native.row EXCEPT ![d] = r]
<1>1. /\ thread["seek"].at = "read" /\ UNCHANGED jobs /\ Wrote("seek", TRUE, "event")
      /\ player' = [Cleared(d) EXCEPT !.seek = r, !.seekDeck = d, !.late = FALSE]
  BY DEF SeekLatch
<1>2. d \in Deck /\ r \in Row /\ thread["seek"].how = "seek" /\ thread \in Threads
  BY <1>1 DEF Typed, ThreadType, Threads, Places, Thread
<1>3. /\ PlayerType' /\ player'.active = d /\ player'.row = player.row /\ player'.seek = r
      /\ player'.seekDeck = d /\ player'.armed = player.armed
  <2> DEFINE x == d
             y == r
  <2>1. player' = [player EXCEPT !.active = x, !.moving = FALSE, !.starting = FALSE, !.seek = y, !.seekDeck = x, !.late = FALSE]
    BY <1>1 DEF Cleared, Typed, PlayerType
  <2>2. x \in Deck /\ y \in Row
    BY <1>2
  <2> HIDE DEF x, y
  <2>3. /\ PlayerType' /\ player'.active = x /\ player'.row = player.row /\ player'.seek = y
        /\ player'.seekDeck = x /\ player'.armed = player.armed
    BY <2>1, <2>2 DEF Typed, PlayerType
  <2> QED
    BY <2>3 DEF x, y
<1>4. Replaced \in BOOLEAN
  BY DEF Replaced
<1>5. CASE /\ native' = [native EXCEPT !.active = d, !.row[d] = r, !.moving = FALSE, !.due = "none",
                                      !.ready = ready, !.astray = astray, !.seeking = seeking]
           /\ socket' = Append(socket, Answer("seek")) /\ UNCHANGED <<ops, blind>>
           /\ thread' = [calls EXCEPT !["monitor"].flag = Replaced]
  <2>1. rows \in [Deck -> Row] /\ ready \in BOOLEAN /\ astray \in BOOLEAN /\ seeking \in Row \cup {None}
    BY <1>2 DEF Typed, NativeType
  <2>2. native' = [native EXCEPT !.active = d, !.row = rows, !.moving = FALSE, !.due = "none",
                                 !.ready = ready, !.astray = astray, !.seeking = seeking]
    BY <1>5 DEF Typed, NativeType
  <2> HIDE DEF rows, ready, astray, seeking, d
  <2>3. /\ NativeType' /\ native'.active = d /\ native'.row = rows /\ native'.last = native.last
        /\ native'.ready = ready /\ native'.astray = astray
        /\ native'.seeking = seeking /\ native'.ended = native.ended /\ native'.over = native.over
    BY <1>2, <2>1, <2>2 DEF Typed, NativeType
  <2> USE DEF d
  <2>4. /\ o \in Threads
        /\ \A u \in Thread :
             /\ Fields(o[u], thread[u])
             /\ o[u].old <=> thread[u].old \/ (u \in ts /\ thread[u].how \notin {"none", "forget"})
    BY OutrunFacts DEF Typed
  <2> HIDE DEF o
  <2>5. calls \in Threads /\ (\A u \in Thread \ {"seek"} : calls[u] = o[u])
        /\ calls["seek"].at = "called" /\ calls["seek"].deck = o["seek"].deck /\ calls["seek"].row = o["seek"].row
        /\ calls["seek"].how = o["seek"].how /\ calls["seek"].old = o["seek"].old
    BY <2>4 DEF Threads, Thread, Place
  <2> HIDE DEF calls
  <2>6. /\ thread' \in Threads
        /\ \A u \in Thread \ {"monitor"} : thread'[u] = calls[u]
        /\ thread'["monitor"].at = calls["monitor"].at /\ thread'["monitor"].deck = calls["monitor"].deck
        /\ thread'["monitor"].row = calls["monitor"].row /\ thread'["monitor"].how = calls["monitor"].how
        /\ thread'["monitor"].old = calls["monitor"].old
    BY <1>4, <1>5, <2>5, MonitorFlag
  <2>7. \A u \in Thread : u \in ts <=> ~same /\ u # "seek"
    OBVIOUS
  <2>8. /\ \A u \in Thread \ {"seek"} : thread'[u].old <=>
             thread[u].old \/ (~same /\ thread[u].how \notin {"none", "forget"})
        /\ \A u \in {"next", "monitor", "worker"} :
             /\ thread'[u].at = thread[u].at /\ thread'[u].deck = thread[u].deck
             /\ thread'[u].row = thread[u].row /\ thread'[u].how = thread[u].how
    BY <2>4, <2>5, <2>6, <2>7 DEF Fields, Thread
  <2>9. thread'["seek"].at = "called" /\ thread'["seek"].deck = d /\ thread'["seek"].row = r
        /\ thread'["seek"].how = "seek" /\ thread'["seek"].old = thread["seek"].old
    <3>1. o["seek"].old = thread["seek"].old
      BY <1>2, <2>4, <2>7 DEF Threads, Thread
    <3> QED
      BY <1>2, <2>4, <2>5, <2>6, <3>1 DEF Fields, Thread
  <2>10. SeekReaches
    BY <1>5, <2>3, <2>8, <2>9 DEF SeekReaches, rows, ready, astray, seeking
  <2> QED
    BY <1>1, <1>2, <1>3, <2>6, <2>8, <2>9, <2>10
<1>6. CASE /\ Fails("lost") /\ UNCHANGED <<native, socket>>
           /\ thread' = [ends EXCEPT !["monitor"].flag = Replaced]
  <2>1. ends \in Threads /\ ends["seek"] = Idle /\ \A u \in Thread \ {"seek"} : ends[u] = thread[u]
    BY <1>2 DEF Threads, Thread, Idle, Place, How, Deck
  <2> HIDE DEF ends
  <2>2. /\ thread' \in Threads
        /\ \A u \in Thread \ {"monitor"} : thread'[u] = ends[u]
        /\ thread'["monitor"].at = ends["monitor"].at /\ thread'["monitor"].deck = ends["monitor"].deck
        /\ thread'["monitor"].row = ends["monitor"].row /\ thread'["monitor"].how = ends["monitor"].how
        /\ thread'["monitor"].old = ends["monitor"].old
    BY <1>4, <1>6, <2>1, MonitorFlag
  <2>3. thread'["seek"] = Idle /\ (\A u \in Thread \ {"seek"} : thread'[u].old = thread[u].old)
        /\ \A u \in {"next", "monitor", "worker"} :
             /\ thread'[u].at = thread[u].at /\ thread'[u].deck = thread[u].deck
             /\ thread'[u].row = thread[u].row /\ thread'[u].how = thread[u].how
    BY <2>1, <2>2 DEF Thread
  <2> QED
    BY <1>1, <1>2, <1>3, <1>6, <2>2, <2>3
<1> QED
  BY <1>5, <1>6 DEF SeekLatch

\* The seek is latched and told to the daemon.
LEMMA SeekLatchTyped ==
  ASSUME Typed, SeekLatch
  PROVE  Typed'
<1>1. /\ thread["seek"].at = "read" /\ UNCHANGED jobs /\ Wrote("seek", TRUE, "event") /\ PlayerType' /\ thread' \in Threads
      /\ \A u \in {"next", "monitor", "worker"} :
           /\ thread'[u].at = thread[u].at /\ thread'[u].deck = thread[u].deck
           /\ thread'[u].row = thread[u].row /\ thread'[u].how = thread[u].how
  BY SeekLatchFacts
<1>2. writer' \in {"event", "select", "stray"}
  BY <1>1, WroteType
<1>3. Working'
  BY <1>1 DEF Typed, Working
<1>4. CASE SeekReaches /\ thread'["seek"].row = thread["seek"].row /\ thread'["seek"].how = "seek"
  <2>1. NativeType' /\ socket' = Append(socket, Answer("seek")) /\ UNCHANGED <<ops, blind>> /\ thread'["seek"].at = "called"
    BY <1>4 DEF SeekReaches
  <2>2. Called' = Called \cup {"seek"} /\ thread["seek"].at # "called" /\ "seek" \in Thread
    BY <1>1, <2>1 DEF Called, Thread
  <2>3. socket \in Seq(Message) /\ Answered(socket, Called)
    BY DEF Typed, WireType, Answers
  <2>4. WireType' /\ Answers'
    BY <1>1, <2>1, <2>2, <2>3, CalledOne
  <2>5. Places'
    BY <1>1, <1>4, <2>1 DEF Typed, Places
  <2> QED
    BY <1>1, <1>2, <1>3, <2>1, <2>4, <2>5 DEF Typed, BoundType, ThreadType, Threads
<1>5. CASE UNCHANGED <<native, socket>> /\ Fails("lost") /\ thread'["seek"] = Idle
  <2>1. Called' = Called
    BY <1>1, <1>5 DEF Called, Thread, Idle
  <2>2. Places'
    BY <1>1, <1>5 DEF Typed, Places, Idle
  <2>3. ops' \in 0..MaxOps /\ blind' \in BOOLEAN
    BY <1>5, TransitionAssumption DEF Fails, Op, Typed, BoundType
  <2>4. NativeType' /\ WireType' /\ Answers'
    BY <1>1, <1>5, <2>1, QuietTyped DEF Typed, WireType
  <2> QED
    BY <1>1, <1>2, <1>3, <2>2, <2>3, <2>4 DEF Typed, BoundType, ThreadType, Threads
<1> QED
  BY <1>4, <1>5, SeekLatchFacts

\* The seek's handler writes the deck it read; a newer pending seek stays.
LEMMA SeekPublishFacts ==
  ASSUME Typed, SeekPublish
  PROVE  /\ thread["seek"].at = "publish" /\ UNCHANGED <<native, socket, jobs, ops, blind>> /\ Wrote("seek", TRUE, "event")
         /\ Ends("seek") /\ PlayerType' /\ player'.active = thread["seek"].deck /\ player'.row = player.row
         /\ player'.armed = player.armed
         /\ player'.seek # None => player'.seekDeck = thread["seek"].deck \/ (player'.seek = player.seek /\ player'.seekDeck = player.seekDeck)
<1> DEFINE e == thread["seek"]
           p == Pending(e)
           d == e.deck
<1>1. e.deck \in Deck /\ e.row \in Row
  BY DEF SeekPublish, Typed, ThreadType, Places, Thread
<1>2. /\ p \in [active : Deck, row : [Deck -> Row \cup {None}], moving : BOOLEAN, starting : BOOLEAN,
                seek : Row \cup {None}, seekDeck : Deck, late : BOOLEAN, armed : Deck \cup {"no"}]
      /\ p.late => p.seek # None
      /\ p.row = player.row /\ p.armed = player.armed
      /\ (p.seekDeck = e.deck \/ (p.seek = player.seek /\ p.seekDeck = player.seekDeck))
  <2> HIDE DEF e
  <2> QED
    BY <1>1 DEF Pending, Typed, PlayerType, None, Row
<1>3. player' = [p EXCEPT !.active = d] /\ d \in Deck
  BY <1>1 DEF SeekPublish
<1> HIDE DEF p, d
<1>4. PlayerType' /\ player'.active = d /\ player'.row = p.row /\ player'.armed = p.armed
      /\ player'.seek = p.seek /\ player'.seekDeck = p.seekDeck
  BY <1>2, <1>3 DEF PlayerType
<1> QED
  BY <1>2, <1>4 DEF SeekPublish, d

\* That is well typed.
LEMMA SeekPublishTyped ==
  ASSUME Typed, SeekPublish
  PROVE  Typed'
<1>1. thread' \in Threads /\ Called' = Called /\ thread'["worker"] = thread["worker"] /\ Places'
  BY SeekPublishFacts, EndsTyped DEF Thread
<1> QED
  BY <1>1, SeekPublishFacts, WroteType, SilentTyped DEF Typed, BoundType

\* A deadline passes.
LEMMA SeekLateTyped ==
  ASSUME Typed, SeekLate
  PROVE  Typed'
<1>1. UNCHANGED <<native, socket, jobs, thread, ops, blind, writer>> /\ player.seek # None
      /\ player' = [player EXCEPT !.late = TRUE]
  BY DEF SeekLate
<1> QED
  BY <1>1, WireKept DEF Typed, PlayerType, NativeType, BoundType

\* The type invariant holds at first,
LEMMA InitTyped == Init => Typed
<1> SUFFICES ASSUME Init
             PROVE  Typed
  OBVIOUS
<1>1. 1 \in Row /\ 2 \in Row
  BY TransitionAssumption DEF Row
<1>2. NativeType /\ PlayerType
  BY <1>1 DEF Init, NativeType, PlayerType, Deck, None
<1>3. Idle \in [at : Place, deck : Deck, row : Row \cup {None}, flag : BOOLEAN, how : How, old : BOOLEAN]
  BY DEF Idle, Place, How, Deck
<1>4. ThreadType /\ Places /\ Working
  BY <1>3 DEF Init, ThreadType, Places, Working, Thread, Idle
<1>5. WireType /\ Answers
  BY DEF Init, WireType, Answers, Answered
<1>6. BoundType
  <2>1. ops = 0 /\ blind = FALSE /\ writer = "event"
    BY DEF Init
  <2>2. blind \in BOOLEAN
    BY <2>1, Zenon
  <2>3. ops \in 0..MaxOps
    BY <2>1, TransitionAssumption
  <2> QED
    BY <2>1, <2>2, <2>3 DEF BoundType
<1> QED
  BY <1>2, <1>4, <1>5, <1>6 DEF Typed

\* every step keeps it,
LEMMA NextTyped == Typed /\ [Next]_vars => Typed'
<1> SUFFICES ASSUME Typed, [Next]_vars
             PROVE  Typed'
  OBVIOUS
<1>1. CASE Starts \/ Finishes \/ Finished \/ NeedNext \/ SeekDone \/ Handle
  BY <1>1, StartsTyped, FinishesTyped, NeedNextTyped, HandleTyped
<1>2. CASE WorkerReads \/ Rebuild \/ Reconcile \/ Reserve
  BY <1>2, WorkerReadsTyped, RebuildTyped, ReconcileTyped, ReserveTyped
<1>3. ASSUME NEW how \in {"select", "interrupt"}, ManualNext(how) \/ Seek
      PROVE  Typed'
  BY <1>3, ReadsTyped
<1>4. ASSUME NEW t \in {"next", "monitor"}, Start(t)
      PROVE  Typed'
  BY <1>4, PrepareTyped, CommandTyped, PublishTyped DEF Start
<1>5. CASE Monitor
  BY <1>4, <1>5, ForgetsTyped, BlindSelectTyped, BlindStartTyped, BlindEndTyped, BlindPublishTyped DEF Monitor, Blinded
<1>6. ASSUME NEW how \in {"select", "fade", "hand", "end"}, Blind(how)
      PROVE  Typed'
  BY <1>6, BlindTyped
<1>7. CASE SeekLatch \/ SeekPublish \/ SeekLate
  BY <1>7, SeekLatchTyped, SeekPublishTyped, SeekLateTyped
<1>8. CASE UNCHANGED vars
  BY <1>8 DEF vars, Typed, NativeType, WireType, PlayerType, ThreadType, BoundType, Places, Answers, Called, Working
<1> QED
  BY <1>1, <1>2, <1>3, <1>4, <1>5, <1>6, <1>7, <1>8 DEF Next

\* and the shapes that TypeOK names follow from it.
LEMMA TypedShape == Typed => TypeOK
<1> SUFFICES ASSUME Typed
             PROVE  TypeOK
  OBVIOUS
<1>1. jobs \in Seq(Message)
  <2>1. StartEvent \subseteq Message
    BY DEF StartEvent, Message
  <2> QED
    BY <2>1, SeqMonotonic DEF Typed, WireType
<1> QED
  BY <1>1 DEF TypeOK, Typed, NativeType, WireType, PlayerType, ThreadType, BoundType

\* The start of the track that is heard, and whether Python still has it to come.
Heard == Event("started", native.active, native.row[native.active])
Owed == Heard \in Sent \cup Queued

\* No completion on its way would move Python off the deck that is heard.
Harmless ==
  /\ \A e \in Sent : e.kind = "finished" => e.deck = native.active \/ player.row[e.deck] # e.row
  /\ native.ended # None => native.over = native.active \/ player.row[native.over] # native.ended

\* The monitor told the daemon of an end that it no longer should, and writes it yet.
EndInFlight ==
  thread["monitor"].at \in {"called", "publish"} /\ thread["monitor"].how = "end" /\ thread["monitor"].old

\* All rows that a message, a seek or the deck that is heard names are at most n.
RowsBelow(n) ==
  /\ native.row[native.active] <= n /\ native.ended <= n /\ native.seeking <= n /\ thread["seek"].row <= n
  /\ \A e \in Sent \cup Queued : e.row <= n

\* Rows are loaded in their order: the one that is ready is newer than all that
\* was said so far, so its start cannot be taken for an older one.
Numbered ==
  /\ RowsBelow(native.last) /\ native.row[Other(native.active)] <= native.last
  /\ native.ready => native.row[Other(native.active)] = native.last /\ RowsBelow(native.last - 1)

\* What a thread read is of the deck that is heard, until the daemon moves on.
Knows(t) ==
  /\ thread[t].at \in {"called", "publish"} /\ ~thread[t].old =>
       thread[t].deck = IF thread[t].how \in {"select", "fade"} THEN Other(native.active) ELSE native.active
  /\ t # "monitor" /\ thread[t].at \in {"read", "reserve"} /\ ~thread[t].old => thread[t].deck = native.active
  /\ t = "seek" /\ thread[t].at = "read" /\ ~thread[t].old => thread[t].row = native.row[native.active]
Known == \A t \in {"next", "monitor", "seek"} : Knows(t)

\* The worker rebuilds around the track that is heard, with the row that is ready;
\* or a newer start comes behind.
Around ==
  thread["worker"].at = "read" /\ ~native.astray =>
    IF Current(Head(jobs))
    THEN thread["worker"].row = None \/ (native.ready /\ thread["worker"].row = native.row[Other(native.active)])
    ELSE Owed

\* Python agrees with the daemon, and nothing on its way changes that.
Agreement ==
  /\ player.active = native.active /\ Harmless
  /\ player.seek # None => player.seekDeck = native.active

\* It does when the start of what is heard was handled and no outrun thread wrote since.
Agreed == writer # "stray" /\ ~native.astray /\ ~Owed => Agreement

\* A daemon that was misled was so by a thread that wrote, or is about to.
Misled == native.astray => writer = "stray" \/ EndInFlight

\* A latched hand-off is that of the deck that is heard, or a start will release it.
Latch == player.armed # "no" => player.armed = native.active \/ writer = "stray" \/ Owed \/ EndInFlight

\* A select leaves no completion that could take it back.
Selected == writer = "select" => Harmless

(* The inductive invariant *)

IInv == Typed /\ Numbered /\ Known /\ Around /\ Agreed /\ Misled /\ Latch /\ Selected

(* Facts about the parts of the inductive invariant *)

\* What can be on its way.
LEMMA SentTypes ==
  ASSUME Typed
  PROVE  /\ \A e \in Sent : e \in Message
         /\ \A e \in Queued : e \in StartEvent
         /\ \A e \in Sent : e.kind # "answer" => e.deck \in Deck /\ e.row \in Row
         /\ \A e \in Sent \cup Queued : e.row \in Nat
         /\ Heard.kind = "started" /\ Heard.deck = native.active /\ Heard.row = native.row[native.active]
<1>1. socket \in Seq(Message) /\ jobs \in Seq(StartEvent)
  BY DEF Typed, WireType
<1>2. \A e \in Sent : e \in Message
  BY <1>1 DEF Sent, In
<1>3. \A e \in Queued : e \in StartEvent
  BY <1>1 DEF Queued, In
<1>4. \A e \in Message : (e.kind # "answer" => e.deck \in Deck /\ e.row \in Row) /\ e.row \in Nat
  BY DEF Message, Row, None
<1>5. \A e \in StartEvent : e.row \in Nat
  BY DEF StartEvent, Row
<1> QED
  BY <1>2, <1>3, <1>4, <1>5 DEF Heard, Event

\* The daemon's decks and rows.
LEMMA NativeRows ==
  ASSUME NativeType
  PROVE  /\ native.active \in Deck /\ Other(native.active) \in Deck /\ Other(native.active) # native.active
         /\ Other(Other(native.active)) = native.active
         /\ \A d \in Deck : d = native.active \/ d = Other(native.active)
         /\ \A d \in Deck : native.row[d] \in Nat /\ native.row[d] # None
         /\ native.last \in Nat /\ native.last >= 1 /\ native.ended \in Nat /\ native.seeking \in Nat
         /\ native.ended # None => native.over \in Deck
BY DEF NativeType, Deck, Other, Row, None

\* What is sent and queued after a message went out, or was taken.
LEMMA WireSets ==
  ASSUME Typed
  PROVE  /\ \A e \in Message : socket' = Append(socket, e) => Sent' = Sent \cup {e}
         /\ \A e \in Message, f \in Message : socket' = socket \o <<e, f>> => Sent' = Sent \cup {e, f}
         /\ socket # <<>> /\ socket' = Tail(socket) => Sent = Sent' \cup {Head(socket)}
         /\ \A e \in StartEvent : jobs' = Append(jobs, e) => Queued' = Queued \cup {e}
         /\ jobs # <<>> /\ jobs' = Tail(jobs) => Queued = Queued' \cup {Head(jobs)}
         /\ socket' = socket => Sent' = Sent
         /\ jobs' = jobs => Queued' = Queued
<1>1. socket \in Seq(Message) /\ jobs \in Seq(StartEvent)
  BY DEF Typed, WireType
<1>2. ASSUME NEW e \in Message, socket' = Append(socket, e)
      PROVE  Sent' = Sent \cup {e}
  BY <1>1, <1>2, InAppend DEF Sent
<1>3. ASSUME NEW e \in Message, NEW f \in Message, socket' = socket \o <<e, f>>
      PROVE  Sent' = Sent \cup {e, f}
  <2>1. socket' = Append(Append(socket, e), f)
    BY <1>1, <1>3, Concat2
  <2> DEFINE u == Append(socket, e)
  <2>2. u \in Seq(Message) /\ In(u) = In(socket) \cup {e}
    BY <1>1, InAppend
  <2> HIDE DEF u
  <2>3. In(Append(u, f)) = In(u) \cup {f}
    BY <2>2, InAppend
  <2>4. In(socket') = In(socket) \cup {e, f}
    BY <2>1, <2>2, <2>3 DEF u
  <2> QED
    BY <2>4 DEF Sent
<1>4. socket # <<>> /\ socket' = Tail(socket) => Sent = Sent' \cup {Head(socket)}
  BY <1>1, InTail DEF Sent
<1>5. ASSUME NEW e \in StartEvent, jobs' = Append(jobs, e)
      PROVE  Queued' = Queued \cup {e}
  BY <1>1, <1>5, InAppend DEF Queued
<1>6. jobs # <<>> /\ jobs' = Tail(jobs) => Queued = Queued' \cup {Head(jobs)}
  BY <1>1, InTail DEF Queued
<1> QED
  BY <1>2, <1>3, <1>4, <1>5, <1>6 DEF Sent, Queued

\* The decks of the daemon are as they were.
SameDaemon ==
  /\ native'.active = native.active /\ native'.row = native.row /\ native'.ready = native.ready
  /\ native'.last = native.last /\ native'.astray = native.astray

\* Nothing goes out but answers, the row of a transition that ended and that of a seek.
Old(e) == e \in Sent \cup Queued \/ e.row \in {None, native.ended, native.seeking}

\* What the daemon has to send, and a seek, names no row but the one that is heard.
NoNewRows ==
  /\ native'.ended \in {native.ended, None, native.row[native.active]}
  /\ native'.seeking \in {native.seeking, None, native.row[native.active]}
  /\ thread'["seek"].row \in {None, thread["seek"].row, native.row[native.active]}
  /\ \A e \in Sent' \cup Queued' : Old(e)

\* No step of this kind says anything of a newer row.
LEMMA BelowKept ==
  ASSUME NEW n \in Nat, RowsBelow(n), native'.active = native.active,
         native'.row[native.active] = native.row[native.active], NoNewRows
  PROVE  RowsBelow(n)'
BY DEF RowsBelow, NoNewRows, Old, None

\* So rows stay numbered when the decks are as they were.
LEMMA NumberedKept ==
  ASSUME Typed, Numbered, SameDaemon, NoNewRows
  PROVE  Numbered'
<1>1. native.last \in Nat /\ native.last - 1 \in Nat
  BY NativeRows DEF Typed
<1>2. RowsBelow(native.last)' /\ (native.ready => RowsBelow(native.last - 1)')
  <2> DEFINE m == native.last
             n == native.last - 1
  <2>1. m \in Nat /\ n \in Nat /\ m' = m /\ n' = n
    BY <1>1 DEF SameDaemon
  <2>2. RowsBelow(m) /\ (native.ready => RowsBelow(n))
    BY DEF Numbered
  <2> QED
    BY <2>1, <2>2, BelowKept DEF SameDaemon, RowsBelow
<1> QED
  BY <1>2 DEF Numbered, SameDaemon

\* Thread t stays where it is; what it read may get old.
Stays(t) ==
  /\ thread'[t].at = thread[t].at /\ thread'[t].deck = thread[t].deck /\ thread'[t].row = thread[t].row
  /\ thread'[t].how = thread[t].how /\ (thread[t].old => thread'[t].old)

\* What a thread read stays true of a daemon that did not move,
LEMMA StaysKnows ==
  ASSUME NEW t, Knows(t), Stays(t), native'.active = native.active,
         native'.row[native.active] = native.row[native.active]
  PROVE  Knows(t)'
BY DEF Knows, Stays, Other

\* and nothing is asked of a thread that is done or outrun.
LEMMA DoneKnows ==
  ASSUME NEW t, thread'[t].at \notin {"read", "reserve", "called", "publish"} \/ thread'[t].old
  PROVE  Knows(t)'
BY DEF Knows

\* The worker's row stays right while the daemon's decks and its start stay.
LEMMA AroundKept ==
  ASSUME Typed, Around, SameDaemon, Owed => Owed',
         thread'["worker"].at = "read" =>
           /\ thread["worker"].at = "read" /\ thread'["worker"].row = thread["worker"].row
           /\ Head(jobs') = Head(jobs)
  PROVE  Around'
BY DEF Around, SameDaemon, Current

\* The daemon's deck is the same, and so is whether a start of it is on its way.
LEMMA AgreedKept ==
  ASSUME Agreed, Misled, Latch, Selected, Typed',
         native'.active = native.active, native'.astray = native.astray, Owed' <=> Owed,
         writer = "stray" => writer' = "stray",
         writer' # "stray" /\ Agreement => Agreement',
         writer' = "select" => (writer = "select" /\ (Harmless => Harmless')) \/ Harmless',
         EndInFlight => EndInFlight' \/ writer' = "stray",
         player'.armed \in {"no", player.armed, native.active} \/ writer' = "stray" \/ Owed \/ EndInFlight
  PROVE  Agreed' /\ Misled' /\ Latch' /\ Selected'
<1>1. Agreed'
  BY DEF Agreed
<1>2. Misled'
  BY DEF Misled
<1>3. Latch'
  BY DEF Latch
<1>4. Selected'
  BY DEF Selected
<1> QED
  BY <1>1, <1>2, <1>3, <1>4

\* Rows planned as before, and no end but one that was due.
LEMMA HarmlessKept ==
  ASSUME Harmless, native'.active = native.active, player'.row = player.row,
         \A e \in Sent' : e.kind = "finished" =>
           e \in Sent \/ (native.ended # None /\ e.deck = native.over /\ e.row = native.ended),
         native'.ended # None =>
           native'.over = native.active \/ (native'.over = native.over /\ native'.ended = native.ended)
  PROVE  Harmless'
BY DEF Harmless

\* No step of the daemon but an answer.
Unmoved ==
  /\ SameDaemon /\ native'.ended = native.ended /\ native'.over = native.over
  /\ native'.seeking \in {native.seeking, None, native.row[native.active]} /\ jobs' = jobs
  /\ socket' = socket \/ \E t \in Thread : socket' = Append(socket, Answer(t))

\* No new start and no new end is on its way then.
LEMMA UnmovedFacts ==
  ASSUME Typed, Unmoved
  PROVE  /\ Owed' <=> Owed
         /\ \A e \in Sent' \cup Queued' : e \in Sent \cup Queued \/ e.row = None
         /\ \A e \in Sent' : e.kind = "finished" => e \in Sent
         /\ player'.row = player.row /\ Harmless => Harmless'
         /\ thread'["seek"].row \in {None, thread["seek"].row, native.row[native.active]} => NoNewRows
<1>1. Queued' = Queued /\ (Sent' = Sent \/ \E t \in Thread : Sent' = Sent \cup {Answer(t)})
  <2>1. ASSUME NEW t \in Thread, socket' = Append(socket, Answer(t))
        PROVE  Sent' = Sent \cup {Answer(t)}
    BY <2>1, WireSets, MessageTypes
  <2>2. jobs' = jobs /\ (socket' = socket \/ \E t \in Thread : socket' = Append(socket, Answer(t)))
    BY DEF Unmoved
  <2> QED
    BY <2>1, <2>2, WireSets
<1>2. \A t \in Thread : Answer(t).kind = "answer" /\ Answer(t).row = None
  BY MessageTypes
<1>3. Heard' = Heard /\ Heard.kind = "started"
  BY SentTypes DEF Heard, Unmoved, SameDaemon
<1>4. Owed' <=> Owed
  BY <1>1, <1>2, <1>3 DEF Owed
<1>5. \A e \in Sent' \cup Queued' : e \in Sent \cup Queued \/ e.row = None
  BY <1>1, <1>2
<1>6. \A e \in Sent' : e.kind = "finished" => e \in Sent
  BY <1>1, <1>2
<1>7. player'.row = player.row /\ Harmless => Harmless'
  BY <1>6, HarmlessKept DEF Unmoved, SameDaemon
<1> QED
  BY <1>4, <1>5, <1>6, <1>7 DEF NoNewRows, Old, Unmoved

\* What is left to show of a step that only writes the player, or a thread.
LEMMA UnmovedKept ==
  ASSUME IInv, Typed', Unmoved, Known', Stays("worker"),
         thread'["seek"].row \in {None, thread["seek"].row, native.row[native.active]},
         writer = "stray" => writer' = "stray",
         writer' # "stray" /\ Agreement => Agreement',
         writer' = "select" => (writer = "select" /\ (Harmless => Harmless')) \/ Harmless',
         EndInFlight => EndInFlight' \/ writer' = "stray",
         player'.armed \in {"no", player.armed, native.active} \/ writer' = "stray" \/ Owed \/ EndInFlight
  PROVE  IInv'
<1>1. Numbered'
  BY UnmovedFacts, NumberedKept DEF IInv, Unmoved
<1>2. Around'
  BY UnmovedFacts, AroundKept DEF IInv, Unmoved, Stays
<1>3. Agreed' /\ Misled' /\ Latch' /\ Selected'
  BY UnmovedFacts, AgreedKept DEF IInv, Unmoved, SameDaemon
<1> QED
  BY <1>1, <1>2, <1>3 DEF IInv

\* Every thread but t stays.
OthersStay(t) == \A u \in Thread \ {t} : Stays(u)

\* Where one thread goes on, the others know what they knew.
LEMMA OneKnown ==
  ASSUME Known, native'.active = native.active, native'.row[native.active] = native.row[native.active],
         NEW t \in Thread, OthersStay(t), t # "worker" => Knows(t)'
  PROVE  Known'
BY StaysKnows DEF Known, OthersStay, Thread

\* A step of thread t that writes no deck and no row.
Plain(t) ==
  /\ Unmoved /\ UNCHANGED writer /\ OthersStay(t) /\ Knows(t)'
  /\ player'.active = player.active /\ player'.row = player.row
  /\ player'.seek = None \/ (player'.seek = player.seek /\ player'.seekDeck = player.seekDeck)
  /\ player'.armed \in {"no", player.armed}
  /\ t = "seek" => thread'[t].row \in {None, thread[t].row, native.row[native.active]}
  /\ t = "monitor" => ~EndInFlight \/ EndInFlight'

\* Such a step keeps the invariant.
LEMMA PlainKept ==
  ASSUME IInv, Typed', NEW t \in {"next", "monitor", "seek"}, Plain(t)
  PROVE  IInv'
<1>1. t \in Thread /\ Unmoved /\ UNCHANGED writer /\ Stays("worker")
  BY DEF Plain, OthersStay, Thread
<1>2. Known'
  BY <1>1, OneKnown DEF Plain, IInv, Unmoved, SameDaemon
<1>3. Harmless => Harmless'
  BY <1>1, UnmovedFacts DEF Plain, IInv
<1>4. Agreement => Agreement'
  BY <1>1, <1>3 DEF Agreement, Plain, Unmoved, SameDaemon
<1>5. EndInFlight => EndInFlight'
  <2>1. CASE t = "monitor"
    BY <2>1 DEF Plain
  <2>2. CASE t # "monitor"
    BY <2>2 DEF Plain, OthersStay, Stays, EndInFlight, Thread
  <2> QED
    BY <2>1, <2>2
<1>6. thread'["seek"].row \in {None, thread["seek"].row, native.row[native.active]}
  <2>1. CASE t = "seek"
    BY <2>1 DEF Plain
  <2>2. CASE t # "seek"
    BY <2>2 DEF Plain, OthersStay, Stays, Thread
  <2> QED
    BY <2>1, <2>2
<1> QED
  BY <1>1, <1>2, <1>3, <1>4, <1>5, <1>6, UnmovedKept DEF Plain

\* The daemon and the wires as they were.
LEMMA StillUnmoved ==
  ASSUME UNCHANGED <<native, socket, jobs>>
  PROVE  Unmoved
BY DEF Unmoved, SameDaemon

\* Threads that are not touched stay.
LEMMA SameStays ==
  ASSUME NEW t, \A u \in Thread \ {t} : thread'[u] = thread[u]
  PROVE  OthersStay(t)
BY DEF OthersStay, Stays

(* Every step keeps the inductive invariant *)

\* What is read of the daemon is true of it.
LEMMA ReadsKept ==
  ASSUME IInv, Typed', NEW how \in {"select", "interrupt"}, ManualNext(how) \/ Seek
  PROVE  IInv'
<1> DEFINE r == native.row[native.active]
<1>1. native.active \in Deck /\ r \in Row /\ native.moving \in BOOLEAN /\ Typed
  BY DEF IInv, Typed, NativeType
<1>2. UNCHANGED <<native, socket, jobs, player, writer>>
  BY DEF ManualNext, Seek
<1>3. CASE ManualNext(how)
  <2>1. ReadBy("next", native.active, r, native.moving, how)
    BY <1>1, <1>3, ReadsFacts DEF ManualNext, Thread, How
  <2>2. Knows("next")'
    BY <1>2, <2>1 DEF ReadBy, Knows
  <2>3. Plain("next")
    BY <1>2, <2>1, <2>2, StillUnmoved, SameStays DEF ReadBy, Plain
  <2> QED
    BY <2>3, PlainKept
<1>4. CASE Seek
  <2>1. ReadBy("seek", native.active, r, FALSE, "seek")
    BY <1>1, <1>4, ReadsFacts DEF Seek, Thread, How
  <2>2. Knows("seek")'
    BY <1>2, <2>1 DEF ReadBy, Knows
  <2>3. Plain("seek")
    BY <1>2, <2>1, <2>2, StillUnmoved, SameStays DEF ReadBy, Plain
  <2> QED
    BY <2>3, PlainKept
<1> QED
  BY <1>3, <1>4

\* What a thread that is not outrun wrote is of the deck that is heard.
LEMMA WroteFacts ==
  ASSUME Typed, NEW t \in Thread, NEW how, Wrote(t, TRUE, how)
  PROVE  /\ writer = "stray" => writer' = "stray"
         /\ thread[t].old => writer' = "stray"
         /\ writer' = "select" => writer = "select" \/ (how = "select" /\ ~thread[t].old)
         /\ how # "select" /\ ~thread[t].old => writer' = writer
BY DEF Wrote

\* A manual next clears a transition by what it read: it is right, or stray.
LEMMA ReconcileKept ==
  ASSUME IInv, Typed', Reconcile
  PROVE  IInv'
<1>1. /\ thread["next"].at = "read" /\ Goes("next", "reserve") /\ Typed
      /\ UNCHANGED <<native, socket, jobs>> /\ Wrote("next", player' # player, "event")
      /\ player' = player \/ player' = Cleared(thread["next"].deck)
  BY DEF Reconcile, Reconciled, IInv
<1>2. /\ thread'["next"].at = "reserve" /\ thread'["next"].deck = thread["next"].deck
      /\ thread'["next"].old = thread["next"].old /\ thread'["next"].how = thread["next"].how
      /\ \A u \in Thread \ {"next"} : thread'[u] = thread[u]
  BY <1>1, GoesFacts DEF Thread, Place
<1>3. Unmoved /\ OthersStay("next")
  BY <1>1, <1>2, StillUnmoved, SameStays
<1>4. Knows("next")
  BY DEF IInv, Known
<1>5. Knows("next")'
  BY <1>1, <1>2, <1>4 DEF Knows
<1>6. Known'
  BY <1>1, <1>3, <1>5, OneKnown DEF IInv, Thread
<1>7. /\ player'.active \in {player.active, thread["next"].deck} /\ player'.row = player.row /\ player'.seek = player.seek
      /\ player'.seekDeck = player.seekDeck /\ player'.armed = player.armed
  BY <1>1 DEF Cleared, Typed, PlayerType
<1>8. /\ writer = "stray" => writer' = "stray"
      /\ writer' # "stray" => writer' = writer /\ (player' = player \/ thread["next"].deck = native.active)
  BY <1>1, <1>4 DEF Wrote, Knows
<1>9. Harmless => Harmless'
  BY <1>1, <1>3, <1>7, UnmovedFacts
<1>10. writer' # "stray" /\ Agreement => Agreement'
  BY <1>1, <1>7, <1>8, <1>9 DEF Agreement
<1>11. Stays("worker") /\ Stays("monitor") /\ Stays("seek")
  BY <1>3 DEF OthersStay, Thread
<1>12. EndInFlight => EndInFlight'
  BY <1>11 DEF EndInFlight, Stays
<1> QED
  BY <1>3, <1>6, <1>7, <1>8, <1>9, <1>10, <1>11, <1>12, UnmovedKept DEF Stays

\* It plans the row that is ready, or one that no completion can name yet.
LEMMA ReserveKept ==
  ASSUME IInv, Typed', Reserve
  PROVE  IInv'
<1> DEFINE d == thread["next"].deck
           head == IF native.ready THEN native.row[Other(d)] ELSE NewRow
           rows == [x \in Deck |-> IF x = d THEN thread["next"].row ELSE head]
<1>1. /\ ReserveGoes /\ thread["next"].at = "reserve" /\ UNCHANGED <<native, socket, jobs>>
      /\ Wrote("next", TRUE, "plan") /\ head \in Row /\ Plans(rows) /\ Typed
  BY ReserveFacts DEF IInv
<1>2. Unmoved /\ OthersStay("next") /\ thread'["next"].at \in {"none", "prepare"}
  BY <1>1, StillUnmoved DEF ReserveGoes, OthersStay, Stays, Thread
<1>3. Known'
  BY <1>1, <1>2, OneKnown, DoneKnows DEF IInv, Thread
<1>4. ~thread["next"].old => d = native.active
  BY <1>1 DEF IInv, Known, Knows
<1>5. ~thread["next"].old => Harmless'
  <2> SUFFICES ASSUME ~thread["next"].old
               PROVE  Harmless'
    OBVIOUS
  <2> DEFINE o == Other(native.active)
  <2>1. /\ o \in Deck /\ o # native.active /\ (\A x \in Deck : x = native.active \/ x = o)
        /\ native.last \in Nat /\ native.ended \in Nat /\ (native.ended # None => native.over \in Deck)
    BY <1>1, NativeRows DEF Typed
  <2>2. player'.row[o] = IF native.ready THEN native.last ELSE native.last + 1
    BY <1>1, <1>4, <2>1 DEF Plans, NewRow, IInv, Numbered
  <2>3. /\ \A e \in Sent : e.row \in Nat /\ e.row < player'.row[o]
        /\ native.ended < player'.row[o]
    BY <1>1, <2>1, <2>2, SentTypes DEF IInv, Numbered, RowsBelow
  <2>4. \A e \in Sent : e.kind # "answer" => e.deck \in Deck
    BY <1>1, SentTypes
  <2>5. Sent' = Sent /\ native' = native
    BY <1>1 DEF Sent
  <2> QED
    BY <2>1, <2>3, <2>4, <2>5 DEF Harmless
<1>6. /\ writer = "stray" => writer' = "stray"
      /\ writer' # "stray" => writer' = writer /\ ~thread["next"].old
  BY <1>1 DEF Wrote
<1>7. writer' # "stray" /\ Agreement => Agreement'
  BY <1>1, <1>5, <1>6 DEF Agreement, Plans
<1>8. Stays("worker") /\ Stays("monitor") /\ Stays("seek")
  BY <1>2 DEF OthersStay, Thread
<1>9. EndInFlight => EndInFlight'
  BY <1>8 DEF EndInFlight, Stays
<1> QED
  BY <1>1, <1>2, <1>3, <1>5, <1>6, <1>7, <1>8, <1>9, UnmovedKept DEF Plans, Stays

\* What a thread read of a deck that is not heard any more is old.
LEMMA OutrunKnows ==
  ASSUME Typed, NEW t \in {"next", "monitor", "seek"}, thread'[t].at = thread[t].at,
         thread[t].how \notin {"none", "forget"} => thread'[t].old
  PROVE  Knows(t)'
<1>1. CASE t = "next"
  BY <1>1 DEF Typed, Places, Knows
<1>2. CASE t = "monitor"
  BY <1>2 DEF Typed, Places, Knows
<1>3. CASE t = "seek"
  BY <1>3 DEF Typed, Places, Knows
<1> QED
  BY <1>1, <1>2, <1>3

\* The other deck is heard, and the event of it is on its way.
LEMMA MovedKept ==
  ASSUME IInv, Typed', native.ready, native'.active = Other(native.active), native'.row = native.row,
         native'.last = native.last, ~native'.ready, ~native'.astray, native'.seeking = None,
         native'.ended = native.ended, jobs' = jobs, Heard' \in Sent', Superseded, Known',
         \A e \in Sent' : e \in Sent \/ e.row = None \/ e = Heard',
         thread'["seek"].row = thread["seek"].row, thread'["worker"].at = thread["worker"].at
  PROVE  IInv'
<1> DEFINE d == native.active
           o == Other(native.active)
<1>1. /\ d \in Deck /\ o \in Deck /\ o # d /\ Other(o) = d /\ native.last \in Nat /\ native.row[d] \in Nat
      /\ native.ended \in Nat /\ native.last - 1 \in Nat
  BY NativeRows DEF IInv, Typed
<1>2. RowsBelow(native.last) /\ RowsBelow(native.last - 1) /\ native.row[o] = native.last
  BY DEF IInv, Numbered
<1>3. Owed' /\ Heard'.row = native.last /\ Queued' = Queued
  BY <1>2 DEF Owed, Heard, Event, Queued
<1>4. RowsBelow(native.last)'
  BY <1>1, <1>2, <1>3 DEF RowsBelow, None
<1>5. Numbered'
  <2>1. native.row[d] <= native.last
    BY <1>2 DEF RowsBelow
  <2> QED
    BY <1>1, <1>4, <2>1 DEF Numbered
<1>6. Around'
  <2> SUFFICES ASSUME thread'["worker"].at = "read"
               PROVE  ~Current(Head(jobs))'
    BY <1>3 DEF Around
  <2>1. jobs # <<>> /\ jobs \in Seq(StartEvent)
    BY DEF IInv, Typed, Working, WireType
  <2>2. Head(jobs) \in Queued
    BY <2>1, InTail DEF Queued
  <2>3. Head(jobs).row <= native.last - 1 /\ Head(jobs).row \in Nat
    BY <1>2, <2>2, SentTypes DEF RowsBelow, IInv
  <2> QED
    BY <1>1, <1>2, <2>3 DEF Current
<1>7. writer' # "select"
  BY DEF Superseded
<1> QED
  BY <1>3, <1>5, <1>6, <1>7 DEF IInv, Agreed, Misled, Latch, Selected

\* The daemon's own start outruns every thread, and its event is on its way.
LEMMA StartsKept ==
  ASSUME IInv, Typed', Starts
  PROVE  IInv'
<1> DEFINE d == Other(native.active)
           e == Event("started", d, native.row[d])
<1>1. d \in Deck /\ (native.due # "hard") \in BOOLEAN /\ Moved(d, native.due # "hard") /\ native.ready
      /\ socket' = Append(socket, e) /\ thread' = Outrun(Thread) /\ jobs' = jobs /\ Superseded /\ Typed
  BY DEF IInv, Typed, NativeType, Starts, Deck, Other
<1>2. e \in Message
  BY <1>1, MessageTypes DEF Typed, NativeType
<1>3. Sent' = Sent \cup {e}
  BY <1>1, <1>2, WireSets
<1>4. /\ native'.active = d /\ native'.row = native.row /\ native'.last = native.last
      /\ native'.ready = FALSE /\ native'.astray = FALSE /\ native'.seeking = None
      /\ native'.ended = native.ended
  BY <1>1, MovedFacts DEF Typed
<1>5. e = Heard'
  BY <1>4 DEF Heard
<1>6. \A t \in Thread : /\ Fields(thread'[t], thread[t])
                        /\ thread[t].how \notin {"none", "forget"} => thread'[t].old
  BY <1>1, OutrunFacts DEF Typed
<1>7. Known'
  BY <1>1, <1>6, OutrunKnows DEF Known, Fields, Thread
<1> QED
  BY <1>1, <1>3, <1>4, <1>5, <1>6, <1>7, MovedKept DEF Fields, Thread

\* The command of a start that the daemon accepts.
LEMMA StartingKept ==
  ASSUME IInv, Typed', NEW t \in {"next", "monitor"}, NEW how \in {"select", "fade", "interrupt", "hand"},
         how = thread[t].how, Accepted(thread[t].deck, how), Starting(t, how), jobs' = jobs,
         player'.active = player.active, player'.row = player.row, player'.seek = player.seek,
         player'.seekDeck = player.seekDeck, player'.armed \in {"no", player.armed}
  PROVE  IInv'
<1>1. Typed /\ t \in Thread /\ native.active = thread[t].deck /\ native.ready /\ how # "end"
  BY DEF IInv, Accepted, Thread
<1>2. CASE how \in {"select", "fade"}
  <2> DEFINE d == Other(native.active)
             e == Event("started", d, native.row[d])
             o == Outrun(Thread \ {t})
  <2>1. d \in Deck /\ Moved(d, how = "fade") /\ socket' = socket \o <<e, Answer(t)>>
        /\ thread' = [o EXCEPT ![t].at = "called"] /\ Superseded /\ (how = "fade") \in BOOLEAN
    BY <1>1, <1>2 DEF Typed, NativeType, Starting, Deck, Other
  <2>2. e \in Message /\ Answer(t) \in Message /\ Answer(t).row = None
    BY <1>1, <2>1, MessageTypes DEF Typed, NativeType
  <2>3. Sent' = Sent \cup {e, Answer(t)}
    BY <1>1, <2>1, <2>2, WireSets
  <2>4. /\ native'.active = d /\ native'.row = native.row /\ native'.last = native.last
        /\ native'.ready = FALSE /\ native'.astray = FALSE /\ native'.seeking = None
        /\ native'.ended = native.ended
    BY <1>1, <2>1, MovedFacts DEF Typed
  <2>5. e = Heard'
    BY <2>4 DEF Heard
  <2>6. /\ Calls(t)
        /\ \A u \in Thread : thread'[u].old <=>
             thread[u].old \/ (u \in Thread \ {t} /\ thread[u].how \notin {"none", "forget"})
    BY <1>1, <2>1, OutrunCalls
  <2>7. Knows(t)'
    <3>1. thread'[t].at = "called" /\ thread'[t].how = how /\ thread'[t].deck = thread[t].deck
      BY <2>6 DEF Calls
    <3>2. Other(d) = native.active
      BY <1>1, NativeRows DEF Typed
    <3> QED
      BY <1>1, <1>2, <2>4, <3>1, <3>2 DEF Knows
  <2>8. \A u \in Thread \ {t} : Fields(thread'[u], thread[u]) /\ (thread[u].how \notin {"none", "forget"} => thread'[u].old)
    BY <2>6 DEF Calls
  <2>9. Known'
    BY <1>1, <2>7, <2>8, OutrunKnows DEF Known, Fields, Thread
  <2>10. thread'["seek"].row = thread["seek"].row /\ thread'["worker"].at = thread["worker"].at
    BY <2>8 DEF Fields, Thread
  <2> QED
    BY <1>1, <2>1, <2>2, <2>3, <2>4, <2>5, <2>9, <2>10, MovedKept
<1>3. CASE how \in {"interrupt", "hand"}
  <2>1. /\ native' = [native EXCEPT !.due = IF how = "hand" THEN "hard" ELSE "interrupt"]
        /\ socket' = Append(socket, Answer(t)) /\ Goes(t, "called") /\ UNCHANGED writer
    BY <1>3 DEF Starting
  <2>2. Unmoved
    BY <1>1, <2>1 DEF Unmoved, SameDaemon, Typed, NativeType
  <2>3. Calls(t) /\ \A u \in Thread : thread'[u].old = thread[u].old
    BY <1>1, <2>1, GoesCalls
  <2>4. OthersStay(t)
    BY <2>3 DEF Calls, Fields, OthersStay, Stays
  <2>5. Knows(t)'
    <3>1. thread'[t].at = "called" /\ thread'[t].how = how /\ thread'[t].deck = thread[t].deck
      BY <2>3 DEF Calls
    <3> QED
      BY <1>1, <1>3, <2>2, <3>1 DEF Knows, Unmoved, SameDaemon
  <2>6. t = "monitor" => ~EndInFlight
    BY <1>1 DEF EndInFlight
  <2>7. Plain(t)
    BY <2>1, <2>2, <2>4, <2>5, <2>6 DEF Plain
  <2> QED
    BY <2>7, PlainKept
<1> QED
  BY <1>2, <1>3

\* A row that was never loaded before, for the deck that is not heard.
LEMMA LoadedKept ==
  ASSUME IInv, Typed', NewRow \in Row, ~native.ready, Loaded(Other(native.active)),
         player' = [player EXCEPT !.row[Other(native.active)] = NewRow],
         UNCHANGED <<socket, jobs, writer>>, Known', Stays("worker"), Stays("seek"), EndInFlight => EndInFlight'
  PROVE  IInv'
<1> DEFINE d == native.active
           o == Other(native.active)
<1>1. /\ d \in Deck /\ o \in Deck /\ o # d /\ native.last \in Nat /\ native.ended \in Nat /\ NewRow = native.last + 1
      /\ (\A x \in Deck : x = d \/ x = o) /\ (native.ended # None => native.over \in Deck) /\ Typed
      /\ native.row \in [Deck -> Row]
  BY NativeRows DEF IInv, Typed, NativeType, NewRow
<1>2. /\ native'.active = d /\ native'.row = [native.row EXCEPT ![o] = NewRow]
      /\ native'.last = NewRow /\ native'.ready = TRUE /\ native'.astray = native.astray
      /\ native'.seeking = native.seeking /\ native'.ended = native.ended /\ native'.over = native.over
  BY <1>1, LoadedFacts DEF Typed
<1>3. native'.row[d] = native.row[d] /\ native'.row[o] = NewRow
  BY <1>1, <1>2
<1>4. Sent' = Sent /\ Queued' = Queued /\ Heard' = Heard
  BY <1>2, <1>3 DEF Sent, Queued, Heard
<1>5. RowsBelow(native.last)
  BY DEF IInv, Numbered
<1>6. NoNewRows
  BY <1>2, <1>4 DEF NoNewRows, Old, Stays
<1>7. Numbered'
  <2>1. PICK n \in Nat : n = native.last
    BY <1>1
  <2>2. native'.last - 1 = n /\ native'.last = n + 1
    BY <1>1, <1>2, <2>1
  <2>3. RowsBelow(n)'
    BY <1>2, <1>3, <1>5, <1>6, <2>1, BelowKept
  <2>4. native'.row[native'.active] \in Nat /\ native'.ended \in Nat /\ native'.seeking \in Nat /\ thread'["seek"].row \in Nat
        /\ \A e \in Sent' \cup Queued' : e.row \in Nat
    <3>1. native.row[d] \in Nat /\ native.seeking \in Nat
      BY <1>1, NativeRows DEF Typed
    <3>2. thread["seek"].row \in Nat
      BY <1>1 DEF Typed, ThreadType, Thread, Row, None
    <3> QED
      BY <1>1, <1>2, <1>3, <1>4, <3>1, <3>2, SentTypes DEF Stays
  <2>5. RowsBelow(n + 1)'
    BY <2>3, <2>4 DEF RowsBelow
  <2>6. RowsBelow(native.last)' /\ RowsBelow(native.last - 1)'
    BY <2>2, <2>3, <2>5 DEF RowsBelow
  <2> QED
    BY <1>1, <1>2, <1>3, <2>6 DEF Numbered
<1>8. player'.active = player.active /\ player'.seek = player.seek /\ player'.seekDeck = player.seekDeck
      /\ player'.armed = player.armed /\ player'.row[o] = NewRow /\ player'.row[d] = player.row[d]
  BY <1>1 DEF Typed, PlayerType
<1>9. Harmless'
  <2>1. \A e \in Sent : e.row \in Nat /\ e.row < NewRow
    BY <1>1, <1>5, SentTypes DEF RowsBelow
  <2>2. native.ended < NewRow
    BY <1>1, <1>5 DEF RowsBelow
  <2>3. \A e \in Sent : e.kind # "answer" => e.deck \in Deck
    BY <1>1, SentTypes
  <2> QED
    BY <1>1, <1>2, <1>4, <1>8, <2>1, <2>2, <2>3 DEF Harmless
<1>10. Around'
  BY <1>1, <1>2, <1>3, <1>4 DEF IInv, Around, Current, Owed, Stays
<1>11. Owed' <=> Owed
  BY <1>4 DEF Owed
<1>12. Agreement => Agreement'
  BY <1>2, <1>8, <1>9 DEF Agreement
<1> QED
  BY <1>2, <1>7, <1>8, <1>9, <1>10, <1>11, <1>12, AgreedKept DEF IInv

\* A row is asked for when nothing is on its way.
LEMMA NeedNextKept ==
  ASSUME IInv, Typed', NeedNext
  PROVE  IInv'
<1>1. /\ NewRow \in Row /\ ~native.ready /\ Loaded(Other(native.active))
      /\ player' = [player EXCEPT !.row[Other(native.active)] = NewRow]
      /\ UNCHANGED <<socket, jobs, thread, writer>>
  BY DEF NeedNext, CanLoad
<1>2. \A t \in Thread : Stays(t)
  BY <1>1 DEF Stays
<1>3. native'.active = native.active /\ native'.row[native.active] = native.row[native.active]
  <2>1. native.active \in Deck /\ Other(native.active) \in Deck /\ Other(native.active) # native.active
        /\ native.row \in [Deck -> Row]
    BY NativeRows DEF IInv, Typed, NativeType
  <2> QED
    BY <1>1, <2>1, LoadedFacts DEF IInv, Typed
<1>4. Known'
  BY <1>2, <1>3, StaysKnows DEF IInv, Known, Thread
<1>5. EndInFlight => EndInFlight'
  BY <1>1 DEF EndInFlight
<1> QED
  BY <1>1, <1>2, <1>4, <1>5, LoadedKept DEF Thread

\* The end of a transition and the samples of a seek, sent.
LEMMA FinishesKept ==
  ASSUME IInv, Typed', Finishes \/ Finished \/ SeekDone
  PROVE  IInv'
<1>1. Typed /\ UNCHANGED <<jobs, player, thread, ops, blind, writer>>
  BY DEF IInv, Finishes, Finished, SeekDone
<1>2. SameDaemon /\ native'.seeking \in {native.seeking, None}
  BY <1>1 DEF Typed, NativeType, SameDaemon, Finishes, Finished, SeekDone
<1>3. /\ native'.ended # None => native'.over = native.active \/ (native'.over = native.over /\ native'.ended = native.ended)
      /\ native'.ended \in {native.ended, None, native.row[native.active]}
  BY <1>1 DEF Typed, NativeType, Finishes, Finished, SeekDone
<1>4. \/ Sent' = Sent
      \/ \E e \in Message : /\ Sent' = Sent \cup {e} /\ e.kind \in {"finished", "applied"} /\ e.row \in {native.ended, native.seeking}
                            /\ e.kind = "finished" => native.ended # None /\ e.deck = native.over /\ e.row = native.ended
  <2>1. CASE Finishes
    BY <2>1 DEF Finishes, Sent
  <2>2. CASE Finished
    <3> DEFINE e == Event("finished", native.over, native.ended)
    <3>1. native.over \in Deck /\ native.ended \in Row /\ native.ended # None
      BY <1>1, <2>2 DEF Typed, NativeType, Finished
    <3>2. e \in Message /\ e.kind = "finished" /\ e.deck = native.over /\ e.row = native.ended
      BY <3>1, MessageTypes
    <3>3. Sent' = Sent \cup {e}
      BY <1>1, <2>2, <3>2, WireSets DEF Finished
    <3> QED
      BY <3>1, <3>2, <3>3
  <2>3. CASE SeekDone
    <3> DEFINE e == Event("applied", native.active, native.seeking)
    <3>1. native.active \in Deck /\ native.seeking \in Row
      BY <1>1, <2>3 DEF Typed, NativeType, SeekDone
    <3>2. e \in Message /\ e.kind = "applied" /\ e.row = native.seeking
      BY <3>1, MessageTypes
    <3>3. Sent' = Sent \cup {e}
      BY <1>1, <2>3, <3>2, WireSets DEF SeekDone
    <3> QED
      BY <3>2, <3>3
  <2> QED
    BY <2>1, <2>2, <2>3
<1>5. Queued' = Queued /\ Heard' = Heard /\ Heard.kind = "started"
  BY <1>1, <1>2, SentTypes DEF Queued, Heard, SameDaemon
<1>6. Owed' <=> Owed
  BY <1>4, <1>5 DEF Owed
<1>7. NoNewRows
  BY <1>1, <1>2, <1>3, <1>4, <1>5 DEF NoNewRows, Old
<1>8. Harmless => Harmless'
  BY <1>1, <1>2, <1>3, <1>4, HarmlessKept DEF SameDaemon
<1>9. Numbered'
  BY <1>1, <1>2, <1>7, NumberedKept DEF IInv
<1>10. Around'
  BY <1>1, <1>2, <1>6, AroundKept DEF IInv
<1>11. Known'
  BY <1>1, <1>2, StaysKnows DEF IInv, Known, Stays, SameDaemon
<1>12. Agreement => Agreement'
  BY <1>1, <1>2, <1>8 DEF Agreement, SameDaemon
<1>13. EndInFlight => EndInFlight'
  BY <1>1 DEF EndInFlight
<1> QED
  BY <1>1, <1>2, <1>6, <1>8, <1>9, <1>10, <1>11, <1>12, <1>13, AgreedKept DEF IInv, SameDaemon


\* What an end that is told, or a seek, makes of a player that agrees.
LEMMA HandledAgrees ==
  ASSUME Typed, socket # <<>>,
         \/ Head(socket).kind = "finished" /\ TransitionFinished(Head(socket))
         \/ Head(socket).kind = "applied" /\ SeekApplied(Head(socket))
  PROVE  /\ player'.row = player.row /\ player'.armed = player.armed
         /\ player'.seek = None \/ (player'.seek = player.seek /\ player'.seekDeck = player.seekDeck)
         /\ Agreement => player'.active = native.active
         /\ Head(socket).kind = "finished" /\ player.active = native.active /\ Harmless => player'.active = native.active
<1> DEFINE e == Head(socket)
<1>1. e \in Message /\ e \in Sent
  BY InTail DEF Typed, WireType, Sent
<1> HIDE DEF e
<1>2. CASE e.kind = "finished" /\ TransitionFinished(e)
  <2>1. e.deck \in Deck
    BY <1>1, <1>2 DEF Message
  <2>2. /\ player' = Cleared(e.deck) \/ player' = player
        /\ player' # player => player.active = e.deck \/ player.row[e.deck] = e.row
    BY <1>2 DEF TransitionFinished, Own
  <2>3. Harmless => e.deck = native.active \/ player.row[e.deck] # e.row
    BY <1>1, <1>2 DEF Harmless
  <2>4. /\ player'.row = player.row /\ player'.armed = player.armed
        /\ player'.seek = player.seek /\ player'.seekDeck = player.seekDeck
        /\ player'.active = e.deck \/ player' = player
    BY <2>1, <2>2 DEF Cleared, Typed, PlayerType
  <2> QED
    BY <1>2, <2>2, <2>3, <2>4 DEF Agreement, e
<1>3. CASE e.kind = "applied" /\ SeekApplied(e)
  BY <1>1, <1>3 DEF SeekApplied, SeekMatches, Typed, PlayerType, Agreement, e
<1> QED
  BY <1>2, <1>3 DEF e

\* A start becomes a job, an end moves Python only to the deck that is heard, and an
\* answer wakes its thread.
LEMMA HandleKept ==
  ASSUME IInv, Typed', Handle
  PROVE  IInv'
<1> DEFINE e == Head(socket)
<1>1. Typed /\ socket # <<>> /\ socket' = Tail(socket) /\ UNCHANGED <<native, writer>> /\ SameDaemon
  BY DEF Handle, IInv, SameDaemon
<1>2. e \in Message /\ Sent = Sent' \cup {e} /\ socket \in Seq(Message) /\ jobs \in Seq(StartEvent)
  BY <1>1, InTail, WireSets DEF Typed, WireType
<1>3. Heard' = Heard /\ Heard.kind = "started"
  BY <1>1, SentTypes DEF Heard
<1>4. /\ \/ e.kind = "started" /\ Queued' = Queued \cup {e}
         \/ e.kind # "started" /\ jobs' = jobs /\ Queued' = Queued
      /\ thread["worker"].at = "read" => Head(jobs') = Head(jobs)
  <2>1. CASE e.kind = "started"
    <3>1. jobs' = Append(jobs, e) /\ e \in StartEvent
      BY <1>2, <2>1 DEF Handle, Message, StartEvent
    <3>2. Queued' = Queued \cup {e}
      BY <1>1, <3>1, WireSets
    <3>3. jobs # <<>> => Head(Append(jobs, e)) = Head(jobs)
      BY <1>2, <3>1
    <3> QED
      BY <1>1, <2>1, <3>1, <3>2, <3>3 DEF Typed, Working
  <2>2. CASE e.kind # "started"
    BY <2>2 DEF Handle, Queued
  <2> QED
    BY <2>1, <2>2
<1>5. Owed' <=> Owed
  BY <1>2, <1>3, <1>4 DEF Owed
<1>6. \A t \in Thread : /\ thread'[t].deck = thread[t].deck /\ thread'[t].row = thread[t].row
                        /\ thread'[t].how = thread[t].how /\ thread'[t].old = thread[t].old
                        /\ thread'[t].at = thread[t].at \/ (thread[t].at = "called" /\ thread'[t].at = "publish")
  <2>1. CASE e.kind = "answer"
    <3>1. thread' = [thread EXCEPT ![e.deck].at = "publish"] /\ thread \in Threads
      BY <1>1, <2>1 DEF Handle, Typed, ThreadType, Threads
    <3>2. thread[e.deck].at = "called"
      <4>1. e = socket[1] /\ 1 \in 1..Len(socket)
        BY <1>1, <1>2
      <4>2. e.deck \in Called
        BY <1>1, <2>1, <4>1 DEF Typed, Answers, Answered
      <4> QED
        BY <4>2 DEF Called
    <3> HIDE DEF e
    <3> QED
      BY <3>1, <3>2 DEF Threads
  <2>2. CASE e.kind # "answer"
    BY <2>2 DEF Handle
  <2> QED
    BY <2>1, <2>2
<1>7. NoNewRows
  BY <1>1, <1>2, <1>4, <1>6 DEF NoNewRows, Old, Thread
<1>8. Numbered'
  BY <1>1, <1>7, NumberedKept DEF IInv
<1>9. Known'
  BY <1>1, <1>6 DEF IInv, Known, Knows, Thread
<1>10. thread'["worker"].at = thread["worker"].at /\ thread'["worker"].row = thread["worker"].row
  BY <1>1, <1>6 DEF Typed, Places, Thread
<1>11. Around'
  BY <1>1, <1>4, <1>5, <1>10, AroundKept DEF IInv
<1>12. /\ player'.row = player.row /\ player'.armed = player.armed
       /\ player'.seek = None \/ (player'.seek = player.seek /\ player'.seekDeck = player.seekDeck)
       /\ Agreement => player'.active = native.active
  <2>1. CASE player' = player
    BY <2>1 DEF Agreement
  <2>2. CASE \/ Head(socket).kind = "finished" /\ TransitionFinished(Head(socket))
             \/ Head(socket).kind = "applied" /\ SeekApplied(Head(socket))
    BY <1>1, <2>2, HandledAgrees
  <2> QED
    BY <2>1, <2>2 DEF Handle
<1>13. Harmless => Harmless'
  BY <1>1, <1>2, <1>12, HarmlessKept
<1>14. Agreement => Agreement'
  BY <1>1, <1>12, <1>13 DEF Agreement
<1>15. EndInFlight => EndInFlight'
  BY <1>6 DEF EndInFlight, Thread
<1> QED
  BY <1>1, <1>5, <1>8, <1>9, <1>11, <1>12, <1>13, <1>14, <1>15, AgreedKept DEF IInv

\* A start that is still heard is read for; one that is not is no loss.
LEMMA WorkerReadsKept ==
  ASSUME IInv, Typed', WorkerReads
  PROVE  IInv'
<1> DEFINE e == Head(jobs)
           r == IF native.ready THEN native.row[Other(e.deck)] ELSE None
<1>1. /\ jobs \in Seq(StartEvent) /\ jobs # <<>> /\ UNCHANGED <<native, socket, player, ops, blind, writer>> /\ Typed
      /\ SameDaemon
  BY DEF IInv, Typed, WireType, WorkerReads, SameDaemon
<1>2. e \in StartEvent /\ Queued = {e} \cup In(Tail(jobs)) /\ Heard' = Heard /\ Sent' = Sent
  BY <1>1, InTail DEF Queued, Heard, Sent
<1>3. \/ Current(e) /\ jobs' = jobs /\ Reads("worker", "a", r, native.moving, "none")
      \/ ~Current(e) /\ thread["worker"].at = "none" /\ jobs' = Tail(jobs) /\ thread' = thread
  BY DEF WorkerReads
<1>4. /\ \A u \in Thread \ {"worker"} : thread'[u] = thread[u]
      /\ Around' /\ (Owed' <=> Owed) /\ Queued' \subseteq Queued
  <2>1. CASE Current(e) /\ jobs' = jobs /\ Reads("worker", "a", r, native.moving, "none")
    <3>1. r \in Row \cup {None} /\ native.moving \in BOOLEAN
      BY <1>1, <1>2 DEF Typed, NativeType, StartEvent, Deck, Other
    <3> HIDE DEF r
    <3>2. ReadBy("worker", "a", r, native.moving, "none")
      BY <1>1, <2>1, <3>1, ReadsFacts DEF Thread, Deck, How
    <3>3. thread'["worker"].row = r
      BY <3>2 DEF ReadBy
    <3>4. r = None \/ (native.ready /\ r = native.row[Other(native.active)])
      BY <2>1 DEF r, Current
    <3>5. Current(e)'
      BY <1>1, <2>1 DEF Current
    <3> QED
      BY <1>1, <1>2, <2>1, <3>2, <3>3, <3>4, <3>5 DEF ReadBy, Around, Owed, Queued
  <2>2. CASE ~Current(e) /\ thread["worker"].at = "none" /\ jobs' = Tail(jobs) /\ thread' = thread
    <3>1. Heard # e
      BY <1>1, <2>2, SentTypes DEF Current
    <3> QED
      BY <1>2, <2>2, <3>1 DEF Around, Owed, Queued
  <2> QED
    BY <1>3, <2>1, <2>2
<1>5. Known'
  BY <1>1, <1>4 DEF IInv, Known, Knows, Thread
<1>6. NoNewRows
  BY <1>1, <1>2, <1>4 DEF NoNewRows, Old, Thread
<1>7. Numbered'
  BY <1>1, <1>6, NumberedKept DEF IInv
<1>8. Harmless => Harmless'
  BY <1>1, <1>2 DEF Harmless
<1>9. Agreement => Agreement'
  BY <1>1, <1>8 DEF Agreement
<1>10. EndInFlight => EndInFlight'
  BY <1>4 DEF EndInFlight, Thread
<1> QED
  BY <1>1, <1>4, <1>5, <1>7, <1>8, <1>9, <1>10, AgreedKept DEF IInv

\* The rebuild agrees with the daemon unless a newer start is behind it, or a seek
\* misled the daemon.
LEMMA RebuildKept ==
  ASSUME IInv, Typed', Rebuild
  PROVE  IInv'
<1> DEFINE e == Head(jobs)
           o == Outrun({"next"})
           w == thread["worker"]
           x == Other(native.active)
<1>1. /\ jobs \in Seq(StartEvent) /\ jobs # <<>> /\ w.at = "read" /\ Typed
      /\ player' = Rebuilt(e, w.row, w.flag) /\ jobs' = Tail(jobs) /\ thread' = [o EXCEPT !["worker"] = Idle]
      /\ writer' = (IF native.astray /\ writer = "stray" THEN writer ELSE "event")
      /\ UNCHANGED <<native, socket>> /\ SameDaemon
  BY DEF IInv, Typed, WireType, Working, Rebuild, SameDaemon
<1>2. e \in StartEvent /\ Queued = Queued' \cup {e} /\ Heard' = Heard /\ Sent' = Sent
  BY <1>1, InTail, WireSets DEF Queued, Heard, Sent
<1>3. /\ player'.active = e.deck /\ player'.seek = None /\ player'.armed = "no"
      /\ \A d \in Deck : player'.row[d] = IF d = e.deck THEN e.row ELSE w.row
  <2> HIDE DEF e, w
  <2> QED
    BY <1>1 DEF Rebuilt, Typed, PlayerType
<1>4. /\ o \in Threads /\ \A t \in Thread : /\ Fields(o[t], thread[t])
                                            /\ o[t].old <=> thread[t].old \/ (t \in {"next"} /\ thread[t].how \notin {"none", "forget"})
  BY <1>1, OutrunFacts DEF Typed
<1> HIDE DEF o
<1>5. thread'["worker"] = Idle /\ \A t \in Thread \ {"worker"} : thread'[t] = o[t]
  BY <1>1, <1>4 DEF Threads, Thread
<1>6. \A t \in Thread \ {"worker"} : Stays(t)
  BY <1>4, <1>5 DEF Stays, Fields
<1>7. Known'
  BY <1>1, <1>6, StaysKnows DEF IInv, Known, Thread
<1>8. NoNewRows
  BY <1>1, <1>2, <1>6 DEF NoNewRows, Old, Stays, Thread
<1>9. Numbered'
  BY <1>1, <1>8, NumberedKept DEF IInv
<1>10. Around'
  BY <1>5 DEF Around, Idle
<1>11. Agreed'
  <2> SUFFICES ASSUME ~native.astray, ~Owed'
               PROVE  Agreement'
    BY <1>1 DEF Agreed
  <2>1. Current(e)
    <3> SUFFICES ASSUME ~Current(e)
                 PROVE  FALSE
      OBVIOUS
    <3>1. Owed
      BY <1>1 DEF IInv, Around
    <3>2. Heard # e
      BY <1>1, SentTypes DEF Current
    <3> QED
      BY <1>2, <3>1, <3>2 DEF Owed
  <2>2. w.row = None \/ (native.ready /\ w.row = native.row[x])
    BY <1>1, <2>1 DEF IInv, Around
  <2>3. x \in Deck /\ x # native.active /\ (\A d \in Deck : d = native.active \/ d = x)
        /\ native.last \in Nat /\ native.ended \in Nat /\ (native.ended # None => native.over \in Deck)
    BY <1>1, NativeRows DEF Typed
  <2>4. player'.row[x] = w.row
    BY <1>3, <2>1, <2>3 DEF Current
  <2>5. \A f \in Sent : f.kind = "finished" => f.deck \in Deck /\ f.row \in Row /\ (native.ready => f.row <= native.last - 1)
    BY <1>1, SentTypes DEF IInv, Numbered, RowsBelow
  <2>6. native.ready => native.row[x] = native.last /\ native.ended <= native.last - 1
    BY DEF IInv, Numbered, RowsBelow
  <2>7. \A r \in Row : r # None /\ r \in Nat
    BY DEF Row, None
  <2>8. Harmless'
    BY <1>1, <1>2, <2>2, <2>3, <2>4, <2>5, <2>6, <2>7 DEF Harmless
  <2> QED
    BY <1>1, <1>3, <2>1, <2>8 DEF Agreement, Current
<1>12. EndInFlight => EndInFlight'
  BY <1>6 DEF EndInFlight, Stays, Thread
<1>13. Misled'
  BY <1>1, <1>12 DEF IInv, Misled
<1> QED
  BY <1>1, <1>3, <1>7, <1>9, <1>10, <1>11, <1>13 DEF IInv, Latch, Selected, Typed, BoundType

\* A thread that goes on, or is done, with nothing of the player but its claim.
LEMMA ClaimKept ==
  ASSUME IInv, Typed', NEW t \in {"next", "monitor"}, UNCHANGED <<native, socket, jobs, writer>>,
         thread[t].at \in {"prepare", "command", "blind"} \/ (thread[t].at = "publish" /\ thread[t].how # "end"),
         Ends(t) \/ (\E a \in {"prepare", "command"} : Goes(t, a)),
         player'.active = player.active, player'.row = player.row, player'.seek = player.seek,
         player'.seekDeck = player.seekDeck, player'.armed \in {"no", player.armed}
  PROVE  IInv'
<1>1. Typed /\ t \in Thread /\ thread[t].at # "called"
  BY DEF IInv, Thread
<1>2. /\ \A u \in Thread \ {t} : thread'[u] = thread[u]
      /\ thread'[t].at \in {"none", "prepare", "command"}
  <2>1. CASE Ends(t)
    BY <1>1, <2>1, EndsFacts DEF Idle
  <2>2. ASSUME NEW a \in {"prepare", "command"}, Goes(t, a)
        PROVE  (\A u \in Thread \ {t} : thread'[u] = thread[u]) /\ thread'[t].at = a
    <3>1. a \in Place \ {"called"}
      BY DEF Place
    <3> QED
      BY <1>1, <2>2, <3>1, GoesFacts
  <2> QED
    BY <2>1, <2>2
<1>3. Unmoved /\ OthersStay(t) /\ Knows(t)'
  BY <1>2, StillUnmoved, SameStays, DoneKnows
<1>4. t = "monitor" => ~EndInFlight
  BY DEF EndInFlight
<1>5. Plain(t)
  BY <1>3, <1>4 DEF Plain
<1> QED
  BY <1>5, PlainKept

\* A start loads its deck, or gives its claim up.
LEMMA PrepareKept ==
  ASSUME IInv, Typed', NEW t \in {"next", "monitor"}, Prepare(t)
  PROVE  IInv'
<1> DEFINE d == Other(thread[t].deck)
<1>1. thread[t].at = "prepare" /\ UNCHANGED <<socket, jobs, writer>> /\ Typed /\ t \in Thread /\ d \in Deck
      /\ "command" \in Place \ {"called"}
  BY DEF IInv, Prepare, Thread, Place, Other, Deck
<1>2. CASE UNCHANGED <<native, player>> /\ Goes(t, "command")
  BY <1>1, <1>2, ClaimKept
<1>3. CASE UNCHANGED native /\ Ends(t) /\ player' = GivenUp
  BY <1>1, <1>3, ClaimKept DEF GivenUp, Typed, PlayerType
<1>4. CASE CanLoad /\ d # native.active /\ Loaded(d) /\ player' = [player EXCEPT !.row[d] = NewRow] /\ Goes(t, "command")
  <2>1. d = Other(native.active) /\ NewRow \in Row /\ ~native.ready /\ native.active \in Deck /\ native.row \in [Deck -> Row]
    BY <1>1, <1>4, NativeRows DEF CanLoad, Typed, NativeType
  <2>2. (\A u \in Thread \ {t} : thread'[u] = thread[u]) /\ thread'[t].at = "command"
        /\ thread'[t].deck = thread[t].deck /\ thread'[t].how = thread[t].how /\ thread'[t].old = thread[t].old
        /\ thread'[t].row = thread[t].row
    BY <1>1, <1>4, GoesFacts
  <2>3. native'.active = native.active /\ native'.row[native.active] = native.row[native.active]
    BY <1>1, <1>4, <2>1, LoadedFacts DEF Typed
  <2>4. Known'
    BY <1>1, <2>2, <2>3, SameStays, DoneKnows, OneKnown DEF IInv
  <2>5. player' = [player EXCEPT !.row[Other(native.active)] = NewRow] /\ Loaded(Other(native.active))
    BY <1>4, <2>1
  <2>6. \A u \in Thread \ {t} : Stays(u)
    BY <2>2 DEF Stays
  <2>7. Stays("worker") /\ Stays("seek")
    BY <2>6 DEF Thread
  <2>8. EndInFlight => EndInFlight'
    <3>1. CASE t = "monitor"
      BY <1>1, <3>1 DEF EndInFlight
    <3>2. CASE t = "next"
      BY <2>6, <3>2 DEF EndInFlight, Stays, Thread
    <3> QED
      BY <3>1, <3>2
  <2> QED
    BY <1>1, <2>1, <2>4, <2>5, <2>7, <2>8, LoadedKept
<1> QED
  BY <1>2, <1>3, <1>4 DEF Prepare

\* The command of a start outruns the others, and its event is ahead of its answer.
LEMMA CommandKept ==
  ASSUME IInv, Typed', NEW t \in {"next", "monitor"}, Command(t)
  PROVE  IInv'
<1>1. thread[t].at = "command" /\ UNCHANGED jobs /\ Typed /\ thread[t].how \in {"select", "interrupt"}
  BY DEF Command, IInv, Typed, Places
<1>2. CASE Accepted(thread[t].deck, thread[t].how) /\ Starting(t, thread[t].how) /\ UNCHANGED player
  BY <1>1, <1>2, StartingKept
<1>3. CASE player' = GivenUp /\ Ends(t) /\ UNCHANGED <<native, socket, writer>>
  BY <1>1, <1>3, ClaimKept DEF GivenUp, Typed, PlayerType
<1> QED
  BY <1>2, <1>3 DEF Command

\* What a start writes that the daemon accepted and was not outrun.
LEMMA StartedAgrees ==
  ASSUME Typed, NEW t \in {"next", "monitor"}, player' = Started(t), thread[t].at = "publish", Knows(t), ~thread[t].old,
         thread[t].how \in {"select", "fade", "interrupt"}
  PROVE  /\ player'.active = native.active /\ player'.seek = player.seek /\ player'.seekDeck = player.seekDeck
         /\ player'.armed = player.armed
         /\ \A d \in Deck : \/ player'.row[d] = player.row[d]
                            \/ player'.row[d] = None /\ thread[t].how = "select"
         /\ thread[t].how = "select" /\ t = "next" => \A d \in Deck : d = native.active \/ player'.row[d] = None
<1> DEFINE d == thread[t].deck
<1>1. d \in Deck /\ Other(d) \in Deck /\ d # Other(d) /\ native.active \in Deck /\ Other(Other(d)) = d
      /\ \A x \in Deck : x = d \/ x = Other(d)
  BY DEF Typed, ThreadType, NativeType, Thread, Other, Deck
<1>2. thread[t].how \in {"select", "fade"} => d = Other(native.active)
  BY DEF Knows
<1>3. thread[t].how = "interrupt" => d = native.active
  BY DEF Knows
<1>4. thread[t].how \in {"select", "fade"} => Other(d) = native.active
  BY <1>1, <1>2, NativeRows DEF Typed
<1>5. CASE thread[t].how = "select"
  <2> DEFINE x == Other(d)
             r == IF t = "next" THEN None ELSE player.row[d]
             rows == [player.row EXCEPT ![d] = r]
  <2>1. player' = [player EXCEPT !.active = x, !.moving = FALSE, !.starting = FALSE, !.row = rows]
    BY <1>1, <1>5 DEF Started, Typed, PlayerType
  <2>2. rows[d] = r /\ rows[Other(d)] = player.row[Other(d)]
    BY <1>1 DEF Typed, PlayerType
  <2> HIDE DEF x, r, rows
  <2>3. player'.active = x /\ player'.row = rows /\ player'.seek = player.seek /\ player'.seekDeck = player.seekDeck
        /\ player'.armed = player.armed
    BY <2>1 DEF Typed, PlayerType
  <2> QED
    BY <1>1, <1>4, <1>5, <2>2, <2>3 DEF x, r
<1>6. CASE thread[t].how = "fade"
  BY <1>1, <1>4, <1>6 DEF Started, Typed, PlayerType
<1>7. CASE thread[t].how = "interrupt"
  BY <1>1, <1>3, <1>7 DEF Started, Typed, PlayerType
<1> QED
  BY <1>5, <1>6, <1>7

\* The thread that started writes the deck that is heard, unless it was outrun.
LEMMA PublishKept ==
  ASSUME IInv, Typed', NEW t \in {"next", "monitor"}, Publish(t)
  PROVE  IInv'
<1>1. /\ thread[t].at = "publish" /\ thread[t].how \in {"select", "interrupt"} /\ Ends(t) /\ t \in Thread
      /\ UNCHANGED <<native, socket, jobs>> /\ Typed
  BY DEF Publish, Thread, IInv
<1>2. CASE player' = GivenUp /\ UNCHANGED writer
  BY <1>1, <1>2, ClaimKept DEF GivenUp, Typed, PlayerType
<1>3. CASE player' = Started(t) /\ Wrote(t, TRUE, IF t = "next" THEN thread[t].how ELSE "event")
  <2>1. Knows(t)
    BY DEF IInv, Known
  <2>2. /\ writer = "stray" => writer' = "stray"
        /\ thread[t].old => writer' = "stray"
        /\ writer' = "select" => writer = "select" \/ (t = "next" /\ thread[t].how = "select" /\ ~thread[t].old)
    BY <1>3 DEF Wrote
  <2>3. ~thread[t].old =>
          /\ player'.active = native.active /\ player'.seek = player.seek /\ player'.seekDeck = player.seekDeck
          /\ player'.armed = player.armed
          /\ \A d \in Deck : player'.row[d] = player.row[d] \/ player'.row[d] = None
          /\ thread[t].how = "select" /\ t = "next" => \A d \in Deck : d = native.active \/ player'.row[d] = None
    BY <1>1, <1>3, <2>1, StartedAgrees
  <2>4. (\A u \in Thread \ {t} : thread'[u] = thread[u]) /\ thread'[t].at = "none"
    <3>1. thread[t].at # "called"
      BY <1>1
    <3>2. thread'[t] = Idle /\ \A u \in Thread \ {t} : thread'[u] = thread[u]
      BY <1>1, <3>1, EndsFacts
    <3> QED
      BY <3>2 DEF Idle
  <2>5. Unmoved /\ OthersStay(t) /\ Knows(t)'
    BY <1>1, <2>4, StillUnmoved, SameStays, DoneKnows
  <2>6. Known'
    BY <1>1, <2>5, OneKnown DEF IInv
  <2>7. /\ \A e \in Sent : e.kind = "finished" => e.deck \in Deck /\ e.row # None
        /\ native.ended # None => native.over \in Deck
        /\ Sent' = Sent /\ native' = native
    BY <1>1, SentTypes, NativeRows DEF Typed, Row, None, Sent
  <2>8. ~thread[t].old /\ Harmless => Harmless'
    BY <2>3, <2>7 DEF Harmless
  <2>9. ~thread[t].old /\ thread[t].how = "select" /\ t = "next" => Harmless'
    BY <2>3, <2>7 DEF Harmless
  <2>10. writer' # "stray" /\ Agreement => Agreement'
    BY <1>1, <2>2, <2>3, <2>8 DEF Agreement
  <2>11. writer' = "select" => (writer = "select" /\ (Harmless => Harmless')) \/ Harmless'
    BY <2>2, <2>8, <2>9
  <2>12. Stays("worker") /\ Stays("seek")
    BY <2>5 DEF OthersStay, Thread
  <2>13. EndInFlight => EndInFlight'
    <3>1. CASE t = "monitor"
      BY <1>1, <3>1 DEF EndInFlight
    <3>2. CASE t = "next"
      BY <2>4, <3>2 DEF EndInFlight, Thread
    <3> QED
      BY <3>1, <3>2
  <2>14. player'.armed \in {"no", player.armed, native.active} \/ writer' = "stray"
    BY <2>2, <2>3
  <2> QED
    BY <2>2, <2>5, <2>6, <2>10, <2>11, <2>12, <2>13, <2>14, UnmovedKept DEF Stays
<1> QED
  BY <1>2, <1>3 DEF Publish

\* A seek that is forgotten is no harm.
LEMMA ForgetsKept ==
  ASSUME IInv, Typed', Forgets, UNCHANGED <<native, socket, jobs, ops, blind, writer>>
  PROVE  IInv'
<1>1. Typed
  BY DEF IInv
<1>2. CASE Reads("monitor", "a", None, FALSE, "forget") /\ UNCHANGED player
  <2>1. ReadBy("monitor", "a", None, FALSE, "forget")
    BY <1>1, <1>2, ReadsFacts DEF Thread, Deck, How
  <2>2. Knows("monitor")' /\ ~EndInFlight
    BY <2>1 DEF ReadBy, Knows, EndInFlight
  <2>3. Plain("monitor")
    BY <1>2, <2>1, <2>2, StillUnmoved, SameStays DEF ReadBy, Plain
  <2> QED
    BY <2>3, PlainKept
<1>3. CASE /\ thread["monitor"].at = "read" /\ Ends("monitor")
           /\ player' = [player EXCEPT !.seek = None, !.late = FALSE, !.seekDeck = "a"]
  <2>1. /\ player'.active = player.active /\ player'.row = player.row /\ player'.seek = None
        /\ player'.armed = player.armed
    BY <1>1, <1>3 DEF Typed, PlayerType
  <2>2. (\A u \in Thread \ {"monitor"} : thread'[u] = thread[u]) /\ thread'["monitor"].at = "none"
    BY <1>1, <1>3, EndsFacts DEF Idle, Thread
  <2>3. Plain("monitor")
    BY <1>3, <2>1, <2>2, StillUnmoved, SameStays, DoneKnows DEF Plain, EndInFlight
  <2> QED
    BY <2>3, PlainKept
<1> QED
  BY <1>2, <1>3 DEF Forgets

\* The monitor goes on with the deck that Python believes in.
LEMMA BlindKept ==
  ASSUME IInv, Typed', NEW how \in {"select", "fade", "hand", "end"}, Blind(how)
  PROVE  IInv'
<1>1. /\ thread["monitor"].at = "none" /\ thread'["monitor"].at = "blind"
      /\ \A u \in Thread \ {"monitor"} : thread'[u] = thread[u]
      /\ UNCHANGED <<native, socket, jobs, player, writer>>
  BY BlindFacts DEF IInv
<1>2. Plain("monitor")
  BY <1>1, StillUnmoved, SameStays, DoneKnows DEF Plain, EndInFlight
<1> QED
  BY <1>2, PlainKept

\* Its starts are those of any thread.
LEMMA BlindStartKept ==
  ASSUME IInv, Typed', thread["monitor"].at = "blind", BlindSelect \/ BlindFade \/ BlindArm, UNCHANGED <<jobs, ops, blind>>
  PROVE  IInv'
<1>1. Typed
  BY DEF IInv
<1>2. /\ player'.active = player.active /\ player'.row = player.row /\ player'.seek = player.seek
      /\ player'.seekDeck = player.seekDeck /\ player'.armed \in {"no", player.armed}
  <2>1. \/ player' = [player EXCEPT !.starting = TRUE, !.armed = "no"]
        \/ player' = [player EXCEPT !.armed = "no"]
    BY DEF BlindSelect, BlindFade, BlindArm
  <2> QED
    BY <1>1, <2>1 DEF Typed, PlayerType
<1>3. \/ /\ UNCHANGED <<native, socket, writer>>
         /\ Goes("monitor", "prepare") \/ Ends("monitor")
      \/ \E how \in {"fade", "hand"} :
           thread["monitor"].how = how /\ Accepted(thread["monitor"].deck, how) /\ Starting("monitor", how)
  BY DEF BlindSelect, BlindFade, BlindArm
<1>4. CASE /\ UNCHANGED <<native, socket, writer>>
           /\ Goes("monitor", "prepare") \/ Ends("monitor")
  BY <1>2, <1>4, ClaimKept
<1>5. ASSUME NEW how \in {"fade", "hand"}, thread["monitor"].how = how, Accepted(thread["monitor"].deck, how),
             Starting("monitor", how)
      PROVE  IInv'
  BY <1>2, <1>5, StartingKept
<1> QED
  BY <1>3, <1>4, <1>5

\* The end it tells may move the daemon to a deck that was left; it is in flight then.
LEMMA BlindEndKept ==
  ASSUME IInv, Typed', thread["monitor"].at = "blind", BlindEnd, UNCHANGED <<jobs, ops, blind>>
  PROVE  IInv'
<1> DEFINE d == thread["monitor"].deck
           same == native.active = d
<1>1. Typed /\ thread["monitor"].how = "end" /\ UNCHANGED player
  BY DEF IInv, BlindEnd
<1>2. CASE thread["monitor"].flag
  BY <1>1, <1>2, ClaimKept DEF BlindEnd
<1>3. CASE ~thread["monitor"].flag
  <2>1. /\ native'.active = d /\ native'.row = native.row /\ native'.last = native.last
        /\ native'.ready = (native.ready /\ same) /\ native'.astray = (native.astray \/ ~same)
        /\ native'.seeking = native.seeking /\ native'.ended = native.ended /\ native'.over = native.over
        /\ Calls("monitor") /\ socket' = Append(socket, Answer("monitor"))
        /\ \A u \in Thread : thread'[u].old <=>
             thread[u].old \/ (~same /\ thread[u].how \notin {"none", "forget"})
        /\ writer' = (IF writer = "select" /\ ~same THEN "event" ELSE writer)
    BY <1>1, <1>3, BlindEndFacts
  <2>2. /\ \A u \in Thread \ {"monitor"} : Fields(thread'[u], thread[u])
        /\ thread'["monitor"].at = "called" /\ thread'["monitor"].deck = d /\ thread'["monitor"].how = "end"
    BY <1>1, <2>1 DEF Calls
  <2>3. d \in Deck /\ "monitor" \in Thread
    BY <1>1 DEF Typed, ThreadType, Thread
  <2>4. CASE same
    <3>1. Unmoved
      <4>1. native.ready \in BOOLEAN /\ native.astray \in BOOLEAN
        BY <1>1 DEF Typed, NativeType
      <4>2. SameDaemon
        BY <2>1, <2>4, <4>1 DEF SameDaemon
      <4> QED
        BY <2>1, <2>3, <4>2 DEF Unmoved
    <3>2. OthersStay("monitor")
      BY <2>1, <2>2, <2>4 DEF OthersStay, Stays, Fields
    <3>3. Knows("monitor")'
      BY <2>1, <2>2, <2>4 DEF Knows
    <3>4. Plain("monitor")
      BY <1>1, <2>1, <2>4, <3>1, <3>2, <3>3 DEF Plain, EndInFlight
    <3> QED
      BY <3>4, PlainKept
  <2>5. CASE ~same
    <3> DEFINE x == native.active
    <3>1. /\ x \in Deck /\ d = Other(x) /\ Other(d) = x /\ native.last \in Nat /\ native.row[x] <= native.last
          /\ RowsBelow(native.last) /\ native.row[d] <= native.last
      BY <1>1, <2>3, <2>5, NativeRows DEF Typed, IInv, Numbered, RowsBelow
    <3>2. Sent' = Sent \cup {Answer("monitor")} /\ Queued' = Queued /\ Answer("monitor").row = None
      BY <1>1, <2>1, <2>3, MessageTypes, WireSets DEF Queued
    <3>3. thread'["seek"].row = thread["seek"].row
      BY <2>2 DEF Fields, Thread
    <3>4. RowsBelow(native.last)'
      BY <2>1, <3>1, <3>2, <3>3 DEF RowsBelow, None
    <3>5. Numbered'
      BY <2>1, <2>5, <3>1, <3>4 DEF Numbered
    <3>6. Known'
      <4>1. Knows("monitor")'
        BY <1>1, <2>1, <2>2, <2>3, <2>5, DoneKnows
      <4>2. \A u \in {"next", "seek"} : Knows(u)'
        BY <1>1, <2>1, <2>2, <2>5, OutrunKnows DEF Fields, Thread
      <4> QED
        BY <4>1, <4>2 DEF Known
    <3>7. EndInFlight' /\ native'.astray
      BY <1>1, <2>1, <2>2, <2>3, <2>5 DEF EndInFlight
    <3>8. writer' # "select"
      BY <2>1, <2>5
    <3> QED
      BY <3>5, <3>6, <3>7, <3>8 DEF IInv, Around, Agreed, Misled, Latch, Selected
  <2> QED
    BY <2>4, <2>5
<1> QED
  BY <1>2, <1>3

\* What the monitor wrote, if it was not outrun, agrees.
LEMMA BlindPublishAgrees ==
  ASSUME IInv, BlindPublish
  PROVE  /\ writer = "stray" => writer' = "stray"
         /\ writer' = "select" => writer = "select"
         /\ thread["monitor"].old /\ thread["monitor"].how # "hand" => writer' = "stray"
         /\ ~(thread["monitor"].old /\ thread["monitor"].how # "hand") =>
              /\ player'.active \in {player.active, native.active}
              /\ player'.seek = player.seek /\ player'.seekDeck = player.seekDeck
              /\ \A d \in Deck : player'.row[d] = player.row[d] \/ player'.row[d] = None
         /\ player'.armed \in {"no", player.armed, native.active} \/ writer' = "stray" \/ Owed \/ EndInFlight
<1> DEFINE d == thread["monitor"].deck
           how == thread["monitor"].how
<1>1. /\ thread["monitor"].at = "publish" /\ how \in {"fade", "hand", "end"} /\ Typed /\ d \in Deck
      /\ player' = CASE how = "hand" -> Latched(d)
                     [] how = "end" -> Cleared(d)
                     [] how = "fade" /\ thread["monitor"].flag -> player
                     [] OTHER -> Started("monitor")
      /\ Wrote("monitor", how # "hand", "event")
  BY DEF BlindPublish, IInv, Typed, ThreadType, Thread
<1>2. /\ writer = "stray" => writer' = "stray"
      /\ writer' = "select" => writer = "select"
      /\ thread["monitor"].old /\ how # "hand" => writer' = "stray"
      /\ how = "hand" => writer' = writer
  BY <1>1 DEF Wrote
<1>3. Knows("monitor")
  BY DEF IInv, Known
<1>4. CASE how = "hand"
  <2>1. player' = Latched(d)
    BY <1>1, <1>4
  <2>2. /\ player'.active = player.active /\ player'.seek = player.seek /\ player'.seekDeck = player.seekDeck
        /\ player'.row = player.row
        /\ player'.armed = player.armed \/ (player'.armed = d /\ player.active = d)
    BY <1>1, <2>1 DEF Latched, Typed, PlayerType
  <2>3. player.active = d => d = native.active \/ writer = "stray" \/ Owed \/ EndInFlight
    BY DEF IInv, Misled, Agreed, Agreement
  <2> QED
    BY <1>2, <1>4, <2>2, <2>3
<1>5. CASE how = "end"
  <2>1. player' = Cleared(d)
    BY <1>1, <1>5
  <2>2. /\ player'.active = d /\ player'.seek = player.seek /\ player'.seekDeck = player.seekDeck
        /\ player'.row = player.row /\ player'.armed = player.armed
    BY <1>1, <2>1 DEF Cleared, Typed, PlayerType
  <2>3. ~thread["monitor"].old => d = native.active
    BY <1>1, <1>3, <1>5 DEF Knows
  <2> QED
    BY <1>2, <1>5, <2>2, <2>3
<1>6. CASE how = "fade" /\ thread["monitor"].flag
  BY <1>1, <1>2, <1>6
<1>7. CASE how = "fade" /\ ~thread["monitor"].flag
  <2>1. player' = Started("monitor")
    BY <1>1, <1>7
  <2> QED
    BY <1>1, <1>2, <1>3, <1>7, <2>1, StartedAgrees
<1> QED
  BY <1>1, <1>4, <1>5, <1>6, <1>7

\* A row that is no longer planned is no harm.
LEMMA UnplannedHarmless ==
  ASSUME Typed, Unmoved, Harmless, \A d \in Deck : player'.row[d] = player.row[d] \/ player'.row[d] = None
  PROVE  Harmless'
<1>1. \A e \in Sent : e.kind = "finished" => e.deck \in Deck /\ e.row # None
  BY SentTypes DEF Row, None
<1>2. native.ended # None => native.over \in Deck
  BY NativeRows DEF Typed
<1>3. \A e \in Sent' : e.kind = "finished" => e \in Sent
  BY UnmovedFacts
<1> QED
  BY <1>1, <1>2, <1>3 DEF Harmless, Unmoved, SameDaemon

\* And it makes Python agree, or its write is stray.
LEMMA BlindPublishKept ==
  ASSUME IInv, Typed', BlindPublish
  PROVE  IInv'
<1>1. /\ thread["monitor"].at = "publish" /\ thread' = [Outrun({"next"}) EXCEPT !["monitor"] = Idle]
      /\ UNCHANGED <<native, socket, jobs>> /\ thread["monitor"].how \in {"fade", "hand", "end"} /\ Typed
  BY DEF BlindPublish, IInv
<1>2. /\ thread'["monitor"].at = "none" /\ \A u \in Thread \ {"monitor"} : Fields(thread'[u], thread[u])
      /\ \A u \in Thread \ {"monitor"} : thread[u].old => thread'[u].old
  BY <1>1, MonitorDone DEF Idle
<1>3. Unmoved /\ OthersStay("monitor")
  BY <1>1, <1>2, StillUnmoved DEF OthersStay, Stays, Fields
<1>4. Known'
  BY <1>1, <1>2, <1>3, DoneKnows, OneKnown DEF IInv, Thread
<1>5. Stays("worker") /\ Stays("seek")
  BY <1>3 DEF OthersStay, Thread
<1>6. ~(thread["monitor"].old /\ thread["monitor"].how # "hand") /\ Harmless => Harmless'
  BY <1>1, <1>3, BlindPublishAgrees, UnplannedHarmless
<1>7. writer' # "stray" /\ Agreement => Agreement'
  BY <1>1, <1>6, BlindPublishAgrees DEF Agreement
<1>8. writer' = "select" => writer = "select" /\ (Harmless => Harmless')
  BY <1>6, BlindPublishAgrees
<1>9. EndInFlight => writer' = "stray"
  BY BlindPublishAgrees DEF EndInFlight
<1> QED
  BY <1>3, <1>4, <1>5, <1>7, <1>8, <1>9, BlindPublishAgrees, UnmovedKept DEF Stays

\* A seek that the daemon was told of, or not.
LEMMA SeekLatchKept ==
  ASSUME IInv, Typed', SeekLatch
  PROVE  IInv'
<1> DEFINE d == thread["seek"].deck
           r == thread["seek"].row
           same == native.active = d
<1>1. /\ thread["seek"].at = "read" /\ d \in Deck /\ r \in Row /\ UNCHANGED jobs /\ Wrote("seek", TRUE, "event")
      /\ player'.active = d /\ player'.row = player.row /\ player'.seek = r
      /\ player'.seekDeck = d /\ player'.armed = player.armed
      /\ \A u \in {"next", "monitor", "worker"} :
           /\ thread'[u].at = thread[u].at /\ thread'[u].deck = thread[u].deck
           /\ thread'[u].row = thread[u].row /\ thread'[u].how = thread[u].how
      /\ Typed
  BY SeekLatchFacts DEF IInv
<1>2. /\ writer = "stray" => writer' = "stray"
      /\ thread["seek"].old => writer' = "stray"
      /\ ~thread["seek"].old => writer' = writer
  BY <1>1 DEF Wrote
<1>3. ~thread["seek"].old => same /\ r = native.row[native.active]
  BY <1>1 DEF IInv, Known, Knows
<1>4. writer' # "stray" => writer' = writer /\ d = native.active
  BY <1>2, <1>3
<1>5. ASSUME Unmoved, OthersStay("seek"), Knows("seek")', thread'["seek"].row \in {None, r}
      PROVE  IInv'
  <2>1. Known'
    BY <1>5, OneKnown DEF IInv, Thread, Unmoved, SameDaemon
  <2>2. Stays("worker") /\ Stays("monitor")
    BY <1>5 DEF OthersStay, Thread
  <2>3. Harmless => Harmless'
    BY <1>1, <1>5, UnmovedFacts
  <2>4. writer' # "stray" /\ Agreement => Agreement'
    BY <1>1, <1>4, <1>5, <2>3 DEF Agreement, Unmoved, SameDaemon
  <2>5. EndInFlight => EndInFlight'
    BY <2>2 DEF EndInFlight, Stays
  <2>6. writer' = "select" => writer = "select"
    BY <1>4
  <2> QED
    BY <1>1, <1>2, <1>5, <2>1, <2>2, <2>3, <2>4, <2>5, <2>6, UnmovedKept
<1>6. CASE /\ UNCHANGED <<native, socket>> /\ thread'["seek"] = Idle
           /\ \A u \in Thread \ {"seek"} : thread'[u].old = thread[u].old
  <2>1. OthersStay("seek") /\ Knows("seek")'
    BY <1>1, <1>6, DoneKnows DEF OthersStay, Stays, Thread, Idle
  <2> QED
    BY <1>1, <1>5, <1>6, <2>1, StillUnmoved DEF Idle
<1>7. CASE SeekReaches /\ thread'["seek"].deck = d /\ thread'["seek"].old = thread["seek"].old
           /\ thread'["seek"].row = r /\ thread'["seek"].how = "seek"
  <2>1. /\ native'.active = d /\ native'.row = [native.row EXCEPT ![d] = r] /\ native'.last = native.last
        /\ native'.ready = (native.ready /\ same)
        /\ native'.astray = (native.astray \/ ~same \/ native.row[d] # r)
        /\ native'.seeking \in {None, r} /\ native'.ended = native.ended /\ native'.over = native.over
        /\ socket' = Append(socket, Answer("seek"))
        /\ thread'["seek"].at = "called"
        /\ \A u \in Thread \ {"seek"} : thread'[u].old <=>
             thread[u].old \/ (~same /\ thread[u].how \notin {"none", "forget"})
    BY <1>7 DEF SeekReaches
  <2>2. native.row \in [Deck -> Row] /\ native.ready \in BOOLEAN /\ native.astray \in BOOLEAN /\ "seek" \in Thread
    BY <1>1 DEF Typed, NativeType, Thread
  <2>3. CASE same /\ native.row[d] = r
    <3>1. SameDaemon
      BY <2>1, <2>2, <2>3 DEF SameDaemon
    <3>2. Unmoved
      BY <1>1, <2>1, <2>2, <2>3, <3>1 DEF Unmoved
    <3>3. OthersStay("seek") /\ Knows("seek")'
      BY <1>1, <1>7, <2>1, <2>3 DEF OthersStay, Stays, Thread, Knows
    <3> QED
      BY <1>5, <1>7, <3>2, <3>3
  <2>4. CASE ~(same /\ native.row[d] = r)
    <3>1. thread["seek"].old /\ writer' = "stray" /\ native'.astray
      BY <1>2, <1>3, <2>1, <2>4
    <3>2. Sent' = Sent \cup {Answer("seek")} /\ Queued' = Queued /\ Answer("seek").row = None
      BY <1>1, <2>1, <2>2, MessageTypes, WireSets DEF Queued
    <3>3. /\ native.last \in Nat /\ Other(d) \in Deck /\ Other(d) # d
          /\ (\A x \in Deck : native.row[x] <= native.last)
          /\ RowsBelow(native.last) /\ r <= native.last /\ r \in Nat
          /\ native.ready => RowsBelow(native.last - 1) /\ r <= native.last - 1 /\ native.row[Other(native.active)] = native.last
      <4>1. Other(d) \in Deck /\ Other(d) # d /\ r \in Nat
        BY <1>1 DEF Other, Deck, Row
      <4> QED
        BY <1>1, <4>1, NativeRows DEF Typed, IInv, Numbered, RowsBelow
    <3>4. native'.row[d] = r /\ native'.row[Other(d)] = native.row[Other(d)]
      BY <1>1, <2>1, <2>2, <3>3
    <3>5. RowsBelow(native.last)'
      BY <1>7, <2>1, <3>2, <3>3, <3>4 DEF RowsBelow, None
    <3>6. native'.ready => RowsBelow(native.last - 1)'
      BY <1>7, <2>1, <2>2, <3>2, <3>3, <3>4 DEF RowsBelow, None
    <3>7. Numbered'
      BY <2>1, <2>2, <3>3, <3>4, <3>5, <3>6 DEF Numbered
    <3>8. Known'
      <4>1. Knows("seek")'
        BY <1>7, <2>1, <3>1, DoneKnows
      <4>2. CASE same
        <5>1. Stays("next") /\ Stays("monitor")
          BY <1>1, <2>1 DEF Stays, Thread
        <5>2. Knows("next") /\ Knows("monitor")
          BY DEF IInv, Known
        <5>3. Knows("next")' /\ Knows("monitor")'
          BY <2>1, <4>2, <5>1, <5>2 DEF Knows, Stays
        <5> QED
          BY <4>1, <5>3 DEF Known
      <4>3. CASE ~same
        <5>1. Knows("next")' /\ Knows("monitor")'
          BY <1>1, <2>1, <4>3, OutrunKnows DEF Thread
        <5> QED
          BY <4>1, <5>1 DEF Known
      <4> QED
        BY <4>2, <4>3
    <3> QED
      BY <3>1, <3>7, <3>8 DEF IInv, Around, Agreed, Misled, Latch, Selected
  <2> QED
    BY <2>3, <2>4
<1> QED
  BY <1>1, <1>6, <1>7, SeekLatchFacts

\* The seek's handler writes the deck the daemon has, unless it was outrun.
LEMMA SeekPublishKept ==
  ASSUME IInv, Typed', SeekPublish
  PROVE  IInv'
<1> DEFINE d == thread["seek"].deck
<1>1. /\ thread["seek"].at = "publish" /\ UNCHANGED <<native, socket, jobs>> /\ Wrote("seek", TRUE, "event")
      /\ Ends("seek") /\ player'.active = d /\ player'.row = player.row /\ player'.armed = player.armed
      /\ player'.seek # None => player'.seekDeck = d \/ (player'.seek = player.seek /\ player'.seekDeck = player.seekDeck)
      /\ Typed /\ thread["seek"].how = "seek"
  BY SeekPublishFacts DEF IInv, Typed, Places
<1>2. /\ writer = "stray" => writer' = "stray"
      /\ thread["seek"].old => writer' = "stray"
      /\ ~thread["seek"].old => writer' = writer
  BY <1>1 DEF Wrote
<1>3. ~thread["seek"].old => d = native.active
  BY <1>1 DEF IInv, Known, Knows
<1>4. (\A u \in Thread \ {"seek"} : thread'[u] = thread[u]) /\ thread'["seek"] = Idle
  BY <1>1, EndsFacts DEF Thread
<1>5. Unmoved /\ OthersStay("seek") /\ Knows("seek")'
  BY <1>1, <1>4, StillUnmoved, SameStays, DoneKnows DEF Idle
<1>6. Known'
  BY <1>1, <1>5, OneKnown DEF IInv, Thread
<1>7. Harmless => Harmless'
  BY <1>1, <1>5, UnmovedFacts
<1>8. writer' # "stray" /\ Agreement => Agreement'
  BY <1>1, <1>2, <1>3, <1>7 DEF Agreement
<1>9. Stays("worker") /\ Stays("monitor")
  BY <1>5 DEF OthersStay, Thread
<1>10. EndInFlight => EndInFlight'
  BY <1>9 DEF EndInFlight, Stays
<1> QED
  BY <1>1, <1>2, <1>4, <1>5, <1>6, <1>7, <1>8, <1>9, <1>10, UnmovedKept DEF Idle

\* Steps that change nothing but a deadline, or nothing.
LEMMA SeekLateKept ==
  ASSUME IInv, Typed', SeekLate \/ UNCHANGED vars
  PROVE  IInv'
<1>1. /\ UNCHANGED <<native, socket, jobs, thread, writer>>
      /\ player'.active = player.active /\ player'.row = player.row /\ player'.seek = player.seek
      /\ player'.seekDeck = player.seekDeck /\ player'.armed = player.armed
  BY DEF SeekLate, vars, IInv, Typed, PlayerType
<1>2. OthersStay("monitor") /\ Knows("monitor")
  BY <1>1 DEF OthersStay, Stays, IInv, Known
<1>3. Knows("monitor")'
  BY <1>1, <1>2 DEF Knows
<1>4. Plain("monitor")
  BY <1>1, <1>2, <1>3, StillUnmoved DEF Plain, EndInFlight
<1> QED
  BY <1>4, PlainKept

\* The invariant holds at first,
LEMMA InitKept == Init => IInv
<1> SUFFICES ASSUME Init
             PROVE  IInv
  OBVIOUS
<1>1. Typed
  BY InitTyped
<1>2. Sent = {} /\ Queued = {}
  BY DEF Init, Sent, Queued, In
<1>3. /\ native.active = "a" /\ native.row["a"] = 1 /\ native.row["b"] = 2 /\ native.last = 2 /\ native.ended = None
      /\ native.seeking = None /\ native.astray = FALSE /\ writer = "event" /\ player.active = "a"
      /\ player.seek = None /\ player.armed = "no"
      /\ \A t \in Thread : thread[t].at = "none" /\ thread[t].row = None
  BY DEF Init, Deck, Idle
<1>4. Numbered
  <2>1. thread["seek"].row = None /\ Other(native.active) = "b"
    BY <1>3 DEF Thread, Other
  <2> QED
    BY <1>2, <1>3, <2>1 DEF Numbered, RowsBelow, None
<1>5. Known /\ Around
  BY <1>3 DEF Known, Knows, Around, Thread
<1>6. Agreement /\ Misled /\ Latch /\ Selected
  BY <1>2, <1>3 DEF Agreement, Harmless, Misled, Latch, Selected
<1> QED
  BY <1>1, <1>4, <1>5, <1>6 DEF IInv, Agreed

\* and every step keeps it.
LEMMA NextKept == IInv /\ [Next]_vars => IInv'
<1> SUFFICES ASSUME IInv, [Next]_vars
             PROVE  IInv'
  OBVIOUS
<1>1. Typed'
  BY NextTyped DEF IInv
<1>2. CASE Starts \/ Finishes \/ Finished \/ NeedNext \/ SeekDone \/ Handle
  BY <1>1, <1>2, StartsKept, FinishesKept, NeedNextKept, HandleKept
<1>3. CASE WorkerReads \/ Rebuild \/ Reconcile \/ Reserve
  BY <1>1, <1>3, WorkerReadsKept, RebuildKept, ReconcileKept, ReserveKept
<1>4. ASSUME NEW how \in {"select", "interrupt"}, ManualNext(how) \/ Seek
      PROVE  IInv'
  BY <1>1, <1>4, ReadsKept
<1>5. ASSUME NEW t \in {"next", "monitor"}, Start(t)
      PROVE  IInv'
  BY <1>1, <1>5, PrepareKept, CommandKept, PublishKept DEF Start
<1>6. CASE Monitor
  BY <1>1, <1>5, <1>6, ForgetsKept, BlindStartKept, BlindEndKept, BlindPublishKept DEF Monitor, Blinded
<1>7. ASSUME NEW how \in {"select", "fade", "hand", "end"}, Blind(how)
      PROVE  IInv'
  BY <1>1, <1>7, BlindKept
<1>8. CASE SeekLatch \/ SeekPublish \/ SeekLate \/ UNCHANGED vars
  BY <1>1, <1>8, SeekLatchKept, SeekPublishKept, SeekLateKept
<1> QED
  BY <1>2, <1>3, <1>4, <1>5, <1>6, <1>7, <1>8 DEF Next

(* The theorems *)

\* The daemon, the socket, the jobs, the player's state and the threads keep their
\* shapes, and a seek's deadline is that of a pending seek.
THEOREM TypeCorrect == Spec => []TypeOK
<1>1. Typed /\ UNCHANGED vars => Typed'
  BY NextTyped
<1> QED
  BY <1>1, InitTyped, NextTyped, TypedShape, PTL DEF Spec

\* The inductive invariant holds always: what Python knows of the decks
\* (_AB_PLAYER_STATE), the events and answers on their way and what each thread read
\* agree as its parts say.
THEOREM Invariant == Spec => []IInv
<1>1. Init => IInv
  BY InitKept
<1>2. IInv /\ [Next]_vars => IInv'
  BY NextKept
<1> QED
  BY <1>1, <1>2, PTL DEF Spec

\* Once nothing is on its way, nothing is owed and no thread is in flight.
LEMMA InvariantSettles == IInv => Settled
<1> SUFFICES ASSUME IInv
             PROVE  Settled
  OBVIOUS
<1>1. TypeOK
  BY TypedShape DEF IInv
<1>2. ASSUME Quiet
      PROVE  Agree /\ LatchIsCurrent
  <2>1. Sent = {} /\ Queued = {}
    BY <1>2 DEF Quiet, Sent, Queued, In
  <2>2. ~Owed /\ ~EndInFlight
    BY <1>2, <2>1 DEF Quiet, Owed, EndInFlight, Thread
  <2> QED
    BY <2>2 DEF IInv, Agreed, Agreement, Misled, Latch, Agree, LatchIsCurrent
<1> QED
  BY <1>1, <1>2 DEF Settled

\* For any number of rows, operations and faults, the player's state has its shape,
\* and once every event and answer is handled Python's active deck is the daemon's and
\* a latched hand-off is that of the deck that is heard; unless the last to write it
\* was a thread that the daemon had outrun, or such a thread misled the daemon.
THEOREM SettledHolds == Spec => []Settled
<1>1. IInv => Settled
  BY InvariantSettles
<1> QED
  BY <1>1, Invariant, PTL

\* Only the reader takes a message.
LEMMA OnlyHandleTakes ==
  ASSUME Typed, [Next]_vars, socket # <<>>, socket' = Tail(socket)
  PROVE  Handle
<1>1. socket \in Seq(Message) /\ native.active \in Deck /\ Other(native.active) \in Deck
      /\ (\A d \in Deck : native.row[d] \in Row) /\ native.ended \in Row \cup {None} /\ native.seeking \in Row \cup {None}
      /\ native.over \in Deck
  BY NativeRows DEF Typed, WireType, NativeType
<1>2. Tail(socket) # socket
  BY <1>1
<1>3. \A e \in Message : Tail(socket) # Append(socket, e)
  BY <1>1
<1>4. \A e \in Message, f \in Message : Tail(socket) # socket \o <<e, f>>
  BY <1>1
<1>5. ASSUME Starts \/ Finished \/ SeekDone
      PROVE  FALSE
  BY <1>1, <1>3, <1>5, MessageTypes DEF Starts, Finished, SeekDone
<1>6. ASSUME NEW t \in {"next", "monitor"}, NEW how, Starting(t, how)
      PROVE  FALSE
  BY <1>1, <1>3, <1>4, <1>6, MessageTypes DEF Starting, Thread
<1>7. ASSUME NEW t \in {"next", "monitor"}, Start(t)
      PROVE  FALSE
  BY <1>2, <1>6, <1>7 DEF Start, Prepare, Command, Publish
<1>8. ASSUME Monitor
      PROVE  FALSE
  <2>1. "monitor" \in Thread /\ Answer("monitor") \in Message
    BY MessageTypes DEF Thread
  <2>2. ~Blinded
    BY <1>2, <1>3, <1>6, <2>1 DEF Blinded, BlindSelect, BlindFade, BlindArm, BlindEnd
  <2> QED
    BY <1>2, <1>7, <1>8, <2>2 DEF Monitor, BlindPublish
<1>9. ASSUME SeekLatch
      PROVE  FALSE
  BY <1>2, <1>3, <1>9, MessageTypes DEF SeekLatch, Thread
<1> QED
  BY <1>2, <1>5, <1>7, <1>8, <1>9
  DEF Next, vars, Finishes, NeedNext, WorkerReads, Rebuild, ManualNext, Reconcile, Reserve, Blind, Seek, SeekPublish, SeekLate

\* _ab_reconcile_native_transition_finished ignores a late completion: after a select
\* made the deck that is heard Python's, no completion of an older transition takes it
\* back, whatever else was in between.
THEOREM LateCompletionHolds == Spec => LateCompletionIgnored
<1>1. ASSUME IInv, [Next]_vars, socket # <<>>, Head(socket).kind = "finished", socket' = Tail(socket),
             writer = "select", player.active = native.active
      PROVE  player'.active = native.active
  <2>1. Handle /\ Typed /\ Harmless
    BY <1>1, OnlyHandleTakes DEF IInv, Selected
  <2>2. TransitionFinished(Head(socket))
    BY <1>1, <2>1 DEF Handle
  <2> QED
    BY <1>1, <2>1, <2>2, HandledAgrees
<1>2. IInv /\ [Next]_vars =>
        [(/\ socket # <<>> /\ Head(socket).kind = "finished" /\ socket' = Tail(socket)
          /\ writer = "select" /\ player.active = native.active) => player'.active = native.active]_vars
  BY <1>1
<1> QED
  BY <1>2, Invariant, PTL DEF Spec, LateCompletionIgnored
=============================================================================
