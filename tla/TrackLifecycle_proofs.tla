------------------------ MODULE TrackLifecycle_proofs ------------------------
(***************************************************************************)
(* Theorems about TrackLifecycle, for any number of rows, tracks, starts,  *)
(* retries and troubles and any size of the queue of started tracks: the   *)
(* set of pending rows agrees with the jobs that are queued or in hand,    *)
(* Now Playing never goes back to an earlier start, and a start books its  *)
(* own row while nothing fails and no row is replayed.                     *)
(***************************************************************************)
EXTENDS TrackLifecycle, SequencesExt, SequenceTheorems, WellFoundedInduction, FiniteSetTheorems, TLAPS

(* What RemoveFirst and Append make of a queue *)

\* A set of naturals has a least element.
LEMMA LeastOfNat ==
  ASSUME NEW I \in SUBSET Nat, I # {}
  PROVE  \E m \in I : \A i \in I : m <= i
<1> DEFINE R == OpToRel(<, Nat)
<1>1. R = {p \in Nat \X Nat : p[1] < p[2]}
  BY DEF OpToRel
<1>2. PICK m \in I : \A i \in I : <<i, m>> \notin R
  BY NatLessThanWellFounded, WFMin
<1> HIDE DEF R
<1>3. \A i \in I : ~(i < m)
  BY <1>1, <1>2
<1> QED
  BY <1>3

\* What is in a queue with e at the end.
LEMMA AppendFacts ==
  ASSUME NEW S, NEW s \in Seq(S), NEW e \in S
  PROVE  /\ Append(s, e) \in Seq(S) /\ Len(Append(s, e)) = Len(s) + 1
         /\ ToSet(Append(s, e)) = ToSet(s) \cup {e}
         /\ \A i \in 1..(Len(s) + 1) : Append(s, e)[i] = IF i <= Len(s) THEN s[i] ELSE e
<1> DEFINE t == Append(s, e)
<1>1. /\ t \in Seq(S) /\ Len(t) = Len(s) + 1 /\ Len(s) \in Nat
      /\ \A i \in 1..(Len(s) + 1) : t[i] = IF i <= Len(s) THEN s[i] ELSE e
  OBVIOUS
<1> HIDE DEF t
<1>2. 1..(Len(s) + 1) = 1..Len(s) \cup {Len(s) + 1}
  BY <1>1
<1>3. t[Len(s) + 1] = e /\ \A i \in 1..Len(s) : t[i] = s[i]
  BY <1>1
<1>4. ToSet(t) = ToSet(s) \cup {e}
  BY <1>1, <1>2, <1>3 DEF ToSet
<1> QED
  BY <1>1, <1>4 DEF t

\* The place that RemoveFirst takes out, the first that holds e.
LEMMA RemovedPlace ==
  ASSUME NEW S, NEW s \in Seq(S), NEW e \in ToSet(s)
  PROVE  \E k \in 1..Len(s) :
           /\ s[k] = e
           /\ RemoveFirst(s, e) \in Seq(S) /\ Len(RemoveFirst(s, e)) = Len(s) - 1
           /\ \A i \in 1..(Len(s) - 1) : RemoveFirst(s, e)[i] = IF i < k THEN s[i] ELSE s[i + 1]
<1> DEFINE I == {i \in 1..Len(s) : s[i] = e}
           k == Min(I)
           a == SubSeq(s, 1, k - 1)
           b == SubSeq(s, k + 1, Len(s))
<1>1. I # {} /\ I \in SUBSET Nat /\ Len(s) \in Nat
  BY DEF ToSet
<1>2. k \in I /\ \A i \in I : k <= i
  BY <1>1, LeastOfNat DEF Min
<1>3. RemoveFirst(s, e) = a \o b
  BY <1>1 DEF RemoveFirst, RemoveAt, SelectInSeq
<1> HIDE DEF k
<1>4. /\ a \in Seq(S) /\ Len(a) = k - 1 /\ \A i \in 1..(k - 1) : a[i] = s[i]
      /\ b \in Seq(S) /\ Len(b) = Len(s) - k /\ \A i \in 1..(Len(s) - k) : b[i] = s[k + i]
  BY <1>2
<1> HIDE DEF a, b
<1>5. k \in 1..Len(s) /\ s[k] = e
  BY <1>2
<1>6. /\ a \o b \in Seq(S) /\ Len(a \o b) = Len(a) + Len(b)
      /\ \A i \in 1..(Len(a) + Len(b)) : (a \o b)[i] = IF i <= Len(a) THEN a[i] ELSE b[i - Len(a)]
  BY <1>4, ConcatProperties
<1>7. \A i \in 1..(Len(s) - 1) : (a \o b)[i] = IF i < k THEN s[i] ELSE s[i + 1]
  BY <1>1, <1>4, <1>5, <1>6
<1>8. Len(a \o b) = Len(s) - 1
  BY <1>1, <1>4, <1>5, <1>6
<1> QED
  BY <1>3, <1>5, <1>6, <1>7, <1>8

\* What is in a queue without its first e.
LEMMA RemoveFirstFacts ==
  ASSUME NEW S, NEW s \in Seq(S), NEW e
  PROVE  /\ RemoveFirst(s, e) \in Seq(S)
         /\ ToSet(RemoveFirst(s, e)) \subseteq ToSet(s)
         /\ ToSet(s) \ {e} \subseteq ToSet(RemoveFirst(s, e))
         /\ e \in ToSet(s) => Len(RemoveFirst(s, e)) = Len(s) - 1
         /\ e \notin ToSet(s) => RemoveFirst(s, e) = s
<1>1. CASE e \notin ToSet(s)
  <2>1. ~ \E i \in 1..Len(s) : s[i] = e
    BY <1>1 DEF ToSet
  <2> QED
    BY <1>1, <2>1 DEF RemoveFirst
<1>2. CASE e \in ToSet(s)
  <2> DEFINE q == RemoveFirst(s, e)
  <2> HIDE DEF q
  <2>1. PICK k \in 1..Len(s) :
           /\ s[k] = e
           /\ q \in Seq(S) /\ Len(q) = Len(s) - 1
           /\ \A i \in 1..(Len(s) - 1) : q[i] = IF i < k THEN s[i] ELSE s[i + 1]
    BY <1>2, RemovedPlace, Zenon DEF q
  <2>2. ToSet(q) \subseteq ToSet(s)
    BY <2>1 DEF ToSet
  <2>3. ASSUME NEW i \in 1..Len(s), s[i] # e
        PROVE  s[i] \in ToSet(q)
    <3>1. IF i < k THEN i \in 1..Len(q) /\ q[i] = s[i] ELSE i - 1 \in 1..Len(q) /\ q[i - 1] = s[i]
      BY <2>1, <2>3
    <3> QED
      BY <3>1 DEF ToSet
  <2>4. ToSet(s) \ {e} \subseteq ToSet(q)
    BY <2>3 DEF ToSet
  <2> QED
    BY <1>2, <2>1, <2>2, <2>4 DEF q
<1> QED
  BY <1>1, <1>2

\* A queue that names no row twice has no e left, and names none twice.
LEMMA RemoveFirstInjective ==
  ASSUME NEW S, NEW s \in Seq(S), IsInjective(s), NEW e
  PROVE  IsInjective(RemoveFirst(s, e)) /\ e \notin ToSet(RemoveFirst(s, e))
<1>1. CASE e \notin ToSet(s)
  BY <1>1, RemoveFirstFacts
<1>2. CASE e \in ToSet(s)
  <2> DEFINE q == RemoveFirst(s, e)
             at(i, k) == IF i < k THEN i ELSE i + 1
  <2> HIDE DEF q
  <2>1. PICK k \in 1..Len(s) :
           /\ s[k] = e
           /\ q \in Seq(S) /\ Len(q) = Len(s) - 1
           /\ \A i \in 1..(Len(s) - 1) : q[i] = IF i < k THEN s[i] ELSE s[i + 1]
    BY <1>2, RemovedPlace, Zenon DEF q
  <2>2. \A i, j \in 1..Len(s) : s[i] = s[j] => i = j
    BY DEF IsInjective
  <2>3. \A i \in 1..Len(q) : at(i, k) \in 1..Len(s) /\ q[i] = s[at(i, k)] /\ at(i, k) # k
    BY <2>1
  <2>4. \A i, j \in 1..Len(q) : at(i, k) = at(j, k) => i = j
    BY <2>1
  <2> HIDE DEF at
  <2>5. \A i, j \in 1..Len(q) : q[i] = q[j] => i = j
    BY <2>2, <2>3, <2>4
  <2>6. \A i \in 1..Len(q) : q[i] # e
    BY <2>1, <2>2, <2>3
  <2> QED
    BY <2>1, <2>5, <2>6 DEF IsInjective, ToSet, q
<1> QED
  BY <1>1, <1>2

(* The parts of TypeOK. *)

Optional == Row \cup {NoRow}
BookType == queue \in Seq(Row) /\ history \subseteq [row : Row, by : Row]
PlayerType == player \in [enabled : BOOLEAN, lines : Seq(Row), last : Optional]
NativeType ==
  /\ native \in [running : BOOLEAN, current : Optional, next : Optional, live : BOOLEAN]
  /\ native.live => native.next # NoRow
Shown == [row : Optional, start : 0..MaxStarts]
SetType == now \in Shown /\ pending \subseteq Row /\ done \subseteq Row /\ announced \in [Row -> 0..MaxStarts]
WireType == wire \in Seq(Row)
JobType == jobs \in Seq([row : Row, attempt : 0..RetryCount]) /\ Len(jobs) <= QueueSize
Doing == {"idle", "look", "read", "show", "requeue"} \cup WorkerStep
WorkerType ==
  /\ worker \in [at : Doing, row : Optional, attempt : 0..RetryCount, line : Optional, held : BOOLEAN]
  /\ worker.at = "idle" <=> worker.row = NoRow
  /\ worker.at \in {"check", "commit", "refill", "read", "show", "rebuild"} => worker.line # NoRow
  /\ worker.at = "requeue" => worker.attempt < RetryCount
ServiceType ==
  /\ service \in [at : {"idle", "bootstrap", "select", "engine", "finalize", "clear"}, plan : Seq(Row)]
  /\ service.at \in {"bootstrap", "select"} => service.plan # <<>>
BoundType ==
  bounds \in [rows : 0..MaxRow, starts : 0..MaxStarts, replays : Nat, failures : Nat,
              stops : 0..MaxTroubles, removals : 0..MaxTroubles, unread : 0..MaxTroubles, dropped : 0..MaxStarts]

\* A row waits in one job, or is with the worker, exactly while it is pending.
OneJob ==
  /\ \A i \in 1..Len(jobs), j \in 1..Len(jobs) : jobs[i].row = jobs[j].row => i = j
  /\ \A i \in 1..Len(jobs) : jobs[i].row # worker.row
  /\ \A r \in Row : r \in pending <=> worker.row = r \/ \E i \in 1..Len(jobs) : jobs[i].row = r

\* What was dropped was announced once, and so was what is on its way.
Accounted == bounds.dropped + Len(wire) <= bounds.starts

Inv == TypeOK /\ OneJob /\ Accounted

LEMMA TypeParts ==
  TypeOK <=> /\ BookType /\ PlayerType /\ NativeType /\ SetType /\ WireType /\ JobType
             /\ WorkerType /\ ServiceType /\ BoundType
BY DEF TypeOK, BookType, PlayerType, NativeType, SetType, WireType, JobType, WorkerType, ServiceType, BoundType,
       Optional, Doing, Shown

LEMMA TypePartsNext ==
  TypeOK' <=> /\ BookType' /\ PlayerType' /\ NativeType' /\ SetType' /\ WireType' /\ JobType'
              /\ WorkerType' /\ ServiceType' /\ BoundType'
BY DEF TypeOK, BookType, PlayerType, NativeType, SetType, WireType, JobType, WorkerType, ServiceType, BoundType,
       Optional, Doing, Shown

Typed == /\ BookType /\ PlayerType /\ NativeType /\ SetType /\ WireType /\ JobType
         /\ WorkerType /\ ServiceType /\ BoundType

LEMMA Numbers ==
  /\ MaxRow \in Nat /\ QueueSize \in Nat \ {0} /\ RetryCount \in Nat /\ MaxStarts \in Nat /\ MaxTroubles \in Nat
  /\ NoRow \notin Row /\ 0 \in 0..RetryCount
BY LifecycleAssumption DEF Row, NoRow

-----------------------------------------------------------------------------
(* Where rows and lines are found *)

LEMMA FindLineRange ==
  ASSUME NEW s \in Seq(Row), NEW r
  PROVE  FindLine(s, r) \in 0..Len(s)
<1> DEFINE exact == {i \in DOMAIN s : s[i] = r}
           alike == {i \in DOMAIN s : trackOf[s[i]] = trackOf[r]}
<1>1. DOMAIN s = 1..Len(s) /\ Len(s) \in Nat
  OBVIOUS
<1>2. exact \subseteq 1..Len(s) /\ alike \subseteq 1..Len(s) /\ exact \in SUBSET Nat
  BY <1>1
<1>3. CASE exact # {}
  <2>1. \E i \in exact : \A j \in exact : i <= j
    BY <1>2, <1>3, LeastOfNat
  <2>2. (CHOOSE i \in exact : \A j \in exact : i <= j) \in exact
    BY <2>1
  <2>3. FindLine(s, r) = CHOOSE i \in exact : \A j \in exact : i <= j
    BY <1>3 DEF FindLine
  <2> QED
    BY <1>2, <2>2, <2>3
<1>4. CASE exact = {} /\ Cardinality(alike) = 1
  <2>1. alike # {}
    <3>1. alike = {} => Cardinality(alike) = 0
      BY FS_EmptySet
    <3> QED
      BY <1>4, <3>1
  <2>2. (CHOOSE i \in alike : TRUE) \in alike
    BY <2>1
  <2>3. FindLine(s, r) = CHOOSE i \in alike : TRUE
    BY <1>4 DEF FindLine
  <2> QED
    BY <1>2, <2>2, <2>3
<1>5. CASE exact = {} /\ Cardinality(alike) # 1
  <2>1. FindLine(s, r) = 0
    BY <1>5 DEF FindLine
  <2> QED
    BY <1>1, <2>1
<1> QED
  BY <1>3, <1>4, <1>5

LEMMA ChosenRow ==
  ASSUME NEW q \in Seq(Row), NEW r
  PROVE  Chosen(q, r) \in Optional /\ (Chosen(q, r) # NoRow => Chosen(q, r) \in ToSet(q))
<1> DEFINE alike == {i \in DOMAIN q : trackOf[q[i]] = trackOf[r]}
<1>1. ToSet(q) \subseteq Row /\ DOMAIN q = 1..Len(q) /\ alike \in SUBSET Nat
  BY DEF ToSet
<1>2. CASE r \in ToSet(q)
  <2>1. Chosen(q, r) = r
    BY <1>2 DEF Chosen
  <2> QED
    BY <1>1, <1>2, <2>1 DEF Optional
<1>3. CASE r \notin ToSet(q) /\ alike # {}
  <2> DEFINE k == CHOOSE i \in alike : \A j \in alike : i <= j
  <2>1. \E i \in alike : \A j \in alike : i <= j
    BY <1>1, <1>3, LeastOfNat
  <2>2. k \in alike
    BY <2>1
  <2>3. Chosen(q, r) = q[k]
    BY <1>3 DEF Chosen
  <2>4. q[k] \in ToSet(q)
    BY <2>2 DEF ToSet
  <2> QED
    BY <1>1, <2>3, <2>4 DEF Optional
<1>4. CASE r \notin ToSet(q) /\ alike = {}
  <2>1. Chosen(q, r) = NoRow
    BY <1>4 DEF Chosen
  <2> QED
    BY <2>1 DEF Optional
<1> QED
  BY <1>2, <1>3, <1>4

LEMMA LineOfRow ==
  ASSUME BookType, PlayerType, NEW r
  PROVE  LineOf(r) \in Optional
<1>1. player.lines \in Seq(Row) /\ queue \in Seq(Row)
  BY DEF BookType, PlayerType
<1>2. FindLine(player.lines, r) \in 0..Len(player.lines) /\ FindLine(queue, r) \in 0..Len(queue)
  BY <1>1, FindLineRange
<1>3. /\ FindLine(player.lines, r) # 0 => player.lines[FindLine(player.lines, r)] \in Row
      /\ FindLine(queue, r) # 0 => queue[FindLine(queue, r)] \in Row
  BY <1>1, <1>2
<1> QED
  BY <1>3 DEF LineOf, Optional

LEMMA RecoveredType ==
  ASSUME BookType, NEW s \in Seq(Row), NEW at \in 0..Len(s), NEW e
  PROVE  Recovered(s, at, e).next \in Optional /\ Recovered(s, at, e).lines \in Seq(Row)
<1> DEFINE kept == RemoveFirst(s, e)
           found == RemoveFirst(RemoveFirst(queue, native.current), e)
           fresh == IF at = 0 THEN found ELSE RemoveFirst(found, s[at])
           next == IF fresh = <<>> THEN NoRow ELSE Head(fresh)
           lines == CASE next = NoRow -> s
                      [] next # NoRow /\ at # 0 -> SubSeq(s, 1, at) \o fresh
                      [] OTHER -> IF next \in ToSet(kept) THEN kept ELSE kept \o fresh
<1>1. kept \in Seq(Row)
  BY RemoveFirstFacts
<1>2. found \in Seq(Row)
  <2>1. RemoveFirst(queue, native.current) \in Seq(Row)
    BY RemoveFirstFacts DEF BookType
  <2> QED
    BY <2>1, RemoveFirstFacts
<1>3. Recovered(s, at, e) = [next |-> next, lines |-> lines]
  BY DEF Recovered
<1> HIDE DEF kept, found
<1>4. fresh \in Seq(Row)
  BY <1>2, RemoveFirstFacts
<1> HIDE DEF fresh
<1>5. next \in Optional
  BY <1>4 DEF Optional
<1> HIDE DEF next
<1>6. SubSeq(s, 1, at) \in Seq(Row)
  OBVIOUS
<1>7. SubSeq(s, 1, at) \o fresh \in Seq(Row) /\ kept \o fresh \in Seq(Row)
  BY <1>1, <1>4, <1>6
<1>8. lines \in Seq(Row)
  BY <1>1, <1>7
<1> HIDE DEF lines
<1> QED
  BY <1>3, <1>5, <1>8

-----------------------------------------------------------------------------
(* Each step keeps the types, one variable after the other. *)

\* The bounds that a step uses up.
LEMMA MoreBounds ==
  ASSUME Typed, NEW kind \in {"failures", "stops", "removals", "unread"},
         Trouble(kind) \/ (kind = "failures" /\ More(kind))
  PROVE  /\ BoundType' /\ bounds'.starts = bounds.starts /\ bounds'.dropped = bounds.dropped
<1>1. /\ BoundType /\ bounds' = [bounds EXCEPT ![kind] = @ + 1]
  BY DEF Trouble, More, Typed
<1>2. /\ bounds.rows \in 0..MaxRow /\ bounds.starts \in 0..MaxStarts /\ bounds.failures \in Nat
      /\ bounds.stops \in 0..MaxTroubles /\ bounds.removals \in 0..MaxTroubles
      /\ bounds.unread \in 0..MaxTroubles /\ bounds.dropped \in 0..MaxStarts
  BY <1>1 DEF BoundType
<1>3. CASE kind = "failures"
  BY <1>1, <1>3, Numbers DEF BoundType
<1>4. bounds.failures + bounds.stops + bounds.removals + bounds.unread < MaxTroubles
      \/ kind = "failures"
  BY DEF Trouble
<1>5. CASE kind = "stops"
  BY <1>1, <1>2, <1>4, <1>5, Numbers DEF BoundType
<1>6. CASE kind = "removals"
  BY <1>1, <1>2, <1>4, <1>6, Numbers DEF BoundType
<1>7. CASE kind = "unread"
  BY <1>1, <1>2, <1>4, <1>7, Numbers DEF BoundType
<1> QED
  BY <1>3, <1>5, <1>6, <1>7

LEMMA EnqueuedType ==
  ASSUME Typed, bounds.rows < MaxRow
  PROVE  /\ Enqueued.q \in Seq(Row) /\ Enqueued.b \in [rows : 0..MaxRow, starts : 0..MaxStarts, replays : Nat, failures : Nat,
              stops : 0..MaxTroubles, removals : 0..MaxTroubles, unread : 0..MaxTroubles, dropped : 0..MaxStarts]
         /\ Enqueued.b.starts = bounds.starts /\ Enqueued.b.dropped = bounds.dropped
<1>1. queue \in Seq(Row) /\ BoundType /\ bounds.rows \in 0..MaxRow
  BY DEF Typed, BookType, BoundType
<1>2. bounds.rows + 1 \in Row /\ bounds.rows + 1 \in 0..MaxRow
  BY <1>1, Numbers DEF Row
<1>3. Append(queue, bounds.rows + 1) \in Seq(Row)
  BY <1>1, <1>2
<1>4. /\ [bounds EXCEPT !.rows = @ + 1] \in [rows : 0..MaxRow, starts : 0..MaxStarts, replays : Nat, failures : Nat,
              stops : 0..MaxTroubles, removals : 0..MaxTroubles, unread : 0..MaxTroubles, dropped : 0..MaxStarts]
      /\ [bounds EXCEPT !.rows = @ + 1].starts = bounds.starts
      /\ [bounds EXCEPT !.rows = @ + 1].dropped = bounds.dropped
  BY <1>1, <1>2 DEF BoundType
<1> QED
  BY <1>3, <1>4 DEF Enqueued

LEMMA BooksKept ==
  ASSUME Typed, Next
  PROVE  BookType'
<1>1. queue \in Seq(Row) /\ history \subseteq [row : Row, by : Row]
  BY DEF Typed, BookType
<1>2. CASE Enqueue
  BY <1>1, <1>2, EnqueuedType DEF Enqueue, BookType
<1>3. ASSUME NEW r \in Row, RemoveRow(r)
      PROVE  BookType'
  <2>1. queue' = RemoveFirst(queue, r) /\ history' = history
    BY <1>3 DEF RemoveRow
  <2> QED
    BY <1>1, <2>1, RemoveFirstFacts DEF BookType
<1>4. CASE Refill
  <2>1. history' = history
    BY <1>4 DEF Refill
  <2>2. queue' \in Seq(Row)
    BY <1>1, <1>4, EnqueuedType DEF Refill
  <2> QED
    BY <1>1, <2>1, <2>2 DEF BookType
<1>5. CASE Commit
  <2> DEFINE r == Chosen(queue, worker.line)
  <2>1. r \in Optional
    BY <1>1, ChosenRow
  <2>2. worker.at = "commit" /\ worker.row \in Row
    BY <1>5 DEF Commit, Typed, WorkerType, Optional
  <2>3. \/ queue' = queue /\ history' = history
        \/ r # NoRow /\ queue' = RemoveFirst(queue, r) /\ history' = history \cup {[row |-> r, by |-> worker.row]}
    BY <1>5 DEF Commit, Again, books
  <2> HIDE DEF r
  <2>4. r # NoRow => [row |-> r, by |-> worker.row] \in [row : Row, by : Row]
    BY <2>1, <2>2 DEF Optional
  <2>5. RemoveFirst(queue, r) \in Seq(Row)
    BY <1>1, RemoveFirstFacts
  <2> QED
    BY <1>1, <2>3, <2>4, <2>5 DEF BookType
<1>6. ASSUME Next, ~Enqueue, ~Refill, ~Commit, ~ \E r \in Row : RemoveRow(r)
      PROVE  UNCHANGED books
  BY <1>6 DEF Next, StartNext, Repeat, LoadNext, Deliver, Expire, Worker, Raise, TakeJob, Requeue, Look, Resolve,
       Check, ReadState, Show, Rebuild, Service, StartEngine, Bootstrap, Select, BootstrapFails, Stop, StopEngine,
       StopFinalize, ClearNowPlaying
<1> QED
  BY <1>1, <1>2, <1>3, <1>4, <1>5, <1>6 DEF books, BookType

LEMMA LoadTyped ==
  ASSUME Typed, LoadNext
  PROVE  PlayerType' /\ NativeType'
<1> DEFINE at == FindLine(player.lines, native.current)
           first == IF at # 0 /\ at < Len(player.lines)
                    THEN [next |-> player.lines[at + 1], lines |-> player.lines]
                    ELSE Recovered(player.lines, at, NoRow)
           choice == IF first.next # native.next THEN first
                     ELSE Recovered(first.lines, FindLine(first.lines, native.current), native.next)
<1>1. player.lines \in Seq(Row) /\ BookType /\ PlayerType /\ NativeType
  BY DEF Typed, PlayerType
<1>2. at \in 0..Len(player.lines)
  BY <1>1, FindLineRange
<1>3. /\ player' = [player EXCEPT !.lines = choice.lines]
      /\ native' = [native EXCEPT !.next = choice.next, !.live = TRUE]
      /\ Loadable(choice)
  BY DEF LoadNext
<1> HIDE DEF at
<1>4. first.next \in Optional /\ first.lines \in Seq(Row)
  <2>1. CASE at # 0 /\ at < Len(player.lines)
    <3>1. player.lines[at + 1] \in Row
      BY <1>1, <1>2, <2>1
    <3> QED
      BY <1>1, <2>1, <3>1 DEF Optional
  <2>2. CASE ~(at # 0 /\ at < Len(player.lines))
    <3>1. Recovered(player.lines, at, NoRow).next \in Optional /\ Recovered(player.lines, at, NoRow).lines \in Seq(Row)
      BY <1>1, <1>2, RecoveredType
    <3>2. first = Recovered(player.lines, at, NoRow)
      BY <2>2
    <3> QED
      BY <3>1, <3>2
  <2> QED
    BY <2>1, <2>2
<1> HIDE DEF first
<1>5. FindLine(first.lines, native.current) \in 0..Len(first.lines)
  BY <1>4, FindLineRange
<1>6. choice.next \in Optional /\ choice.lines \in Seq(Row)
  <2> DEFINE k == FindLine(first.lines, native.current)
             second == Recovered(first.lines, k, native.next)
  <2>1. k \in 0..Len(first.lines)
    BY <1>5
  <2> HIDE DEF k
  <2>2. second.next \in Optional /\ second.lines \in Seq(Row)
    BY <1>1, <1>4, <2>1, RecoveredType
  <2>3. choice = first \/ choice = second
    BY DEF k
  <2> QED
    BY <1>4, <2>2, <2>3
<1> HIDE DEF choice
<1>7. choice.next # NoRow
  BY <1>3 DEF Loadable
<1> QED
  BY <1>1, <1>3, <1>6, <1>7 DEF PlayerType, NativeType

LEMMA PlayerKept ==
  ASSUME Typed, Next
  PROVE  PlayerType'
<1>1. /\ PlayerType /\ queue \in Seq(Row)
      /\ player \in [enabled : BOOLEAN, lines : Seq(Row), last : Optional]
  BY DEF Typed, PlayerType, BookType
<1>2. CASE LoadNext
  BY <1>2, LoadTyped
<1>3. CASE Commit
  <2>1. player' = player \/ player' = [player EXCEPT !.last = worker.line]
    BY <1>3 DEF Commit, Again, books
  <2>2. worker.line \in Optional
    BY DEF Typed, WorkerType
  <2> QED
    BY <1>1, <2>1, <2>2 DEF PlayerType
<1>4. CASE Rebuild
  <2> DEFINE rest == RemoveFirst(queue, worker.line)
  <2>1. worker.line \in Row
    BY <1>4 DEF Rebuild, Typed, WorkerType, Optional
  <2>2. rest \in Seq(Row)
    BY <1>1, RemoveFirstFacts
  <2>3. player' = [player EXCEPT !.enabled = TRUE, !.lines = <<worker.line>> \o rest]
    BY <1>4 DEF Rebuild
  <2> HIDE DEF rest
  <2>4. <<worker.line>> \o rest \in Seq(Row)
    <3>1. <<worker.line>> \in Seq(Row)
      BY <2>1
    <3> QED
      BY <2>2, <3>1
  <2> QED
    BY <1>1, <2>3, <2>4 DEF PlayerType
<1>5. CASE Bootstrap
  BY <1>5 DEF Bootstrap, PlayerType, Typed, ServiceType, Optional, NoRow
<1>6. CASE BootstrapFails \/ Stop
  BY <1>1, <1>6 DEF BootstrapFails, Stop, PlayerType
<1>7. CASE StopFinalize
  BY <1>7 DEF StopFinalize, Stopped, PlayerType, Optional, NoRow
<1>8. ASSUME Next, ~LoadNext, ~Commit, ~Rebuild, ~Bootstrap, ~BootstrapFails, ~Stop, ~StopFinalize
      PROVE  UNCHANGED player
  BY <1>8 DEF Next, Enqueue, RemoveRow, StartNext, Repeat, Deliver, Expire, Worker, Raise, TakeJob, Requeue, Look,
       Resolve, Check, Refill, ReadState, Show, Service, StartEngine, Select, StopEngine, ClearNowPlaying
<1> QED
  BY <1>1, <1>2, <1>3, <1>4, <1>5, <1>6, <1>7, <1>8 DEF PlayerType

LEMMA NativeKept ==
  ASSUME Typed, Next
  PROVE  NativeType'
<1>1. NativeType
  BY DEF Typed
<1>2. CASE LoadNext
  BY <1>2, LoadTyped
<1>3. CASE StartNext
  BY <1>1, <1>3 DEF StartNext, NativeType
<1>4. CASE StartEngine \/ BootstrapFails \/ StopEngine
  BY <1>1, <1>4 DEF StartEngine, BootstrapFails, StopEngine, NativeType
<1>5. CASE Bootstrap
  <2> DEFINE p == service.plan
             two == IF Len(p) > 1 THEN p[2] ELSE NoRow
             many == Len(p) > 1
  <2>1. p \in Seq(Row)
    BY DEF Typed, ServiceType
  <2>2. PICK r \in {native.current} \cup {p[i] : i \in DOMAIN p \cap {1, 2}} :
           native' = [native EXCEPT !.current = r, !.live = many, !.next = two]
    BY <1>5 DEF Bootstrap
  <2>3. r \in Optional
    BY <1>1, <2>1, <2>2 DEF NativeType, Optional
  <2>4. many \in BOOLEAN /\ two \in Optional /\ (many => two # NoRow)
    BY <2>1, Numbers DEF Optional
  <2> HIDE DEF p, two, many
  <2> QED
    BY <1>1, <2>2, <2>3, <2>4 DEF NativeType
<1>6. CASE Select
  <2>1. service.plan[1] \in Row
    BY <1>6 DEF Select, Typed, ServiceType
  <2>2. native' = [native EXCEPT !.current = service.plan[1]]
    BY <1>6 DEF Select
  <2> QED
    BY <1>1, <2>1, <2>2 DEF NativeType, Optional
<1>7. ASSUME Next, ~LoadNext, ~StartNext, ~StartEngine, ~BootstrapFails, ~StopEngine, ~Bootstrap, ~Select
      PROVE  UNCHANGED native
  BY <1>7 DEF Next, Enqueue, RemoveRow, Repeat, Deliver, Expire, Worker, Raise, TakeJob, Requeue, Look, Commit,
       Resolve, Check, Refill, ReadState, Show, Rebuild, Service, Stop, StopFinalize, ClearNowPlaying
<1> QED
  BY <1>1, <1>2, <1>3, <1>4, <1>5, <1>6, <1>7 DEF NativeType

\* An event of the engine is about a row, and one of the starts there may be.
LEMMA AnnouncedRow ==
  ASSUME Typed, StartNext \/ Repeat \/ Select
  PROVE  \E r \in Row : Announce(r)
<1>1. native \in [running : BOOLEAN, current : Optional, next : Optional, live : BOOLEAN] /\ NativeType
  BY DEF Typed, NativeType
<1>2. CASE StartNext
  BY <1>1, <1>2 DEF StartNext, Playing, NativeType, Optional
<1>3. CASE Repeat
  BY <1>1, <1>3 DEF Repeat, Playing, Optional
<1>4. CASE Select
  <2>1. service.plan[1] \in Row
    BY <1>4 DEF Select, Typed, ServiceType
  <2> QED
    BY <1>4, <2>1 DEF Select
<1> QED
  BY <1>2, <1>3, <1>4

LEMMA AnnounceTyped ==
  ASSUME Typed, NEW r \in Row, Announce(r)
  PROVE  /\ announced' \in [Row -> 0..MaxStarts] /\ WireType' /\ Len(wire') = Len(wire) + 1
         /\ BoundType' /\ bounds'.starts = bounds.starts + 1 /\ bounds'.dropped = bounds.dropped
<1>1. /\ announced \in [Row -> 0..MaxStarts] /\ wire \in Seq(Row) /\ BoundType
      /\ bounds.starts \in 0..MaxStarts /\ bounds.starts < MaxStarts
  BY DEF Typed, SetType, WireType, BoundType, Announce
<1>2. bounds.starts + 1 \in 0..MaxStarts
  BY <1>1, Numbers
<1>3. announced' \in [Row -> 0..MaxStarts]
  BY <1>1, <1>2 DEF Announce
<1>4. WireType' /\ Len(wire') = Len(wire) + 1
  BY <1>1 DEF Announce, WireType
<1>5. BoundType' /\ bounds'.starts = bounds.starts + 1 /\ bounds'.dropped = bounds.dropped
  <2> DEFINE n == IF Replayed(r) THEN bounds.replays + 1 ELSE bounds.replays
  <2>1. n \in Nat
    BY <1>1 DEF BoundType
  <2>2. bounds' = [bounds EXCEPT !.starts = @ + 1, !.replays = n]
    BY <1>1 DEF Announce, BoundType
  <2> HIDE DEF n
  <2> QED
    BY <1>1, <1>2, <2>1, <2>2 DEF BoundType
<1> QED
  BY <1>3, <1>4, <1>5

\* What a step of the worker leaves of a job: it goes on with it, hands it back
\* or is through with it.
LEMMA WorkerRow ==
  ASSUME Typed, worker.at # "idle"
  PROVE  worker.row \in Row
BY DEF Typed, WorkerType, Optional

LEMMA SetKept ==
  ASSUME Typed, Next
  PROVE  SetType'
<1>1. now \in Shown /\ pending \subseteq Row /\ done \subseteq Row /\ announced \in [Row -> 0..MaxStarts]
  BY DEF Typed, SetType
<1>2. announced' \in [Row -> 0..MaxStarts]
  <2>1. CASE StartNext \/ Repeat \/ Select
    BY <2>1, AnnouncedRow, AnnounceTyped
  <2>2. ASSUME Next, ~StartNext, ~Repeat, ~Select
        PROVE  UNCHANGED announced
    BY <2>2 DEF Next, Enqueue, RemoveRow, LoadNext, Deliver, Expire, Worker, Raise, TakeJob, Requeue, Look, Resolve,
         Check, Commit, Refill, ReadState, Show, Rebuild, Service, StartEngine, Bootstrap, BootstrapFails, Stop,
         StopEngine, StopFinalize, ClearNowPlaying
  <2> QED
    BY <1>1, <2>1, <2>2
<1>3. now' \in Shown
  <2>1. CASE Show
    <3>1. worker.line \in Optional /\ worker.row \in Row
      BY <2>1, WorkerRow DEF Show, Typed, WorkerType
    <3> QED
      BY <1>1, <2>1, <3>1 DEF Show, Shown
  <2>2. CASE ClearNowPlaying
    BY <2>2, Numbers DEF ClearNowPlaying, Nothing, Optional, Shown
  <2>3. ASSUME Next, ~Show, ~ClearNowPlaying
        PROVE  UNCHANGED now
    BY <2>3 DEF Next, Enqueue, RemoveRow, StartNext, Repeat, LoadNext, Deliver, Expire, Worker, Raise, TakeJob,
         Requeue, Look, Resolve, Check, Commit, Refill, ReadState, Rebuild, Service, StartEngine, Bootstrap, Select,
         BootstrapFails, Stop, StopEngine, StopFinalize
  <2> QED
    BY <1>1, <2>1, <2>2, <2>3
<1>4. pending' \subseteq Row
  <2>1. CASE Deliver
    <3>1. Head(wire) \in Row
      BY <2>1 DEF Deliver, Typed, WireType
    <3>2. pending' \subseteq pending \cup {Head(wire)}
      BY <2>1 DEF Deliver
    <3> QED
      BY <1>1, <3>1, <3>2
  <2>2. ASSUME Next, ~Deliver
        PROVE  pending' \subseteq pending
    BY <2>2 DEF Next, Enqueue, RemoveRow, StartNext, Repeat, LoadNext, Expire, Worker, Raise, TakeJob, Requeue,
         Look, Resolve, Check, Commit, Refill, ReadState, Show, Rebuild, Service, StartEngine, Bootstrap, Select,
         BootstrapFails, Stop, StopEngine, StopFinalize, ClearNowPlaying, Finish, Fail, Goes, Again, dispatch
  <2> QED
    BY <1>1, <2>1, <2>2
<1>5. done' \subseteq Row
  <2>1. CASE worker.at # "idle" /\ done' \subseteq done \cup {worker.row}
    BY <1>1, <2>1, WorkerRow
  <2>2. CASE done' \subseteq done
    BY <1>1, <2>2
  <2>3. \/ worker.at # "idle" /\ done' \subseteq done \cup {worker.row}
        \/ done' \subseteq done
    BY DEF Next, Enqueue, RemoveRow, StartNext, Repeat, LoadNext, Deliver, Expire, Worker, Raise, TakeJob, Requeue,
         Look, Resolve, Check, Commit, Refill, ReadState, Show, Rebuild, Service, StartEngine, Bootstrap, Select,
         BootstrapFails, Stop, StopEngine, StopFinalize, ClearNowPlaying, Finish, Fail, Goes, Again, dispatch,
         WorkerStep
  <2> QED
    BY <2>1, <2>2, <2>3
<1> QED
  BY <1>2, <1>3, <1>4, <1>5 DEF SetType

LEMMA WireKept ==
  ASSUME Typed, Next
  PROVE  WireType'
<1>1. CASE StartNext \/ Repeat \/ Select
  BY <1>1, AnnouncedRow, AnnounceTyped
<1>2. CASE Deliver
  BY <1>2 DEF Deliver, Typed, WireType
<1>3. ASSUME Next, ~StartNext, ~Repeat, ~Select, ~Deliver
      PROVE  UNCHANGED wire
  BY <1>3 DEF Next, Enqueue, RemoveRow, LoadNext, Expire, Worker, Raise, TakeJob, Requeue, Look, Resolve,
       Check, Commit, Refill, ReadState, Show, Rebuild, Service, StartEngine, Bootstrap, BootstrapFails, Stop,
       StopEngine, StopFinalize, ClearNowPlaying
<1> QED
  BY <1>1, <1>2, <1>3 DEF WireType, Typed

LEMMA JobsKept ==
  ASSUME Typed, Next
  PROVE  JobType'
<1>1. jobs \in Seq([row : Row, attempt : 0..RetryCount]) /\ Len(jobs) <= QueueSize /\ Len(jobs) \in Nat
  BY DEF Typed, JobType
<1>2. ASSUME NEW job \in [row : Row, attempt : 0..RetryCount], Len(jobs) < QueueSize, jobs' = Append(jobs, job)
      PROVE  JobType'
  BY <1>1, <1>2, Numbers DEF JobType
<1>3. CASE Deliver
  <2>1. Head(wire) \in Row
    BY <1>3 DEF Deliver, Typed, WireType
  <2>2. [row |-> Head(wire), attempt |-> 0] \in [row : Row, attempt : 0..RetryCount]
    BY <2>1, Numbers
  <2>3. jobs' = jobs \/ (Len(jobs) < QueueSize /\ jobs' = Append(jobs, [row |-> Head(wire), attempt |-> 0]))
    BY <1>3 DEF Deliver
  <2> QED
    BY <1>1, <1>2, <2>2, <2>3 DEF JobType
<1>4. CASE TakeJob
  <2>1. jobs' = Tail(jobs) /\ jobs # <<>>
    BY <1>4 DEF TakeJob
  <2> QED
    BY <1>1, <2>1, Numbers DEF JobType
<1>5. CASE Requeue
  <2>1. worker.row \in Row /\ worker.attempt \in 0..RetryCount /\ worker.attempt < RetryCount
    BY <1>5, WorkerRow DEF Requeue, Typed, WorkerType
  <2>2. [row |-> worker.row, attempt |-> worker.attempt + 1] \in [row : Row, attempt : 0..RetryCount]
    BY <2>1, Numbers
  <2> QED
    BY <1>2, <1>5, <2>2 DEF Requeue
<1>6. ASSUME Next, ~Deliver, ~TakeJob, ~Requeue
      PROVE  UNCHANGED jobs
  BY <1>6 DEF Next, Enqueue, RemoveRow, StartNext, Repeat, LoadNext, Expire, Worker, Raise, Look, Resolve, Check,
       Commit, Refill, ReadState, Show, Rebuild, Service, StartEngine, Bootstrap, Select, BootstrapFails, Stop,
       StopEngine, StopFinalize, ClearNowPlaying, dispatch
<1> QED
  BY <1>1, <1>3, <1>4, <1>5, <1>6 DEF JobType

\* What a step leaves of the worker.
LEMMA WorkerGoes ==
  ASSUME Typed, worker.at # "idle",
         NEW to \in Doing, to # "idle",
         to \in {"check", "commit", "refill", "read", "show", "rebuild"} => worker.line # NoRow,
         to = "requeue" => worker.attempt < RetryCount,
         worker' = [worker EXCEPT !.at = to]
  PROVE  WorkerType'
<1>1. /\ worker \in [at : Doing, row : Optional, attempt : 0..RetryCount, line : Optional, held : BOOLEAN]
      /\ worker.row # NoRow
  BY DEF Typed, WorkerType
<1> QED
  BY <1>1 DEF WorkerType

LEMMA WorkerRests ==
  ASSUME worker' = Idle
  PROVE  WorkerType'
BY Numbers DEF Idle, WorkerType, Optional, Doing

LEMMA WorkerFails ==
  ASSUME Typed, worker.at # "idle", Fail
  PROVE  WorkerType'
<1>1. worker.attempt \in 0..RetryCount
  BY DEF Typed, WorkerType
<1>2. CASE worker.attempt < RetryCount /\ worker' = [worker EXCEPT !.at = "requeue"]
  BY <1>2, WorkerGoes DEF Doing
<1> QED
  BY <1>2, WorkerRests DEF Fail

LEMMA WorkerKept ==
  ASSUME Typed, Next
  PROVE  WorkerType'
<1>1. /\ WorkerType
      /\ worker \in [at : Doing, row : Optional, attempt : 0..RetryCount, line : Optional, held : BOOLEAN]
  BY DEF Typed, WorkerType
<1>2. CASE TakeJob
  <2> DEFINE job == Head(jobs)
  <2> DEFINE J == [row : Row, attempt : 0..RetryCount]
  <2>1. jobs \in Seq(J) /\ jobs # <<>>
    BY <1>2 DEF TakeJob, Typed, JobType
  <2> HIDE DEF J
  <2>2. job \in J
    BY <2>1
  <2>3. job \in [row : Row, attempt : 0..RetryCount]
    BY <2>2 DEF J
  <2>4. worker' = [Idle EXCEPT !.at = "look", !.row = job.row, !.attempt = job.attempt]
    BY <1>2 DEF TakeJob
  <2> HIDE DEF job
  <2> QED
    BY <2>3, <2>4, Numbers DEF Idle, WorkerType, Optional, Doing
<1>3. CASE Requeue
  BY <1>3, WorkerRests DEF Requeue
<1>4. CASE Look
  <2>1. CASE Goes("resolve")
    BY <1>4, <2>1, WorkerGoes DEF Goes, Look, Doing, WorkerStep
  <2> QED
    BY <1>4, <2>1, WorkerRests DEF Look, Finish
<1>5. CASE Resolve
  <2>1. CASE worker' = [worker EXCEPT !.at = "check", !.line = LineOf(worker.row)] /\ LineOf(worker.row) # NoRow
    <3> DEFINE l == LineOf(worker.row)
    <3>1. l \in Optional /\ l # NoRow
      BY <2>1, LineOfRow DEF Typed
    <3>2. worker' = [worker EXCEPT !.at = "check", !.line = l] /\ worker.row # NoRow
      BY <1>1, <1>5, <2>1 DEF Resolve, WorkerType
    <3> HIDE DEF l
    <3> QED
      BY <1>1, <3>1, <3>2 DEF WorkerType, Doing, WorkerStep
  <2> QED
    BY <1>5, <2>1, WorkerRests DEF Resolve, Finish
<1>6. CASE Check
  <2> DEFINE b == worker.row \in ToSet(queue)
  <2>1. /\ worker' = [worker EXCEPT !.at = "commit", !.held = b]
        /\ worker.at = "check" /\ worker.line # NoRow /\ worker.row # NoRow
    BY <1>1, <1>6 DEF Check, WorkerType
  <2>2. b \in BOOLEAN
    OBVIOUS
  <2> HIDE DEF b
  <2> QED
    BY <1>1, <2>1, <2>2 DEF WorkerType, Doing, WorkerStep
<1>7. CASE Commit
  <2>1. worker.at = "commit" /\ worker.line # NoRow
    BY <1>1, <1>7 DEF Commit, WorkerType
  <2>2. CASE worker' = [worker EXCEPT !.at = "refill"]
    BY <2>1, <2>2, WorkerGoes DEF Doing, WorkerStep
  <2>3. worker' = [worker EXCEPT !.at = "refill"] \/ Fail
    BY <1>7 DEF Commit, Again, Goes
  <2> QED
    BY <2>1, <2>2, <2>3, WorkerFails
<1>8. CASE Refill
  BY <1>1, <1>8, WorkerGoes DEF Refill, Goes, Doing, WorkerType
<1>9. CASE ReadState
  <2>1. CASE Goes("show")
    BY <1>1, <1>9, <2>1, WorkerGoes DEF ReadState, Goes, Doing, WorkerType
  <2> QED
    BY <1>9, <2>1, WorkerRests DEF ReadState, Finish
<1>10. CASE Show
  BY <1>1, <1>10, WorkerGoes DEF Show, Goes, Doing, WorkerStep, WorkerType
<1>11. CASE Rebuild
  BY <1>11, WorkerRests DEF Rebuild, Finish
<1>12. CASE Raise
  <2>1. worker.at \in WorkerStep
    BY <1>12 DEF Raise
  <2>2. CASE worker.at = "commit" /\ Goes("refill")
    BY <1>1, <2>2, WorkerGoes DEF Goes, Doing, WorkerStep, WorkerType
  <2>3. CASE Fail
    BY <2>1, <2>3, WorkerFails DEF WorkerStep
  <2> QED
    BY <1>12, <2>2, <2>3 DEF Raise
<1>13. ASSUME Next, ~Worker, ~Raise
       PROVE  UNCHANGED worker
  BY <1>13 DEF Next, Enqueue, RemoveRow, StartNext, Repeat, LoadNext, Deliver, Expire, Service, StartEngine,
       Bootstrap, Select, BootstrapFails, Stop, StopEngine, StopFinalize, ClearNowPlaying
<1>14. CASE UNCHANGED worker
  BY <1>1, <1>14 DEF WorkerType
<1> QED
  BY <1>2, <1>3, <1>4, <1>5, <1>6, <1>7, <1>8, <1>9, <1>10, <1>11, <1>12, <1>13, <1>14 DEF Worker

LEMMA ServiceKept ==
  ASSUME Typed, Next
  PROVE  ServiceType'
<1>1. ServiceType /\ queue \in Seq(Row)
  BY DEF Typed, BookType
<1>2. CASE StartEngine
  BY <1>1, <1>2 DEF StartEngine, ServiceType
<1>3. CASE Bootstrap \/ Stop \/ StopEngine \/ StopFinalize
  BY <1>1, <1>3 DEF Bootstrap, Stop, StopEngine, StopFinalize, Moves, ServiceType
<1>4. CASE Select \/ BootstrapFails \/ ClearNowPlaying
  <2>1. <<>> \in Seq(Row)
    OBVIOUS
  <2>2. service' = [at |-> "idle", plan |-> <<>>]
    BY <1>4 DEF Select, BootstrapFails, ClearNowPlaying, NoPlan
  <2> QED
    BY <2>1, <2>2 DEF ServiceType
<1>5. ASSUME Next, ~Service
      PROVE  UNCHANGED service
  BY <1>5 DEF Next, Enqueue, RemoveRow, StartNext, Repeat, LoadNext, Deliver, Expire, Worker, Raise, TakeJob,
       Requeue, Look, Resolve, Check, Commit, Refill, ReadState, Show, Rebuild
<1> QED
  BY <1>1, <1>2, <1>3, <1>4, <1>5 DEF Service, ServiceType

LEMMA BoundsKept ==
  ASSUME Typed, Accounted, Next
  PROVE  BoundType' /\ Accounted'
<1>1. /\ BoundType /\ bounds.dropped + Len(wire) <= bounds.starts
      /\ bounds.dropped \in 0..MaxStarts /\ bounds.starts \in 0..MaxStarts /\ wire \in Seq(Row) /\ Len(wire) \in Nat
  BY DEF Typed, BoundType, Accounted, WireType
<1>2. CASE StartNext \/ Repeat \/ Select
  BY <1>1, <1>2, AnnouncedRow, AnnounceTyped, Numbers DEF Accounted
<1>3. ASSUME wire' = wire, bounds'.starts = bounds.starts, bounds'.dropped = bounds.dropped
      PROVE  Accounted'
  BY <1>1, <1>3 DEF Accounted
<1>4. CASE Enqueue \/ Refill
  <2>1. \/ bounds' = bounds
        \/ bounds.rows < MaxRow /\ bounds' = Enqueued.b
    BY <1>4 DEF Enqueue, Refill
  <2>2. wire' = wire
    BY <1>4 DEF Enqueue, Refill
  <2> QED
    BY <1>1, <1>3, <2>1, <2>2, EnqueuedType DEF BoundType
<1>5. ASSUME NEW r \in Row, RemoveRow(r)
      PROVE  BoundType' /\ Accounted'
  BY <1>3, <1>5, MoreBounds DEF RemoveRow
<1>6. CASE Raise
  BY <1>3, <1>6, MoreBounds DEF Raise
<1>7. CASE Stop
  BY <1>3, <1>7, MoreBounds DEF Stop
<1>8. CASE ReadState
  <2>1. wire' = wire /\ (bounds' = bounds \/ Trouble("unread"))
    BY <1>8 DEF ReadState
  <2> QED
    BY <1>1, <1>3, <2>1, MoreBounds DEF BoundType
<1>9. CASE Deliver
  <2>1. Len(wire') = Len(wire) - 1 /\ Len(wire) >= 1
    BY <1>1, <1>9 DEF Deliver
  <2>2. CASE bounds' = bounds
    BY <1>1, <2>1, <2>2 DEF BoundType, Accounted
  <2>3. CASE More("dropped")
    <3>1. bounds' = [bounds EXCEPT !.dropped = @ + 1]
      BY <2>3 DEF More
    <3>2. bounds.dropped + 1 \in 0..MaxStarts
      BY <1>1, <2>1, Numbers
    <3>3. BoundType'
      BY <1>1, <3>1, <3>2 DEF BoundType
    <3>4. bounds'.dropped = bounds.dropped + 1 /\ bounds'.starts = bounds.starts
      BY <1>1, <3>1 DEF BoundType
    <3> QED
      BY <1>1, <2>1, <3>3, <3>4 DEF Accounted
  <2> QED
    BY <1>9, <2>2, <2>3 DEF Deliver
<1>10. ASSUME Next, ~StartNext, ~Repeat, ~Select, ~Enqueue, ~Refill, ~Raise, ~Stop, ~ReadState, ~Deliver,
              ~ \E r \in Row : RemoveRow(r)
       PROVE  UNCHANGED <<wire, bounds>>
  BY <1>10 DEF Next, LoadNext, Expire, Worker, TakeJob, Requeue, Look, Resolve, Check, Commit, Show, Rebuild,
       Service, StartEngine, Bootstrap, BootstrapFails, StopEngine, StopFinalize, ClearNowPlaying
<1>11. CASE UNCHANGED <<wire, bounds>>
  BY <1>1, <1>11 DEF BoundType, Accounted
<1> QED
  BY <1>2, <1>4, <1>5, <1>6, <1>7, <1>8, <1>9, <1>10, <1>11

-----------------------------------------------------------------------------
(* A step leaves the dispatch alone, accepts an event, takes a job, hands one *)
(* back, or is through with one.                                              *)

Kept == UNCHANGED <<pending, jobs>> /\ worker'.row = worker.row
Accepted(job) ==
  /\ job.row \in Row \ pending /\ pending' = pending \cup {job.row}
  /\ jobs' = Append(jobs, job) /\ worker' = worker
Taken ==
  /\ worker.row = NoRow /\ jobs # <<>>
  /\ jobs' = Tail(jobs) /\ worker'.row = jobs[1].row /\ pending' = pending
HandedBack(job) ==
  /\ job.row \in Row /\ job.row = worker.row
  /\ jobs' = Append(jobs, job) /\ worker'.row = NoRow /\ pending' = pending
Through ==
  /\ worker.row \in Row
  /\ pending' = pending \ {worker.row} /\ jobs' = jobs /\ worker'.row = NoRow

Job == [row : Row, attempt : 0..RetryCount]

LEMMA FailKinds ==
  ASSUME Typed, worker.at # "idle", Fail, jobs' = jobs
  PROVE  Kept \/ Through
<1>1. /\ worker \in [at : Doing, row : Optional, attempt : 0..RetryCount, line : Optional, held : BOOLEAN]
      /\ worker.row \in Row
  BY WorkerRow DEF Typed, WorkerType
<1> QED
  BY <1>1 DEF Fail, Kept, Through, Idle

LEMMA GoesKinds ==
  ASSUME Typed, NEW to, Goes(to), jobs' = jobs
  PROVE  Kept
<1>1. worker \in [at : Doing, row : Optional, attempt : 0..RetryCount, line : Optional, held : BOOLEAN]
  BY DEF Typed, WorkerType
<1> QED
  BY <1>1 DEF Goes, Kept

LEMMA FinishKinds ==
  ASSUME Typed, worker.at # "idle", Finish, jobs' = jobs
  PROVE  Through
BY WorkerRow DEF Finish, Through, Idle

LEMMA DispatchKinds ==
  ASSUME Typed, Next
  PROVE  Kept \/ Taken \/ Through \/ \E job \in Job : Accepted(job) \/ HandedBack(job)
<1>1. /\ worker \in [at : Doing, row : Optional, attempt : 0..RetryCount, line : Optional, held : BOOLEAN]
      /\ worker.at = "idle" <=> worker.row = NoRow
  BY DEF Typed, WorkerType
<1>2. CASE Deliver
  <2> DEFINE r == Head(wire)
  <2>1. r \in Row
    BY <1>2 DEF Deliver, Typed, WireType
  <2>2. CASE UNCHANGED <<pending, jobs>>
    BY <1>2, <2>2 DEF Deliver, Kept
  <2>3. CASE /\ r \notin pending \cup done /\ pending' = pending \cup {r}
             /\ jobs' = Append(jobs, [row |-> r, attempt |-> 0])
    <3> DEFINE job == [row |-> r, attempt |-> 0]
    <3>1. job \in Job /\ job.row = r
      BY <2>1, Numbers DEF Job
    <3>2. worker' = worker /\ jobs' = Append(jobs, job) /\ pending' = pending \cup {r}
      BY <1>2, <2>3 DEF Deliver
    <3> HIDE DEF job
    <3>3. Accepted(job)
      BY <2>1, <2>3, <3>1, <3>2 DEF Accepted
    <3> QED
      BY <3>1, <3>3
  <2> QED
    BY <1>2, <2>2, <2>3 DEF Deliver
<1>3. CASE TakeJob
  <2>1. /\ worker = Idle /\ jobs # <<>> /\ jobs' = Tail(jobs) /\ pending' = pending
        /\ worker' = [Idle EXCEPT !.at = "look", !.row = Head(jobs).row, !.attempt = Head(jobs).attempt]
    BY <1>3 DEF TakeJob
  <2>2. Head(jobs) = jobs[1]
    BY <2>1 DEF Typed, JobType
  <2>3. worker'.row = Head(jobs).row /\ worker.row = NoRow
    BY <2>1 DEF Idle
  <2> QED
    BY <2>1, <2>2, <2>3 DEF Taken
<1>4. CASE Requeue
  <2> DEFINE job == [row |-> worker.row, attempt |-> worker.attempt + 1]
  <2>1. worker.row \in Row /\ worker.attempt \in 0..RetryCount /\ worker.attempt < RetryCount
    BY <1>4, WorkerRow DEF Requeue, Typed, WorkerType
  <2>2. job \in Job /\ job.row = worker.row
    BY <2>1, Numbers DEF Job
  <2>3. jobs' = Append(jobs, job) /\ worker'.row = NoRow /\ pending' = pending
    BY <1>4 DEF Requeue, Idle
  <2> HIDE DEF job
  <2>4. HandedBack(job)
    BY <2>1, <2>2, <2>3 DEF HandedBack
  <2> QED
    BY <2>2, <2>4
<1>5. CASE Look
  BY <1>5, GoesKinds, FinishKinds DEF Look
<1>6. CASE Resolve
  <2>1. CASE worker' = [worker EXCEPT !.at = "check", !.line = LineOf(worker.row)] /\ UNCHANGED pending
    BY <1>1, <1>6, <2>1 DEF Resolve, Kept
  <2> QED
    BY <1>6, <2>1, FinishKinds DEF Resolve
<1>7. CASE Check
  BY <1>1, <1>7 DEF Check, Kept
<1>8. CASE Commit
  BY <1>8, GoesKinds, FailKinds DEF Commit, Again
<1>9. CASE Refill
  BY <1>9, GoesKinds DEF Refill
<1>10. CASE ReadState
  BY <1>10, GoesKinds, FinishKinds DEF ReadState
<1>11. CASE Show
  BY <1>11, GoesKinds DEF Show
<1>12. CASE Rebuild
  BY <1>12, FinishKinds DEF Rebuild
<1>13. CASE Raise
  BY <1>13, GoesKinds, FailKinds DEF Raise, WorkerStep
<1>14. ASSUME Next, ~Deliver, ~Worker, ~Raise
       PROVE  Kept
  BY <1>14 DEF Next, Enqueue, RemoveRow, StartNext, Repeat, LoadNext, Expire, Service, StartEngine, Bootstrap,
       Select, BootstrapFails, Stop, StopEngine, StopFinalize, ClearNowPlaying, Kept, dispatch
<1> QED
  BY <1>2, <1>3, <1>4, <1>5, <1>6, <1>7, <1>8, <1>9, <1>10, <1>11, <1>12, <1>13, <1>14 DEF Worker

LEMMA AppendJob ==
  ASSUME jobs \in Seq(Job), NEW job \in Job, jobs' = Append(jobs, job)
  PROVE  /\ Len(jobs') = Len(jobs) + 1 /\ jobs' \in Seq(Job) /\ Len(jobs) \in Nat
         /\ \A i \in 1..Len(jobs) : jobs'[i] = jobs[i]
         /\ jobs'[Len(jobs) + 1] = job
OBVIOUS

LEMMA OneJobKept ==
  ASSUME Typed, OneJob, Next
  PROVE  OneJob'
<1>1. jobs \in Seq(Job) /\ Len(jobs) \in Nat
  BY DEF Typed, JobType, Job
<1>2. /\ \A i \in 1..Len(jobs), j \in 1..Len(jobs) : jobs[i].row = jobs[j].row => i = j
      /\ \A i \in 1..Len(jobs) : jobs[i].row # worker.row
      /\ \A r \in Row : r \in pending <=> worker.row = r \/ \E i \in 1..Len(jobs) : jobs[i].row = r
  BY DEF OneJob
<1>3. ASSUME NEW i \in 1..Len(jobs)
      PROVE  jobs[i].row # NoRow
  <2>1. jobs[i] \in Job
    BY <1>1
  <2> QED
    BY <2>1, Numbers DEF Job
<1>4. CASE Kept
  BY <1>2, <1>4 DEF Kept, OneJob
<1>5. CASE Through
  BY <1>2, <1>5, <1>3, Numbers DEF Through, OneJob
<1>6. ASSUME NEW job \in Job, Accepted(job) \/ HandedBack(job)
      PROVE  OneJob'
  <2> DEFINE n == Len(jobs)
  <2>1. /\ Len(jobs') = n + 1 /\ n \in Nat
        /\ \A i \in 1..n : jobs'[i] = jobs[i]
        /\ jobs'[n + 1] = job
    BY <1>1, <1>6, AppendJob DEF Accepted, HandedBack
  <2>2. \A i \in 1..n : jobs[i].row # job.row
    BY <1>2, <1>6 DEF Accepted, HandedBack
  <2>3. job.row \in Row
    BY DEF Job
  <2> HIDE DEF n
  <2>4. \A i \in 1..(n + 1), j \in 1..(n + 1) : jobs'[i].row = jobs'[j].row => i = j
    BY <1>2, <2>1, <2>2 DEF n
  <2>5. \A i \in 1..(n + 1) : jobs'[i].row # worker'.row
    <3>1. CASE Accepted(job)
      <4>1. job.row # worker.row
        BY <1>2, <2>3, <3>1 DEF Accepted
      <4> QED
        BY <1>2, <2>1, <3>1, <4>1 DEF Accepted, n
    <3>2. CASE HandedBack(job)
      BY <1>3, <2>1, <2>3, <3>2, Numbers DEF HandedBack, n
    <3> QED
      BY <1>6, <3>1, <3>2
  <2>6. ASSUME NEW r \in Row
        PROVE  (\E i \in 1..(n + 1) : jobs'[i].row = r) <=> job.row = r \/ \E i \in 1..n : jobs[i].row = r
    BY <2>1
  <2>7. \A r \in Row : r \in pending' <=> worker'.row = r \/ \E i \in 1..(n + 1) : jobs'[i].row = r
    BY <1>2, <1>6, <2>3, <2>6, Numbers DEF Accepted, HandedBack, n
  <2> QED
    BY <2>1, <2>4, <2>5, <2>7 DEF OneJob
<1>7. CASE Taken
  <2>1. /\ jobs # <<>> /\ jobs' = Tail(jobs) /\ worker'.row = jobs[1].row /\ pending' = pending /\ worker.row = NoRow
    BY <1>7 DEF Taken
  <2>2. /\ Len(jobs') = Len(jobs) - 1 /\ Len(jobs) >= 1
        /\ \A i \in 1..(Len(jobs) - 1) : jobs'[i] = jobs[i + 1]
    BY <1>1, <2>1
  <2>3. \A i, j \in 1..(Len(jobs) - 1) : jobs'[i].row = jobs'[j].row => i = j
    BY <1>1, <1>2, <2>2
  <2>4. \A i \in 1..(Len(jobs) - 1) : jobs'[i].row # jobs[1].row
    BY <1>1, <1>2, <2>2
  <2>5. ASSUME NEW r \in Row
        PROVE  (\E i \in 1..Len(jobs) : jobs[i].row = r)
                 <=> jobs[1].row = r \/ \E i \in 1..(Len(jobs) - 1) : jobs'[i].row = r
    <3>1. ASSUME NEW i \in 1..Len(jobs), jobs[i].row = r, i # 1
          PROVE  i - 1 \in 1..(Len(jobs) - 1) /\ jobs'[i - 1].row = r
      BY <1>1, <2>2, <3>1
    <3>2. ASSUME NEW i \in 1..(Len(jobs) - 1), jobs'[i].row = r
          PROVE  i + 1 \in 1..Len(jobs) /\ jobs[i + 1].row = r
      BY <1>1, <2>2, <3>2
    <3>3. 1 \in 1..Len(jobs)
      BY <1>1, <2>2
    <3> QED
      BY <3>1, <3>2, <3>3
  <2>6. \A r \in Row : r \in pending' <=> worker'.row = r \/ \E i \in 1..(Len(jobs) - 1) : jobs'[i].row = r
    BY <1>2, <2>1, <2>5, Numbers
  <2> QED
    BY <2>1, <2>2, <2>3, <2>4, <2>6 DEF OneJob
<1> QED
  BY <1>4, <1>5, <1>6, <1>7, DispatchKinds

-----------------------------------------------------------------------------

LEMMA InitTyped ==
  ASSUME Init
  PROVE  Inv
<1>1. PICK n \in 0..MaxRow : /\ queue = [i \in 1..n |-> i]
                             /\ bounds = [rows |-> n, starts |-> 0, replays |-> 0, failures |-> 0, stops |-> 0, removals |-> 0,
                                          unread |-> 0, dropped |-> 0]
  BY DEF Init
<1>2. BookType
  <2>1. queue \in [1..n -> Row]
    BY <1>1, Numbers DEF Row
  <2>2. queue \in Seq(Row)
    BY <2>1, Numbers
  <2> QED
    BY <2>2 DEF Init, BookType
<1>3. BoundType
  BY <1>1, Numbers DEF BoundType
<1>4. <<>> \in Seq(Row) /\ <<>> \in Seq(Job) /\ Len(<<>>) = 0
  OBVIOUS
<1>5. PlayerType
  BY <1>4 DEF Init, PlayerType, Optional
<1>6. NativeType /\ SetType
  BY Numbers DEF Init, NativeType, SetType, Optional, Shown, Nothing
<1>7. WireType /\ ServiceType
  BY <1>4 DEF Init, WireType, ServiceType, NoPlan
<1>8. JobType
  BY <1>4, Numbers DEF Init, JobType, Job
<1>9. WorkerType
  BY WorkerRests, Numbers DEF Init, Idle, WorkerType, Optional, Doing
<1>10. OneJob
  BY <1>4, Numbers DEF Init, Idle, OneJob
<1>11. Accounted
  BY <1>1, <1>4 DEF Init, Accounted
<1> QED
  BY <1>2, <1>3, <1>5, <1>6, <1>7, <1>8, <1>9, <1>10, <1>11, TypeParts DEF Inv

LEMMA StepTyped ==
  ASSUME Inv, [Next]_vars
  PROVE  Inv'
<1>1. Typed /\ OneJob /\ Accounted
  BY TypeParts DEF Inv, Typed
<1>2. CASE Next
  <2>1. /\ BookType' /\ PlayerType' /\ NativeType' /\ SetType' /\ WireType' /\ JobType'
        /\ WorkerType' /\ ServiceType' /\ BoundType'
    BY <1>1, <1>2, BooksKept, PlayerKept, NativeKept, SetKept, WireKept, JobsKept, WorkerKept, ServiceKept, BoundsKept
  <2>2. OneJob' /\ Accounted'
    BY <1>1, <1>2, OneJobKept, BoundsKept
  <2> QED
    BY <2>1, <2>2, TypePartsNext DEF Inv
<1>3. CASE UNCHANGED vars
  <2>1. Typed'
    BY <1>1, <1>3 DEF vars, books, dispatch, Typed, BookType, PlayerType, NativeType, SetType, WireType, JobType,
         WorkerType, ServiceType, BoundType
  <2>2. OneJob' /\ Accounted'
    BY <1>1, <1>3 DEF vars, books, dispatch, OneJob, Accounted
  <2> QED
    BY <2>1, <2>2, TypePartsNext DEF Inv, Typed
<1> QED
  BY <1>2, <1>3

LEMMA AlwaysInv == Spec => []Inv
<1>1. Init => Inv
  BY InitTyped
<1>2. Inv /\ [Next]_vars => Inv'
  BY StepTyped
<1> QED
  BY <1>1, <1>2, PTL DEF Spec

\* A set of places of which each two are one has at most one.
LEMMA OneJobCounts ==
  ASSUME Inv
  PROVE  PendingHasOneJob
<1> SUFFICES ASSUME NEW r \in Row
             PROVE  Cardinality(Jobs(r)) + (IF worker.row = r THEN 1 ELSE 0) = (IF r \in pending THEN 1 ELSE 0)
  BY DEF PendingHasOneJob
<1>1. Jobs(r) = {i \in 1..Len(jobs) : jobs[i].row = r}
  <2>1. DOMAIN jobs = 1..Len(jobs)
    BY DEF Inv, TypeOK
  <2> QED
    BY <2>1 DEF Jobs
<1>2. CASE \E i \in 1..Len(jobs) : jobs[i].row = r
  <2>1. PICK i \in 1..Len(jobs) : jobs[i].row = r
    BY <1>2
  <2>2. Jobs(r) = {i}
    BY <1>1, <2>1 DEF Inv, OneJob
  <2>3. Cardinality(Jobs(r)) = 1
    BY <2>2, FS_Singleton
  <2>4. worker.row # r /\ r \in pending
    BY <2>1 DEF Inv, OneJob
  <2> QED
    BY <2>3, <2>4
<1>3. CASE ~ \E i \in 1..Len(jobs) : jobs[i].row = r
  <2>1. Jobs(r) = {}
    BY <1>1, <1>3
  <2>2. Cardinality(Jobs(r)) = 0
    BY <2>1, FS_EmptySet
  <2>3. worker.row = r <=> r \in pending
    BY <1>3 DEF Inv, OneJob
  <2> QED
    BY <2>2, <2>3
<1> QED
  BY <1>2, <1>3

\* Whatever fails, repeats, is dropped or waits: a row is pending exactly while one
\* job for it is in the queue of started tracks or with the worker, so that no
\* start is handled twice at a time and none waits with nobody to handle it.
THEOREM PendingIsHandledOnce == Spec => []DispatchInv
<1>1. Inv => DispatchInv
  BY OneJobCounts DEF Inv, DispatchInv
<1> QED
  BY <1>1, AlwaysInv, PTL

-----------------------------------------------------------------------------
(* Before the first stop: the station is being opened and nothing was          *)
(* announced, or it is on the air and the row on it was announced last.        *)

Opening ==
  /\ bounds.starts = 0 /\ wire = <<>> /\ jobs = <<>> /\ worker = Idle /\ now = Nothing
  /\ \/ service.at = "idle" /\ ~native.running
     \/ service.at \in {"bootstrap", "select"} /\ native.running
OnAir ==
  /\ service.at = "idle" /\ native.running
  /\ native.current \in Row /\ announced[native.current] = bounds.starts

\* What is shown, or is about to be, belongs to a start that was announced.
Stamped == \A r \in Row : announced[r] <= bounds.starts
ShownStart ==
  /\ worker.line # NoRow => worker.row # NoRow /\ trackOf[worker.line] = trackOf[worker.row]
  /\ now.row # NoRow => AsRecent(now.row, now.start)
  /\ bounds.stops = 0 => (Opening \/ OnAir) /\ (worker.at = "show" => now.start <= announced[worker.row])
  /\ now.start <= bounds.starts

ForwardInv == Inv /\ Stamped /\ ShownStart

-----------------------------------------------------------------------------
(* While nothing fails, is dropped, removed, stopped or replayed, the rows are  *)
(* started and booked in the order of their numbers: 1 to player.last are       *)
(* booked, the queue holds all after that, and what was announced and is not    *)
(* booked is on its way to the worker.                                          *)

Calm == /\ bounds.failures = 0 /\ bounds.dropped = 0 /\ bounds.replays = 0
        /\ bounds.stops = 0 /\ bounds.removals = 0

Rising(s) == \A i, j \in 1..Len(s) : i < j => s[i] < s[j]

\* In list s a row that follows row low comes after all rows between them.
Whole(s, low) ==
  \A k \in 1..Len(s), r \in Row : low <= r /\ r <= s[k] => \E i \in 1..k : s[i] = r
Within(s) == \A k \in 1..Len(s) : s[k] <= bounds.rows

Ledger ==
  /\ Rising(queue)
  /\ \A r \in Row : r \in ToSet(queue) <=> player.last < r /\ r <= bounds.rows
  /\ \A h \in history : h.row = h.by

Opened ==
  /\ player.last = NoRow /\ done = {}
  /\ service.at # "idle" => Whole(service.plan, NoRow) /\ Within(service.plan)
  /\ service.at = "select" =>
       /\ player.enabled /\ player.lines = service.plan
       /\ native.next <= 2 /\ native.next <= bounds.rows
       /\ native.live => native.next \in ToSet(player.lines)
       /\ ~native.live => native.next = NoRow

Deck ==
  /\ player.enabled /\ player.last <= native.current /\ native.current <= bounds.rows
  /\ \A r \in Row : announced[r] # 0 <=> r <= native.current
  /\ native.next <= bounds.rows /\ native.next <= native.current + 1
  /\ ~native.live => native.next <= native.current
  /\ native.live /\ native.current < native.next => native.next \in ToSet(player.lines)
  /\ native.current \in ToSet(player.lines)
  /\ Whole(player.lines, player.last) /\ Within(player.lines)

Events ==
  /\ \A i, j \in 1..Len(wire) : i <= j => wire[i] <= wire[j]
  /\ \A i, j \in 1..Len(jobs) : i <= j => jobs[i].row <= jobs[j].row
  /\ \A i \in 1..Len(jobs), j \in 1..Len(wire) : jobs[i].row <= wire[j]
  /\ \A j \in 1..Len(wire) : player.last <= wire[j] /\ worker.row <= wire[j] /\ wire[j] <= native.current
  /\ \A i \in 1..Len(jobs) : player.last <= jobs[i].row /\ worker.row <= jobs[i].row /\ jobs[i].row <= native.current
  /\ worker.row # NoRow => player.last <= worker.row /\ worker.row <= native.current
  /\ \A r \in done : r <= player.last
  /\ \A r \in Row : player.last < r /\ r <= native.current =>
       \/ worker.row = r
       \/ \E i \in 1..Len(jobs) : jobs[i].row = r
       \/ \E j \in 1..Len(wire) : wire[j] = r

Stage ==
  /\ worker.at # "requeue"
  /\ worker.at \in {"check", "commit"} => worker.line = worker.row
  /\ worker.at \in {"refill", "read", "show", "rebuild"} => worker.line = worker.row /\ worker.row = player.last

Flowing == Deck /\ Events /\ Stage
Flow == Calm => Ledger /\ ((Opening /\ Opened) \/ (OnAir /\ Flowing))

OrderInv == ForwardInv /\ Flow

(* How a step counts what it uses of the bounds. *)

Grown ==
  /\ bounds'.starts = bounds.starts /\ bounds'.replays = bounds.replays
  /\ bounds.rows <= bounds'.rows
  /\ bounds.failures <= bounds'.failures /\ bounds.dropped <= bounds'.dropped
  /\ bounds.stops <= bounds'.stops /\ bounds.removals <= bounds'.removals

LEMMA BoundNumbers ==
  ASSUME Typed
  PROVE  /\ bounds.rows \in Nat /\ bounds.starts \in Nat /\ bounds.replays \in Nat /\ bounds.failures \in Nat
         /\ bounds.stops \in Nat /\ bounds.removals \in Nat /\ bounds.unread \in Nat /\ bounds.dropped \in Nat
         /\ DOMAIN bounds = {"rows", "starts", "replays", "failures", "stops", "removals", "unread", "dropped"}
BY Numbers DEF Typed, BoundType

LEMMA CountsMore ==
  ASSUME Typed, NEW kind \in {"failures", "stops", "removals", "unread", "dropped"}, More(kind)
  PROVE  /\ Grown /\ bounds'.rows = bounds.rows
         /\ kind = "stops" => bounds'.stops # 0
         /\ kind # "unread" => ~Calm'
<1>1. bounds' = [bounds EXCEPT ![kind] = bounds[kind] + 1]
  BY DEF More
<1>2. CASE kind = "failures"
  BY <1>1, <1>2, BoundNumbers DEF Grown, Calm, Typed, BoundType
<1>3. CASE kind = "stops"
  BY <1>1, <1>3, BoundNumbers DEF Grown, Calm, Typed, BoundType
<1>4. CASE kind = "removals"
  BY <1>1, <1>4, BoundNumbers DEF Grown, Calm, Typed, BoundType
<1>5. CASE kind = "unread"
  BY <1>1, <1>5, BoundNumbers DEF Grown, Typed, BoundType
<1>6. CASE kind = "dropped"
  BY <1>1, <1>6, BoundNumbers DEF Grown, Calm, Typed, BoundType
<1> QED
  BY <1>2, <1>3, <1>4, <1>5, <1>6

LEMMA CountsEnqueued ==
  ASSUME Typed, bounds' = Enqueued.b
  PROVE  Grown /\ bounds'.rows = bounds.rows + 1
<1>1. bounds' = [bounds EXCEPT !.rows = bounds.rows + 1]
  BY DEF Enqueued
<1> QED
  BY <1>1, BoundNumbers DEF Grown, Typed, BoundType

LEMMA CountsSame ==
  ASSUME Typed, bounds' = bounds
  PROVE  Grown
BY BoundNumbers DEF Grown

\* An announcement is the last, and the rest of the bounds stay.
LEMMA AnnounceCounts ==
  ASSUME Typed, Stamped, NEW r \in Row, Announce(r)
  PROVE  /\ announced' = [announced EXCEPT ![r] = bounds.starts + 1]
         /\ announced'[r] = bounds'.starts /\ bounds'.starts = bounds.starts + 1
         /\ \A q \in Row : announced[q] \in Nat /\ announced'[q] \in Nat /\ announced[q] <= announced'[q]
         /\ Stamped'
         /\ bounds'.rows = bounds.rows /\ bounds'.failures = bounds.failures /\ bounds'.dropped = bounds.dropped
         /\ bounds'.stops = bounds.stops /\ bounds'.removals = bounds.removals
         /\ bounds'.replays = IF Replayed(r) THEN bounds.replays + 1 ELSE bounds.replays
<1> DEFINE n == IF Replayed(r) THEN bounds.replays + 1 ELSE bounds.replays
<1>1. /\ announced' = [announced EXCEPT ![r] = bounds.starts + 1]
      /\ bounds' = [bounds EXCEPT !.starts = bounds.starts + 1, !.replays = n]
  BY DEF Announce
<1> HIDE DEF n
<1>2. announced \in [Row -> 0..MaxStarts]
  BY DEF Typed, SetType
<1>3. /\ bounds'.starts = bounds.starts + 1 /\ bounds'.replays = n
      /\ bounds'.rows = bounds.rows /\ bounds'.failures = bounds.failures /\ bounds'.dropped = bounds.dropped
      /\ bounds'.stops = bounds.stops /\ bounds'.removals = bounds.removals
  BY <1>1 DEF Typed, BoundType
<1>4. \A q \in Row : announced[q] \in Nat /\ announced[q] <= bounds.starts
  BY <1>2, Numbers DEF Stamped
<1>5. \A q \in Row : announced'[q] = IF q = r THEN bounds.starts + 1 ELSE announced[q]
  BY <1>1, <1>2
<1>6. bounds.starts \in Nat
  BY BoundNumbers
<1>7. \A q \in Row : announced'[q] \in Nat /\ announced[q] <= announced'[q] /\ announced'[q] <= bounds.starts + 1
  BY <1>4, <1>5, <1>6
<1> QED
  BY <1>1, <1>3, <1>4, <1>5, <1>7 DEF Stamped, n

Announcing == StartNext \/ Repeat \/ Select

LEMMA StepCounts ==
  ASSUME Typed, Next, ~Announcing
  PROVE  Grown /\ announced' = announced
<1>1. announced' = announced
  BY DEF Announcing, Next, Enqueue, RemoveRow, LoadNext, Deliver, Expire, Worker, Raise, TakeJob, Requeue, Look, Resolve,
     Check, Commit, Refill, ReadState, Show, Rebuild, Service, StartEngine, Bootstrap, BootstrapFails, Stop,
     StopEngine, StopFinalize, ClearNowPlaying
<1>2. CASE Enqueue \/ Refill
  BY <1>2, CountsEnqueued, CountsSame DEF Enqueue, Refill
<1>3. CASE Raise \/ Stop \/ ReadState \/ Deliver \/ \E r \in Row : RemoveRow(r)
  <2>1. bounds' = bounds \/ \E k \in {"failures", "stops", "removals", "unread", "dropped"} : More(k)
    BY <1>3 DEF Raise, Stop, ReadState, Deliver, RemoveRow, Trouble
  <2> QED
    BY <1>1, <2>1, CountsMore, CountsSame
<1>4. ASSUME ~Enqueue, ~Refill, ~Raise, ~Stop, ~ReadState, ~Deliver, ~ \E r \in Row : RemoveRow(r)
      PROVE  bounds' = bounds
  BY <1>4 DEF Announcing, Next, LoadNext, Expire, Worker, TakeJob, Requeue, Look, Resolve, Check, Commit, Show, Rebuild,
     Service, StartEngine, Bootstrap, BootstrapFails, StopEngine, StopFinalize, ClearNowPlaying
<1> QED
  BY <1>1, <1>2, <1>3, <1>4, CountsSame

LEMMA StampedKept ==
  ASSUME Typed, Stamped, Next
  PROVE  /\ Stamped' /\ bounds.starts <= bounds'.starts /\ bounds.stops <= bounds'.stops
         /\ \A r \in Row : announced[r] \in Nat /\ announced'[r] \in Nat /\ announced[r] <= announced'[r]
<1>1. bounds.starts \in Nat /\ bounds.stops \in Nat /\ announced \in [Row -> 0..MaxStarts]
  BY BoundNumbers DEF Typed, SetType
<1>2. CASE Announcing
  <2>1. PICK r \in Row : Announce(r)
    BY <1>2, AnnouncedRow DEF Announcing
  <2> QED
    BY <1>1, <2>1, AnnounceCounts
<1>3. CASE ~Announcing
  BY <1>1, <1>3, StepCounts, Numbers DEF Grown, Stamped
<1> QED
  BY <1>2, <1>3

LEMMA NoStop ==
  ASSUME Typed, bounds'.stops = 0
  PROVE  ~Stop
<1>1. Stop => More("stops")
  BY DEF Stop, Trouble
<1> QED
  BY <1>1, CountsMore

\* Before the first start nothing plays, and the worker has nothing to do.
LEMMA OpeningRests ==
  ASSUME Typed, Next, Opening, ~Stop
  PROVE  /\ ~Playing /\ ~Worker /\ ~Raise /\ ~Deliver /\ ~StopEngine /\ ~StopFinalize /\ ~ClearNowPlaying
         /\ ~StartNext /\ ~Repeat /\ ~LoadNext
         /\ ~Select => UNCHANGED <<wire, jobs, worker, now>>
<1>1. ~Playing /\ ~Worker /\ ~Raise /\ ~Deliver /\ ~StopEngine /\ ~StopFinalize /\ ~ClearNowPlaying
  BY DEF Opening, Playing, Idle, Worker, Raise, Deliver, TakeJob, Requeue, Look, Resolve, Check, Commit,
     Refill, ReadState, Show, Rebuild, WorkerStep, StopEngine, StopFinalize, ClearNowPlaying
<1>2. ~StartNext /\ ~Repeat /\ ~LoadNext
  BY <1>1 DEF StartNext, Repeat, LoadNext
<1>3. ~Select => UNCHANGED <<wire, jobs, worker, now>>
  BY <1>1, <1>2 DEF Next, Enqueue, RemoveRow, Expire, Service, StartEngine, Bootstrap, BootstrapFails, dispatch
<1> QED
  BY <1>1, <1>2, <1>3

LEMMA Opens ==
  ASSUME Typed, Stamped, Next, bounds'.stops = 0, Opening
  PROVE  IF Select THEN OnAir' ELSE Opening'
<1>1. native \in [running : BOOLEAN, current : Optional, next : Optional, live : BOOLEAN] /\ ~Stop
  BY NoStop DEF Typed, NativeType
<1>2. CASE Select
  <2> DEFINE r == service.plan[1]
  <2>1. r \in Row /\ Announce(r) /\ native' = [native EXCEPT !.current = r] /\ service' = NoPlan
    BY <1>2 DEF Select, Typed, ServiceType
  <2> HIDE DEF r
  <2>2. announced'[r] = bounds'.starts
    BY <2>1, AnnounceCounts
  <2>3. native.running
    BY <1>2 DEF Opening, Select
  <2> QED
    BY <1>1, <1>2, <2>1, <2>2, <2>3 DEF OnAir, NoPlan
<1>3. CASE ~Select
  <2>1. ~Announcing
    BY <1>1, <1>3, OpeningRests DEF Announcing
  <2>2. bounds'.starts = bounds.starts
    BY <2>1, StepCounts DEF Grown
  <2>3. \/ UNCHANGED <<native, service>>
        \/ StartEngine \/ Bootstrap \/ BootstrapFails
    BY <1>1, <1>3, OpeningRests DEF Next, Enqueue, RemoveRow, Expire, Service
  <2>4. \/ service'.at = "idle" /\ ~native'.running
        \/ service'.at \in {"bootstrap", "select"} /\ native'.running
    <3>1. CASE StartEngine
      BY <1>1, <3>1 DEF StartEngine
    <3>2. CASE Bootstrap
      BY <1>1, <3>2 DEF Bootstrap, Opening, Moves, Typed, ServiceType
    <3>3. CASE BootstrapFails
      BY <1>1, <3>3 DEF BootstrapFails, NoPlan
    <3> QED
      BY <2>3, <3>1, <3>2, <3>3 DEF Opening
  <2>5. UNCHANGED <<wire, jobs, worker, now>>
    BY <1>1, <1>3, OpeningRests
  <2> QED
    BY <1>3, <2>2, <2>4, <2>5 DEF Opening
<1> QED
  BY <1>2, <1>3

LEMMA OnAirRests ==
  ASSUME OnAir, ~Stop
  PROVE  ~Service
BY DEF OnAir, Service, StartEngine, Bootstrap, Select, BootstrapFails, StopEngine, StopFinalize, ClearNowPlaying

LEMMA StaysOnAir ==
  ASSUME Typed, Stamped, Next, bounds'.stops = 0, OnAir
  PROVE  OnAir'
<1>1. native \in [running : BOOLEAN, current : Optional, next : Optional, live : BOOLEAN] /\ ~Service
  BY NoStop, OnAirRests DEF Typed, NativeType
<1>2. CASE StartNext
  <2>1. /\ native.next \in Row /\ Announce(native.next) /\ service' = service
        /\ native' = [native EXCEPT !.current = native.next, !.next = native.current, !.live = FALSE]
    BY <1>1, <1>2, Numbers DEF StartNext, Typed, NativeType, Optional
  <2>2. announced'[native.next] = bounds'.starts
    BY <2>1, AnnounceCounts
  <2> QED
    BY <1>1, <2>1, <2>2 DEF OnAir
<1>3. CASE Repeat
  <2>1. native.current \in Row /\ Announce(native.current) /\ UNCHANGED <<native, service>>
    BY <1>3 DEF Repeat, OnAir
  <2>2. announced'[native.current] = bounds'.starts
    BY <2>1, AnnounceCounts
  <2> QED
    BY <2>1, <2>2 DEF OnAir
<1>4. CASE ~StartNext /\ ~Repeat
  <2>1. ~Announcing
    BY <1>1, <1>4 DEF Announcing, Service
  <2>2. bounds'.starts = bounds.starts /\ announced' = announced
    BY <2>1, StepCounts DEF Grown
  <2>3. service' = service /\ native'.running = native.running /\ native'.current = native.current
    <3>1. CASE LoadNext
      BY <1>1, <3>1 DEF LoadNext
    <3>2. CASE ~LoadNext
      BY <1>1, <1>4, <3>2 DEF Next, Enqueue, RemoveRow, Deliver, Expire, Worker, Raise, TakeJob, Requeue, Look,
         Resolve, Check, Commit, Refill, ReadState, Show, Rebuild
    <3> QED
      BY <3>1, <3>2
  <2> QED
    BY <2>2, <2>3 DEF OnAir
<1> QED
  BY <1>2, <1>3, <1>4

LEMMA PhaseKept ==
  ASSUME Typed, Stamped, Next, bounds'.stops = 0, Opening \/ OnAir
  PROVE  Opening' \/ OnAir'
BY Opens, StaysOnAir

LEMMA FindLineTrack ==
  ASSUME NEW s \in Seq(Row), NEW r, FindLine(s, r) # 0
  PROVE  trackOf[s[FindLine(s, r)]] = trackOf[r]
<1> DEFINE exact == {i \in DOMAIN s : s[i] = r}
           alike == {i \in DOMAIN s : trackOf[s[i]] = trackOf[r]}
<1>1. DOMAIN s = 1..Len(s) /\ exact \in SUBSET Nat
  OBVIOUS
<1>2. CASE exact # {}
  <2>1. \E i \in exact : \A j \in exact : i <= j
    BY <1>1, <1>2, LeastOfNat
  <2>2. (CHOOSE i \in exact : \A j \in exact : i <= j) \in exact
    BY <2>1
  <2>3. FindLine(s, r) = CHOOSE i \in exact : \A j \in exact : i <= j
    BY <1>2 DEF FindLine
  <2> HIDE DEF exact
  <2>4. FindLine(s, r) \in exact
    BY <2>2, <2>3
  <2> QED
    BY <2>4 DEF exact
<1>3. CASE exact = {} /\ Cardinality(alike) = 1
  <2>1. alike # {}
    <3>1. alike = {} => Cardinality(alike) = 0
      BY FS_EmptySet
    <3> QED
      BY <1>3, <3>1
  <2>2. (CHOOSE i \in alike : TRUE) \in alike
    BY <2>1
  <2>3. FindLine(s, r) = CHOOSE i \in alike : TRUE
    BY <1>3 DEF FindLine
  <2> HIDE DEF alike
  <2>4. FindLine(s, r) \in alike
    BY <2>2, <2>3
  <2> QED
    BY <2>4 DEF alike
<1>4. CASE exact = {} /\ Cardinality(alike) # 1
  BY <1>4 DEF FindLine
<1> QED
  BY <1>2, <1>3, <1>4

LEMMA LineOfTrack ==
  ASSUME BookType, PlayerType, NEW r, LineOf(r) # NoRow
  PROVE  trackOf[LineOf(r)] = trackOf[r]
<1> DEFINE i == FindLine(player.lines, r)
           j == FindLine(queue, r)
<1>1. player.lines \in Seq(Row) /\ queue \in Seq(Row)
  BY DEF BookType, PlayerType
<1>2. i # 0 => trackOf[player.lines[i]] = trackOf[r]
  BY <1>1, FindLineTrack
<1>3. j # 0 => trackOf[queue[j]] = trackOf[r]
  BY <1>1, FindLineTrack
<1>4. \/ i # 0 /\ LineOf(r) = player.lines[i]
      \/ i = 0 /\ j # 0 /\ LineOf(r) = queue[j]
      \/ LineOf(r) = NoRow
  BY DEF LineOf
<1> HIDE DEF i, j
<1> QED
  BY <1>2, <1>3, <1>4

\* What the worker does to its row and its line.
LEMMA WorkerMoves ==
  ASSUME Typed, Next
  PROVE  \/ worker'.row = worker.row /\ worker'.line = worker.line
         \/ worker'.line = NoRow /\ worker'.at # "show"
         \/ /\ worker.at = "resolve" /\ worker'.row = worker.row /\ worker'.at = "check"
            /\ worker'.line = LineOf(worker.row) /\ LineOf(worker.row) # NoRow
<1>1. worker \in [at : Doing, row : Optional, attempt : 0..RetryCount, line : Optional, held : BOOLEAN]
  BY DEF Typed, WorkerType
<1>2. ASSUME NEW to, worker' = [worker EXCEPT !.at = to]
      PROVE  worker'.row = worker.row /\ worker'.line = worker.line
  BY <1>1, <1>2
<1>3. ASSUME worker' = Idle
      PROVE  worker'.line = NoRow /\ worker'.at # "show"
  BY <1>3 DEF Idle
<1>4. CASE TakeJob
  BY <1>4 DEF TakeJob, Idle
<1>5. CASE Resolve
  BY <1>1, <1>3, <1>5 DEF Resolve, Finish
<1>6. CASE Check
  BY <1>1, <1>6 DEF Check
<1>7. CASE Requeue \/ Look \/ Refill \/ ReadState \/ Show \/ Rebuild
  BY <1>2, <1>3, <1>7 DEF Requeue, Look, Refill, ReadState, Show, Rebuild, Goes, Finish
<1>8. CASE Commit \/ Raise
  BY <1>2, <1>3, <1>8 DEF Commit, Again, Raise, Goes, Fail
<1>9. CASE ~Worker /\ ~Raise
  <2>1. worker' = worker
    BY <1>9 DEF Next, Enqueue, RemoveRow, StartNext, Repeat, LoadNext, Deliver, Expire, Service, StartEngine,
       Bootstrap, Select, BootstrapFails, Stop, StopEngine, StopFinalize, ClearNowPlaying
  <2> QED
    BY <2>1
<1> QED
  BY <1>4, <1>5, <1>6, <1>7, <1>8, <1>9 DEF Worker

LEMMA NowMoves ==
  ASSUME Typed, Next
  PROVE  now' = now \/ now' = Nothing \/ Show
BY DEF Next, Enqueue, RemoveRow, StartNext, Repeat, LoadNext, Deliver, Expire, Worker, Raise,
       TakeJob, Requeue, Look, Resolve, Check, Commit, Refill, ReadState, Rebuild, Service, StartEngine, Bootstrap,
       Select, BootstrapFails, Stop, StopEngine, StopFinalize, ClearNowPlaying

\* The worker comes to show a row only from reading that it is on the air.
LEMMA ReadFirst ==
  ASSUME Typed, Next, worker'.at = "show", worker.at # "show"
  PROVE  worker.at = "read" /\ worker' = [worker EXCEPT !.at = "show"] /\ Current /\ ReadState
<1>1. worker \in [at : Doing, row : Optional, attempt : 0..RetryCount, line : Optional, held : BOOLEAN]
  BY DEF Typed, WorkerType
<1>2. CASE ReadState
  <2>1. worker.at = "read" /\ (worker' = Idle \/ (Goes("show") /\ Current))
    BY <1>2 DEF ReadState, Finish
  <2>2. worker' # Idle
    BY DEF Idle
  <2> QED
    BY <1>2, <2>1, <2>2 DEF Goes
<1>3. CASE TakeJob \/ Resolve \/ Check
  <2>1. CASE TakeJob
    <3>1. worker' = [Idle EXCEPT !.at = "look", !.row = Head(jobs).row, !.attempt = Head(jobs).attempt]
      BY <2>1 DEF TakeJob
    <3> QED
      BY <3>1 DEF Idle
  <2>2. CASE Resolve
    <3> DEFINE l == LineOf(worker.row)
    <3>1. worker' = Idle \/ worker' = [worker EXCEPT !.at = "check", !.line = l]
      BY <2>2 DEF Resolve, Finish
    <3> HIDE DEF l
    <3>2. worker' # Idle
      BY DEF Idle
    <3>3. worker'.at = "check"
      BY <1>1, <3>1, <3>2
    <3> QED
      BY <3>3
  <2>3. CASE Check
    <3> DEFINE b == worker.row \in ToSet(queue)
    <3>1. worker' = [worker EXCEPT !.at = "commit", !.held = b]
      BY <2>3 DEF Check
    <3> HIDE DEF b
    <3> QED
      BY <1>1, <3>1
  <2> QED
    BY <1>3, <2>1, <2>2, <2>3
<1>4. CASE Requeue \/ Look \/ Commit \/ Refill \/ Show \/ Rebuild \/ Raise
  BY <1>1, <1>4 DEF Requeue, Look, Commit, Again, Refill, Show, Rebuild, Raise, Goes, Finish, Fail, Idle
<1>5. CASE ~Worker /\ ~Raise
  BY <1>5 DEF Next, Enqueue, RemoveRow, StartNext, Repeat, LoadNext, Deliver, Expire, Service, StartEngine,
     Bootstrap, Select, BootstrapFails, Stop, StopEngine, StopFinalize, ClearNowPlaying
<1> QED
  BY <1>2, <1>3, <1>4, <1>5 DEF Worker

\* That row was announced last.
LEMMA ReadIsLast ==
  ASSUME Typed, Next, Opening \/ OnAir, worker'.at = "show", worker.at # "show"
  PROVE  announced[worker.row] = bounds.starts /\ worker'.row = worker.row /\ worker.row \in Row
<1>1. /\ worker \in [at : Doing, row : Optional, attempt : 0..RetryCount, line : Optional, held : BOOLEAN]
      /\ worker.at = "read" /\ worker' = [worker EXCEPT !.at = "show"] /\ Current
  BY ReadFirst DEF Typed, WorkerType
<1>2. worker.row \in Row
  BY <1>1, WorkerRow
<1>3. OnAir
  BY <1>1 DEF Opening, Idle
<1>4. native.current = worker.row
  BY <1>1, <1>3, Numbers DEF Current, OnAir
<1> QED
  BY <1>1, <1>2, <1>3, <1>4 DEF OnAir

LEMMA ShownKept ==
  ASSUME Typed, Accounted, Stamped, ShownStart, Next
  PROVE  ShownStart'
<1>1. /\ worker \in [at : Doing, row : Optional, attempt : 0..RetryCount, line : Optional, held : BOOLEAN]
      /\ worker.at = "idle" <=> worker.row = NoRow
      /\ now \in [row : Optional, start : 0..MaxStarts] /\ now.start \in Nat
  BY Numbers DEF Typed, WorkerType, SetType, Shown
<1>2. /\ bounds.starts \in Nat /\ bounds'.starts \in Nat /\ bounds.starts <= bounds'.starts
      /\ bounds.stops <= bounds'.stops /\ bounds.stops \in Nat /\ bounds'.stops \in Nat
      /\ \A r \in Row : /\ announced[r] \in Nat /\ announced'[r] \in Nat
                        /\ announced[r] <= announced'[r] /\ announced[r] <= bounds.starts
  <2>1. BoundType'
    BY BoundsKept
  <2> QED
    BY <2>1, StampedKept, BoundNumbers, Numbers DEF BoundType, Stamped
<1>3. worker'.line # NoRow => worker'.row # NoRow /\ trackOf[worker'.line] = trackOf[worker'.row]
  <2>1. worker.at = "resolve" /\ LineOf(worker.row) # NoRow
          => worker.row # NoRow /\ trackOf[LineOf(worker.row)] = trackOf[worker.row]
    BY <1>1, LineOfTrack DEF Typed
  <2> QED
    BY <2>1, WorkerMoves DEF ShownStart
<1>4. CASE Show
  <2>1. /\ worker.row \in Row /\ trackOf[worker.line] = trackOf[worker.row]
        /\ now' = [row |-> worker.line, start |-> announced[worker.row]] /\ worker' = [worker EXCEPT !.at = "rebuild"]
        /\ announced' = announced /\ bounds' = bounds
    BY <1>4, WorkerRow DEF Show, Goes, ShownStart, Typed, WorkerType
  <2>2. AsRecent(now.row, now.start)'
    BY <1>2, <2>1 DEF AsRecent
  <2>3. bounds'.stops = 0 => (Opening \/ OnAir)'
    BY <2>1, PhaseKept DEF ShownStart
  <2>4. now'.start <= bounds'.starts /\ worker'.at # "show"
    BY <1>1, <1>2, <2>1
  <2> QED
    BY <1>3, <2>2, <2>3, <2>4 DEF ShownStart
<1>5. CASE ~Show
  <2>1. now' = now \/ now' = Nothing
    BY <1>5, NowMoves
  <2>2. now'.row # NoRow => AsRecent(now.row, now.start)'
    BY <1>1, <1>2, <2>1 DEF AsRecent, Nothing, ShownStart
  <2>3. now'.start \in Nat /\ now'.start <= now.start
    BY <1>1, <2>1 DEF Nothing
  <2>4. now'.start <= bounds'.starts
    BY <1>1, <1>2, <2>3 DEF ShownStart
  <2>5. ASSUME bounds'.stops = 0
        PROVE  (Opening \/ OnAir)' /\ (worker'.at = "show" => now'.start <= announced'[worker'.row])
    <3>1. bounds.stops = 0
      BY <1>2, <2>5
    <3>2. (Opening \/ OnAir)'
      BY <2>5, <3>1, PhaseKept DEF ShownStart
    <3>3. ASSUME worker'.at = "show", worker.at = "show"
          PROVE  now'.start <= announced'[worker'.row]
      <4>1. worker.row \in Row /\ now.start <= announced[worker.row]
        BY <3>1, <3>3, WorkerRow DEF ShownStart
      <4>2. worker'.row = worker.row
        BY <3>3, WorkerMoves
      <4> QED
        BY <1>1, <1>2, <2>3, <4>1, <4>2
    <3>4. ASSUME worker'.at = "show", worker.at # "show"
          PROVE  now'.start <= announced'[worker'.row]
      <4>1. announced[worker.row] = bounds.starts /\ worker'.row = worker.row /\ worker.row \in Row
        BY <3>1, <3>4, ReadIsLast DEF ShownStart
      <4> QED
        BY <1>1, <1>2, <2>3, <4>1 DEF ShownStart
    <3> QED
      BY <3>2, <3>3, <3>4
  <2> QED
    BY <1>3, <2>2, <2>4, <2>5 DEF ShownStart
<1> QED
  BY <1>4, <1>5

LEMMA ForwardStarts ==
  ASSUME Init
  PROVE  Stamped /\ ShownStart
<1>1. announced = [r \in Row |-> 0] /\ bounds.starts = 0 /\ worker = Idle /\ now = Nothing
      /\ wire = <<>> /\ jobs = <<>> /\ service = NoPlan /\ native.running = FALSE
  BY DEF Init
<1>2. Stamped
  BY <1>1 DEF Stamped
<1>3. Opening
  BY <1>1 DEF Opening, NoPlan
<1> QED
  BY <1>1, <1>2, <1>3 DEF ShownStart, Idle, Nothing

LEMMA ForwardStep ==
  ASSUME ForwardInv, [Next]_vars
  PROVE  ForwardInv'
<1>1. Inv'
  BY StepTyped DEF ForwardInv
<1>2. Typed /\ Accounted /\ Stamped /\ ShownStart
  BY TypeParts DEF ForwardInv, Inv, Typed
<1>3. CASE Next
  BY <1>1, <1>2, <1>3, StampedKept, ShownKept DEF ForwardInv
<1>4. CASE UNCHANGED vars
  BY <1>1, <1>2, <1>4 DEF ForwardInv, vars, books, dispatch, Stamped, ShownStart, Opening, OnAir, AsRecent
<1> QED
  BY <1>3, <1>4

LEMMA AlwaysForward == Spec => []ForwardInv
<1>1. Init => ForwardInv
  BY InitTyped, ForwardStarts DEF ForwardInv
<1>2. ForwardInv /\ [Next]_vars => ForwardInv'
  BY ForwardStep
<1> QED
  BY <1>1, <1>2, PTL DEF Spec

\* Before the first stop what Now Playing is changed to has been announced at
\* least as late as the start it showed, however late an event, a retry or an
\* answer of the engine is handled.
THEOREM NeverShownBackwards == Spec => NowPlayingForward
<1> DEFINE Forward == bounds.stops = 0 /\ now.row # NoRow /\ now'.row # NoRow => AsRecent(now'.row, now.start)
<1>1. ASSUME ForwardInv, [Next]_vars
      PROVE  [Forward]_vars
  <2> SUFFICES ASSUME bounds.stops = 0, now.row # NoRow, now'.row # NoRow
               PROVE  AsRecent(now'.row, now.start)
    OBVIOUS
  <2>1. Typed /\ Stamped /\ ShownStart
    BY <1>1, TypeParts DEF ForwardInv, Inv, Typed
  <2>2. CASE now' = now
    BY <2>1, <2>2 DEF ShownStart
  <2>3. CASE Next /\ Show
    <3>1. /\ worker.row \in Row /\ trackOf[worker.line] = trackOf[worker.row]
          /\ now' = [row |-> worker.line, start |-> announced[worker.row]]
          /\ now.start <= announced[worker.row]
      BY <2>1, <2>3, WorkerRow DEF Show, ShownStart, Typed, WorkerType
    <3>2. /\ announced[worker.row] \in Nat /\ now.start \in Nat
      BY <2>1, <3>1, Numbers DEF Typed, SetType, Shown
    <3> QED
      BY <3>1, <3>2 DEF AsRecent
  <2>4. Next => now' = now \/ now' = Nothing \/ Show
    BY <2>1, NowMoves
  <2> QED
    BY <1>1, <2>2, <2>3, <2>4 DEF Nothing, vars
<1>2. ForwardInv /\ [Next]_vars => [Forward]_vars
  BY <1>1
<1> QED
  BY <1>2, AlwaysForward, PTL DEF Spec, NowPlayingForward

-----------------------------------------------------------------------------
(* Lists of rows that rise, and lists that leave no row out. *)

LEMMA RowNumbers ==
  /\ NoRow = 0 /\ MaxRow \in Nat
  /\ \A r \in Row : r \in Nat /\ 1 <= r /\ r <= MaxRow
  /\ \A r \in Optional : r \in Nat /\ (r # 0 => r \in Row)
  /\ \A n \in Nat : 1 <= n /\ n <= MaxRow => n \in Row
BY Numbers DEF Row, Optional, NoRow

LEMMA InList ==
  ASSUME NEW s \in Seq(Row)
  PROVE  /\ Len(s) \in Nat
         /\ \A k \in 1..Len(s) : s[k] \in Row /\ s[k] \in ToSet(s)
         /\ \A r \in ToSet(s) : r \in Row /\ \E k \in 1..Len(s) : s[k] = r
BY DEF ToSet

LEMMA RisingAppend ==
  ASSUME NEW s \in Seq(Row), Rising(s), NEW r \in Row, \A q \in ToSet(s) : q < r
  PROVE  Rising(Append(s, r))
<1>1. /\ Len(Append(s, r)) = Len(s) + 1 /\ Len(s) \in Nat
      /\ \A i \in 1..(Len(s) + 1) : Append(s, r)[i] = IF i <= Len(s) THEN s[i] ELSE r
  BY AppendFacts
<1>2. \A k \in 1..Len(s) : s[k] < r
  BY InList
<1> DEFINE t == Append(s, r)
<1> HIDE DEF t
<1>3. /\ Len(t) = Len(s) + 1
      /\ \A i \in 1..(Len(s) + 1) : t[i] = IF i <= Len(s) THEN s[i] ELSE r
  BY <1>1 DEF t
<1> SUFFICES ASSUME NEW i \in 1..(Len(s) + 1), NEW j \in 1..(Len(s) + 1), i < j
             PROVE  t[i] < t[j]
  BY <1>3 DEF Rising, t
<1>4. i \in 1..Len(s)
  BY <1>1
<1> QED
  BY <1>1, <1>2, <1>3, <1>4 DEF Rising

LEMMA RisingRemove ==
  ASSUME NEW s \in Seq(Row), Rising(s), NEW e
  PROVE  /\ RemoveFirst(s, e) \in Seq(Row) /\ Rising(RemoveFirst(s, e))
         /\ ToSet(RemoveFirst(s, e)) = ToSet(s) \ {e}
<1> DEFINE q == RemoveFirst(s, e)
<1>1. IsInjective(s)
  <2>1. ASSUME NEW i \in 1..Len(s), NEW j \in 1..Len(s), s[i] = s[j]
        PROVE  i = j
    BY <2>1, InList, RowNumbers DEF Rising
  <2> QED
    BY <2>1 DEF IsInjective
<1>2. q \in Seq(Row) /\ e \notin ToSet(q) /\ ToSet(q) \subseteq ToSet(s) /\ ToSet(s) \ {e} \subseteq ToSet(q)
  BY <1>1, RemoveFirstFacts, RemoveFirstInjective
<1>3. CASE e \notin ToSet(s)
  BY <1>2, <1>3, RemoveFirstFacts
<1>4. CASE e \in ToSet(s)
  <2>1. PICK k \in 1..Len(s) : /\ Len(q) = Len(s) - 1
                               /\ \A i \in 1..(Len(s) - 1) : q[i] = IF i < k THEN s[i] ELSE s[i + 1]
    BY <1>4, RemovedPlace
  <2> HIDE DEF q
  <2>2. Rising(q)
    <3> SUFFICES ASSUME NEW i \in 1..(Len(s) - 1), NEW j \in 1..(Len(s) - 1), i < j
                 PROVE  q[i] < q[j]
      BY <2>1 DEF Rising
    <3>1. Len(s) \in Nat /\ i \in 1..Len(s) /\ i + 1 \in 1..Len(s) /\ j \in 1..Len(s) /\ j + 1 \in 1..Len(s)
      BY InList
    <3>2. s[i] < s[j] /\ s[i] < s[j + 1] /\ s[i + 1] < s[j + 1]
      BY <3>1 DEF Rising
    <3> QED
      BY <2>1, <3>1, <3>2
  <2> QED
    BY <1>2, <2>2 DEF q
<1> QED
  BY <1>3, <1>4

LEMMA RisingHead ==
  ASSUME NEW s \in Seq(Row), Rising(s), s # <<>>
  PROVE  Head(s) \in ToSet(s) /\ \A r \in ToSet(s) : Head(s) <= r
<1>1. Head(s) = s[1] /\ 1 \in 1..Len(s) /\ Len(s) \in Nat
  OBVIOUS
<1>2. ASSUME NEW k \in 1..Len(s)
      PROVE  s[1] <= s[k]
  BY <1>1, InList, RowNumbers DEF Rising
<1> QED
  BY <1>1, <1>2, InList

LEMMA WholePrefix ==
  ASSUME NEW s \in Seq(Row), NEW low \in Optional, Whole(s, low), NEW n \in 0..Len(s)
  PROVE  /\ SubSeq(s, 1, n) \in Seq(Row) /\ Len(SubSeq(s, 1, n)) = n
         /\ \A i \in 1..n : SubSeq(s, 1, n)[i] = s[i]
         /\ Whole(SubSeq(s, 1, n), low)
<1> DEFINE t == SubSeq(s, 1, n)
<1>1. t \in Seq(Row) /\ Len(t) = n /\ \A i \in 1..n : t[i] = s[i]
  OBVIOUS
<1> HIDE DEF t
<1>2. Len(s) \in Nat
  OBVIOUS
<1>3. Whole(t, low)
  <2> SUFFICES ASSUME NEW k \in 1..n, NEW r \in Row, low <= r, r <= t[k]
               PROVE  \E i \in 1..k : t[i] = r
    BY <1>1 DEF Whole
  <2>1. k \in 1..Len(s) /\ r <= s[k]
    BY <1>1, <1>2
  <2>2. PICK i \in 1..k : s[i] = r
    BY <2>1 DEF Whole
  <2>3. i \in 1..n
    OBVIOUS
  <2> QED
    BY <1>1, <2>2, <2>3
<1> QED
  BY <1>1, <1>3 DEF t

\* A whole list that names row c goes on whole with the rows behind c.
LEMMA WholeJoined ==
  ASSUME NEW low \in Optional, NEW top \in Nat, NEW c \in Row, low <= c,
         NEW s \in Seq(Row), Whole(s, low), c \in ToSet(s),
         NEW t \in Seq(Row), Rising(t),
         \A r \in Row : c < r /\ r <= top => r \in ToSet(t),
         \A r \in ToSet(t) : r <= top
  PROVE  /\ s \o t \in Seq(Row) /\ Whole(s \o t, low)
         /\ ToSet(s \o t) = ToSet(s) \cup ToSet(t)
<1> DEFINE u == s \o t
           m == Len(s)
           n == Len(t)
<1>1. /\ u \in Seq(Row) /\ Len(u) = m + n /\ m \in Nat /\ n \in Nat
      /\ \A i \in 1..m : u[i] = s[i]
      /\ \A i \in 1..n : u[m + i] = t[i]
  OBVIOUS
<1>2. /\ \A i \in 1..m : s[i] \in Row /\ s[i] \in ToSet(s)
      /\ \A i \in 1..n : t[i] \in Row /\ t[i] \in ToSet(t)
      /\ \A r \in ToSet(s) : \E i \in 1..m : s[i] = r
      /\ \A r \in ToSet(t) : \E i \in 1..n : t[i] = r
  BY InList
<1>3. PICK p \in 1..m : s[p] = c
  BY <1>2
<1>9. Whole(s, low) <=> \A k \in 1..m, r \in Row : low <= r /\ r <= s[k] => \E i \in 1..k : s[i] = r
  BY DEF Whole
<1>10. Rising(t) <=> \A i, j \in 1..n : i < j => t[i] < t[j]
  BY DEF Rising
<1> HIDE DEF u, m, n
<1>4. ASSUME NEW k \in 1..(m + n), NEW r \in Row, low <= r, r <= u[k]
      PROVE  \E i \in 1..k : u[i] = r
  <2>1. CASE k \in 1..m
    <3>1. PICK i \in 1..k : s[i] = r
      BY <1>1, <1>4, <1>9, <2>1
    <3>2. i \in 1..m
      BY <1>1, <2>1
    <3> QED
      BY <1>1, <3>1, <3>2
  <2>2. CASE k \notin 1..m
    <3>1. k - m \in 1..n /\ k = m + (k - m)
      BY <1>1, <2>2
    <3>2. u[k] = t[k - m] /\ t[k - m] \in ToSet(t) /\ t[k - m] \in Row
      BY <1>1, <1>2, <3>1
    <3>3. CASE r <= c
      <4>1. PICK i \in 1..p : s[i] = r
        BY <1>3, <1>4, <1>9, <3>3
      <4>2. i \in 1..m /\ i \in 1..k
        BY <1>1, <1>3, <2>2, <4>1
      <4> QED
        BY <1>1, <4>1, <4>2
    <3>4. CASE c < r
      <4>1. r \in ToSet(t)
        BY <1>4, <3>2, <3>4, RowNumbers
      <4>2. PICK q \in 1..n : t[q] = r
        BY <1>2, <4>1
      <4>3. q <= k - m
        <5>1. k - m < q => t[k - m] < t[q]
          BY <1>10, <3>1, <4>2
        <5>2. r <= t[k - m] /\ r \in Nat /\ t[k - m] \in Nat
          BY <1>4, <3>2, RowNumbers
        <5>3. ~(t[k - m] < r)
          BY <5>2
        <5>4. k - m \in Int /\ q \in Int
          BY <1>1
        <5> QED
          BY <4>2, <5>1, <5>3, <5>4
      <4>4. m + q \in 1..k /\ u[m + q] = r
        BY <1>1, <3>1, <4>2, <4>3
      <4> QED
        BY <4>4
    <3> QED
      BY <3>3, <3>4, RowNumbers
  <2> QED
    BY <2>1, <2>2
<1>5. Whole(u, low)
  BY <1>1, <1>4 DEF Whole
<1>6. ToSet(u) = ToSet(s) \cup ToSet(t)
  <2>1. ASSUME NEW r \in ToSet(u)
        PROVE  r \in ToSet(s) \cup ToSet(t)
    <3>1. PICK k \in 1..(m + n) : u[k] = r
      BY <1>1, InList
    <3>2. k \in 1..m \/ (k - m \in 1..n /\ k = m + (k - m))
      BY <1>1
    <3> QED
      BY <1>1, <1>2, <3>1, <3>2
  <2>2. ASSUME NEW r \in ToSet(s) \cup ToSet(t)
        PROVE  r \in ToSet(u)
    <3>1. CASE r \in ToSet(s)
      <4>1. PICK i \in 1..m : s[i] = r
        BY <1>2, <3>1
      <4>2. i \in 1..Len(u) /\ u[i] = r
        BY <1>1, <4>1
      <4> QED
        BY <1>1, <4>2, InList
    <3>2. CASE r \in ToSet(t)
      <4>1. PICK i \in 1..n : t[i] = r
        BY <1>2, <3>2
      <4>2. m + i \in 1..Len(u) /\ u[m + i] = r
        BY <1>1, <4>1
      <4> QED
        BY <1>1, <4>2, InList
    <3> QED
      BY <2>2, <3>1, <3>2
  <2> QED
    BY <2>1, <2>2
<1> QED
  BY <1>1, <1>5, <1>6 DEF u

\* A row that stands in a list is found there, where it stands first.
LEMMA FindLineExact ==
  ASSUME NEW s \in Seq(Row), NEW r \in ToSet(s)
  PROVE  /\ FindLine(s, r) \in 1..Len(s) /\ s[FindLine(s, r)] = r
         /\ \A i \in 1..Len(s) : s[i] = r => FindLine(s, r) <= i
<1> DEFINE exact == {i \in DOMAIN s : s[i] = r}
           k == CHOOSE i \in exact : \A j \in exact : i <= j
<1>1. DOMAIN s = 1..Len(s) /\ exact \in SUBSET Nat
  OBVIOUS
<1>2. exact # {}
  BY <1>1 DEF ToSet
<1>3. \E i \in exact : \A j \in exact : i <= j
  BY <1>1, <1>2, LeastOfNat
<1>4. k \in exact /\ \A j \in exact : k <= j
  BY <1>3
<1>5. FindLine(s, r) = k
  BY <1>2 DEF FindLine
<1> HIDE DEF k
<1> QED
  BY <1>1, <1>4, <1>5

\* The lines of the player while it follows the order of the rows.
Followed(s) == native.current \in ToSet(s) /\ Whole(s, player.last) /\ Within(s)

LEMMA RecoveredFollowed ==
  ASSUME Typed, Ledger, native.current \in Row, player.last <= native.current, native.current <= bounds.rows,
         NEW s \in Seq(Row), Followed(s), NEW e \in Optional, e <= native.current
  PROVE  LET R == Recovered(s, FindLine(s, native.current), e)
         IN  /\ R.lines \in Seq(Row) /\ Followed(R.lines)
             /\ R.next # NoRow => /\ R.next \in ToSet(R.lines) /\ R.next \in Row
                                  /\ R.next <= native.current + 1 /\ R.next <= bounds.rows
<1> DEFINE c == native.current
           at == FindLine(s, c)
           kept == RemoveFirst(s, e)
           found == RemoveFirst(RemoveFirst(queue, c), e)
           fresh == IF at = 0 THEN found ELSE RemoveFirst(found, s[at])
           next == IF fresh = <<>> THEN NoRow ELSE Head(fresh)
           lines == CASE next = NoRow -> s
                      [] next # NoRow /\ at # 0 -> SubSeq(s, 1, at) \o fresh
                      [] OTHER -> IF next \in ToSet(kept) THEN kept ELSE kept \o fresh
           R == Recovered(s, at, e)
<1>1. R = [next |-> next, lines |-> lines]
  BY DEF Recovered
<1>2. at \in 1..Len(s) /\ s[at] = c /\ Len(s) \in Nat
  BY FindLineExact, InList DEF Followed
<1>3. queue \in Seq(Row) /\ Rising(queue) /\ \A r \in Row : r \in ToSet(queue) <=> player.last < r /\ r <= bounds.rows
  BY DEF Ledger, Typed, BookType
<1>4. found \in Seq(Row) /\ Rising(found) /\ ToSet(found) = (ToSet(queue) \ {c}) \ {e}
  <2> DEFINE q == RemoveFirst(queue, c)
  <2>1. q \in Seq(Row) /\ Rising(q) /\ ToSet(q) = ToSet(queue) \ {c}
    BY <1>3, RisingRemove
  <2> HIDE DEF q
  <2>2. /\ RemoveFirst(q, e) \in Seq(Row) /\ Rising(RemoveFirst(q, e))
        /\ ToSet(RemoveFirst(q, e)) = ToSet(q) \ {e}
    BY <2>1, RisingRemove
  <2> QED
    BY <2>1, <2>2 DEF q
<1> HIDE DEF found
<1>5. fresh \in Seq(Row) /\ Rising(fresh) /\ ToSet(fresh) = (ToSet(queue) \ {c}) \ {e}
  <2>1. fresh = RemoveFirst(found, c)
    BY <1>2
  <2>2. /\ RemoveFirst(found, c) \in Seq(Row) /\ Rising(RemoveFirst(found, c))
        /\ ToSet(RemoveFirst(found, c)) = ToSet(found) \ {c}
    BY <1>4, RisingRemove
  <2> QED
    BY <1>4, <2>1, <2>2
<1>6. /\ bounds.rows \in Nat /\ player.last \in Optional /\ player.last \in Nat /\ c \in Nat /\ e \in Nat
      /\ bounds.rows <= MaxRow
  BY BoundNumbers, RowNumbers, Numbers DEF Typed, PlayerType, BoundType
<1> HIDE DEF fresh, at
<1>7. /\ \A r \in ToSet(fresh) : r \in Row /\ r <= bounds.rows
      /\ \A r \in Row : c < r /\ r <= bounds.rows => r \in ToSet(fresh)
  <2>1. \A r \in ToSet(queue) : r \in Row
    BY <1>3, InList
  <2> QED
    BY <1>3, <1>5, <1>6, <2>1, RowNumbers
<1>8. CASE fresh = <<>>
  BY <1>1, <1>8 DEF Followed, at
<1>9. CASE fresh # <<>>
  <2>1. Head(fresh) \in ToSet(fresh) /\ \A r \in ToSet(fresh) : Head(fresh) <= r
    BY <1>5, <1>9, RisingHead
  <2>2. next = Head(fresh) /\ next \in Row /\ next # NoRow /\ next <= bounds.rows
    BY <1>7, <1>9, <2>1, Numbers
  <2>3. next <= c + 1
    <3>1. c + 1 < next => c + 1 \in Row /\ c + 1 <= bounds.rows
      BY <1>6, <2>2, RowNumbers
    <3>2. c + 1 < next => c + 1 \in ToSet(fresh)
      BY <1>6, <1>7, <3>1
    <3> QED
      BY <1>6, <2>1, <2>2, <3>2, RowNumbers
  <2> DEFINE p == SubSeq(s, 1, at)
  <2>4. lines = p \o fresh
    <3>1. at # 0 /\ next # NoRow
      BY <1>2, <2>2
    <3> HIDE DEF next
    <3> QED
      BY <3>1
  <2>5. /\ p \in Seq(Row) /\ Len(p) = at /\ \A i \in 1..at : p[i] = s[i]
        /\ Whole(p, player.last)
    BY <1>2, <1>6, WholePrefix DEF Followed
  <2> HIDE DEF next, lines, p
  <2>6. c \in ToSet(p)
    <3>1. p[at] = c /\ at \in 1..Len(p)
      BY <1>2, <2>5
    <3> QED
      BY <2>5, <3>1, InList
  <2>7. /\ p \o fresh \in Seq(Row) /\ Whole(p \o fresh, player.last)
        /\ ToSet(p \o fresh) = ToSet(p) \cup ToSet(fresh)
    BY <1>5, <1>6, <1>7, <2>5, <2>6, WholeJoined
  <2>8. \A r \in ToSet(p) : r <= bounds.rows
    <3>1. ASSUME NEW i \in 1..at
          PROVE  p[i] <= bounds.rows
      <4>1. i \in 1..Len(s)
        BY <1>2
      <4> QED
        BY <2>5, <4>1 DEF Followed, Within
    <3> QED
      BY <2>5, <3>1, InList
  <2>9. Within(p \o fresh)
    BY <1>7, <2>7, <2>8, InList DEF Within
  <2>10. c \in ToSet(p \o fresh) /\ next \in ToSet(p \o fresh)
    BY <2>1, <2>2, <2>6, <2>7
  <2>11. R.lines = p \o fresh /\ R.next = next
    BY <1>1, <2>4
  <2> QED
    BY <2>2, <2>3, <2>7, <2>9, <2>10, <2>11 DEF Followed, at
<1> QED
  BY <1>8, <1>9

-----------------------------------------------------------------------------
(* The order is kept by each step while the station is on the air. *)

Rolling == Typed /\ OneJob /\ Stamped /\ Ledger /\ OnAir /\ Deck /\ Events /\ Stage
Rolled == Ledger' /\ Deck' /\ Events' /\ Stage'

LEMMA CalmBefore ==
  ASSUME Typed, Stamped, Next, Calm'
  PROVE  /\ Calm /\ bounds'.stops = 0 /\ ~Stop /\ ~Raise /\ ~(\E r \in Row : RemoveRow(r))
         /\ ~More("dropped")
         /\ ~Announcing => announced' = announced /\ bounds'.starts = bounds.starts
<1>1. bounds'.stops = 0 /\ bounds'.replays = 0
  BY DEF Calm
<1>2. /\ Stop => More("stops")
      /\ Raise => More("failures")
      /\ (\E r \in Row : RemoveRow(r)) => More("removals")
  BY DEF Stop, Raise, RemoveRow, Trouble
<1>3. ~Stop /\ ~Raise /\ ~(\E r \in Row : RemoveRow(r)) /\ ~More("dropped")
  BY <1>2, CountsMore
<1>4. CASE Announcing
  <2>1. PICK r \in Row : Announce(r)
    BY <1>4, AnnouncedRow DEF Announcing
  <2>2. bounds.replays = 0
    BY <1>1, <2>1, AnnounceCounts, BoundNumbers
  <2> QED
    BY <1>1, <1>3, <1>4, <2>1, <2>2, AnnounceCounts DEF Calm
<1>5. CASE ~Announcing
  <2>1. Grown /\ announced' = announced
    BY <1>5, StepCounts
  <2> QED
    BY <1>1, <1>3, <2>1, BoundNumbers DEF Grown, Calm
<1> QED
  BY <1>4, <1>5

LEMMA RollingNumbers ==
  ASSUME Rolling
  PROVE  /\ Len(wire) \in Nat /\ Len(jobs) \in Nat
         /\ \A j \in 1..Len(wire) : wire[j] \in Row /\ wire[j] \in Nat
         /\ \A i \in 1..Len(jobs) : jobs[i].row \in Row /\ jobs[i].row \in Nat
         /\ worker.row \in Nat /\ player.last \in Nat /\ player.last \in Optional
         /\ native.current \in Nat /\ native.current \in Row /\ native.next \in Nat /\ native.next \in Optional
         /\ bounds.rows \in Nat /\ bounds.rows <= MaxRow
<1>1. Typed /\ OnAir
  BY DEF Rolling
<1>2. wire \in Seq(Row) /\ jobs \in Seq([row : Row, attempt : 0..RetryCount])
  BY <1>1 DEF Typed, WireType, JobType
<1> DEFINE J == [row : Row, attempt : 0..RetryCount]
<1>3. /\ Len(wire) \in Nat /\ Len(jobs) \in Nat
      /\ \A j \in 1..Len(wire) : wire[j] \in Row
      /\ \A i \in 1..Len(jobs) : jobs[i] \in [row : Row, attempt : 0..RetryCount]
  <2>1. Len(wire) \in Nat /\ \A j \in 1..Len(wire) : wire[j] \in Row
    BY <1>2, InList
  <2>2. jobs \in Seq(J)
    BY <1>2
  <2> HIDE DEF J
  <2>3. Len(jobs) \in Nat /\ \A i \in 1..Len(jobs) : jobs[i] \in J
    BY <2>2
  <2> QED
    BY <2>1, <2>3 DEF J
<1>4. worker.row \in Optional /\ player.last \in Optional /\ native.next \in Optional /\ native.current \in Row
  BY <1>1 DEF Typed, WorkerType, PlayerType, NativeType, OnAir
<1>5. bounds.rows \in 0..MaxRow
  BY <1>1 DEF Typed, BoundType
<1> QED
  BY <1>3, <1>4, <1>5, RowNumbers

LEMMA LedgerSame ==
  ASSUME Ledger, queue' = queue, history' = history, player'.last = player.last, bounds'.rows = bounds.rows
  PROVE  Ledger'
BY DEF Ledger

LEMMA DeckSame ==
  ASSUME Deck, native' = native, announced' = announced, player' = player, bounds'.rows = bounds.rows
  PROVE  Deck'
BY DEF Deck, Within

LEMMA EventsSame ==
  ASSUME Events, wire' = wire, jobs' = jobs, done' \subseteq done, worker'.row = worker.row,
         player'.last = player.last, native'.current = native.current
  PROVE  Events'
BY DEF Events

LEMMA StageSame ==
  ASSUME Stage, worker' = worker, player'.last = player.last
  PROVE  Stage'
BY DEF Stage

LEMMA LedgerEnqueued ==
  ASSUME Typed, Ledger, player.last <= bounds.rows, bounds.rows < MaxRow,
         queue' = Enqueued.q, bounds' = Enqueued.b, history' = history, player'.last = player.last
  PROVE  Ledger'
<1> DEFINE n == bounds.rows + 1
           q == Append(queue, n)
<1>1. queue \in Seq(Row) /\ bounds.rows \in Nat /\ player.last \in Nat
  BY BoundNumbers, RowNumbers DEF Typed, BookType, PlayerType
<1>2. n \in Row /\ \A r \in ToSet(queue) : r < n
  BY <1>1, RowNumbers, InList DEF Ledger
<1>3. queue' = q /\ bounds'.rows = n
  BY CountsEnqueued DEF Enqueued
<1>4. Rising(q) /\ ToSet(q) = ToSet(queue) \cup {n}
  BY <1>1, <1>2, RisingAppend, AppendFacts DEF Ledger
<1> HIDE DEF q
<1>5. \A r \in Row : r \in ToSet(q) <=> player.last < r /\ r <= n
  BY <1>1, <1>2, <1>4, RowNumbers DEF Ledger
<1> QED
  BY <1>3, <1>4, <1>5 DEF Ledger

LEMMA DeckGrown ==
  ASSUME Rolling, native' = native, announced' = announced, player' = player, bounds'.rows = bounds.rows + 1
  PROVE  Deck'
<1>1. Deck /\ player.lines \in Seq(Row)
  BY DEF Rolling, Typed, PlayerType
<1>2. Within(player.lines)'
  <2>1. bounds.rows \in Nat /\ \A k \in 1..Len(player.lines) : player.lines[k] \in Nat
    BY <1>1, RollingNumbers, InList, RowNumbers
  <2>2. \A k \in 1..Len(player.lines) : player.lines[k] <= bounds.rows
    BY <1>1 DEF Deck, Within
  <2>3. \A k \in 1..Len(player.lines) : player.lines[k] <= bounds.rows + 1
    BY <2>1, <2>2
  <2> QED
    BY <2>3 DEF Within
<1>3. native.current <= bounds.rows + 1 /\ native.next <= bounds.rows + 1
  BY <1>1, RollingNumbers DEF Deck
<1> QED
  BY <1>1, <1>2, <1>3 DEF Deck

LEMMA EnqueueRolls ==
  ASSUME Rolling, Enqueue
  PROVE  Rolled
<1>1. /\ bounds.rows < MaxRow /\ queue' = Enqueued.q /\ bounds' = Enqueued.b
      /\ UNCHANGED <<history, player, native, wire, jobs, done, worker, announced>>
  BY DEF Enqueue, dispatch
<1>2. player.last <= bounds.rows
  BY RollingNumbers DEF Rolling, Deck
<1>3. Ledger'
  BY <1>1, <1>2, LedgerEnqueued DEF Rolling
<1>4. Deck'
  BY <1>1, DeckGrown, CountsEnqueued DEF Rolling
<1> QED
  BY <1>1, <1>3, <1>4, EventsSame, StageSame DEF Rolling, Rolled

\* The row that was announced is the one on the air, or the next after it.
LEMMA EventsAnnounced ==
  ASSUME Rolling, NEW x \in Row, native.current <= x, x <= native.current + 1, wire' = Append(wire, x),
         native'.current = x, UNCHANGED <<jobs, done, worker, player>>
  PROVE  Events'
<1> DEFINE m == Len(wire)
<1>1. /\ Len(wire') = m + 1 /\ m \in Nat
      /\ \A i \in 1..(m + 1) : wire'[i] = IF i <= m THEN wire[i] ELSE x
  BY AppendFacts DEF Rolling, Typed, WireType
<1>2. Events /\ x \in Nat /\ player.last <= x
  BY RollingNumbers, RowNumbers DEF Rolling, Deck
<1>3. /\ \A j \in 1..m : wire[j] <= x /\ wire[j] \in Nat
      /\ \A i \in 1..Len(jobs) : jobs[i].row <= x
      /\ worker.row <= x
  <2>1. native.current \in Nat /\ worker.row \in Nat /\ NoRow = 0
    BY RollingNumbers, RowNumbers
  <2>2. \A j \in 1..m : wire[j] <= native.current /\ wire[j] \in Nat
    BY <1>2, RollingNumbers DEF Events
  <2>3. \A i \in 1..Len(jobs) : jobs[i].row <= native.current /\ jobs[i].row \in Nat
    BY <1>2, RollingNumbers DEF Events
  <2>4. worker.row # NoRow => worker.row <= native.current
    BY <1>2 DEF Events
  <2> QED
    BY <1>2, <2>1, <2>2, <2>3, <2>4
<1>4. m = Len(wire)
  OBVIOUS
<1> HIDE DEF m
<1>5. \A i, j \in 1..(m + 1) : i <= j => wire'[i] <= wire'[j]
  BY <1>1, <1>2, <1>3, <1>4 DEF Events
<1>6. \A i \in 1..Len(jobs), j \in 1..(m + 1) : jobs[i].row <= wire'[j]
  BY <1>1, <1>2, <1>3, <1>4 DEF Events
<1>7. \A j \in 1..(m + 1) : player.last <= wire'[j] /\ worker.row <= wire'[j] /\ wire'[j] <= x
  BY <1>1, <1>2, <1>3, <1>4 DEF Events
<1>8. ASSUME NEW r \in Row, player.last < r, r <= x
      PROVE  \/ worker.row = r
             \/ \E i \in 1..Len(jobs) : jobs[i].row = r
             \/ \E j \in 1..(m + 1) : wire'[j] = r
  <2>1. CASE r = x
    BY <1>1, <2>1
  <2>2. CASE r # x
    <3>1. r <= native.current
      BY <1>2, <1>8, <2>2, RollingNumbers, RowNumbers
    <3>2. \/ worker.row = r
          \/ \E i \in 1..Len(jobs) : jobs[i].row = r
          \/ \E j \in 1..m : wire[j] = r
      BY <1>2, <1>4, <1>8, <3>1 DEF Events
    <3>3. \A j \in 1..m : j \in 1..(m + 1) /\ wire'[j] = wire[j]
      BY <1>1
    <3> QED
      BY <3>2, <3>3
  <2> QED
    BY <2>1, <2>2
<1> QED
  BY <1>1, <1>2, <1>3, <1>5, <1>6, <1>7, <1>8 DEF Events

LEMMA StartRolls ==
  ASSUME Rolling, StartNext, Calm, Calm'
  PROVE  Rolled
<1> DEFINE x == native.next
           c == native.current
<1>1. /\ native \in [running : BOOLEAN, current : Optional, next : Optional, live : BOOLEAN]
      /\ announced \in [Row -> 0..MaxStarts] /\ native.live /\ x \in Row
  BY Numbers DEF Rolling, Typed, NativeType, SetType, StartNext, Optional
<1>2. /\ Announce(x) /\ UNCHANGED <<queue, history, player, jobs, done, worker>>
      /\ native' = [native EXCEPT !.current = x, !.next = c, !.live = FALSE]
  BY DEF StartNext, books, dispatch
<1>3. /\ announced' = [announced EXCEPT ![x] = bounds.starts + 1] /\ bounds'.rows = bounds.rows
      /\ wire' = Append(wire, x) /\ ~Replayed(x)
  <2> HIDE DEF x
  <2>1. Typed /\ Stamped
    BY DEF Rolling
  <2>2. /\ announced' = [announced EXCEPT ![x] = bounds.starts + 1] /\ bounds'.rows = bounds.rows
        /\ bounds'.replays = IF Replayed(x) THEN bounds.replays + 1 ELSE bounds.replays
    BY <1>1, <1>2, <2>1, AnnounceCounts
  <2>3. bounds.replays = 0 /\ bounds'.replays = 0
    BY DEF Calm
  <2>4. wire' = Append(wire, x)
    BY <1>2 DEF Announce
  <2> QED
    BY <2>2, <2>3, <2>4
<1>4. native'.current = x /\ native'.next = c /\ native'.live = FALSE
  BY <1>1, <1>2
<1>5. x = c \/ x = c + 1
  BY <1>1, <1>3, RollingNumbers DEF Replayed, Rolling, Deck
<1>6. Deck'
  <2>1. \A r \in Row : announced'[r] # 0 <=> r <= x
    <3>1. \A r \in Row : r # x => announced'[r] = announced[r]
      BY <1>1, <1>3
    <3>2. announced'[x] # 0
      BY <1>1, <1>3, BoundNumbers DEF Rolling
    <3>3. \A r \in Row : r # x => (r <= x <=> r <= c)
      BY <1>5, RollingNumbers, RowNumbers
    <3> QED
      BY <1>1, <3>1, <3>2, <3>3, RowNumbers DEF Rolling, Deck
  <2>2. x \in ToSet(player.lines)
    BY <1>1, <1>5, RollingNumbers DEF Rolling, Deck
  <2>3. /\ player.last <= x /\ x <= bounds.rows /\ c <= bounds.rows /\ c <= x + 1 /\ c <= x
    BY <1>5, RollingNumbers DEF Rolling, Deck
  <2>4. Within(player.lines)' /\ player' = player
    BY <1>2, <1>3 DEF Rolling, Deck, Within
  <2> QED
    BY <1>2, <1>3, <1>4, <2>1, <2>2, <2>3, <2>4 DEF Rolling, Deck
<1>7. Events'
  BY <1>1, <1>2, <1>3, <1>4, <1>5, EventsAnnounced, RollingNumbers
<1> QED
  BY <1>2, <1>3, <1>6, <1>7, LedgerSame, StageSame DEF Rolling, Rolled

LEMMA RepeatRolls ==
  ASSUME Rolling, Repeat
  PROVE  Rolled
<1> DEFINE c == native.current
<1>1. announced \in [Row -> 0..MaxStarts] /\ c \in Row
  BY DEF Rolling, Typed, SetType, OnAir
<1>2. Announce(c) /\ UNCHANGED <<queue, history, player, native, jobs, done, worker>>
  BY DEF Repeat, books, dispatch
<1>3. /\ announced' = [announced EXCEPT ![c] = bounds.starts + 1] /\ bounds'.rows = bounds.rows
      /\ wire' = Append(wire, c)
  BY <1>1, <1>2, AnnounceCounts DEF Rolling, Announce
<1>4. Deck'
  <2>1. \A r \in Row : announced'[r] # 0 <=> r <= c
    <3>1. \A r \in Row : r # c => announced'[r] = announced[r]
      BY <1>1, <1>3
    <3>2. announced'[c] # 0
      BY <1>1, <1>3, BoundNumbers DEF Rolling
    <3> QED
      BY <1>1, <3>1, <3>2, RowNumbers DEF Rolling, Deck
  <2> QED
    BY <1>2, <1>3, <2>1 DEF Rolling, Deck, Within
<1>5. Events'
  BY <1>1, <1>2, <1>3, EventsAnnounced, RollingNumbers
<1> QED
  BY <1>2, <1>3, <1>4, <1>5, LedgerSame, StageSame DEF Rolling, Rolled

\* What LoadNext chooses is not beyond the row after the one on the air.
LEMMA NextLine ==
  ASSUME Rolling, NEW at, at = FindLine(player.lines, native.current), at < Len(player.lines)
  PROVE  /\ at \in 1..Len(player.lines) /\ at + 1 \in 1..Len(player.lines)
         /\ player.lines[at + 1] <= native.current + 1
<1> DEFINE s == player.lines
           c == native.current
<1>1. s \in Seq(Row) /\ c \in ToSet(s) /\ Whole(s, player.last) /\ Within(s) /\ player.last <= c
  BY DEF Rolling, Typed, PlayerType, Deck
<1>2. /\ at \in 1..Len(s) /\ s[at] = c /\ Len(s) \in Nat
      /\ \A i \in 1..Len(s) : s[i] = c => at <= i
  BY <1>1, FindLineExact, InList
<1>3. at + 1 \in 1..Len(s) /\ s[at + 1] \in Row /\ s[at + 1] <= bounds.rows
  BY <1>1, <1>2, InList DEF Within
<1>4. ASSUME c + 1 < s[at + 1]
      PROVE  FALSE
  <2>0. c \in Nat /\ c \in Row /\ player.last \in Nat /\ s[at + 1] \in Nat /\ s[at + 1] <= MaxRow /\ MaxRow \in Nat
    BY <1>3, RollingNumbers, RowNumbers
  <2>1. c + 1 \in Row /\ c + 1 <= s[at + 1] /\ player.last <= c + 1
    <3> HIDE DEF s, c
    <3>1. c + 1 \in Nat /\ 1 <= c + 1 /\ c + 1 <= MaxRow /\ c + 1 <= s[at + 1] /\ player.last <= c + 1
      BY <1>1, <1>4, <2>0
    <3> QED
      BY <3>1, RowNumbers
  <2>2. PICK i \in 1..(at + 1) : s[i] = c + 1
    BY <1>1, <1>3, <2>1 DEF Whole
  <2>3. i # at + 1 /\ i # at
    <3> HIDE DEF s, c
    <3> QED
      BY <1>2, <1>4, <2>0, <2>2
  <2>4. i \in 1..Len(s) /\ i < at
    BY <1>2, <2>3
  <2>5. PICK j \in 1..i : s[j] = c
    <3>1. c <= s[i] /\ c \in Row
      BY <2>2, RollingNumbers
    <3> QED
      BY <1>1, <2>4, <3>1 DEF Whole
  <2>6. j \in 1..Len(s) /\ j < at
    BY <1>2, <2>4
  <2> QED
    BY <1>2, <2>5, <2>6
<1> QED
  BY <1>2, <1>3, <1>4, RollingNumbers, RowNumbers

LEMMA LoadRolls ==
  ASSUME Rolling, LoadNext
  PROVE  Rolled
<1> DEFINE c == native.current
           at == FindLine(player.lines, c)
           first == IF at # 0 /\ at < Len(player.lines)
                    THEN [next |-> player.lines[at + 1], lines |-> player.lines]
                    ELSE Recovered(player.lines, at, NoRow)
           choice == IF first.next # native.next THEN first
                     ELSE Recovered(first.lines, FindLine(first.lines, c), native.next)
           Sound(R) == /\ R.lines \in Seq(Row) /\ Followed(R.lines)
                       /\ R.next # NoRow => /\ R.next \in ToSet(R.lines) /\ R.next \in Row
                                            /\ R.next <= c + 1 /\ R.next <= bounds.rows
<1>1. /\ Typed /\ Ledger /\ c \in Row /\ player.last <= c /\ c <= bounds.rows
      /\ player.lines \in Seq(Row) /\ Followed(player.lines)
  BY DEF Rolling, OnAir, Deck, Followed, Typed, PlayerType
<1>2. /\ player' = [player EXCEPT !.lines = choice.lines]
      /\ native' = [native EXCEPT !.next = choice.next, !.live = TRUE]
      /\ choice.next # NoRow /\ ~native.live
      /\ UNCHANGED <<queue, history, wire, jobs, done, worker, announced, bounds>>
  BY DEF LoadNext, Loadable, books, dispatch
<1>3. Sound(first)
  <2>1. CASE at # 0 /\ at < Len(player.lines)
    <3>1. at + 1 \in 1..Len(player.lines) /\ player.lines[at + 1] <= c + 1
      BY <2>1, NextLine
    <3>2. player.lines[at + 1] \in Row /\ player.lines[at + 1] \in ToSet(player.lines)
      BY <1>1, <3>1, InList
    <3>3. player.lines[at + 1] <= bounds.rows
      BY <1>1, <3>1 DEF Followed, Within
    <3>4. first.next = player.lines[at + 1] /\ first.lines = player.lines
      BY <2>1
    <3> HIDE DEF first, at
    <3> QED
      BY <1>1, <3>1, <3>2, <3>3, <3>4
  <2>2. CASE ~(at # 0 /\ at < Len(player.lines))
    <3>1. NoRow \in Optional /\ NoRow <= c
      BY RollingNumbers, RowNumbers DEF Optional
    <3>2. Sound(Recovered(player.lines, at, NoRow))
      BY <1>1, <3>1, RecoveredFollowed
    <3>3. first = Recovered(player.lines, at, NoRow)
      BY <2>2
    <3> HIDE DEF first, at
    <3> QED
      BY <3>2, <3>3
  <2> QED
    BY <2>1, <2>2
<1> HIDE DEF first
<1>4. Sound(choice)
  <2> DEFINE second == Recovered(first.lines, FindLine(first.lines, c), native.next)
  <2>1. native.next \in Optional /\ native.next <= c
    BY <1>2, RollingNumbers DEF Rolling, Deck
  <2>2. Sound(second)
    BY <1>1, <1>3, <2>1, RecoveredFollowed
  <2>3. choice = first \/ choice = second
    OBVIOUS
  <2> HIDE DEF choice, second
  <2> QED
    BY <1>3, <2>2, <2>3
<1> HIDE DEF choice
<1>5. /\ player \in [enabled : BOOLEAN, lines : Seq(Row), last : Optional]
      /\ native \in [running : BOOLEAN, current : Optional, next : Optional, live : BOOLEAN]
  BY <1>1 DEF Typed, PlayerType, NativeType
<1>6. /\ player'.enabled = player.enabled /\ player'.lines = choice.lines /\ player'.last = player.last
      /\ native'.current = c /\ native'.next = choice.next /\ native'.live = TRUE
  BY <1>2, <1>5
<1>7. Deck'
  <2>1. native'.current \in ToSet(player'.lines) /\ Whole(player'.lines, player'.last)
    BY <1>4, <1>6 DEF Followed
  <2>2. Within(player.lines)'
    BY <1>2, <1>4, <1>6 DEF Followed, Within
  <2>3. choice.next \in ToSet(choice.lines) /\ choice.next <= c + 1 /\ choice.next <= bounds.rows
    BY <1>2, <1>4
  <2> QED
    BY <1>2, <1>6, <2>1, <2>2, <2>3 DEF Rolling, Deck
<1> QED
  BY <1>2, <1>6, <1>7, LedgerSame, EventsSame, StageSame DEF Rolling, Rolled

LEMMA TailFacts ==
  ASSUME NEW S, NEW s \in Seq(S), s # <<>>
  PROVE  /\ Len(s) \in Nat /\ 1 \in 1..Len(s) /\ Head(s) = s[1]
         /\ Tail(s) \in Seq(S) /\ Len(Tail(s)) = Len(s) - 1
         /\ \A i \in 1..(Len(s) - 1) : Tail(s)[i] = s[i + 1] /\ i + 1 \in 1..Len(s)
OBVIOUS

\* Deliver turns the first of the events into the last of the jobs, unless its
\* row waits already or was booked.
LEMMA DeliverRolls ==
  ASSUME Rolling, Deliver, ~More("dropped")
  PROVE  Rolled
<1> DEFINE n == Len(wire)
           m == Len(jobs)
           e == wire[1]
<1>1. /\ wire # <<>> /\ wire' = Tail(wire) /\ bounds' = bounds
      /\ UNCHANGED <<queue, history, player, native, done, worker, announced>>
      /\ \/ Head(wire) \in pending \cup done /\ jobs' = jobs
         \/ jobs' = Append(jobs, [row |-> Head(wire), attempt |-> 0])
  BY DEF Deliver, books
<1>2. wire \in Seq(Row) /\ jobs \in Seq(Job) /\ done \subseteq Row
  BY DEF Rolling, Typed, WireType, JobType, SetType, Job
<1>3. /\ n \in Nat /\ 1 \in 1..n /\ Head(wire) = e /\ Len(wire') = n - 1
      /\ \A j \in 1..(n - 1) : wire'[j] = wire[j + 1] /\ j + 1 \in 1..n
  BY <1>1, <1>2, TailFacts
<1>4. e \in Row /\ e \in Nat
  BY <1>3, RollingNumbers
<1>5. Events /\ OneJob
  BY DEF Rolling
<1>6. /\ \A i, j \in 1..n : i <= j => wire[i] <= wire[j]
      /\ \A i \in 1..m, j \in 1..n : jobs[i].row <= wire[j]
      /\ \A i, j \in 1..m : i <= j => jobs[i].row <= jobs[j].row
      /\ \A j \in 1..n : player.last <= wire[j] /\ worker.row <= wire[j] /\ wire[j] <= native.current
      /\ \A i \in 1..m : player.last <= jobs[i].row /\ worker.row <= jobs[i].row /\ jobs[i].row <= native.current
  BY <1>5 DEF Events
<1>7. ASSUME NEW r \in Row, player.last < r, r <= native.current
      PROVE  \/ worker.row = r
             \/ \E i \in 1..m : jobs[i].row = r
             \/ e = r
             \/ \E j \in 1..(n - 1) : wire'[j] = r
  <2>1. \/ worker.row = r
        \/ \E i \in 1..m : jobs[i].row = r
        \/ \E j \in 1..n : wire[j] = r
    BY <1>5, <1>7 DEF Events
  <2>2. ASSUME NEW j \in 1..n, wire[j] = r, j # 1
        PROVE  \E k \in 1..(n - 1) : wire'[k] = r
    <3>1. j - 1 \in 1..(n - 1) /\ (j - 1) + 1 = j
      BY <1>3, <2>2
    <3> QED
      BY <1>3, <2>2, <3>1
  <2> QED
    BY <2>1, <2>2
<1>8. /\ \A i, j \in 1..(n - 1) : i <= j => wire'[i] <= wire'[j]
      /\ \A j \in 1..(n - 1) : e <= wire'[j]
      /\ \A j \in 1..(n - 1) : player.last <= wire'[j] /\ worker.row <= wire'[j] /\ wire'[j] <= native.current
  <2> HIDE DEF n
  <2>1. \A j \in 1..(n - 1) : 1 <= j + 1
    BY <1>3
  <2>2. \A i, j \in 1..(n - 1) : i <= j => i + 1 <= j + 1
    BY <1>3
  <2> QED
    BY <1>3, <1>6, <2>1, <2>2
<1>9. m \in Nat /\ \A i \in 1..m, j \in 1..(n - 1) : jobs[i].row <= wire'[j]
  BY <1>2, <1>3, <1>6
<1>10. CASE e \in pending \cup done /\ jobs' = jobs
  <2>1. ASSUME NEW r \in Row, player.last < r, r <= native.current, r = e
        PROVE  worker.row = r \/ \E i \in 1..m : jobs[i].row = r
    <3>1. e \notin done
      BY <1>5, <2>1, RollingNumbers, RowNumbers DEF Events
    <3> QED
      BY <1>4, <1>5, <1>10, <2>1, <3>1 DEF OneJob
  <2>2. Events'
    <3> HIDE DEF n, m, e
    <3>1. m = Len(jobs') /\ n - 1 = Len(wire')
      BY <1>3, <1>10 DEF m
    <3>2. ASSUME NEW r \in Row, player.last < r, r <= native.current
          PROVE  \/ worker.row = r
                 \/ \E i \in 1..m : jobs[i].row = r
                 \/ \E j \in 1..(n - 1) : wire'[j] = r
      BY <1>7, <2>1, <3>2
    <3>3. /\ worker.row # NoRow => player.last <= worker.row /\ worker.row <= native.current
          /\ \A r \in done : r <= player.last
      BY <1>5 DEF Events
    <3> QED
      BY <1>1, <1>6, <1>8, <1>9, <1>10, <3>1, <3>2, <3>3 DEF Events
  <2> QED
    BY <1>1, <2>2, LedgerSame, DeckSame, StageSame DEF Rolling, Rolled
<1>11. CASE jobs' = Append(jobs, [row |-> e, attempt |-> 0])
  <2>1. [row |-> e, attempt |-> 0] \in Job
    BY <1>4, Numbers DEF Job
  <2>2. /\ Len(jobs') = m + 1 /\ \A i \in 1..m : jobs'[i] = jobs[i]
        /\ jobs'[m + 1] = [row |-> e, attempt |-> 0]
    BY <1>2, <1>11, <2>1, AppendJob
  <2>3. jobs'[m + 1].row = e
    BY <2>2
  <2>4. \A i \in 1..m : jobs[i].row <= e
    BY <1>3, <1>6
  <2>5. player.last <= e /\ worker.row <= e /\ e <= native.current
    BY <1>3, <1>6
  <2>6. Events'
    <3> HIDE DEF n, m, e
    <3>1. m + 1 = Len(jobs') /\ n - 1 = Len(wire') /\ m \in Nat
      BY <1>3, <1>9, <2>2
    <3>2. \A i \in 1..(m + 1) : jobs'[i].row = IF i <= m THEN jobs[i].row ELSE e
      BY <2>2, <2>3, <3>1
    <3>3. \A i, j \in 1..(m + 1) : i <= j => jobs'[i].row <= jobs'[j].row
      <4> SUFFICES ASSUME NEW i \in 1..(m + 1), NEW j \in 1..(m + 1), i <= j
                   PROVE  jobs'[i].row <= jobs'[j].row
        OBVIOUS
      <4>1. CASE j <= m
        <5>1. i \in 1..m /\ j \in 1..m /\ i <= m
          BY <3>1, <4>1
        <5> QED
          BY <1>6, <3>2, <4>1, <5>1
      <4>2. CASE ~(j <= m) /\ i <= m
        <5>1. i \in 1..m
          BY <3>1, <4>2
        <5> QED
          BY <2>4, <3>2, <4>2, <5>1
      <4>3. CASE ~(j <= m) /\ ~(i <= m)
        BY <1>4, <3>2, <4>3
      <4> QED
        BY <4>1, <4>2, <4>3
    <3>4. \A i \in 1..(m + 1), j \in 1..(n - 1) : jobs'[i].row <= wire'[j]
      BY <1>8, <1>9, <3>1, <3>2
    <3>5. \A i \in 1..(m + 1) : /\ player.last <= jobs'[i].row /\ worker.row <= jobs'[i].row
                                /\ jobs'[i].row <= native.current
      BY <1>6, <2>5, <3>1, <3>2
    <3>6. ASSUME NEW r \in Row, player.last < r, r <= native.current
          PROVE  \/ worker.row = r
                 \/ \E i \in 1..(m + 1) : jobs'[i].row = r
                 \/ \E j \in 1..(n - 1) : wire'[j] = r
      <4>1. m + 1 \in 1..(m + 1) /\ jobs'[m + 1].row = e
        BY <2>3, <3>1
      <4>2. \A i \in 1..m : i \in 1..(m + 1) /\ jobs'[i].row = jobs[i].row
        BY <3>1, <3>2
      <4> QED
        BY <1>7, <3>6, <4>1, <4>2
    <3>7. /\ worker.row # NoRow => player.last <= worker.row /\ worker.row <= native.current
          /\ \A r \in done : r <= player.last
      BY <1>5 DEF Events
    <3> QED
      BY <1>1, <1>8, <3>1, <3>3, <3>4, <3>5, <3>6, <3>7 DEF Events
  <2> QED
    BY <1>1, <2>6, LedgerSame, DeckSame, StageSame DEF Rolling, Rolled
<1> QED
  BY <1>1, <1>3, <1>10, <1>11

LEMMA TakeRolls ==
  ASSUME Rolling, TakeJob
  PROVE  Rolled
<1> DEFINE n == Len(wire)
           m == Len(jobs)
           e == jobs[1].row
<1>1. /\ worker = Idle /\ jobs # <<>> /\ jobs' = Tail(jobs)
      /\ worker' = [Idle EXCEPT !.at = "look", !.row = Head(jobs).row, !.attempt = Head(jobs).attempt]
      /\ UNCHANGED <<queue, history, player, native, wire, done, announced, bounds>>
  BY DEF TakeJob, books
<1>2. jobs \in Seq(Job)
  BY DEF Rolling, Typed, JobType, Job
<1>3. /\ m \in Nat /\ 1 \in 1..m /\ Head(jobs) = jobs[1] /\ Len(jobs') = m - 1
      /\ \A i \in 1..(m - 1) : jobs'[i] = jobs[i + 1] /\ i + 1 \in 1..m
  BY <1>1, <1>2, TailFacts
<1>4. worker.row = NoRow /\ worker'.row = e /\ worker'.at = "look"
  BY <1>1, <1>3 DEF Idle
<1>5. Events
  BY DEF Rolling
<1>6. /\ \A i, j \in 1..m : i <= j => jobs[i].row <= jobs[j].row
      /\ \A i \in 1..m, j \in 1..n : jobs[i].row <= wire[j]
      /\ \A i \in 1..m : player.last <= jobs[i].row /\ jobs[i].row <= native.current
  BY <1>5 DEF Events
<1>7. ASSUME NEW r \in Row, player.last < r, r <= native.current
      PROVE  \/ e = r
             \/ \E i \in 1..(m - 1) : jobs'[i].row = r
             \/ \E j \in 1..n : wire[j] = r
  <2>1. \/ \E i \in 1..m : jobs[i].row = r
        \/ \E j \in 1..n : wire[j] = r
    BY <1>4, <1>5, <1>7, Numbers DEF Events
  <2>2. ASSUME NEW i \in 1..m, jobs[i].row = r, i # 1
        PROVE  \E k \in 1..(m - 1) : jobs'[k].row = r
    <3>1. i - 1 \in 1..(m - 1) /\ (i - 1) + 1 = i
      BY <1>3, <2>2
    <3> QED
      BY <1>3, <2>2, <3>1
  <2> QED
    BY <2>1, <2>2
<1>8. /\ \A i, j \in 1..(m - 1) : i <= j => jobs'[i].row <= jobs'[j].row
      /\ \A i \in 1..(m - 1), j \in 1..n : jobs'[i].row <= wire[j]
      /\ \A i \in 1..(m - 1) : player.last <= jobs'[i].row /\ e <= jobs'[i].row /\ jobs'[i].row <= native.current
      /\ \A j \in 1..n : e <= wire[j]
      /\ player.last <= e /\ e <= native.current
  <2> HIDE DEF m, n
  <2>1. \A i \in 1..(m - 1) : 1 <= i + 1
    BY <1>3
  <2>2. \A i, j \in 1..(m - 1) : i <= j => i + 1 <= j + 1
    BY <1>3
  <2> QED
    BY <1>3, <1>6, <2>1, <2>2
<1>9. Events'
  <2>1. /\ \A i, j \in 1..n : i <= j => wire[i] <= wire[j]
        /\ \A j \in 1..n : player.last <= wire[j] /\ wire[j] <= native.current
        /\ \A r \in done : r <= player.last
    BY <1>5 DEF Events
  <2>2. m - 1 = Len(jobs') /\ n = Len(wire')
    BY <1>1, <1>3
  <2> HIDE DEF m, n, e
  <2> QED
    BY <1>1, <1>4, <1>7, <1>8, <2>1, <2>2 DEF Events
<1>10. Stage'
  BY <1>4 DEF Stage
<1> QED
  BY <1>1, <1>9, <1>10, LedgerSame, DeckSame DEF Rolling, Rolled

\* The worker goes on with its row, or is done with a row that was booked.
LEMMA EventsFinished ==
  ASSUME Rolling, worker.row = player.last, worker' = Idle, done' = done \cup {worker.row},
         wire' = wire, jobs' = jobs, player'.last = player.last, native'.current = native.current
  PROVE  Events' /\ Stage'
<1>1. worker'.row = NoRow /\ worker'.at = "idle"
  BY DEF Idle
<1>2. Stage'
  BY <1>1 DEF Stage
<1>3. NoRow = 0 /\ player.last \in Nat /\ \A r \in Row : r \in Nat
  BY RollingNumbers, RowNumbers
<1>4. /\ \A j \in 1..Len(wire) : NoRow <= wire[j]
      /\ \A i \in 1..Len(jobs) : NoRow <= jobs[i].row
  BY <1>3, RollingNumbers
<1>5. Events
  BY DEF Rolling
<1>6. \A r \in done' : r <= player.last
  BY <1>3, <1>5 DEF Events
<1>7. \A r \in Row : player.last < r => worker.row # r
  BY <1>3
<1> QED
  BY <1>1, <1>2, <1>4, <1>5, <1>6, <1>7 DEF Events

LEMMA ResolveExact ==
  ASSUME Rolling, worker.at = "resolve"
  PROVE  LineOf(worker.row) = worker.row /\ worker.row \in Row
<1> DEFINE r == worker.row
           s == player.lines
<1>1. r \in Row
  BY WorkerRow DEF Rolling
<1>2. player.last <= r /\ r <= native.current
  BY <1>1, Numbers DEF Rolling, Events
<1>3. s \in Seq(Row) /\ native.current \in ToSet(s) /\ Whole(s, player.last)
  BY DEF Rolling, Typed, PlayerType, Deck
<1>4. PICK k \in 1..Len(s) : s[k] = native.current
  BY <1>3, InList
<1>5. PICK i \in 1..k : s[i] = r
  BY <1>1, <1>2, <1>3, <1>4 DEF Whole
<1>6. i \in 1..Len(s) /\ Len(s) \in Nat
  BY <1>3, <1>4, <1>5
<1>7. r \in ToSet(s)
  BY <1>3, <1>5, <1>6, InList
<1>8. FindLine(s, r) \in 1..Len(s) /\ s[FindLine(s, r)] = r
  BY <1>3, <1>7, FindLineExact
<1>9. FindLine(s, r) # 0
  BY <1>6, <1>8
<1> QED
  BY <1>1, <1>8, <1>9 DEF LineOf

\* Steps that only move the worker on.
LEMMA StepsRoll ==
  ASSUME Rolling, Look \/ Resolve \/ Check \/ Show
  PROVE  Rolled
<1>1. worker \in [at : Doing, row : Optional, attempt : 0..RetryCount, line : Optional, held : BOOLEAN]
  BY DEF Rolling, Typed, WorkerType
<1>2. player.enabled /\ Stage
  BY DEF Rolling, Deck
<1>3. /\ worker'.row = worker.row /\ done' = done /\ Stage'
      /\ UNCHANGED <<queue, history, player, native, wire, jobs, announced, bounds>>
  <2>1. CASE Look
    BY <1>1, <1>2, <2>1 DEF Look, Goes, Stage, books
  <2>2. CASE Resolve
    BY <1>1, <1>2, <2>2, ResolveExact, Numbers DEF Resolve, Stage, books
  <2>3. CASE Check
    BY <1>1, <1>2, <2>3 DEF Check, Stage, books
  <2>4. CASE Show
    BY <1>1, <1>2, <2>4 DEF Show, Goes, Stage, books
  <2> QED
    BY <2>1, <2>2, <2>3, <2>4
<1> QED
  BY <1>3, LedgerSame, DeckSame, EventsSame DEF Rolling, Rolled

\* What is to be booked is the row after the last that was.
LEMMA CommitRolls ==
  ASSUME Rolling, Commit
  PROVE  Rolled
<1> DEFINE r == worker.row
           q == Chosen(queue, worker.line)
<1>1. /\ worker \in [at : Doing, row : Optional, attempt : 0..RetryCount, line : Optional, held : BOOLEAN]
      /\ worker.at = "commit" /\ UNCHANGED <<native, wire, jobs, announced, bounds>>
      /\ player \in [enabled : BOOLEAN, lines : Seq(Row), last : Optional]
  BY DEF Rolling, Typed, WorkerType, PlayerType, Commit
<1>2. worker.line = r /\ r \in Row
  BY <1>1, WorkerRow DEF Rolling, Stage
<1>3. Ledger /\ Deck /\ Events /\ Stage /\ queue \in Seq(Row)
  BY DEF Rolling, Typed, BookType
<1>4. player.last <= r /\ r <= native.current /\ native.current <= bounds.rows
  BY <1>2, <1>3, Numbers DEF Events, Deck
<1>5. CASE Committed
  <2>1. Again
    BY <1>5 DEF Commit
  <2>2. worker' = [worker EXCEPT !.at = "refill"] /\ UNCHANGED <<queue, history, player, done>>
    BY <2>1 DEF Again, Goes, books
  <2>3. worker'.row = r /\ worker'.line = r /\ worker'.at = "refill" /\ player.last = r
    BY <1>1, <1>2, <1>5, <2>2 DEF Committed
  <2>4. Stage'
    BY <2>2, <2>3 DEF Stage
  <2> QED
    BY <1>1, <1>3, <2>2, <2>3, <2>4, LedgerSame, DeckSame, EventsSame DEF Rolled
<1>6. CASE ~Committed
  <2>1. player.last < r /\ r <= bounds.rows
    BY <1>2, <1>4, <1>6, RollingNumbers DEF Committed
  <2>2. r \in ToSet(queue)
    BY <1>2, <1>3, <2>1 DEF Ledger
  <2>3. q = r /\ q # NoRow
    BY <1>2, <2>2, Numbers DEF Chosen
  <2>4. /\ queue' = RemoveFirst(queue, r) /\ history' = history \cup {[row |-> r, by |-> r]}
        /\ player' = [player EXCEPT !.last = r] /\ worker' = [worker EXCEPT !.at = "refill"] /\ done' = done
    BY <1>2, <1>6, <2>3 DEF Commit, Again, Goes
  <2>5. worker'.row = r /\ worker'.line = r /\ worker'.at = "refill" /\ player'.last = r
        /\ player'.enabled = player.enabled /\ player'.lines = player.lines
    BY <1>1, <1>2, <2>4
  <2>6. /\ player.last \in Nat /\ r \in Nat /\ bounds.rows \in Nat /\ bounds.rows <= MaxRow /\ native.current \in Nat
        /\ MaxRow \in Nat /\ \A p \in Row : p \in Nat
    BY RollingNumbers, RowNumbers
  <2>7. r = player.last + 1
    <3> SUFFICES ASSUME player.last + 1 < r
                 PROVE  FALSE
      BY <2>1, <2>6
    <3> DEFINE p == player.last + 1
    <3>1. p \in Nat /\ 1 <= p /\ p <= MaxRow /\ player.last < p /\ p <= native.current /\ p < r
      BY <1>4, <2>1, <2>6
    <3>2. p \in Row
      BY <3>1, RowNumbers
    <3> HIDE DEF p
    <3>3. \/ r = p
          \/ \E i \in 1..Len(jobs) : jobs[i].row = p
          \/ \E j \in 1..Len(wire) : wire[j] = p
      BY <1>3, <3>1, <3>2 DEF Events
    <3>4. /\ \A i \in 1..Len(jobs) : r <= jobs[i].row
          /\ \A j \in 1..Len(wire) : r <= wire[j]
      BY <1>3 DEF Events
    <3>5. r <= p
      BY <2>6, <3>3, <3>4
    <3> QED
      BY <2>6, <3>1, <3>5
  <2>8. Ledger'
    <3>1. Rising(queue') /\ ToSet(queue') = ToSet(queue) \ {r}
      BY <1>3, <2>4, RisingRemove DEF Ledger
    <3>2. \A p \in Row : p \in ToSet(queue') <=> r < p /\ p <= bounds.rows
      BY <1>3, <2>6, <2>7, <3>1 DEF Ledger
    <3>3. \A h \in history' : h.row = h.by
      BY <1>3, <2>4 DEF Ledger
    <3> QED
      BY <1>1, <2>5, <3>1, <3>2, <3>3 DEF Ledger
  <2>9. Deck'
    <3>1. Whole(player.lines, r)
      <4>1. \A p \in Row : r <= p => player.last <= p
        BY <2>1, <2>6
      <4> QED
        BY <1>3, <4>1 DEF Deck, Whole
    <3>2. Within(player.lines)'
      BY <1>1, <1>3, <2>5 DEF Deck, Within
    <3> QED
      BY <1>1, <1>3, <1>4, <2>5, <3>1, <3>2 DEF Deck
  <2>10. Events'
    <3>1. \A p \in done : p <= r
      <4>1. \A p \in done : p \in Nat /\ p <= player.last
        BY <1>3, <2>6 DEF Events, Rolling, Typed, SetType
      <4> QED
        BY <2>1, <2>6, <4>1
    <3>2. \A p \in Row : r < p => player.last < p
      BY <2>1, <2>6
    <3>3. r <= r
      BY <2>6
    <3> QED
      BY <1>1, <1>3, <1>4, <2>4, <2>5, <3>1, <3>2, <3>3 DEF Events
  <2>11. Stage'
    BY <2>5 DEF Stage
  <2> QED
    BY <2>8, <2>9, <2>10, <2>11 DEF Rolled
<1> QED
  BY <1>5, <1>6

LEMMA RefillRolls ==
  ASSUME Rolling, Refill
  PROVE  Rolled
<1>1. /\ worker \in [at : Doing, row : Optional, attempt : 0..RetryCount, line : Optional, held : BOOLEAN]
      /\ worker.at = "refill" /\ worker' = [worker EXCEPT !.at = "read"]
      /\ UNCHANGED <<history, player, native, wire, jobs, done, announced>>
      /\ \/ UNCHANGED <<queue, bounds>>
         \/ bounds.rows < MaxRow /\ queue' = Enqueued.q /\ bounds' = Enqueued.b
  BY DEF Rolling, Typed, WorkerType, Refill, Goes
<1>2. worker'.row = worker.row /\ worker'.line = worker.line /\ worker'.at = "read"
  BY <1>1
<1>3. Stage'
  BY <1>1, <1>2 DEF Rolling, Stage
<1>4. Events'
  BY <1>1, <1>2, EventsSame DEF Rolling
<1>5. Ledger' /\ Deck'
  <2>1. CASE UNCHANGED <<queue, bounds>>
    BY <1>1, <2>1, LedgerSame, DeckSame DEF Rolling
  <2>2. CASE bounds.rows < MaxRow /\ queue' = Enqueued.q /\ bounds' = Enqueued.b
    <3>1. player.last <= bounds.rows
      BY RollingNumbers DEF Rolling, Deck
    <3>2. Ledger'
      BY <1>1, <2>2, <3>1, LedgerEnqueued DEF Rolling
    <3>3. Deck'
      BY <1>1, <2>2, DeckGrown, CountsEnqueued DEF Rolling
    <3> QED
      BY <3>2, <3>3
  <2> QED
    BY <1>1, <2>1, <2>2
<1> QED
  BY <1>3, <1>4, <1>5 DEF Rolled

LEMMA ReadRolls ==
  ASSUME Rolling, ReadState
  PROVE  Rolled
<1>1. /\ worker \in [at : Doing, row : Optional, attempt : 0..RetryCount, line : Optional, held : BOOLEAN]
      /\ worker.at = "read" /\ UNCHANGED <<queue, history, player, native, wire, jobs, announced>>
      /\ Goes("show") \/ Finish
      /\ bounds' = bounds \/ More("unread")
  BY DEF Rolling, Typed, WorkerType, ReadState, Trouble, books
<1>2. bounds'.rows = bounds.rows
  BY <1>1, CountsMore DEF Rolling
<1>3. worker.line = worker.row /\ worker.row = player.last
  BY <1>1 DEF Rolling, Stage
<1>4. Events' /\ Stage'
  <2>1. CASE Goes("show")
    <3>1. worker'.row = worker.row /\ worker'.line = worker.line /\ worker'.at = "show" /\ done' = done
      BY <1>1, <2>1 DEF Goes
    <3>2. Stage'
      BY <1>1, <1>3, <3>1 DEF Stage
    <3> QED
      BY <1>1, <3>1, <3>2, EventsSame DEF Rolling
  <2>2. CASE Finish
    BY <1>1, <1>3, <2>2, EventsFinished DEF Finish
  <2> QED
    BY <1>1, <2>1, <2>2
<1> QED
  BY <1>1, <1>2, <1>4, LedgerSame, DeckSame DEF Rolling, Rolled

LEMMA RebuildRolls ==
  ASSUME Rolling, Rebuild
  PROVE  Rolled
<1> DEFINE r == worker.row
           s == <<r>>
           t == RemoveFirst(queue, r)
           c == native.current
<1>1. /\ player \in [enabled : BOOLEAN, lines : Seq(Row), last : Optional]
      /\ worker.at = "rebuild" /\ UNCHANGED <<queue, history, native, wire, jobs, announced, bounds>> /\ Finish
      /\ player' = [player EXCEPT !.enabled = TRUE, !.lines = <<worker.line>> \o RemoveFirst(queue, worker.line)]
      /\ queue \in Seq(Row)
  BY DEF Rolling, Typed, BookType, PlayerType, Rebuild, books
<1>2. worker.line = r /\ r = player.last /\ r \in Row
  BY <1>1, WorkerRow DEF Rolling, Stage
<1>3. player'.enabled = TRUE /\ player'.lines = s \o t /\ player'.last = player.last
  BY <1>1, <1>2
<1>4. Events' /\ Stage'
  BY <1>1, <1>2, <1>3, EventsFinished DEF Finish
<1>5. Ledger /\ Deck
  BY DEF Rolling
<1>6. t \in Seq(Row) /\ Rising(t) /\ ToSet(t) = ToSet(queue) \ {r}
  BY <1>1, <1>5, RisingRemove DEF Ledger
<1>7. /\ r \in Nat /\ c \in Row /\ c \in Nat /\ bounds.rows \in Nat /\ native.next \in Nat
      /\ native.next \in Optional /\ NoRow = 0
      /\ \A p \in Row : p \in Nat
  BY <1>2, RollingNumbers, RowNumbers
<1>8. \A p \in Row : p \in ToSet(t) <=> r < p /\ p <= bounds.rows
  BY <1>2, <1>5, <1>6, <1>7 DEF Ledger
<1>9. \A p \in ToSet(t) : p \in Row /\ p <= bounds.rows
  BY <1>6, <1>8, InList
<1>10. s \in Seq(Row) /\ ToSet(s) = {r} /\ Whole(s, r)
  <2>1. s \in Seq(Row) /\ Len(s) = 1 /\ s[1] = r
    BY <1>2
  <2>2. ToSet(s) = {r}
    BY <2>1 DEF ToSet
  <2>3. \A k \in 1..1, p \in Row : r <= p /\ p <= s[k] => p = r
    BY <1>7, <2>1
  <2>4. \A k \in 1..Len(s), p \in Row : r <= p /\ p <= s[k] => \E i \in 1..k : s[i] = p
    BY <2>1, <2>3
  <2> QED
    BY <2>1, <2>2, <2>4 DEF Whole
<1> HIDE DEF s, t
<1>11. r \in Optional /\ r <= r /\ r \in ToSet(s) /\ \A p \in Row : r < p /\ p <= bounds.rows => p \in ToSet(t)
  BY <1>2, <1>7, <1>8, <1>10 DEF Optional
<1>12. s \o t \in Seq(Row) /\ Whole(s \o t, r) /\ ToSet(s \o t) = {r} \cup ToSet(t)
  <2> DEFINE top == bounds.rows
  <2>1. top \in Nat /\ \A p \in Row : r < p /\ p <= top => p \in ToSet(t)
    BY <1>7, <1>11
  <2>2. \A p \in ToSet(t) : p <= top
    BY <1>9
  <2> HIDE DEF r, top
  <2>3. s \o t \in Seq(Row) /\ Whole(s \o t, r) /\ ToSet(s \o t) = ToSet(s) \cup ToSet(t)
    BY <1>2, <1>6, <1>10, <1>11, <2>1, <2>2, WholeJoined
  <2> QED
    BY <1>10, <2>3
<1>13. r <= c /\ c <= bounds.rows /\ native.next <= bounds.rows
  BY <1>2, <1>5 DEF Deck
<1>14. \A p \in Row : r <= p /\ p <= bounds.rows => p \in ToSet(s \o t)
  BY <1>7, <1>8, <1>12
<1>15. Deck'
  <2>1. c \in ToSet(s \o t)
    BY <1>7, <1>13, <1>14
  <2>2. c < native.next => native.next \in ToSet(s \o t)
    BY <1>7, <1>13, <1>14, RowNumbers
  <2>3. \A k \in 1..Len(s \o t) : (s \o t)[k] <= bounds.rows
    <3>1. \A p \in ToSet(s \o t) : p <= bounds.rows
      BY <1>7, <1>9, <1>12, <1>13
    <3> QED
      BY <1>12, <3>1, InList
  <2>4. Within(player.lines)'
    BY <1>1, <1>3, <2>3 DEF Within
  <2> QED
    BY <1>1, <1>2, <1>3, <1>5, <1>12, <2>1, <2>2, <2>4 DEF Deck
<1> QED
  BY <1>1, <1>3, <1>4, <1>5, <1>15, LedgerSame DEF Rolled

LEMMA OnAirRolls ==
  ASSUME Rolling, Next, Calm'
  PROVE  Rolled
<1>1. /\ Calm /\ ~Stop /\ ~Raise /\ ~(\E r \in Row : RemoveRow(r)) /\ ~More("dropped")
      /\ ~Service /\ ~Requeue
  BY CalmBefore, OnAirRests DEF Rolling, Stage, Requeue
<1>2. CASE Enqueue \/ StartNext \/ Repeat \/ LoadNext \/ Deliver
  BY <1>1, <1>2, EnqueueRolls, StartRolls, RepeatRolls, LoadRolls, DeliverRolls
<1>3. CASE Expire
  <2>1. UNCHANGED <<queue, history, player, native, wire, jobs, worker, announced, bounds>> /\ done' \subseteq done
    BY <1>3 DEF Expire, books
  <2> QED
    BY <2>1, LedgerSame, DeckSame, EventsSame, StageSame DEF Rolling, Rolled
<1>4. CASE Worker
  BY <1>1, <1>4, TakeRolls, StepsRoll, CommitRolls, RefillRolls, ReadRolls, RebuildRolls DEF Worker
<1> QED
  BY <1>1, <1>2, <1>3, <1>4 DEF Next

-----------------------------------------------------------------------------
(* The station is opened with the rows from 1 on. *)

\* A list with all rows before each of its own begins with row 1, and its second
\* is row 1 or 2.
LEMMA WholeBegins ==
  ASSUME NEW s \in Seq(Row), Whole(s, NoRow), s # <<>>
  PROVE  s[1] = 1 /\ (Len(s) > 1 => s[2] <= 2)
<1>1. Len(s) \in Nat /\ 1 \in 1..Len(s) /\ (Len(s) > 1 => 2 \in 1..Len(s))
  OBVIOUS
<1>2. \A k \in 1..Len(s) : s[k] \in Row /\ s[k] \in Nat /\ 1 <= s[k] /\ s[k] <= MaxRow
  BY InList, RowNumbers
<1>3. \A k \in 1..Len(s), r \in Row : r <= s[k] => \E i \in 1..k : s[i] = r
  BY RowNumbers DEF Whole
<1>4. 1 \in Row
  <2>1. 1 <= MaxRow
    BY <1>1, <1>2, RowNumbers
  <2> QED
    BY <2>1, RowNumbers
<1>5. s[1] = 1
  <2>1. \E i \in 1..1 : s[i] = 1
    BY <1>1, <1>2, <1>3, <1>4
  <2> QED
    BY <2>1
<1>6. ASSUME Len(s) > 1, 2 < s[2]
      PROVE  FALSE
  <2>1. 2 \in 1..Len(s) /\ s[2] \in Nat /\ s[2] <= MaxRow
    BY <1>1, <1>2, <1>6
  <2>2. 2 \in Row
    <3>1. 2 <= MaxRow
      BY <1>6, <2>1, RowNumbers
    <3> QED
      BY <3>1, RowNumbers
  <2>3. 2 <= s[2]
    BY <1>6, <2>1
  <2>4. PICK i \in 1..2 : s[i] = 2
    BY <1>3, <2>1, <2>2, <2>3
  <2>5. i = 1 \/ i = 2
    OBVIOUS
  <2> QED
    BY <1>5, <1>6, <2>1, <2>4, <2>5
<1> QED
  BY <1>1, <1>2, <1>5, <1>6

LEMMA QueueWhole ==
  ASSUME Typed, Ledger, player.last = NoRow
  PROVE  Whole(queue, NoRow) /\ Within(queue)
<1>1. queue \in Seq(Row) /\ Len(queue) \in Nat /\ bounds.rows \in Nat /\ \A r \in Row : r \in Nat /\ NoRow < r
  BY BoundNumbers, RowNumbers, InList DEF Typed, BookType
<1>2. \A k \in 1..Len(queue) : queue[k] \in Row /\ queue[k] \in Nat /\ queue[k] <= bounds.rows
  BY <1>1, InList DEF Ledger
<1>3. ASSUME NEW k \in 1..Len(queue), NEW r \in Row, r <= queue[k]
      PROVE  \E i \in 1..k : queue[i] = r
  <2>1. r \in ToSet(queue)
    <3>1. r <= bounds.rows
      BY <1>1, <1>2, <1>3
    <3> QED
      BY <1>1, <3>1 DEF Ledger
  <2>2. PICK i \in 1..Len(queue) : queue[i] = r
    BY <1>1, <2>1, InList
  <2>3. ~(k < i)
    <3>1. k < i => queue[k] < queue[i]
      BY DEF Ledger, Rising
    <3> QED
      BY <1>1, <1>2, <1>3, <2>2, <3>1
  <2>4. i \in 1..k
    BY <1>1, <2>2, <2>3
  <2> QED
    BY <2>2, <2>4
<1> QED
  BY <1>2, <1>3 DEF Whole, Within

LEMMA OpenedKept ==
  ASSUME Typed, Stamped, Ledger, Opening, Opened, Next, Calm', ~Select
  PROVE  Ledger' /\ Opened'
<1>1. /\ ~Stop /\ ~Raise /\ ~(\E r \in Row : RemoveRow(r)) /\ ~Worker /\ ~Deliver
      /\ ~StopEngine /\ ~StopFinalize /\ ~ClearNowPlaying /\ ~StartNext /\ ~Repeat /\ ~LoadNext
  BY CalmBefore, OpeningRests
<1>2. /\ player \in [enabled : BOOLEAN, lines : Seq(Row), last : Optional]
      /\ native \in [running : BOOLEAN, current : Optional, next : Optional, live : BOOLEAN]
      /\ service \in [at : {"idle", "bootstrap", "select", "engine", "finalize", "clear"}, plan : Seq(Row)]
      /\ service.at \in {"bootstrap", "select"} => service.plan # <<>>
  BY DEF Typed, PlayerType, NativeType, ServiceType
<1>3. ~Expire
  BY DEF Expire, Opened
<1>4. CASE Enqueue
  <2>1. /\ bounds.rows < MaxRow /\ queue' = Enqueued.q /\ bounds' = Enqueued.b
        /\ UNCHANGED <<history, player, native, done, service>>
    BY <1>4 DEF Enqueue, dispatch
  <2>2. bounds'.rows = bounds.rows + 1 /\ bounds.rows \in Nat /\ NoRow = 0 /\ native.next \in Nat
    BY <1>2, <2>1, CountsEnqueued, BoundNumbers, RowNumbers
  <2>3. player.last <= bounds.rows
    BY <2>2 DEF Opened
  <2>4. Ledger'
    BY <2>1, <2>3, LedgerEnqueued
  <2>5. Within(service.plan) => Within(service.plan)'
    <3>1. \A k \in 1..Len(service.plan) : service.plan[k] \in Nat
      BY <1>2, InList, RowNumbers
    <3>2. Within(service.plan) => \A k \in 1..Len(service.plan) : service.plan[k] <= bounds.rows + 1
      BY <2>2, <3>1 DEF Within
    <3> QED
      BY <2>1, <2>2, <3>2 DEF Within
  <2>6. native.next <= bounds.rows => native.next <= bounds'.rows
    BY <2>2
  <2> QED
    BY <2>1, <2>4, <2>5, <2>6 DEF Opened
<1>5. CASE StartEngine
  <2>1. /\ service' = [at |-> "bootstrap", plan |-> queue]
        /\ UNCHANGED <<queue, history, player, done, bounds>>
    BY <1>5 DEF StartEngine, books, dispatch
  <2>2. Whole(queue, NoRow) /\ Within(queue)
    BY QueueWhole DEF Opened
  <2>3. Within(service.plan)'
    BY <2>1, <2>2 DEF Within
  <2> QED
    BY <2>1, <2>2, <2>3, LedgerSame DEF Opened
<1>6. CASE Bootstrap
  <2> DEFINE s == service.plan
             x == IF Len(s) > 1 THEN s[2] ELSE NoRow
  <2>1. /\ service.at = "bootstrap" /\ service' = [service EXCEPT !.at = "select"]
        /\ player' = [enabled |-> TRUE, lines |-> s, last |-> NoRow]
        /\ \E r : native' = [native EXCEPT !.current = r, !.live = Len(s) > 1, !.next = x]
        /\ UNCHANGED <<queue, history, done, bounds>>
    BY <1>6 DEF Bootstrap, Moves, books, dispatch
  <2>2. s \in Seq(Row) /\ Whole(s, NoRow) /\ Within(s) /\ s # <<>>
    BY <1>2, <2>1 DEF Opened
  <2>3. service'.at = "select" /\ service'.plan = s
    BY <1>2, <2>1
  <2> HIDE DEF s
  <2>4. Len(s) \in Nat /\ (Len(s) > 1 => 2 \in 1..Len(s) /\ s[2] \in ToSet(s) /\ s[2] <= 2 /\ s[2] <= bounds.rows)
    <3>1. Len(s) \in Nat /\ (Len(s) > 1 => 2 \in 1..Len(s))
      BY <2>2
    <3> QED
      BY <2>2, <3>1, WholeBegins, InList DEF Within
  <2>5. x <= 2 /\ x <= bounds.rows /\ (Len(s) > 1 => x \in ToSet(s)) /\ (~(Len(s) > 1) => x = NoRow)
    BY <2>4, BoundNumbers, RowNumbers
  <2> HIDE DEF x
  <2>6. native'.next = x /\ native'.live = (Len(s) > 1)
    BY <1>2, <2>1
  <2>7. Within(service.plan)'
    BY <2>1, <2>2, <2>3 DEF Within
  <2>8. Ledger'
    BY <2>1, LedgerSame DEF Opened
  <2> QED
    BY <2>1, <2>2, <2>3, <2>5, <2>6, <2>7, <2>8 DEF Opened
<1>7. CASE BootstrapFails
  <2>1. /\ service' = NoPlan /\ player' = [player EXCEPT !.enabled = FALSE]
        /\ UNCHANGED <<queue, history, done, bounds>>
    BY <1>7 DEF BootstrapFails, books, dispatch
  <2>2. player'.last = player.last
    BY <1>2, <2>1
  <2> QED
    BY <2>1, <2>2, LedgerSame DEF Opened, NoPlan
<1> QED
  BY <1>1, <1>3, <1>4, <1>5, <1>6, <1>7 DEF Next, Service

LEMMA SelectOpens ==
  ASSUME Typed, Stamped, Ledger, Opening, Opened, Select
  PROVE  Ledger' /\ Flowing'
<1> DEFINE s == service.plan
<1>1. /\ service.at = "select" /\ native' = [native EXCEPT !.current = s[1]] /\ Announce(s[1])
      /\ UNCHANGED <<queue, history, player, jobs, done, worker>>
  BY DEF Select, books, dispatch
<1>2. /\ s \in Seq(Row) /\ s # <<>> /\ native.next \in Optional /\ player.lines \in Seq(Row)
      /\ native \in [running : BOOLEAN, current : Optional, next : Optional, live : BOOLEAN]
      /\ announced \in [Row -> 0..MaxStarts]
  BY <1>1 DEF Typed, ServiceType, NativeType, PlayerType, SetType
<1>3. /\ Whole(s, NoRow) /\ Within(s) /\ player.enabled /\ player.lines = s /\ player.last = NoRow /\ done = {}
      /\ native.next <= 2 /\ native.next <= bounds.rows
      /\ native.live => native.next \in ToSet(s)
      /\ ~native.live => native.next = NoRow
  BY <1>1 DEF Opened
<1>4. wire = <<>> /\ jobs = <<>> /\ worker = Idle /\ bounds.starts = 0
  BY DEF Opening
<1> HIDE DEF s
<1>5. s[1] = 1 /\ 1 \in 1..Len(s) /\ s[1] \in Row /\ s[1] \in ToSet(s)
  <2>1. 1 \in 1..Len(s)
    BY <1>2
  <2> QED
    BY <1>2, <1>3, <2>1, WholeBegins, InList
<1>6. 1 \in Row /\ NoRow = 0 /\ native.next \in Nat /\ \A r \in Row : r \in Nat /\ 1 <= r
  BY <1>2, <1>5, RowNumbers
<1>7. /\ announced' = [announced EXCEPT ![1] = bounds.starts + 1] /\ bounds'.rows = bounds.rows
      /\ wire' = Append(wire, 1)
  BY <1>1, <1>5, <1>6, AnnounceCounts DEF Announce
<1>8. \A r \in Row : announced'[r] # 0 <=> r <= 1
  <2>1. \A r \in Row : announced[r] = 0
    <3>1. \A r \in Row : announced[r] \in Nat /\ announced[r] <= 0
      BY <1>2, <1>4, Numbers DEF Stamped
    <3> QED
      BY <3>1
  <2>2. announced'[1] = 1 /\ \A r \in Row : r # 1 => announced'[r] = 0
    BY <1>2, <1>4, <1>6, <1>7, <2>1
  <2> QED
    BY <1>6, <2>2
<1>9. native'.current = 1 /\ native'.next = native.next /\ native'.live = native.live
  BY <1>1, <1>2, <1>5
<1>10. 1 <= bounds.rows
  BY <1>3, <1>5 DEF Within
<1>11. Deck'
  <2>1. Within(player.lines)'
    BY <1>1, <1>3, <1>7 DEF Within
  <2>2. native.next <= 1 + 1 /\ (~native.live => native.next <= 1) /\ NoRow <= 1
    BY <1>3, <1>6
  <2> QED
    BY <1>1, <1>3, <1>5, <1>7, <1>8, <1>9, <1>10, <2>1, <2>2 DEF Deck
<1>12. Events'
  <2>1. wire' = <<1>>
    BY <1>4, <1>7
  <2>2. Len(wire') = 1 /\ wire'[1] = 1 /\ Len(jobs') = 0
    BY <1>1, <1>4, <2>1
  <2>3. worker'.row = 0 /\ player'.last = 0 /\ done' = {}
    BY <1>1, <1>3, <1>4, <1>6 DEF Idle
  <2>4. /\ \A i, j \in 1..1 : wire'[i] <= wire'[j]
        /\ \A j \in 1..1 : 0 <= wire'[j] /\ wire'[j] <= 1
        /\ \A i \in 1..0 : FALSE
    BY <2>2
  <2>5. \A r \in Row : r <= 1 => \E j \in 1..1 : wire'[j] = r
    BY <1>6, <2>2
  <2> QED
    BY <1>6, <1>9, <2>2, <2>3, <2>4, <2>5 DEF Events
<1>13. Stage'
  BY <1>1, <1>4 DEF Stage, Idle
<1>14. Ledger'
  BY <1>1, <1>7, LedgerSame
<1> QED
  BY <1>11, <1>12, <1>13, <1>14 DEF Flowing

LEMMA FlowKept ==
  ASSUME ForwardInv, Flow, Next
  PROVE  Flow'
<1> SUFFICES ASSUME Calm'
             PROVE  Ledger' /\ ((Opening /\ Opened)' \/ (OnAir /\ Flowing)')
  BY DEF Flow
<1>1. Typed /\ OneJob /\ Stamped
  BY TypeParts DEF ForwardInv, Inv, Typed
<1>2. Calm /\ bounds'.stops = 0
  BY <1>1, CalmBefore
<1>3. CASE Opening /\ Opened /\ Select
  BY <1>1, <1>2, <1>3, SelectOpens, Opens DEF Flow
<1>4. CASE Opening /\ Opened /\ ~Select
  BY <1>1, <1>2, <1>4, OpenedKept, Opens DEF Flow
<1>5. CASE OnAir /\ Flowing
  <2>1. Rolling
    BY <1>1, <1>2, <1>5 DEF Rolling, Flow, Flowing
  <2>2. Rolled
    BY <2>1, OnAirRolls
  <2>3. OnAir'
    BY <1>1, <1>2, <1>5, StaysOnAir
  <2> QED
    BY <2>2, <2>3 DEF Rolled, Flowing
<1> QED
  BY <1>2, <1>3, <1>4, <1>5 DEF Flow

LEMMA FlowStarts ==
  ASSUME Init
  PROVE  Flow
<1>1. PICK n \in 0..MaxRow :
        /\ queue = [i \in 1..n |-> i]
        /\ bounds = [rows |-> n, starts |-> 0, replays |-> 0, failures |-> 0, stops |-> 0,
                     removals |-> 0, unread |-> 0, dropped |-> 0]
  BY DEF Init
<1>2. /\ history = {} /\ player.last = NoRow /\ done = {} /\ service = NoPlan
      /\ wire = <<>> /\ jobs = <<>> /\ worker = Idle /\ now = Nothing /\ native.running = FALSE
  BY DEF Init
<1>3. Len(queue) = n /\ n \in Nat /\ bounds.rows = n /\ \A i \in 1..n : queue[i] = i
  BY <1>1, RowNumbers
<1>4. Rising(queue)
  BY <1>3 DEF Rising
<1>5. \A r \in Row : r \in ToSet(queue) <=> NoRow < r /\ r <= n
  <2>1. DOMAIN queue = 1..n
    BY <1>1
  <2>2. ToSet(queue) = 1..n
    BY <1>3, <2>1 DEF ToSet
  <2> QED
    BY <1>3, <2>2, RowNumbers
<1>6. Opening /\ Opened
  BY <1>1, <1>2 DEF Opening, Opened, NoPlan
<1> QED
  BY <1>2, <1>3, <1>4, <1>5, <1>6 DEF Flow, Ledger

\* A start books its own row and no other, whatever rows hold the same track and
\* however far the worker is behind, while every event is handled at its first
\* attempt and no row is replayed (the contract of
\* _process_native_track_started_event).
THEOREM StartsBookThemselves == Spec => []StartCommitsItself
<1>1. Init => OrderInv
  BY InitTyped, ForwardStarts, FlowStarts DEF OrderInv, ForwardInv
<1>2. OrderInv /\ [Next]_vars => OrderInv'
  <2> SUFFICES ASSUME OrderInv, [Next]_vars
               PROVE  OrderInv'
    OBVIOUS
  <2>1. ForwardInv'
    BY ForwardStep DEF OrderInv
  <2>2. CASE Next
    BY <2>1, <2>2, FlowKept DEF OrderInv
  <2>3. CASE UNCHANGED vars
    <3>1. Flow'
      BY <2>3 DEF OrderInv, Flow, Calm, Ledger, Opening, Opened, OnAir, Flowing, Deck, Events, Stage, Within,
         vars, books, dispatch
    <3> QED
      BY <2>1, <3>1 DEF OrderInv
  <2> QED
    BY <2>2, <2>3
<1>3. OrderInv => StartCommitsItself
  BY DEF OrderInv, Flow, Calm, Ledger, StartCommitsItself, HistoryFollowsEvent
<1> QED
  BY <1>1, <1>2, <1>3, PTL DEF Spec
=============================================================================
