-------------------------- MODULE ManualNext_proofs --------------------------
(***************************************************************************)
(* Theorems about ManualNext, for any number of threads, requests and      *)
(* rows: a station has one serving thread, its requests are served in      *)
(* their order and within max_pending, a skipped script leaves no row, and *)
(* a request is committed by the start of the row it reserved.             *)
(***************************************************************************)
EXTENDS ManualNext, SequencesExt, SequenceTheorems, WellFoundedInduction, FiniteSetTheorems, TLAPS

(* What RemoveFirst and Append make of a queue *)

\* A set of naturals has a least element.
LEMMA LeastOfNat ==
  ASSUME NEW I \in SUBSET Nat, I # {}
  PROVE  \E m \in I : \A i \in I : m <= i
<1> DEFINE R == OpToRel(<, Nat)
<1>1. R = {p \in Nat \X Nat : p[1] < p[2]}
  BY DEF OpToRel
<1>2. PICK m \in I : \A i \in I : <<i, m>> \notin R
  BY NatLessThanWellFounded, WFMin
<1> HIDE DEF R
<1>3. \A i \in I : ~(i < m)
  BY <1>1, <1>2
<1> QED
  BY <1>3

\* What is in a queue with e at the end.
LEMMA AppendFacts ==
  ASSUME NEW S, NEW s \in Seq(S), NEW e \in S
  PROVE  /\ Append(s, e) \in Seq(S) /\ Len(Append(s, e)) = Len(s) + 1
         /\ ToSet(Append(s, e)) = ToSet(s) \cup {e}
         /\ \A i \in 1..(Len(s) + 1) : Append(s, e)[i] = IF i <= Len(s) THEN s[i] ELSE e
<1> DEFINE t == Append(s, e)
<1>1. /\ t \in Seq(S) /\ Len(t) = Len(s) + 1 /\ Len(s) \in Nat
      /\ \A i \in 1..(Len(s) + 1) : t[i] = IF i <= Len(s) THEN s[i] ELSE e
  OBVIOUS
<1> HIDE DEF t
<1>2. 1..(Len(s) + 1) = 1..Len(s) \cup {Len(s) + 1}
  BY <1>1
<1>3. t[Len(s) + 1] = e /\ \A i \in 1..Len(s) : t[i] = s[i]
  BY <1>1
<1>4. ToSet(t) = ToSet(s) \cup {e}
  BY <1>1, <1>2, <1>3 DEF ToSet
<1> QED
  BY <1>1, <1>4 DEF t

\* The place that RemoveFirst takes out, the first that holds e.
LEMMA RemovedPlace ==
  ASSUME NEW S, NEW s \in Seq(S), NEW e \in ToSet(s)
  PROVE  \E k \in 1..Len(s) :
           /\ s[k] = e /\ \A i \in 1..Len(s) : s[i] = e => k <= i
           /\ RemoveFirst(s, e) \in Seq(S) /\ Len(RemoveFirst(s, e)) = Len(s) - 1
           /\ \A i \in 1..(Len(s) - 1) : RemoveFirst(s, e)[i] = IF i < k THEN s[i] ELSE s[i + 1]
<1> DEFINE I == {i \in 1..Len(s) : s[i] = e}
           k == Min(I)
           a == SubSeq(s, 1, k - 1)
           b == SubSeq(s, k + 1, Len(s))
<1>1. I # {} /\ I \in SUBSET Nat /\ Len(s) \in Nat
  BY DEF ToSet
<1>2. k \in I /\ \A i \in I : k <= i
  BY <1>1, LeastOfNat DEF Min
<1>3. RemoveFirst(s, e) = a \o b
  BY <1>1 DEF RemoveFirst, RemoveAt, SelectInSeq
<1> HIDE DEF k
<1>4. /\ a \in Seq(S) /\ Len(a) = k - 1 /\ \A i \in 1..(k - 1) : a[i] = s[i]
      /\ b \in Seq(S) /\ Len(b) = Len(s) - k /\ \A i \in 1..(Len(s) - k) : b[i] = s[k + i]
  BY <1>2
<1> HIDE DEF a, b
<1>5. k \in 1..Len(s) /\ s[k] = e /\ \A i \in 1..Len(s) : s[i] = e => k <= i
  BY <1>2
<1>6. /\ a \o b \in Seq(S) /\ Len(a \o b) = Len(a) + Len(b)
      /\ \A i \in 1..(Len(a) + Len(b)) : (a \o b)[i] = IF i <= Len(a) THEN a[i] ELSE b[i - Len(a)]
  BY <1>4, ConcatProperties
<1>7. \A i \in 1..(Len(s) - 1) : (a \o b)[i] = IF i < k THEN s[i] ELSE s[i + 1]
  BY <1>1, <1>4, <1>5, <1>6
<1>8. Len(a \o b) = Len(s) - 1
  BY <1>1, <1>4, <1>5, <1>6
<1> QED
  BY <1>3, <1>5, <1>6, <1>7, <1>8

\* What is in a queue without its first e.
LEMMA RemoveFirstFacts ==
  ASSUME NEW S, NEW s \in Seq(S), NEW e
  PROVE  /\ RemoveFirst(s, e) \in Seq(S)
         /\ ToSet(RemoveFirst(s, e)) \subseteq ToSet(s)
         /\ ToSet(s) \ {e} \subseteq ToSet(RemoveFirst(s, e))
         /\ e \in ToSet(s) => Len(RemoveFirst(s, e)) = Len(s) - 1
         /\ e \notin ToSet(s) => RemoveFirst(s, e) = s
<1>1. CASE e \notin ToSet(s)
  <2>1. ~ \E i \in 1..Len(s) : s[i] = e
    BY <1>1 DEF ToSet
  <2> QED
    BY <1>1, <2>1 DEF RemoveFirst
<1>2. CASE e \in ToSet(s)
  <2> DEFINE q == RemoveFirst(s, e)
  <2> HIDE DEF q
  <2>1. PICK k \in 1..Len(s) :
           /\ s[k] = e /\ \A i \in 1..Len(s) : s[i] = e => k <= i
           /\ q \in Seq(S) /\ Len(q) = Len(s) - 1
           /\ \A i \in 1..(Len(s) - 1) : q[i] = IF i < k THEN s[i] ELSE s[i + 1]
    BY <1>2, RemovedPlace, Zenon DEF q
  <2>2. ToSet(q) \subseteq ToSet(s)
    BY <2>1 DEF ToSet
  <2>3. ASSUME NEW i \in 1..Len(s), s[i] # e
        PROVE  s[i] \in ToSet(q)
    <3>1. IF i < k THEN i \in 1..Len(q) /\ q[i] = s[i] ELSE i - 1 \in 1..Len(q) /\ q[i - 1] = s[i]
      BY <2>1, <2>3
    <3> QED
      BY <3>1 DEF ToSet
  <2>4. ToSet(s) \ {e} \subseteq ToSet(q)
    BY <2>3 DEF ToSet
  <2> QED
    BY <1>2, <2>1, <2>2, <2>4 DEF q
<1> QED
  BY <1>1, <1>2

\* A queue that names no row twice has no e left, and names none twice.
LEMMA RemoveFirstInjective ==
  ASSUME NEW S, NEW s \in Seq(S), IsInjective(s), NEW e
  PROVE  IsInjective(RemoveFirst(s, e)) /\ e \notin ToSet(RemoveFirst(s, e))
<1>1. CASE e \notin ToSet(s)
  BY <1>1, RemoveFirstFacts
<1>2. CASE e \in ToSet(s)
  <2> DEFINE q == RemoveFirst(s, e)
             at(i, k) == IF i < k THEN i ELSE i + 1
  <2> HIDE DEF q
  <2>1. PICK k \in 1..Len(s) :
           /\ s[k] = e /\ \A i \in 1..Len(s) : s[i] = e => k <= i
           /\ q \in Seq(S) /\ Len(q) = Len(s) - 1
           /\ \A i \in 1..(Len(s) - 1) : q[i] = IF i < k THEN s[i] ELSE s[i + 1]
    BY <1>2, RemovedPlace, Zenon DEF q
  <2>2. \A i, j \in 1..Len(s) : s[i] = s[j] => i = j
    BY DEF IsInjective
  <2>3. \A i \in 1..Len(q) : at(i, k) \in 1..Len(s) /\ q[i] = s[at(i, k)] /\ at(i, k) # k
    BY <2>1
  <2>4. \A i, j \in 1..Len(q) : at(i, k) = at(j, k) => i = j
    BY <2>1
  <2> HIDE DEF at
  <2>5. \A i, j \in 1..Len(q) : q[i] = q[j] => i = j
    BY <2>2, <2>3, <2>4
  <2>6. \A i \in 1..Len(q) : q[i] # e
    BY <2>1, <2>2, <2>3
  <2> QED
    BY <2>1, <2>5, <2>6 DEF IsInjective, ToSet, q
<1> QED
  BY <1>1, <1>2

\* Taking the head out leaves the tail.
LEMMA RemoveHead ==
  ASSUME NEW S, NEW s \in Seq(S), s # <<>>
  PROVE  /\ Head(s) \in S /\ Head(s) = s[1] /\ Head(s) \in ToSet(s)
         /\ RemoveFirst(s, Head(s)) \in Seq(S)
         /\ Len(RemoveFirst(s, Head(s))) = Len(s) - 1
         /\ \A i \in 1..(Len(s) - 1) : RemoveFirst(s, Head(s))[i] = s[i + 1]
<1> DEFINE e == Head(s)
           q == RemoveFirst(s, e)
<1>1. e \in S /\ e = s[1] /\ 1 \in 1..Len(s) /\ e \in ToSet(s)
  BY DEF ToSet
<1> HIDE DEF e, q
<1>2. PICK k \in 1..Len(s) :
         /\ s[k] = e /\ \A i \in 1..Len(s) : s[i] = e => k <= i
         /\ q \in Seq(S) /\ Len(q) = Len(s) - 1
         /\ \A i \in 1..(Len(s) - 1) : q[i] = IF i < k THEN s[i] ELSE s[i + 1]
  BY <1>1, RemovedPlace, Zenon DEF q
<1>3. k = 1
  BY <1>1, <1>2
<1> QED
  BY <1>1, <1>2, <1>3 DEF e, q

(* The parts of TypeOK. *)

StateType ==
  state \in [pending : Seq(Request), processing : BOOLEAN, target : Row \cup {None}, last : Row \cup {None}]
ThreadType ==
  thread \in [Worker -> [at : Place, id : Request \cup {None}, target : Row \cup {None}, live : Row \cup {None}]]
BookType ==
  /\ workers \in Worker \cup {None}
  /\ request \in [Request -> [source : Source, guarded : Row \cup {None}]]
  /\ outcome \in [Request -> Ended \cup {"none", "accepted", "serving"}]
  /\ seq \in 0..MaxRequests
QueueType == queue \in Seq(Row) /\ IsInjective(queue)
AirType ==
  /\ starts \in Seq(Row) /\ fresh \in BOOLEAN
  /\ native \in [running : BOOLEAN, live : Row \cup {None}, heard : BOOLEAN, moving : Row \cup {None}]

(* What the theorems need besides. *)

Busy == {"check", "plan", "look", "reserve", "present", "recheck", "hand_off", "wait"}
Holding == {"present", "recheck", "hand_off", "wait"}

\* _workers names the thread that serves, if one does; a request is in its hands
\* exactly while it is served.
Hands ==
  /\ \A w \in Worker : thread[w].at \notin {"none", "leaving"} <=> workers = w
  /\ \A w \in Worker : thread[w].at \in Busy <=> thread[w].id # None
  /\ \A w \in Worker : thread[w].at \in Busy => outcome[thread[w].id] = "serving" /\ state.processing
  /\ \A r \in Request : outcome[r] = "serving" => \E w \in Worker : thread[w].id = r

\* The pending requests are the accepted ones, in their order and no more than
\* max_pending with the one in execution.
Waiting ==
  /\ \A r \in Request : outcome[r] = "accepted" <=> r \in ToSet(state.pending)
  /\ \A i \in 1..Len(state.pending), j \in 1..Len(state.pending) : i < j => state.pending[i] < state.pending[j]
  /\ \A r \in Request : r > seq => outcome[r] = "none"
  /\ Outstanding <= MaxPending

\* A thread that reserved its target finds it reserved, and marked only by a
\* start that was committed since.
Reservation ==
  \A w \in Worker :
    /\ thread[w].at \in {"look", "reserve"} \cup Holding => thread[w].target # None
    /\ thread[w].at \in Holding =>
         state.target = thread[w].target /\ (state.last = thread[w].target => fresh)

Inv == TypeOK /\ seq \in 0..MaxRequests /\ Hands /\ Waiting /\ InOrder /\ Reservation /\ SkippedLeavesNoRow
Books == StateType /\ ThreadType /\ BookType /\ Hands /\ Waiting /\ InOrder /\ Reservation

LEMMA TypeParts ==
  TypeOK /\ seq \in 0..MaxRequests <=> StateType /\ ThreadType /\ BookType /\ QueueType /\ AirType
BY DEF TypeOK, StateType, ThreadType, BookType, QueueType, AirType

LEMMA TypePartsNext ==
  (TypeOK /\ seq \in 0..MaxRequests)' <=> StateType' /\ ThreadType' /\ BookType' /\ QueueType' /\ AirType'
BY DEF TypeOK, StateType, ThreadType, BookType, QueueType, AirType

LEMMA Numbers ==
  /\ MaxRequests \in Nat /\ MaxPending \in Nat \ {0} /\ Rows \in Nat \ {0} /\ 0 \notin Worker
  /\ 0 \notin Request /\ 0 \notin Row
BY NextAssumption DEF Request, Row

-----------------------------------------------------------------------------
(* The thread that serves *)

\* What a step does to one thread, and leaves alone.
Turned(w, a, i, q) ==
  /\ ThreadType'
  /\ thread'[w].at = a /\ thread'[w].id = i /\ thread'[w].target = q
  /\ \A u \in Worker : u # w => thread'[u] = thread[u]

LEMMA TurnAt ==
  ASSUME ThreadType, NEW w \in Worker, NEW a \in Place, thread' = [thread EXCEPT ![w].at = a]
  PROVE  Turned(w, a, thread[w].id, thread[w].target)
BY DEF ThreadType, Turned

LEMMA TurnIdle ==
  ASSUME ThreadType, NEW w \in Worker, NEW a \in Place,
         thread' = [thread EXCEPT ![w] = [Idle EXCEPT !.at = a]]
  PROVE  Turned(w, a, None, None)
BY DEF ThreadType, Turned, Idle

LEMMA TurnServe ==
  ASSUME ThreadType, NEW w \in Worker, NEW r \in Request,
         thread' = [thread EXCEPT ![w] = [Idle EXCEPT !.at = "check", !.id = r]]
  PROVE  Turned(w, "check", r, None)
BY DEF ThreadType, Turned, Idle, Place

LEMMA OnlyOne ==
  ASSUME Books, NEW w \in Worker, thread[w].at \notin {"none", "leaving"},
         NEW u \in Worker, u # w
  PROVE  thread[u].at \in {"none", "leaving"} /\ thread[u].id = None /\ workers = w
BY DEF Books, Hands, Busy

\* A step that goes on with a request keeps the books, if it keeps what it reserved.
Walks(w) ==
  /\ thread[w].at \in Busy
  /\ \E a \in Busy, q \in Row \cup {None} :
       /\ Turned(w, a, thread[w].id, q)
       /\ a \in {"look", "reserve"} \cup Holding => q # None
       /\ a \in Holding =>
            \/ thread[w].at \in Holding /\ q = thread[w].target /\ UNCHANGED <<state, fresh>>
            \/ state'.target = q /\ state'.last # q
  /\ StateType' /\ state'.pending = state.pending /\ state'.processing = state.processing
  /\ UNCHANGED <<workers, request, outcome, seq>>

LEMMA WalksKeeps ==
  ASSUME Books, NEW w \in Worker, Walks(w)
  PROVE  Books'
<1>1. PICK a \in Busy, q \in Row \cup {None} :
        /\ Turned(w, a, thread[w].id, q)
        /\ a \in {"look", "reserve"} \cup Holding => q # None
        /\ a \in Holding =>
             \/ thread[w].at \in Holding /\ q = thread[w].target /\ UNCHANGED <<state, fresh>>
             \/ state'.target = q /\ state'.last # q
  BY DEF Walks
<1>2. /\ thread[w].at \in Busy /\ StateType'
      /\ state'.pending = state.pending /\ state'.processing = state.processing
      /\ UNCHANGED <<workers, request, outcome, seq>>
  BY DEF Walks
<1>3. ThreadType' /\ BookType'
  BY <1>1, <1>2 DEF Turned, Books, BookType
<1>4. Hands'
  BY <1>1, <1>2 DEF Turned, Books, Hands, Busy
<1>5. Waiting' /\ InOrder'
  BY <1>2 DEF Books, Waiting, Outstanding, InOrder
<1>6. Reservation'
  <2> SUFFICES ASSUME NEW u \in Worker
               PROVE  /\ thread'[u].at \in {"look", "reserve"} \cup Holding => thread'[u].target # None
                      /\ thread'[u].at \in Holding =>
                           state'.target = thread'[u].target /\ (state'.last = thread'[u].target => fresh')
    BY DEF Reservation
  <2>1. CASE u = w
    BY <1>1, <2>1 DEF Turned, Books, Reservation
  <2>2. CASE u # w
    BY <1>1, <1>2, <2>2, OnlyOne DEF Turned, Busy, Holding
  <2> QED
    BY <2>1, <2>2
<1> QED
  BY <1>2, <1>3, <1>4, <1>5, <1>6 DEF Books

\* A request ends: a failure drops what waits behind it.
LEMMA FinishKeeps ==
  ASSUME Books, NEW w \in Worker, thread[w].at \in Busy,
         NEW how \in {"committed", "failed", "skipped"}, Finish(w, how)
  PROVE  Books'
<1> DEFINE i == thread[w].id
<1>1. i \in Request /\ i # None /\ outcome[i] = "serving" /\ state.processing
  BY DEF Books, Hands, ThreadType
<1>2. Turned(w, "take", None, None)
  BY TurnIdle DEF Finish, Books, Place
<1>3. /\ StateType' /\ state'.processing = state.processing
      /\ state'.pending = IF how = "failed" THEN <<>> ELSE state.pending
  <2>1. <<>> \in Seq(Request) /\ state.pending \in Seq(Request)
    BY DEF Books, StateType
  <2>2. (IF how = "failed" THEN <<>> ELSE state.pending) \in Seq(Request)
    BY <2>1
  <2> QED
    BY <2>2 DEF Finish, Books, StateType
<1>4. \A r \in Request :
        outcome'[r] = IF r = i THEN how
                      ELSE IF how = "failed" /\ r \in ToSet(state.pending) THEN "dropped" ELSE outcome[r]
  BY DEF Finish
<1>5. BookType' /\ UNCHANGED <<workers, seq>>
  <2>1. request' \in [Request -> [source : Source, guarded : Row \cup {None}]]
    BY <1>1 DEF Finish, Books, BookType, Nothing, Source
  <2>2. outcome' \in [Request -> Ended \cup {"none", "accepted", "serving"}]
    BY DEF Finish, Books, BookType, Ended
  <2> QED
    BY <2>1, <2>2 DEF Finish, Books, BookType
<1>6. \A u \in Worker : u # w => thread[u].at \notin Busy
  BY OnlyOne DEF Busy
<1>7. Hands'
  BY <1>1, <1>2, <1>4, <1>5, <1>6 DEF Turned, Books, Hands, Busy
<1>8. Waiting'
  <2>1. ToSet(<<>>) = {} /\ Len(<<>>) = 0
    BY DEF ToSet
  <2>2. i \notin ToSet(state.pending) /\ \A r \in Request : outcome[r] = "accepted" <=> r \in ToSet(state.pending)
    BY <1>1 DEF Books, Waiting
  <2>3. \A r \in Request : outcome'[r] = "accepted" <=> r \in ToSet(state'.pending)
    BY <1>3, <1>4, <2>1, <2>2
  <2>4. \A r \in Request : r > seq' => outcome'[r] = "none"
    BY <1>1, <1>4, <1>5, <2>2 DEF Books, Waiting
  <2>5. Outstanding' <= MaxPending
    <3>1. Len(state.pending) \in Nat /\ Len(state.pending) + 1 <= MaxPending
      BY <1>1 DEF Books, Waiting, Outstanding, StateType
    <3>2. Len(state'.pending) <= Len(state.pending) /\ Len(state'.pending) \in Nat
      BY <1>3, <2>1, <3>1
    <3>3. Outstanding' = Len(state'.pending) + 1
      BY <1>1, <1>3 DEF Outstanding
    <3> QED
      BY <3>1, <3>2, <3>3, Numbers
  <2>6. \A k \in 1..Len(state'.pending), j \in 1..Len(state'.pending) :
          k < j => state'.pending[k] < state'.pending[j]
    BY <1>3, <2>1 DEF Books, Waiting
  <2> QED
    BY <2>3, <2>4, <2>5, <2>6 DEF Waiting
<1>9. InOrder'
  BY <1>1, <1>4 DEF Books, InOrder, Waiting, Ended
<1>10. Reservation'
  BY <1>2, <1>6 DEF Turned, Reservation, Busy, Holding
<1> QED
  BY <1>2, <1>3, <1>5, <1>7, <1>8, <1>9, <1>10 DEF Books, Turned

-----------------------------------------------------------------------------
(* A request comes, is taken, and the thread that has none leaves. *)

LEMMA OutstandingIs ==
  ASSUME StateType
  PROVE  /\ Len(state.pending) \in Nat /\ Outstanding \in Nat
         /\ state.processing => Outstanding = Len(state.pending) + 1
         /\ ~state.processing => Outstanding = Len(state.pending)
<1>1. Len(state.pending) \in Nat /\ state.processing \in BOOLEAN
  BY DEF StateType
<1>2. CASE state.processing
  BY <1>1, <1>2 DEF Outstanding
<1>3. CASE ~state.processing
  BY <1>1, <1>3 DEF Outstanding
<1> QED
  BY <1>1, <1>2, <1>3

LEMMA OutstandingNext ==
  ASSUME StateType'
  PROVE  /\ Len(state'.pending) \in Nat /\ Outstanding' \in Nat
         /\ state'.processing => Outstanding' = Len(state'.pending) + 1
         /\ ~state'.processing => Outstanding' = Len(state'.pending)
<1>1. Len(state'.pending) \in Nat /\ state'.processing \in BOOLEAN
  BY DEF StateType
<1>2. CASE state'.processing
  BY <1>1, <1>2 DEF Outstanding
<1>3. CASE ~state'.processing
  BY <1>1, <1>3 DEF Outstanding
<1> QED
  BY <1>1, <1>2, <1>3

\* A new request takes the next number.
LEMMA NewNumber ==
  ASSUME Books, seq < MaxRequests
  PROVE  /\ seq + 1 \in Request /\ seq + 1 \in 0..MaxRequests /\ outcome[seq + 1] = "none"
         /\ \A r \in ToSet(state.pending) : r \in Request /\ r <= seq
         /\ \A w \in Worker : thread[w].id # seq + 1
<1>1. seq + 1 \in Request /\ seq + 1 \in 0..MaxRequests
  BY Numbers DEF Books, BookType, Request
<1>2. outcome[seq + 1] = "none"
  BY <1>1 DEF Books, Waiting, BookType
<1>3. ASSUME NEW r \in ToSet(state.pending)
      PROVE  r \in Request /\ r <= seq
  <2>1. r \in Request
    BY DEF Books, StateType, ToSet
  <2>2. outcome[r] = "accepted"
    BY <2>1 DEF Books, Waiting
  <2> QED
    BY <2>1, <2>2 DEF Books, Waiting, BookType, Request
<1>4. \A w \in Worker : thread[w].id # seq + 1
  BY <1>1, <1>2, Numbers DEF Books, Hands, None
<1> QED
  BY <1>1, <1>2, <1>3, <1>4

LEMMA EnqueueType ==
  ASSUME Books, Enqueue, queue \in Seq(Row)
  PROVE  /\ BookType' /\ seq' = seq + 1 /\ seq < MaxRequests
         /\ \A r \in Request : r # seq' => outcome'[r] = outcome[r]
         /\ outcome'[seq'] = IF Full THEN "refused" ELSE "accepted"
<1>1. seq' = seq + 1 /\ seq < MaxRequests /\ seq' \in Request /\ seq' \in 0..MaxRequests
  BY NewNumber DEF Enqueue
<1>2. request' \in [Request -> [source : Source, guarded : Row \cup {None}]]
  <2>1. PICK s \in Source :
          request' = [request EXCEPT ![seq'] =
            [source |-> s, guarded |-> IF s = "script" /\ queue # <<>> THEN Head(queue) ELSE None]]
    BY DEF Enqueue
  <2>2. (IF s = "script" /\ queue # <<>> THEN Head(queue) ELSE None) \in Row \cup {None}
    OBVIOUS
  <2> QED
    BY <1>1, <2>1, <2>2 DEF Books, BookType
<1>3. outcome' = [outcome EXCEPT ![seq'] = IF Full THEN "refused" ELSE "accepted"]
  BY DEF Enqueue
<1>4. workers' \in Worker \cup {None}
  BY DEF Enqueue, Books, BookType
<1> QED
  BY <1>1, <1>2, <1>3, <1>4 DEF Books, BookType, Ended

LEMMA RefuseKeeps ==
  ASSUME Books, Enqueue, Full, queue \in Seq(Row)
  PROVE  Books'
<1>1. UNCHANGED <<state, workers, thread, fresh>>
  BY DEF Enqueue
<1>2. /\ seq' = seq + 1 /\ seq' \in Request /\ outcome[seq'] = "none" /\ outcome'[seq'] = "refused" /\ BookType'
      /\ \A r \in Request : r # seq' => outcome'[r] = outcome[r]
      /\ \A w \in Worker : thread[w].id # seq'
  BY EnqueueType, NewNumber
<1>3. Hands'
  <2>1. \A w \in Worker : thread[w].at \in Busy =>
          thread[w].id \in Request /\ outcome'[thread[w].id] = outcome[thread[w].id]
    BY <1>2 DEF Books, Hands, ThreadType
  <2> QED
    BY <1>1, <1>2, <2>1 DEF Books, Hands
<1>4. seq \in Nat /\ Request \subseteq Nat
  BY DEF Books, BookType, Request
<1>5. Waiting'
  <2>1. \A r \in Request : r > seq' => r # seq' /\ r > seq
    BY <1>2, <1>4
  <2>2. \A r \in Request : outcome'[r] = "accepted" <=> outcome[r] = "accepted"
    BY <1>2
  <2>3. \A r \in Request : r > seq' => outcome'[r] = "none"
    BY <1>2, <2>1 DEF Books, Waiting
  <2>4. Outstanding' = Outstanding
    BY <1>1 DEF Outstanding
  <2> QED
    BY <1>1, <2>2, <2>3, <2>4 DEF Books, Waiting
<1>6. InOrder'
  <2>1. \A r \in Request : outcome'[r] = "accepted" => outcome[r] = "accepted"
    BY <1>2
  <2>2. \A r \in Request : outcome'[r] = outcome[r] \/ outcome'[r] = "refused"
    BY <1>2
  <2> QED
    BY <2>1, <2>2 DEF Books, InOrder
<1> QED
  BY <1>1, <1>2, <1>3, <1>5, <1>6 DEF Books, StateType, ThreadType, Reservation

LEMMA AcceptKeeps ==
  ASSUME Books, Enqueue, ~Full, queue \in Seq(Row)
  PROVE  Books'
<1>1. /\ seq' = seq + 1 /\ seq' \in Request /\ outcome[seq'] = "none" /\ outcome'[seq'] = "accepted" /\ BookType'
      /\ \A r \in Request : r # seq' => outcome'[r] = outcome[r]
      /\ \A r \in ToSet(state.pending) : r \in Request /\ r <= seq
      /\ \A w \in Worker : thread[w].id # seq'
  BY EnqueueType, NewNumber
<1>2. /\ seq \in Nat /\ Request \subseteq Nat /\ state.pending \in Seq(Request)
      /\ Len(state.pending) \in Nat
  BY DEF Books, BookType, StateType, Request
<1>3. state' = [state EXCEPT !.pending = Append(@, seq')] /\ UNCHANGED fresh
  BY DEF Enqueue
<1>4. /\ Append(state.pending, seq') \in Seq(Request) /\ Len(Append(state.pending, seq')) = Len(state.pending) + 1
      /\ ToSet(Append(state.pending, seq')) = ToSet(state.pending) \cup {seq'}
      /\ \A i \in 1..(Len(state.pending) + 1) :
           Append(state.pending, seq')[i] = IF i <= Len(state.pending) THEN state.pending[i] ELSE seq'
  <2>1. seq' \in Request /\ state.pending \in Seq(Request)
    BY <1>1, <1>2
  <2> QED
    BY <2>1, AppendFacts
<1>5. /\ StateType' /\ state'.pending = Append(state.pending, seq')
      /\ state'.processing = state.processing /\ state'.target = state.target /\ state'.last = state.last
  BY <1>3, <1>4 DEF Books, StateType
<1>6. Waiting'
  <2>1. \A r \in Request : outcome'[r] = "accepted" <=> r \in ToSet(state'.pending)
    BY <1>1, <1>4, <1>5 DEF Books, Waiting
  <2>2. ASSUME NEW i \in 1..Len(state'.pending), NEW j \in 1..Len(state'.pending), i < j
        PROVE  state'.pending[i] < state'.pending[j]
    <3>1. i \in 1..Len(state.pending) /\ state'.pending[i] = state.pending[i] /\ state.pending[i] \in ToSet(state.pending)
      BY <1>2, <1>4, <1>5, <2>2 DEF ToSet
    <3>2. CASE j \in 1..Len(state.pending)
      BY <1>2, <1>4, <1>5, <2>2, <3>1, <3>2 DEF Books, Waiting
    <3>3. CASE j \notin 1..Len(state.pending)
      <4>1. state'.pending[j] = seq'
        BY <1>2, <1>4, <1>5, <3>3
      <4>2. state.pending[i] \in Nat /\ state.pending[i] <= seq
        BY <1>1, <1>2, <3>1
      <4> QED
        BY <1>1, <1>2, <3>1, <4>1, <4>2
    <3> QED
      BY <3>2, <3>3
  <2>3. \A r \in Request : r > seq' => outcome'[r] = "none"
    BY <1>1, <1>2 DEF Books, Waiting
  <2>4. Outstanding' <= MaxPending
    <3>1. Outstanding < MaxPending /\ Outstanding \in Nat /\ Outstanding' = Outstanding + 1
      <4>1. Len(state'.pending) = Len(state.pending) + 1 /\ state'.processing = state.processing
        BY <1>4, <1>5
      <4>2. Outstanding' = Outstanding + 1 /\ Outstanding \in Nat
        BY <1>5, <4>1, OutstandingIs, OutstandingNext DEF Books
      <4> QED
        BY <4>2, Numbers DEF Full
    <3> QED
      BY <3>1, Numbers
  <2> QED
    BY <2>1, <2>2, <2>3, <2>4 DEF Waiting
<1>7. InOrder'
  <2>1. ASSUME NEW r \in Request, NEW s \in Request, r < s, outcome'[r] = "accepted"
        PROVE  outcome'[s] \in {"none", "accepted", "refused"}
    <3>1. CASE s = seq'
      BY <1>1, <3>1
    <3>2. CASE s # seq' /\ r = seq'
      <4>1. s > seq /\ outcome'[s] = outcome[s]
        BY <1>1, <1>2, <2>1, <3>2
      <4> QED
        BY <4>1 DEF Books, Waiting
    <3>3. CASE s # seq' /\ r # seq'
      <4>1. outcome[r] = "accepted" /\ outcome'[s] = outcome[s]
        BY <1>1, <2>1, <3>3
      <4> QED
        BY <2>1, <4>1 DEF Books, InOrder
    <3> QED
      BY <3>1, <3>2, <3>3
  <2> QED
    BY <2>1 DEF InOrder
<1>8. CASE UNCHANGED <<workers, thread>>
  <2>1. Hands'
    <3>1. \A w \in Worker : thread[w].at \in Busy =>
            thread[w].id \in Request /\ outcome'[thread[w].id] = outcome[thread[w].id]
      BY <1>1 DEF Books, Hands, ThreadType
    <3> QED
      BY <1>1, <1>5, <1>8, <3>1 DEF Books, Hands
  <2> QED
    BY <1>1, <1>3, <1>5, <1>6, <1>7, <1>8, <2>1 DEF Books, ThreadType, Reservation
<1>9. CASE /\ NeedsWorker /\ \E w \in Worker : thread[w].at = "none"
           /\ workers' = CHOOSE w \in Worker : thread[w].at = "none"
           /\ thread' = [thread EXCEPT ![workers'] = [Idle EXCEPT !.at = "take"]]
  <2> DEFINE w == CHOOSE w \in Worker : thread[w].at = "none"
  <2>1. w \in Worker /\ thread[w].at = "none" /\ workers' = w
    BY <1>9
  <2> HIDE DEF w
  <2>2. Turned(w, "take", None, None)
    BY <1>9, <2>1, TurnIdle DEF Books, Place
  <2>3. \A u \in Worker : thread[u].at \in {"none", "leaving"} /\ thread[u].id = None
    BY <1>9, Numbers DEF NeedsWorker, Books, Hands, Busy, None
  <2>4. Hands'
    <3>1. \A r \in Request : outcome[r] # "serving"
      BY <2>3, Numbers DEF Books, Hands, None
    <3> QED
      BY <1>1, <2>1, <2>2, <2>3, <3>1, Numbers DEF Turned, Hands, Busy, None
  <2>5. Reservation'
    BY <2>1, <2>2, <2>3 DEF Turned, Reservation, Holding
  <2> QED
    BY <1>1, <1>5, <1>6, <1>7, <2>2, <2>4, <2>5 DEF Books, Turned
<1> QED
  BY <1>8, <1>9 DEF Enqueue

LEMMA TakeKeeps ==
  ASSUME Books, NEW w \in Worker, Take(w)
  PROVE  Books'
<1> DEFINE n == NextRequest
<1>1. /\ thread[w].at = "take" /\ state.pending # <<>> /\ state.pending \in Seq(Request)
      /\ Len(state.pending) \in Nat /\ Request \subseteq Nat
      /\ UNCHANGED <<workers, request, seq, fresh>>
  BY DEF Take, Books, StateType, Request
<1>2. /\ n \in Request /\ n = state.pending[1] /\ n \in ToSet(state.pending)
      /\ RemoveFirst(state.pending, n) \in Seq(Request)
      /\ Len(RemoveFirst(state.pending, n)) = Len(state.pending) - 1
      /\ \A i \in 1..(Len(state.pending) - 1) : RemoveFirst(state.pending, n)[i] = state.pending[i + 1]
  BY <1>1, RemoveHead DEF NextRequest
<1>3. /\ thread' = [thread EXCEPT ![w] = [Idle EXCEPT !.at = "check", !.id = n]]
      /\ outcome' = [outcome EXCEPT ![n] = "serving"]
      /\ state' = [state EXCEPT !.pending = RemoveFirst(@, n), !.processing = TRUE, !.target = None]
  BY DEF Take
<1> HIDE DEF n
<1>4. /\ StateType' /\ state'.pending = RemoveFirst(state.pending, n) /\ state'.processing = TRUE
  BY <1>2, <1>3 DEF Books, StateType
<1>5. Turned(w, "check", n, None)
  BY <1>2, <1>3, TurnServe DEF Books
<1>6. BookType' /\ outcome[n] = "accepted" /\ outcome'[n] = "serving" /\ \A r \in Request : r # n => outcome'[r] = outcome[r]
  BY <1>1, <1>2, <1>3 DEF Books, BookType, Waiting, Ended
<1>7. \A u \in Worker : u # w => thread[u].at \in {"none", "leaving"} /\ thread[u].id = None
  BY <1>1, OnlyOne
<1>8. n # None /\ n > 0
  BY <1>2 DEF Request, None
<1>9. \A r \in Request : outcome[r] # "serving"
  <2>1. thread[w].id = None
    BY <1>1 DEF Books, Hands, Busy
  <2> QED
    BY <1>7, <2>1, Numbers DEF Books, Hands, None
<1>10. Hands'
  BY <1>1, <1>4, <1>5, <1>6, <1>7, <1>8, <1>9 DEF Turned, Books, Hands, Busy
<1>11. ASSUME NEW i \in 1..(Len(state.pending) - 1)
       PROVE  /\ i + 1 \in 1..Len(state.pending) /\ state'.pending[i] = state.pending[i + 1]
              /\ n < state'.pending[i]
  BY <1>1, <1>2, <1>4 DEF Books, Waiting
<1>12. \A r \in Request : r \in ToSet(state'.pending) <=> r \in ToSet(state.pending) /\ r # n
  <2>1. ASSUME NEW r \in ToSet(state'.pending)
        PROVE  r \in ToSet(state.pending) /\ r # n
    <3>1. PICK i \in 1..(Len(state.pending) - 1) : r = state'.pending[i]
      BY <1>2, <1>4 DEF ToSet
    <3>2. /\ i + 1 \in 1..Len(state.pending) /\ r = state.pending[i + 1] /\ n < r
      BY <1>11, <3>1
    <3>3. n \in Nat
      BY <1>1, <1>2
    <3>4. r \in ToSet(state.pending)
      BY <1>1, <3>2 DEF ToSet
    <3> QED
      BY <3>2, <3>3, <3>4
  <2>2. ToSet(state.pending) \ {n} \subseteq ToSet(state'.pending)
    BY <1>1, <1>4, RemoveFirstFacts
  <2> QED
    BY <2>1, <2>2
<1>13. Waiting'
  <2>1. \A r \in Request : outcome'[r] = "accepted" <=> r \in ToSet(state'.pending)
    BY <1>6, <1>12 DEF Books, Waiting
  <2>2. \A i \in 1..Len(state'.pending), j \in 1..Len(state'.pending) :
          i < j => state'.pending[i] < state'.pending[j]
    BY <1>1, <1>2, <1>4, <1>11 DEF Books, Waiting
  <2>3. \A r \in Request : r > seq' => outcome'[r] = "none"
    BY <1>1, <1>2, <1>6 DEF Books, Waiting
  <2>4. Outstanding' <= MaxPending
    <3>1. Len(state.pending) <= MaxPending
      <4>1. Outstanding \in {Len(state.pending), Len(state.pending) + 1} /\ Outstanding <= MaxPending
        BY OutstandingIs DEF Books, Waiting
      <4> QED
        BY <1>1, <4>1, Numbers
    <3>2. Outstanding' = Len(state.pending) - 1 + 1
      BY <1>2, <1>4 DEF Outstanding
    <3> QED
      BY <1>1, <3>1, <3>2, Numbers
  <2> QED
    BY <2>1, <2>2, <2>3, <2>4 DEF Waiting
<1>14. InOrder'
  <2>1. ASSUME NEW r \in ToSet(state.pending), r # n
        PROVE  n < r
    <3>1. PICK i \in 1..Len(state.pending) : r = state.pending[i]
      BY DEF ToSet
    <3>2. 1 \in 1..Len(state.pending) /\ i > 1
      BY <1>2, <2>1, <3>1
    <3> QED
      BY <1>2, <3>1, <3>2 DEF Books, Waiting
  <2>2. \A r \in Request : outcome'[r] = "accepted" => outcome[r] = "accepted" /\ n < r
    BY <1>6, <2>1 DEF Books, Waiting
  <2> QED
    BY <1>1, <1>2, <1>6, <2>2 DEF Books, InOrder
<1>15. Reservation'
  BY <1>5, <1>7 DEF Turned, Reservation, Holding
<1> QED
  BY <1>4, <1>5, <1>6, <1>10, <1>13, <1>14, <1>15 DEF Books, Turned

LEMMA LeaveKeeps ==
  ASSUME Books, NEW w \in Worker, Leave(w)
  PROVE  Books'
<1>1. /\ thread[w].at = "take" /\ thread[w].id = None /\ workers' = None /\ UNCHANGED <<request, outcome, seq, fresh>>
  BY DEF Leave, Retire, Books, Hands, Busy
<1>2. Turned(w, "leaving", None, thread[w].target)
  BY <1>1, TurnAt DEF Leave, At, Books, Place
<1>3. \A u \in Worker : u # w => thread[u].at \in {"none", "leaving"} /\ thread[u].id = None
  BY <1>1, OnlyOne
<1>4. StateType' /\ state'.pending = state.pending /\ state'.processing = FALSE
  BY DEF Leave, Books, StateType
<1>5. Hands'
  BY <1>1, <1>2, <1>3, Numbers DEF Turned, Books, Hands, Busy, None
<1>6. Waiting'
  <2>1. Outstanding' <= MaxPending
    <3>1. Len(state.pending) \in Nat
      BY DEF Books, StateType
    <3>2. Outstanding \in {Len(state.pending), Len(state.pending) + 1} /\ Outstanding <= MaxPending
      BY OutstandingIs DEF Books, Waiting
    <3>3. Outstanding' = Len(state.pending)
      BY <1>4, OutstandingNext
    <3> QED
      BY <3>1, <3>2, <3>3, Numbers
  <2> QED
    BY <1>1, <1>4, <2>1 DEF Books, Waiting
<1>7. InOrder' /\ BookType'
  BY <1>1 DEF Books, InOrder, BookType
<1>8. Reservation'
  BY <1>2, <1>3 DEF Turned, Reservation, Holding
<1> QED
  BY <1>2, <1>4, <1>5, <1>6, <1>7, <1>8 DEF Books, Turned

LEMMA EndKeeps ==
  ASSUME Books, NEW w \in Worker, EndThread(w)
  PROVE  Books'
<1>1. /\ thread[w].at = "leaving" /\ UNCHANGED <<state, workers, request, outcome, seq, fresh>>
      /\ thread' = [thread EXCEPT ![w] = Idle]
  BY DEF EndThread, asking
<1>2. Turned(w, "none", None, None)
  BY <1>1 DEF Books, ThreadType, Turned, Idle, Place
<1>3. Hands' /\ Reservation'
  BY <1>1, <1>2 DEF Turned, Books, Hands, Busy, Reservation, Holding
<1> QED
  BY <1>1, <1>2, <1>3 DEF Books, Turned, StateType, BookType, Waiting, Outstanding, InOrder

-----------------------------------------------------------------------------
(* The steps of a request in execution *)

LEMMA SkipKeeps ==
  ASSUME Books, NEW w \in Worker, NEW a \in Busy, Skip(w, a)
  PROVE  Books'
BY FinishKeeps DEF Skip

\* A step that only moves on.
LEMMA GoKeeps ==
  ASSUME Books, NEW w \in Worker, thread[w].at \in Busy, NEW a \in Busy, At(w, a),
         UNCHANGED <<asking, fresh>>,
         a \in {"look", "reserve"} => thread[w].target # None,
         a \in Holding => thread[w].at \in Holding
  PROVE  Books'
<1>1. Turned(w, a, thread[w].id, thread[w].target) /\ thread[w].target \in Row \cup {None}
  BY TurnAt DEF At, Books, ThreadType, Busy, Place
<1>2. a \in Holding => thread[w].target # None
  BY DEF Books, Reservation
<1>3. UNCHANGED <<state, workers, request, outcome, seq, fresh>>
  BY DEF asking
<1> QED
  BY <1>1, <1>2, <1>3, WalksKeeps DEF Walks, Books, StateType

LEMMA CheckKeeps ==
  ASSUME Books, NEW w \in Worker, Check(w) \/ Recheck(w)
  PROVE  Books'
<1>1. CASE Skip(w, "check") \/ Skip(w, "recheck")
  BY <1>1, SkipKeeps DEF Busy
<1>2. CASE thread[w].at = "check" /\ At(w, "plan") /\ UNCHANGED <<asking, fresh>>
  BY <1>2, GoKeeps DEF Busy, Holding
<1>3. CASE thread[w].at = "recheck" /\ At(w, "hand_off") /\ UNCHANGED <<asking, fresh>>
  BY <1>3, GoKeeps DEF Busy, Holding
<1> QED
  BY <1>1, <1>2, <1>3 DEF Check, Recheck

LEMMA ReadPlanKeeps ==
  ASSUME Books, QueueType, NEW w \in Worker, ReadPlan(w)
  PROVE  Books'
<1>1. thread[w].at = "plan"
  BY DEF ReadPlan
<1>2. CASE Finish(w, "failed")
  BY <1>1, <1>2, FinishKeeps DEF Busy
<1>3. CASE /\ queue # <<>> /\ UNCHANGED <<asking, fresh>>
           /\ thread' = [thread EXCEPT ![w].at = "look", ![w].target = Head(queue)]
  <2>1. Head(queue) \in Row /\ Head(queue) # None
    BY <1>3, Numbers DEF QueueType, None
  <2>2. Turned(w, "look", thread[w].id, Head(queue))
    BY <1>3, <2>1 DEF Books, ThreadType, Turned, Place
  <2> QED
    BY <1>1, <1>3, <2>1, <2>2, WalksKeeps DEF Walks, Books, StateType, asking, Busy, Holding
<1> QED
  BY <1>2, <1>3 DEF ReadPlan

LEMMA LookKeeps ==
  ASSUME Books, NEW w \in Worker, Look(w) \/ LookLast(w)
  PROVE  Books'
<1>1. thread[w].at = "look" /\ UNCHANGED fresh /\ thread[w].target # None
  BY DEF Look, LookLast, Books, Reservation
<1>2. CASE Finish(w, "failed")
  BY <1>1, <1>2, FinishKeeps DEF Busy
<1>3. CASE (At(w, "reserve") \/ At(w, "plan")) /\ UNCHANGED asking
  BY <1>1, <1>3, GoKeeps DEF Busy, Holding
<1> QED
  BY <1>2, <1>3 DEF Look, LookLast

LEMMA ReserveKeeps ==
  ASSUME Books, AirType, NEW w \in Worker, Reserve(w)
  PROVE  Books'
<1> DEFINE q == thread[w].target
           v == IF request[thread[w].id].source = "script" THEN native.live ELSE None
<1>1. thread[w].at = "reserve" /\ q \in Row \cup {None} /\ q # None
  BY DEF Reserve, Books, ThreadType, Reservation
<1>2. v \in Row \cup {None} /\ thread' = [thread EXCEPT ![w].at = "present", ![w].live = v]
  BY DEF Reserve, AirType
<1> HIDE DEF v
<1>3. Turned(w, "present", thread[w].id, q)
  BY <1>2 DEF Books, ThreadType, Turned, Place
<1>4. /\ StateType' /\ state'.pending = state.pending /\ state'.processing = state.processing
      /\ state'.target = q /\ state'.last # q
  BY <1>1 DEF Reserve, Books, StateType
<1>5. UNCHANGED <<workers, request, outcome, seq>>
  BY DEF Reserve
<1> HIDE DEF q
<1>6. "present" \in Busy /\ thread[w].at \in Busy
  BY <1>1 DEF Busy
<1>7. Walks(w)
  BY <1>1, <1>3, <1>4, <1>5, <1>6 DEF Walks
<1> QED
  BY <1>7, WalksKeeps

LEMMA PresentKeeps ==
  ASSUME Books, NEW w \in Worker, Present(w)
  PROVE  Books'
<1>1. thread[w].at = "present" /\ UNCHANGED fresh
  BY DEF Present
<1>2. CASE Finish(w, "failed")
  BY <1>1, <1>2, FinishKeeps DEF Busy
<1>3. CASE At(w, "recheck") /\ UNCHANGED asking
  BY <1>1, <1>3, GoKeeps DEF Busy, Holding
<1> QED
  BY <1>2, <1>3 DEF Present

LEMMA HandOffKeeps ==
  ASSUME Books, NEW w \in Worker, HandOff(w)
  PROVE  Books'
<1>1. thread[w].at = "hand_off" /\ UNCHANGED fresh
  BY DEF HandOff
<1>2. CASE Finish(w, "failed")
  BY <1>1, <1>2, FinishKeeps DEF Busy
<1>3. CASE thread' = [thread EXCEPT ![w].at = "wait", ![w].live = None] /\ UNCHANGED asking
  <2>1. Turned(w, "wait", thread[w].id, thread[w].target) /\ thread[w].target \in Row \cup {None}
    BY <1>3 DEF Books, ThreadType, Turned, Place
  <2>2. thread[w].target # None
    BY <1>1 DEF Books, Reservation, Holding
  <2> QED
    BY <1>1, <1>3, <2>1, <2>2, WalksKeeps DEF Walks, Books, StateType, asking, Busy, Holding
<1> QED
  BY <1>2, <1>3 DEF HandOff

LEMMA WaitKeeps ==
  ASSUME Books, NEW w \in Worker, Wait(w)
  PROVE  Books'
BY FinishKeeps DEF Wait, Busy

\* A committed start marks its row, whoever waits for it.
LEMMA CommitKeeps ==
  ASSUME Books, AirType, CommitStart
  PROVE  Books'
<1>1. /\ starts # <<>> /\ Head(starts) \in Row
      /\ state' = [state EXCEPT !.last = Head(starts)] /\ fresh' = (fresh \/ Head(starts) = state.target)
      /\ UNCHANGED <<workers, thread, request, outcome, seq>>
  BY DEF CommitStart, AirType
<1>2. /\ StateType' /\ state'.pending = state.pending /\ state'.processing = state.processing
      /\ state'.target = state.target /\ state'.last = Head(starts)
  BY <1>1 DEF Books, StateType
<1>3. Hands' /\ Waiting' /\ InOrder' /\ BookType' /\ ThreadType'
  BY <1>1, <1>2 DEF Books, Hands, Waiting, Outstanding, InOrder, BookType, ThreadType
<1>4. Reservation'
  BY <1>1, <1>2 DEF Books, Reservation
<1> QED
  BY <1>2, <1>3, <1>4 DEF Books

LEMMA BooksKeep ==
  ASSUME Books, QueueType, AirType, Next
  PROVE  Books'
<1>1. CASE Enqueue
  BY <1>1, RefuseKeeps, AcceptKeeps DEF QueueType
<1>2. ASSUME NEW w \in Worker, Serve(w)
      PROVE  Books'
  BY <1>2, TakeKeeps, LeaveKeeps, EndKeeps, CheckKeeps, ReadPlanKeeps, LookKeeps, ReserveKeeps,
     PresentKeeps, HandOffKeeps, WaitKeeps DEF Serve
<1>3. CASE Switch \/ MoveOn \/ FallSilent \/ StopStation \/ EditQueue
  <2>1. UNCHANGED <<state, workers, thread, request, outcome, seq, fresh>>
    BY <1>3 DEF Switch, MoveOn, Plays, FallSilent, StopStation, EditQueue, asking
  <2> QED
    BY <2>1 DEF Books, StateType, ThreadType, BookType, Hands, Waiting, Outstanding, InOrder, Reservation
<1>4. CASE CommitStart
  BY <1>4, CommitKeeps
<1> QED
  BY <1>1, <1>2, <1>3, <1>4 DEF Next

-----------------------------------------------------------------------------
(* The queue and the daemon *)

\* The queue only loses rows, or changes their order.
Shrinks == QueueType' /\ ToSet(queue') \subseteq ToSet(queue)

LEMMA WithoutShrinks ==
  ASSUME QueueType, NEW q, queue' = Without(q)
  PROVE  Shrinks /\ q \notin ToSet(queue')
BY RemoveFirstFacts, RemoveFirstInjective DEF QueueType, Shrinks, Without

LEMMA ToFrontShrinks ==
  ASSUME QueueType, NEW q \in ToSet(queue), queue' = ToFront(q)
  PROVE  Shrinks
<1> DEFINE s == Without(q)
<1>1. /\ s \in Seq(Row) /\ IsInjective(s) /\ q \notin ToSet(s) /\ ToSet(s) \subseteq ToSet(queue)
      /\ q \in Row /\ queue' = <<q>> \o s
  <2>1. /\ s \in Seq(Row) /\ IsInjective(s) /\ q \notin ToSet(s) /\ ToSet(s) \subseteq ToSet(queue)
    BY RemoveFirstFacts, RemoveFirstInjective DEF QueueType, Without
  <2>2. q \in Row
    BY DEF QueueType, ToSet
  <2>3. queue' = <<q>> \o s
    BY DEF ToFront
  <2> QED
    BY <2>1, <2>2, <2>3
<1> HIDE DEF s
<1>2. /\ queue' \in Seq(Row) /\ Len(queue') = Len(s) + 1 /\ Len(s) \in Nat
      /\ \A i \in 1..(Len(s) + 1) : queue'[i] = IF i = 1 THEN q ELSE s[i - 1]
  BY <1>1
<1>3. ASSUME NEW i \in 2..Len(queue')
      PROVE  i - 1 \in 1..Len(s) /\ queue'[i] = s[i - 1] /\ queue'[i] \in ToSet(s)
  <2>1. i - 1 \in 1..Len(s) /\ queue'[i] = s[i - 1]
    BY <1>2
  <2> QED
    BY <1>1, <2>1 DEF ToSet
<1>4. queue'[1] = q
  BY <1>2
<1>5. ToSet(queue') \subseteq ToSet(queue)
  <2>1. ASSUME NEW i \in 1..Len(queue')
        PROVE  queue'[i] \in ToSet(queue)
    BY <1>1, <1>3, <1>4
  <2> QED
    BY <1>2, <2>1 DEF ToSet
<1>6. IsInjective(queue')
  <2> SUFFICES ASSUME NEW i \in 1..Len(queue'), NEW j \in 1..Len(queue'), queue'[i] = queue'[j]
               PROVE  i = j
    BY <1>2 DEF IsInjective
  <2>1. CASE i = 1 \/ j = 1
    BY <1>1, <1>3, <1>4, <2>1
  <2>2. CASE i # 1 /\ j # 1
    <3>1. /\ i - 1 \in 1..Len(s) /\ j - 1 \in 1..Len(s) /\ s[i - 1] = s[j - 1]
      BY <1>3, <2>2
    <3>2. i - 1 = j - 1
      BY <1>1, <3>1 DEF IsInjective
    <3> QED
      BY <3>2
  <2> QED
    BY <2>1, <2>2
<1> QED
  BY <1>2, <1>5, <1>6 DEF Shrinks, QueueType

LEMMA QueueShrinks ==
  ASSUME QueueType, Next
  PROVE  Shrinks
<1>1. UNCHANGED queue => Shrinks
  BY DEF QueueType, Shrinks
<1>2. ASSUME NEW w \in Worker, Serve(w)
      PROVE  Shrinks
  <2>1. CASE Skip(w, "check") \/ Skip(w, "recheck")
    BY <2>1, WithoutShrinks DEF Skip, Cancel
  <2>2. CASE ~(Skip(w, "check") \/ Skip(w, "recheck"))
    <3>1. UNCHANGED queue
      BY <1>2, <2>2 DEF Serve, Take, Leave, EndThread, Check, ReadPlan, Look, LookLast, Reserve, Present,
                        Recheck, HandOff, Wait, air
    <3> QED
      BY <1>1, <3>1
  <2> QED
    BY <2>1, <2>2
<1>3. CASE Enqueue \/ Switch \/ MoveOn \/ FallSilent \/ StopStation
  BY <1>1, <1>3 DEF Enqueue, Switch, MoveOn, Plays, FallSilent, StopStation, air
<1>4. CASE CommitStart
  BY <1>4, WithoutShrinks DEF CommitStart
<1>5. CASE EditQueue
  BY <1>5, WithoutShrinks, ToFrontShrinks DEF EditQueue
<1> QED
  BY <1>2, <1>3, <1>4, <1>5 DEF Next

LEMMA AirKeeps ==
  ASSUME Books, QueueType, AirType, Next
  PROVE  AirType'
<1>1. CASE Enqueue \/ EditQueue
  BY <1>1 DEF Enqueue, EditQueue, air, AirType
<1>2. ASSUME NEW w \in Worker, Serve(w)
      PROVE  AirType'
  <2>1. UNCHANGED starts /\ fresh' \in {fresh, FALSE}
    BY <1>2 DEF Serve, Take, Leave, EndThread, Check, Skip, ReadPlan, Look, LookLast, Reserve, Present,
                Recheck, HandOff, Wait, air
  <2>2. \/ UNCHANGED native \/ native' = [native EXCEPT !.moving = thread[w].target]
    BY <1>2 DEF Serve, Take, Leave, EndThread, Check, Skip, ReadPlan, Look, LookLast, Reserve, Present,
                Recheck, HandOff, Wait, air
  <2>3. thread[w].target \in Row \cup {None}
    BY DEF Books, ThreadType
  <2> QED
    BY <2>1, <2>2, <2>3 DEF AirType
<1>3. ASSUME NEW q \in Row, Plays(q)
      PROVE  AirType'
  <2>1. native' \in [running : BOOLEAN, live : Row \cup {None}, heard : BOOLEAN, moving : Row \cup {None}]
    BY <1>3 DEF Plays, AirType
  <2>2. starts' \in Seq(Row) /\ UNCHANGED fresh
    BY <1>3 DEF Plays, AirType
  <2> QED
    BY <2>1, <2>2 DEF AirType
<1>4. CASE Switch \/ MoveOn
  BY <1>3, <1>4 DEF Switch, MoveOn, AirType, QueueType
<1>5. CASE FallSilent \/ StopStation
  <2>1. native' \in [running : BOOLEAN, live : Row \cup {None}, heard : BOOLEAN, moving : Row \cup {None}]
    <3>1. CASE FallSilent
      BY <3>1 DEF FallSilent, AirType
    <3>2. CASE StopStation
      BY <3>2 DEF StopStation
    <3> QED
      BY <1>5, <3>1, <3>2
  <2>2. UNCHANGED <<starts, fresh>>
    BY <1>5 DEF FallSilent, StopStation
  <2> QED
    BY <2>1, <2>2 DEF AirType
<1>6. CASE CommitStart
  <2>1. native' = [native EXCEPT !.heard = @ \/ native.live = Head(starts)]
    BY <1>6 DEF CommitStart
  <2>2. native' \in [running : BOOLEAN, live : Row \cup {None}, heard : BOOLEAN, moving : Row \cup {None}]
    BY <2>1 DEF AirType
  <2>3. starts' \in Seq(Row)
    BY <1>6 DEF CommitStart, AirType
  <2>4. fresh' \in BOOLEAN
    BY <1>6, Zenon DEF CommitStart, AirType
  <2> QED
    BY <2>2, <2>3, <2>4 DEF AirType
<1> QED
  BY <1>1, <1>2, <1>4, <1>5, <1>6 DEF Next

\* What a skip removed does not come back, and its request is kept.
LEMMA SkippedKeeps ==
  ASSUME Books, QueueType, Shrinks, SkippedLeavesNoRow, Next
  PROVE  SkippedLeavesNoRow'
<1>1. ToSet(queue') \subseteq ToSet(queue)
  BY DEF Shrinks
<1>2. CASE Enqueue
  <2>1. /\ seq' = seq + 1 /\ seq' \in Request /\ outcome'[seq'] \in {"refused", "accepted"}
        /\ \A r \in Request : r # seq' => outcome'[r] = outcome[r]
    BY <1>2, EnqueueType, NewNumber DEF QueueType
  <2>2. \A r \in Request : r # seq' => request'[r] = request[r]
    BY <1>2 DEF Enqueue, Books, BookType
  <2> QED
    BY <1>1, <2>1, <2>2 DEF SkippedLeavesNoRow
<1>3. ASSUME NEW w \in Worker, NEW a \in {"check", "recheck"}, Skip(w, a)
      PROVE  SkippedLeavesNoRow'
  <2>1. /\ request' = request
        /\ \A r \in Request : outcome'[r] = IF r = thread[w].id THEN "skipped" ELSE outcome[r]
    BY <1>3 DEF Skip, Finish
  <2>2. request[thread[w].id].guarded \notin ToSet(queue')
    BY <1>3, WithoutShrinks DEF Skip, Cancel
  <2> QED
    BY <1>1, <2>1, <2>2 DEF SkippedLeavesNoRow
<1>4. ASSUME NEW w \in Worker, NEW how \in {"committed", "failed"}, Finish(w, how), thread[w].at \in Busy
      PROVE  SkippedLeavesNoRow'
  <2>1. thread[w].id \in Request /\ outcome[thread[w].id] = "serving"
    BY <1>4 DEF Books, Hands, ThreadType
  <2>2. \A r \in Request : outcome'[r] = "skipped" => outcome[r] = "skipped" /\ request'[r] = request[r]
    BY <1>4, <2>1 DEF Finish, Books, BookType
  <2> QED
    BY <1>1, <2>2 DEF SkippedLeavesNoRow
<1>5. ASSUME UNCHANGED request, \A r \in Request : outcome'[r] = "skipped" => outcome[r] = "skipped"
      PROVE  SkippedLeavesNoRow'
  BY <1>1, <1>5 DEF SkippedLeavesNoRow
<1>6. ASSUME NEW w \in Worker, Serve(w)
      PROVE  SkippedLeavesNoRow'
  <2>1. CASE Take(w)
    BY <1>5, <2>1 DEF Take, Books, BookType
  <2>2. CASE Leave(w) \/ EndThread(w) \/ Reserve(w)
    BY <1>5, <2>2 DEF Leave, EndThread, Reserve, asking
  <2>3. CASE Check(w) \/ Recheck(w)
    BY <1>3, <1>5, <2>3 DEF Check, Recheck, asking
  <2>4. CASE ReadPlan(w) \/ Look(w) \/ LookLast(w) \/ Present(w) \/ HandOff(w) \/ Wait(w)
    BY <1>4, <1>5, <2>4 DEF ReadPlan, Look, LookLast, Present, HandOff, Wait, asking, Busy
  <2> QED
    BY <1>6, <2>1, <2>2, <2>3, <2>4 DEF Serve
<1>7. CASE Switch \/ MoveOn \/ FallSilent \/ StopStation \/ CommitStart \/ EditQueue
  BY <1>5, <1>7 DEF Switch, MoveOn, Plays, FallSilent, StopStation, CommitStart, EditQueue, asking
<1> QED
  BY <1>2, <1>6, <1>7 DEF Next

-----------------------------------------------------------------------------
(* The theorems *)

LEMMA InitInv == Init => Inv
<1> SUFFICES ASSUME Init
             PROVE  Inv
  OBVIOUS
<1>1. <<>> \in Seq(Request) /\ <<>> \in Seq(Row) /\ ToSet(<<>>) = {} /\ Len(<<>>) = 0
  BY DEF ToSet
<1>2. StateType /\ state.pending = <<>> /\ state.processing = FALSE
  BY <1>1 DEF Init, StateType
<1>3. ThreadType /\ \A w \in Worker : thread[w].at = "none" /\ thread[w].id = None
  BY DEF Init, ThreadType, Idle, Place
<1>4. BookType /\ \A r \in Request : outcome[r] = "none"
  BY Numbers DEF Init, BookType, Nothing, Source
<1>5. QueueType
  <2>1. Rows - 1 \in Nat /\ \A i \in 1..(Rows - 1) : i + 1 \in Row
    BY Numbers DEF Row
  <2>2. queue = [i \in 1..(Rows - 1) |-> i + 1]
    BY DEF Init
  <2> QED
    BY <2>1, <2>2 DEF QueueType, IsInjective
<1>6. AirType
  <2>1. 1 \in Row
    BY Numbers DEF Row
  <2> QED
    BY <1>1, <2>1 DEF Init, AirType
<1>7. Hands
  BY <1>3, <1>4, Numbers DEF Init, Hands, Busy, None
<1>8. Waiting
  <2>1. Outstanding <= MaxPending
    BY <1>1, <1>2, OutstandingIs, Numbers
  <2> QED
    BY <1>1, <1>2, <1>4, <2>1 DEF Waiting
<1>9. InOrder /\ Reservation /\ SkippedLeavesNoRow
  BY <1>3, <1>4 DEF InOrder, Reservation, Holding, SkippedLeavesNoRow
<1> QED
  BY <1>2, <1>3, <1>4, <1>5, <1>6, <1>7, <1>8, <1>9, TypeParts DEF Inv

LEMMA NextInv == Inv /\ [Next]_vars => Inv'
<1>1. ASSUME Inv, Next
      PROVE  Inv'
  <2>1. Books /\ QueueType /\ AirType /\ SkippedLeavesNoRow
    BY <1>1, TypeParts DEF Inv, Books
  <2>2. Books' /\ AirType' /\ Shrinks /\ SkippedLeavesNoRow'
    BY <1>1, <2>1, BooksKeep, AirKeeps, QueueShrinks, SkippedKeeps
  <2> QED
    BY <2>2, TypePartsNext DEF Books, Shrinks, Inv
<1>2. ASSUME Inv, UNCHANGED vars
      PROVE  Inv'
  BY <1>2 DEF vars, asking, air, Inv, TypeOK, Hands, Waiting, Outstanding, InOrder, Reservation, SkippedLeavesNoRow
<1> QED
  BY <1>1, <1>2

LEMMA AlwaysInv == Spec => []Inv
BY InitInv, NextInv, PTL DEF Spec

\* What the books say, as PendingBounded counts it.
LEMMA BooksBound ==
  ASSUME Inv
  PROVE  PendingBounded
<1> DEFINE A == ToSet(state.pending)
           B == {r \in Request : outcome[r] = "serving"}
           C == {r \in Request : outcome[r] \in {"accepted", "serving"}}
<1>1. Books
  BY TypeParts DEF Inv, Books
<1>2. C = A \cup B
  BY <1>1 DEF Books, Waiting, StateType, ToSet
<1>3. IsFiniteSet(A) /\ Cardinality(A) <= Len(state.pending) /\ Cardinality(A) \in Nat
  <2> DEFINE D == 1..Len(state.pending)
             f == [i \in D |-> state.pending[i]]
  <2>1. Len(state.pending) \in Nat /\ state.pending \in Seq(Request)
    BY <1>1 DEF Books, StateType
  <2>2. IsFiniteSet(D) /\ Cardinality(D) = Len(state.pending)
    BY <2>1, FS_Interval
  <2>3. f \in Surjection(D, A)
    BY <2>1 DEF Surjection, ToSet
  <2> HIDE DEF D, f, A
  <2>4. IsFiniteSet(A) /\ Cardinality(A) <= Cardinality(D)
    BY <2>2, <2>3, FS_Surjection
  <2> QED
    BY <2>2, <2>4, FS_CardinalityType
<1>4. IsFiniteSet(B) /\ Cardinality(B) \in Nat /\ Cardinality(B) <= 1 /\ (~state.processing => Cardinality(B) = 0)
  <2>1. CASE B = {}
    BY <2>1, FS_EmptySet
  <2>2. ASSUME NEW r \in B
        PROVE  B = {r} /\ state.processing
    <3>1. PICK w \in Worker : thread[w].id = r
      BY <1>1 DEF Books, Hands
    <3>2. thread[w].at \in Busy /\ state.processing
      BY <1>1, <3>1, Numbers DEF Books, Hands, None
    <3>3. ASSUME NEW x \in B
          PROVE  x = r
      <4>1. PICK u \in Worker : thread[u].id = x
        BY <1>1 DEF Books, Hands
      <4>2. u = w
        BY <1>1, <3>2, <4>1, OnlyOne, Numbers DEF Busy, None
      <4> QED
        BY <3>1, <4>1, <4>2
    <3> QED
      BY <3>2, <3>3
  <2>3. ASSUME NEW r \in B
        PROVE  IsFiniteSet(B) /\ Cardinality(B) = 1 /\ state.processing
    <3>1. B = {r} /\ state.processing
      BY <2>2
    <3>2. IsFiniteSet({r}) /\ Cardinality({r}) = 1
      BY FS_Singleton
    <3> QED
      BY <3>1, <3>2, Zenon
  <2> QED
    BY <2>1, <2>3
<1> HIDE DEF A, B
<1>5. IsFiniteSet(A \cup B) /\ Cardinality(A \cup B) = Cardinality(A) + Cardinality(B) - Cardinality(A \cap B)
  BY <1>3, <1>4, FS_Union
<1>6. Cardinality(A \cap B) \in Nat
  BY <1>3, FS_Intersection, FS_CardinalityType
<1>7. Len(state.pending) \in Nat /\ Outstanding <= MaxPending /\ MaxPending \in Nat
  BY <1>1, OutstandingIs, Numbers DEF Books, Waiting
<1>8. Cardinality(A \cup B) <= MaxPending
  <2>1. CASE state.processing
    <3>1. Len(state.pending) + 1 <= MaxPending
      BY <1>1, <1>7, <2>1, OutstandingIs DEF Books
    <3> QED
      BY <1>3, <1>4, <1>5, <1>6, <1>7, <3>1
  <2>2. CASE ~state.processing
    <3>1. Len(state.pending) <= MaxPending
      BY <1>1, <1>7, <2>2, OutstandingIs DEF Books
    <3> QED
      BY <1>3, <1>4, <1>5, <1>6, <1>7, <2>2, <3>1
  <2> QED
    BY <2>1, <2>2
<1> QED
  BY <1>2, <1>8 DEF PendingBounded

LEMMA BooksServe ==
  ASSUME Inv
  PROVE  OneServes
<1> DEFINE C == {w \in Worker : thread[w].at \notin {"none", "leaving"}}
<1>1. C \subseteq {workers}
  BY DEF Inv, Hands
<1>2. IsFiniteSet({workers}) /\ Cardinality({workers}) = 1
  BY FS_Singleton
<1> HIDE DEF C
<1>3. Cardinality(C) <= Cardinality({workers})
  BY <1>1, <1>2, FS_Subset
<1> QED
  BY <1>2, <1>3 DEF OneServes, C

\* A station has one serving thread, whoever leaves while a request arrives, and
\* accepts no more than max_pending requests, the one in execution included
\* (enqueue, _worker).
THEOREM OneServesWithinBound == Spec => []ServingInv
<1>1. Inv => ServingInv
  BY BooksBound, BooksServe DEF Inv, ServingInv
<1> QED
  BY <1>1, AlwaysInv, PTL

\* No request overtakes one that was accepted before it (_worker).
THEOREM ServedInOrder == Spec => []InOrder
<1>1. Inv => InOrder
  BY DEF Inv
<1> QED
  BY <1>1, AlwaysInv, PTL

\* The row of a skipped script never plays later
\* (_cancel_scheduled_script_queue_items).
THEOREM SkippedIsGone == Spec => []SkippedLeavesNoRow
<1>1. Inv => SkippedLeavesNoRow
  BY DEF Inv
<1> QED
  BY <1>1, AlwaysInv, PTL

\* What CommittedWasStarted says of one step.
Started ==
  \A w \in Worker :
    thread[w].at = "wait" /\ thread[w].id # None /\ outcome'[thread[w].id] = "committed" => fresh

LEMMA StepStarted ==
  ASSUME Inv, Next
  PROVE  Started
<1> SUFFICES ASSUME NEW w \in Worker, thread[w].at = "wait", outcome'[thread[w].id] = "committed"
             PROVE  fresh
  BY DEF Started
<1>1. Books /\ QueueType
  BY TypeParts DEF Inv, Books
<1>2. thread[w].id \in Request /\ outcome[thread[w].id] = "serving" /\ workers = w
  BY <1>1 DEF Books, Hands, Busy, ThreadType
<1>3. state.last = thread[w].target => fresh
  BY <1>1 DEF Books, Reservation, Holding
<1>4. ASSUME NEW u \in Worker, Serve(u)
      PROVE  fresh
  <2>1. u = w \/ EndThread(u)
    <3>1. u # w => thread[u].at \in {"none", "leaving"}
      BY <1>1, OnlyOne
    <3> QED
      BY <1>4, <3>1 DEF Serve, Take, Leave, Check, Skip, ReadPlan, Look, LookLast, Reserve, Present, Recheck,
                        HandOff, Wait
  <2>2. ~EndThread(u)
    BY <1>2 DEF EndThread, asking
  <2>3. Wait(w)
    BY <1>4, <2>1, <2>2 DEF Serve, Take, Leave, Check, Skip, ReadPlan, Look, LookLast, Reserve, Present, Recheck,
                            HandOff
  <2>4. Marked(w)
    BY <1>2, <2>3 DEF Wait, Finish
  <2> QED
    BY <1>3, <2>4 DEF Marked
<1>5. ~Enqueue
  <2>1. Enqueue => /\ \A r \in Request : r # seq' => outcome'[r] = outcome[r]
                   /\ outcome'[seq'] \in {"refused", "accepted"}
    BY <1>1, EnqueueType DEF QueueType
  <2> QED
    BY <1>2, <2>1
<1>6. ~(Switch \/ MoveOn \/ FallSilent \/ StopStation \/ CommitStart \/ EditQueue)
  BY <1>2 DEF Switch, MoveOn, Plays, FallSilent, StopStation, CommitStart, EditQueue, asking
<1> QED
  BY <1>4, <1>5, <1>6 DEF Next

\* A request is reported as committed for the start of its own row after it was
\* reserved, whichever starts are committed meanwhile (_wait_for_lifecycle).
THEOREM CommittedByItsStart == Spec => CommittedWasStarted
<1>1. Inv /\ [Next]_vars => [Started]_vars
  BY StepStarted
<1>2. Spec => [][Started]_vars
  BY <1>1, AlwaysInv, PTL DEF Spec
<1> QED
  BY <1>2 DEF CommittedWasStarted, Started
=============================================================================
