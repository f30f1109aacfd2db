-------------------------- MODULE QueueReplan_proofs --------------------------
(***************************************************************************)
(* Theorems about QueueReplan, for any number of threads, rows, edits,     *)
(* hand-offs and faults: the plan never stays behind the queue, and the    *)
(* deck that is heard keeps its row.                                       *)
(*                                                                         *)
(* A thread that replans is only of use while no later one made it stale.  *)
(* Two facts carry the first theorem: at most one replan under way is not  *)
(* stale, so that no other can overwrite what it plans; and if that one    *)
(* read an older queue, somebody else is already on the way.               *)
(***************************************************************************)
EXTENDS QueueReplan, SequencesExt, SequenceTheorems, WellFoundedInduction, TLAPS

(* What RemoveFirst and Append make of a queue *)

\* A set of naturals has a least element.
LEMMA LeastOfNat ==
  ASSUME NEW I \in SUBSET Nat, I # {}
  PROVE  \E m \in I : \A i \in I : m <= i
<1> DEFINE R == OpToRel(<, Nat)
<1>1. R = {p \in Nat \X Nat : p[1] < p[2]}
  BY DEF OpToRel
<1>2. PICK m \in I : \A i \in I : <<i, m>> \notin R
  BY NatLessThanWellFounded, WFMin
<1> HIDE DEF R
<1>3. \A i \in I : ~(i < m)
  BY <1>1, <1>2
<1> QED
  BY <1>3

\* What is in a queue with e at the end.
LEMMA AppendFacts ==
  ASSUME NEW S, NEW s \in Seq(S), NEW e \in S
  PROVE  /\ Append(s, e) \in Seq(S) /\ Len(Append(s, e)) = Len(s) + 1
         /\ ToSet(Append(s, e)) = ToSet(s) \cup {e}
         /\ \A i \in 1..(Len(s) + 1) : Append(s, e)[i] = IF i <= Len(s) THEN s[i] ELSE e
<1> DEFINE t == Append(s, e)
<1>1. /\ t \in Seq(S) /\ Len(t) = Len(s) + 1 /\ Len(s) \in Nat
      /\ \A i \in 1..(Len(s) + 1) : t[i] = IF i <= Len(s) THEN s[i] ELSE e
  OBVIOUS
<1> HIDE DEF t
<1>2. 1..(Len(s) + 1) = 1..Len(s) \cup {Len(s) + 1}
  BY <1>1
<1>3. t[Len(s) + 1] = e /\ \A i \in 1..Len(s) : t[i] = s[i]
  BY <1>1
<1>4. ToSet(t) = ToSet(s) \cup {e}
  BY <1>1, <1>2, <1>3 DEF ToSet
<1> QED
  BY <1>1, <1>4 DEF t

\* The place that RemoveFirst takes out, the first that holds e.
LEMMA RemovedPlace ==
  ASSUME NEW S, NEW s \in Seq(S), NEW e \in ToSet(s)
  PROVE  \E k \in 1..Len(s) :
           /\ s[k] = e
           /\ RemoveFirst(s, e) \in Seq(S) /\ Len(RemoveFirst(s, e)) = Len(s) - 1
           /\ \A i \in 1..(Len(s) - 1) : RemoveFirst(s, e)[i] = IF i < k THEN s[i] ELSE s[i + 1]
<1> DEFINE I == {i \in 1..Len(s) : s[i] = e}
           k == Min(I)
           a == SubSeq(s, 1, k - 1)
           b == SubSeq(s, k + 1, Len(s))
<1>1. I # {} /\ I \in SUBSET Nat /\ Len(s) \in Nat
  BY DEF ToSet
<1>2. k \in I /\ \A i \in I : k <= i
  BY <1>1, LeastOfNat DEF Min
<1>3. RemoveFirst(s, e) = a \o b
  BY <1>1 DEF RemoveFirst, RemoveAt, SelectInSeq
<1> HIDE DEF k
<1>4. /\ a \in Seq(S) /\ Len(a) = k - 1 /\ \A i \in 1..(k - 1) : a[i] = s[i]
      /\ b \in Seq(S) /\ Len(b) = Len(s) - k /\ \A i \in 1..(Len(s) - k) : b[i] = s[k + i]
  BY <1>2
<1> HIDE DEF a, b
<1>5. k \in 1..Len(s) /\ s[k] = e
  BY <1>2
<1>6. /\ a \o b \in Seq(S) /\ Len(a \o b) = Len(a) + Len(b)
      /\ \A i \in 1..(Len(a) + Len(b)) : (a \o b)[i] = IF i <= Len(a) THEN a[i] ELSE b[i - Len(a)]
  BY <1>4, ConcatProperties
<1>7. \A i \in 1..(Len(s) - 1) : (a \o b)[i] = IF i < k THEN s[i] ELSE s[i + 1]
  BY <1>1, <1>4, <1>5, <1>6
<1>8. Len(a \o b) = Len(s) - 1
  BY <1>1, <1>4, <1>5, <1>6
<1> QED
  BY <1>3, <1>5, <1>6, <1>7, <1>8

\* What is in a queue without its first e.
LEMMA RemoveFirstFacts ==
  ASSUME NEW S, NEW s \in Seq(S), NEW e
  PROVE  /\ RemoveFirst(s, e) \in Seq(S)
         /\ ToSet(RemoveFirst(s, e)) \subseteq ToSet(s)
         /\ ToSet(s) \ {e} \subseteq ToSet(RemoveFirst(s, e))
         /\ e \in ToSet(s) => Len(RemoveFirst(s, e)) = Len(s) - 1
         /\ e \notin ToSet(s) => RemoveFirst(s, e) = s
<1>1. CASE e \notin ToSet(s)
  <2>1. ~ \E i \in 1..Len(s) : s[i] = e
    BY <1>1 DEF ToSet
  <2> QED
    BY <1>1, <2>1 DEF RemoveFirst
<1>2. CASE e \in ToSet(s)
  <2> DEFINE q == RemoveFirst(s, e)
  <2> HIDE DEF q
  <2>1. PICK k \in 1..Len(s) :
           /\ s[k] = e
           /\ q \in Seq(S) /\ Len(q) = Len(s) - 1
           /\ \A i \in 1..(Len(s) - 1) : q[i] = IF i < k THEN s[i] ELSE s[i + 1]
    BY <1>2, RemovedPlace, Zenon DEF q
  <2>2. ToSet(q) \subseteq ToSet(s)
    BY <2>1 DEF ToSet
  <2>3. ASSUME NEW i \in 1..Len(s), s[i] # e
        PROVE  s[i] \in ToSet(q)
    <3>1. IF i < k THEN i \in 1..Len(q) /\ q[i] = s[i] ELSE i - 1 \in 1..Len(q) /\ q[i - 1] = s[i]
      BY <2>1, <2>3
    <3> QED
      BY <3>1 DEF ToSet
  <2>4. ToSet(s) \ {e} \subseteq ToSet(q)
    BY <2>3 DEF ToSet
  <2> QED
    BY <1>2, <2>1, <2>2, <2>4 DEF q
<1> QED
  BY <1>1, <1>2

\* A queue that names no row twice has no e left, and names none twice.
LEMMA RemoveFirstInjective ==
  ASSUME NEW S, NEW s \in Seq(S), IsInjective(s), NEW e
  PROVE  IsInjective(RemoveFirst(s, e)) /\ e \notin ToSet(RemoveFirst(s, e))
<1>1. CASE e \notin ToSet(s)
  BY <1>1, RemoveFirstFacts
<1>2. CASE e \in ToSet(s)
  <2> DEFINE q == RemoveFirst(s, e)
             at(i, k) == IF i < k THEN i ELSE i + 1
  <2> HIDE DEF q
  <2>1. PICK k \in 1..Len(s) :
           /\ s[k] = e
           /\ q \in Seq(S) /\ Len(q) = Len(s) - 1
           /\ \A i \in 1..(Len(s) - 1) : q[i] = IF i < k THEN s[i] ELSE s[i + 1]
    BY <1>2, RemovedPlace, Zenon DEF q
  <2>2. \A i, j \in 1..Len(s) : s[i] = s[j] => i = j
    BY DEF IsInjective
  <2>3. \A i \in 1..Len(q) : at(i, k) \in 1..Len(s) /\ q[i] = s[at(i, k)] /\ at(i, k) # k
    BY <2>1
  <2>4. \A i, j \in 1..Len(q) : at(i, k) = at(j, k) => i = j
    BY <2>1
  <2> HIDE DEF at
  <2>5. \A i, j \in 1..Len(q) : q[i] = q[j] => i = j
    BY <2>2, <2>3, <2>4
  <2>6. \A i \in 1..Len(q) : q[i] # e
    BY <2>1, <2>2, <2>3
  <2> QED
    BY <2>1, <2>5, <2>6 DEF IsInjective, ToSet, q
<1> QED
  BY <1>1, <1>2

(* The parts of the invariant *)

Optional == Row \cup {None}
ReplanRecord ==
  [at : Place, stale : BOOLEAN, version : 0..MaxEdits, fresh : Seq(Row), active : Deck,
   cur : Optional, row : Optional, keep : BOOLEAN, now : BOOLEAN]
TimerRecord == [now : BOOLEAN, active : Deck, cur : Row, row : Row]

QueueType == queue \in Seq(Row) /\ IsInjective(queue)
CountType == version \in 0..MaxEdits /\ planned \in 0..version
BoundType == bounds \in [moves : 0..MaxMoves, faults : 0..MaxFaults]
PlayerType ==
  player \in [active : Deck, cur : Row, next : Optional, index : BOOLEAN, key : Optional, guard : BOOLEAN, frozen : BOOLEAN]
NativeType ==
  native \in [active : Deck, on : [Deck -> Row], phase : [Deck -> {"ready", "playing", "terminal"}],
              moving : BOOLEAN, started : Optional]
ReplanType == replan \in [Thread -> ReplanRecord]
TimerType == timers \subseteq TimerRecord

\* What a thread read it has: a deck that is heard holds a row, and only a row is
\* loaded.  What it read is not newer than the queue.
Sound(r) ==
  /\ r.version <= version
  /\ r.at = "apply" => r.cur # None
  /\ r.at \in {"load", "record"} => r.row # None

\* A replan that can still put a plan into force.
Fresh(r) == r.at \in {"plan", "resolve", "apply"} /\ ~r.stale
Newest == \A t, u \in Thread : Fresh(replan[t]) /\ Fresh(replan[u]) => t = u

\* On its way to the queue as it is.
Coming(r) ==
  \/ r.at \in {"reload", "deferred"}
  \/ Fresh(r) /\ (r.at = "plan" \/ r.version = version)
Behind(r) == Fresh(r) /\ r.at # "plan" /\ r.version # version
Covered ==
  \/ bounds.faults > 0
  \/ \E t \in Thread : Coming(replan[t])
  \/ planned = version /\ \A t \in Thread : ~Behind(replan[t])

Types == QueueType /\ CountType /\ BoundType /\ PlayerType /\ NativeType /\ ReplanType /\ TimerType
Inv == Types /\ (\A t \in Thread : Sound(replan[t])) /\ Newest /\ Covered

-----------------------------------------------------------------------------
(* The queue, and the record of one thread *)

LEMMA Numbers ==
  /\ Rows \in Nat \ {0, 1} /\ MaxEdits \in Nat /\ MaxMoves \in Nat /\ MaxFaults \in Nat
  /\ None \notin Row /\ 1 \in Row /\ 2 \in Row /\ Row \subseteq Optional /\ None \in Optional
BY ReplanAssumption DEF Row, None, Optional

LEMMA FirstOfRow ==
  ASSUME NEW q \in Seq(Row)
  PROVE  FirstOf(q) \in Optional
BY DEF FirstOf, Optional

LEMMA AppendedOnce ==
  ASSUME NEW q \in Seq(Row), IsInjective(q), NEW r \in Row \ ToSet(q)
  PROVE  Append(q, r) \in Seq(Row) /\ IsInjective(Append(q, r))
<1> SUFFICES ASSUME NEW s, s = Append(q, r)
             PROVE  s \in Seq(Row) /\ IsInjective(s)
  OBVIOUS
<1>1. /\ s \in Seq(Row) /\ Len(s) = Len(q) + 1 /\ Len(q) \in Nat
      /\ \A i \in 1..(Len(q) + 1) : s[i] = IF i <= Len(q) THEN q[i] ELSE r
  BY AppendFacts
<1>2. \A i \in 1..Len(q) : q[i] # r
  BY DEF ToSet
<1>3. \A i, j \in 1..Len(q) : q[i] = q[j] => i = j
  BY DEF IsInjective
<1>4. \A i, j \in 1..(Len(q) + 1) : s[i] = s[j] => i = j
  BY <1>1, <1>2, <1>3
<1>5. DOMAIN s = 1..(Len(q) + 1)
  BY <1>1
<1>6. IsInjective(s)
  BY <1>4, <1>5 DEF IsInjective
<1>7. s \in Seq(Row)
  BY <1>1
<1> QED
  BY <1>6, <1>7

LEMMA ToFrontInjective ==
  ASSUME QueueType, NEW r \in Row
  PROVE  ToFront(r) \in Seq(Row) /\ IsInjective(ToFront(r))
<1> DEFINE q == Without(queue, r)
           s == <<r>> \o q
<1>1. q \in Seq(Row) /\ IsInjective(q) /\ r \notin ToSet(q)
  BY RemoveFirstFacts, RemoveFirstInjective DEF Without, QueueType
<1> HIDE DEF q
<1>2. \A i \in 1..Len(q) : q[i] # r
  BY <1>1 DEF ToSet
<1>3. \A i, j \in 1..Len(q) : q[i] = q[j] => i = j
  BY <1>1 DEF IsInjective
<1>4. /\ s \in Seq(Row) /\ Len(s) = Len(q) + 1 /\ Len(q) \in Nat
      /\ s[1] = r /\ \A i \in 1..Len(q) : s[i + 1] = q[i]
  BY <1>1
<1> HIDE DEF s
<1>5. ASSUME NEW i \in 1..(Len(q) + 1), i # 1
      PROVE  i - 1 \in 1..Len(q) /\ s[i] = q[i - 1]
  BY <1>4, <1>5
<1>6. ASSUME NEW i \in 1..(Len(q) + 1), NEW j \in 1..(Len(q) + 1), s[i] = s[j]
      PROVE  i = j
  <2>1. CASE i = 1 \/ j = 1
    BY <1>2, <1>4, <1>5, <1>6, <2>1
  <2>2. CASE i # 1 /\ j # 1
    <3>1. i - 1 = j - 1
      BY <1>3, <1>5, <1>6, <2>2
    <3> QED
      BY <3>1
  <2> QED
    BY <2>1, <2>2
<1>7. DOMAIN s = 1..(Len(q) + 1)
  BY <1>4
<1>8. IsInjective(s)
  BY <1>6, <1>7 DEF IsInjective
<1> QED
  BY <1>4, <1>8 DEF ToFront, s, q

\* What a thread does to the others.
Same(u) ==
  /\ replan'[u].at = replan[u].at /\ replan'[u].stale = replan[u].stale /\ replan'[u].version = replan[u].version
  /\ replan'[u].cur = replan[u].cur /\ replan'[u].row = replan[u].row

LEMMA IdleRecord ==
  /\ Idle \in ReplanRecord /\ Idle.at = "none" /\ ~Idle.stale /\ Idle.version = 0 /\ Idle.row = None
  /\ \A t \in Thread : Defer(t) \in ReplanRecord /\ Defer(t).at = "deferred" /\ Defer(t).version = 0
<1>1. <<>> \in Seq(Row)
  OBVIOUS
<1>2. Idle \in ReplanRecord
  BY <1>1, Numbers DEF Idle, ReplanRecord, Place, Deck, Optional
<1>3. [Idle EXCEPT !.at = "deferred"] \in ReplanRecord
  BY <1>2 DEF ReplanRecord, Place
<1> QED
  BY <1>2, <1>3 DEF Idle, Defer

LEMMA Turn ==
  ASSUME ReplanType, NEW t \in Thread, NEW r \in ReplanRecord, replan' = [replan EXCEPT ![t] = r]
  PROVE  ReplanType' /\ replan'[t] = r /\ \A u \in Thread \ {t} : replan'[u] = replan[u]
BY DEF ReplanType

\* What a thread that moves on to another place keeps.
LEMMA TurnAt ==
  ASSUME ReplanType, NEW t \in Thread, NEW a \in Place, At(t, a)
  PROVE  /\ ReplanType' /\ \A u \in Thread \ {t} : replan'[u] = replan[u]
         /\ replan'[t].at = a /\ replan'[t].stale = replan[t].stale /\ replan'[t].version = replan[t].version
         /\ replan'[t].cur = replan[t].cur /\ replan'[t].row = replan[t].row
<1> DEFINE r == [replan[t] EXCEPT !.at = a]
<1>1. replan[t] \in ReplanRecord /\ replan' = [replan EXCEPT ![t] = r]
  BY DEF ReplanType, At
<1>2. r \in ReplanRecord
  BY <1>1 DEF ReplanRecord
<1>3. /\ r.at = a /\ r.stale = replan[t].stale /\ r.version = replan[t].version
      /\ r.cur = replan[t].cur /\ r.row = replan[t].row
  BY <1>1 DEF ReplanRecord
<1> HIDE DEF r
<1> QED
  BY <1>1, <1>2, <1>3, Turn

\* A new serial makes every other replan that is under way stale.
LEMMA TurnSerial ==
  ASSUME ReplanType, NEW t \in Thread, NEW r \in ReplanRecord, NewSerial(t, r)
  PROVE  /\ ReplanType' /\ replan'[t] = r
         /\ \A u \in Thread \ {t} :
              /\ replan'[u].at = replan[u].at /\ replan'[u].version = replan[u].version
              /\ replan'[u].cur = replan[u].cur /\ replan'[u].row = replan[u].row
              /\ replan[u].at \in Replanning => replan'[u].stale
<1> DEFINE old(u) == [replan[u] EXCEPT !.stale = @ \/ replan[u].at \in Replanning]
<1>1. replan' = [u \in Thread |-> IF u = t THEN r ELSE old(u)]
  BY DEF NewSerial
<1>2. ASSUME NEW u \in Thread
      PROVE  /\ old(u) \in ReplanRecord /\ old(u).at = replan[u].at /\ old(u).version = replan[u].version
             /\ old(u).cur = replan[u].cur /\ old(u).row = replan[u].row
             /\ replan[u].at \in Replanning => old(u).stale
  <2> DEFINE b == replan[u].stale \/ replan[u].at \in Replanning
  <2>1. replan[u] \in ReplanRecord /\ b \in BOOLEAN
    BY DEF ReplanType
  <2>2. old(u) = [replan[u] EXCEPT !.stale = b]
    OBVIOUS
  <2>3. replan[u].at \in Replanning => b
    OBVIOUS
  <2> HIDE DEF b, old
  <2> QED
    BY <2>1, <2>2, <2>3 DEF ReplanRecord
<1> HIDE DEF old
<1> QED
  BY <1>1, <1>2 DEF ReplanType

\* A new generation.
LEMMA TurnGeneration ==
  ASSUME ReplanType, NEW u \in Thread
  PROVE  LET m == [replan[u] EXCEPT !.now = FALSE]
         IN  /\ m \in ReplanRecord /\ m.at = replan[u].at /\ m.stale = replan[u].stale
             /\ m.version = replan[u].version /\ m.cur = replan[u].cur /\ m.row = replan[u].row
<1>1. replan[u] \in ReplanRecord
  BY DEF ReplanType
<1> QED
  BY <1>1 DEF ReplanRecord

-----------------------------------------------------------------------------
(* Each step keeps the types, one variable after the other. *)

LEMMA QueueKept ==
  ASSUME Inv, Next
  PROVE  QueueType'
<1>1. QueueType /\ queue \in Seq(Row) /\ IsInjective(queue)
  BY DEF Inv, Types, QueueType
<1>2. \A r : Without(queue, r) \in Seq(Row) /\ IsInjective(Without(queue, r))
  BY <1>1, RemoveFirstFacts, RemoveFirstInjective DEF Without
<1>3. ASSUME NEW t \in Thread, Edit(t)
      PROVE  QueueType'
  <2>1. ToSet(queue) \subseteq Row
    BY <1>1 DEF ToSet
  <2>2. \/ \E r \in Row \ ToSet(queue) : queue' = Append(queue, r)
        \/ \E r \in ToSet(queue) : queue' = Without(queue, r) \/ queue' = ToFront(r)
    BY <1>3 DEF Edit
  <2>3. CASE \E r \in Row \ ToSet(queue) : queue' = Append(queue, r)
    BY <1>1, <2>3, AppendedOnce DEF QueueType
  <2>4. CASE \E r \in ToSet(queue) : queue' = Without(queue, r) \/ queue' = ToFront(r)
    BY <1>1, <1>2, <2>1, <2>4, ToFrontInjective DEF QueueType
  <2> QED
    BY <2>2, <2>3, <2>4
<1>4. CASE TrackStarted
  BY <1>2, <1>4 DEF TrackStarted, QueueType
<1>5. ASSUME Next, ~TrackStarted, ~ \E t \in Thread : Edit(t)
      PROVE  queue' = queue
  BY <1>5 DEF Next, Replan, DeferredIsLost, Begin, ReadPlan, Resolve, Abort, Apply, Load, Record, PreloadStale,
       PreloadEnds, PreloadLoads, CrossFade, ManualHandOff, GuardPasses, Seek, SeekEnds, Finished, NeedNext
<1> QED
  BY <1>1, <1>3, <1>4, <1>5 DEF QueueType

LEMMA CountKept ==
  ASSUME Inv, Next
  PROVE  CountType'
<1>1. CountType /\ version \in 0..MaxEdits /\ planned \in 0..version
  BY DEF Inv, Types, CountType
<1>2. ASSUME NEW t \in Thread, Edit(t)
      PROVE  CountType'
  BY <1>1, <1>2, Numbers DEF Edit, CountType
<1>3. CASE TrackStarted
  BY <1>1, <1>3 DEF TrackStarted, CountType
<1>4. ASSUME NEW t \in Thread, Apply(t)
      PROVE  CountType'
  <2>1. replan[t].version \in 0..MaxEdits /\ replan[t].version <= version
    BY DEF Inv, Types, ReplanType, ReplanRecord, Sound
  <2>2. planned' = replan[t].version /\ version' = version
    BY <1>4 DEF Apply
  <2> QED
    BY <1>1, <2>1, <2>2 DEF CountType
<1>5. ASSUME Next, ~TrackStarted, ~ \E t \in Thread : Edit(t) \/ Apply(t)
      PROVE  UNCHANGED <<version, planned>>
  BY <1>5 DEF Next, Replan, DeferredIsLost, Begin, ReadPlan, Resolve, Abort, Load, Record, PreloadStale,
       PreloadEnds, PreloadLoads, CrossFade, ManualHandOff, GuardPasses, Seek, SeekEnds, Finished, NeedNext
<1> QED
  BY <1>1, <1>2, <1>3, <1>4, <1>5 DEF CountType

LEMMA FailsBound ==
  ASSUME BoundType, NEW f, Fails(f)
  PROVE  BoundType' /\ bounds'.faults > 0
<1>1. /\ bounds \in [moves : 0..MaxMoves, faults : 0..MaxFaults] /\ bounds.faults < MaxFaults
      /\ bounds' = [bounds EXCEPT !.faults = @ + 1]
  BY DEF BoundType, Fails
<1>2. bounds.faults + 1 \in 0..MaxFaults /\ bounds.faults + 1 > 0
  BY <1>1, Numbers
<1> QED
  BY <1>1, <1>2 DEF BoundType

LEMMA MovesBound ==
  ASSUME BoundType, MayMove
  PROVE  BoundType' /\ bounds'.faults = bounds.faults
<1>1. /\ bounds \in [moves : 0..MaxMoves, faults : 0..MaxFaults] /\ bounds.moves < MaxMoves
      /\ bounds' = [bounds EXCEPT !.moves = @ + 1]
  BY DEF BoundType, MayMove
<1>2. bounds.moves + 1 \in 0..MaxMoves
  BY <1>1, Numbers
<1> QED
  BY <1>1, <1>2 DEF BoundType

LEMMA BoundsKept ==
  ASSUME Inv, Next
  PROVE  BoundType' /\ (bounds.faults > 0 => bounds'.faults > 0)
<1>1. BoundType
  BY DEF Inv, Types
<1>2. CASE \E f \in Fault : Fails(f)
  BY <1>1, <1>2, FailsBound
<1>3. CASE MayMove
  BY <1>1, <1>3, MovesBound
<1>4. (\E f : Fails(f)) \/ MayMove \/ bounds' = bounds
  BY DEF Next, Edit, Replan, DeferredIsLost, Begin, ReadPlan, Resolve, Abort, Apply, Load, Record, PreloadStale,
       PreloadEnds, PreloadLoads, CrossFade, ManualHandOff, GuardPasses, Seek, SeekEnds, Finished, NeedNext,
       TrackStarted
<1>5. (\E f : Fails(f)) => \E f \in Fault : Fails(f)
  BY DEF Fails
<1> QED
  BY <1>1, <1>2, <1>3, <1>4, <1>5 DEF BoundType

LEMMA PlayerKept ==
  ASSUME Inv, Next
  PROVE  PlayerType'
<1>1. /\ PlayerType
      /\ player \in [active : Deck, cur : Row, next : Optional, index : BOOLEAN, key : Optional,
                     guard : BOOLEAN, frozen : BOOLEAN]
      /\ native \in [active : Deck, on : [Deck -> Row], phase : [Deck -> {"ready", "playing", "terminal"}],
                     moving : BOOLEAN, started : Optional]
      /\ queue \in Seq(Row) /\ timers \subseteq TimerRecord
  BY DEF Inv, Types, PlayerType, NativeType, QueueType, TimerType
<1>2. \A r : Without(queue, r) \in Seq(Row)
  BY <1>1, RemoveFirstFacts DEF Without
<1>3. \A d \in Deck : Other(d) \in Deck
  BY DEF Deck, Other
<1>4. ASSUME NEW t \in Thread, Apply(t)
      PROVE  PlayerType'
  <2> DEFINE r == replan[t]
  <2>1. /\ r \in ReplanRecord /\ r.cur # None
        /\ player' = [player EXCEPT !.active = r.active, !.cur = r.cur, !.next = r.row, !.index = r.keep,
                                    !.key = IF r.keep THEN r.row ELSE None]
    BY <1>4 DEF Apply, Inv, Types, ReplanType, Sound
  <2> HIDE DEF r
  <2>2. r.active \in Deck /\ r.cur \in Row /\ r.row \in Optional /\ r.keep \in BOOLEAN
    BY <2>1 DEF ReplanRecord, Optional
  <2> QED
    BY <1>1, <2>1, <2>2, Numbers DEF PlayerType
<1>5. ASSUME NEW t \in Thread, Record(t)
      PROVE  PlayerType'
  <2> DEFINE same == replan[t].active = player.active
             key == IF same /\ replan[t].now THEN replan[t].row ELSE player.key
             index == IF Stale(t) THEN player.index ELSE same
  <2>1. replan[t].row \in Optional
    BY DEF Inv, Types, ReplanType, ReplanRecord
  <2>2. key \in Optional /\ index \in BOOLEAN
    BY <1>1, <2>1
  <2>3. player' = [player EXCEPT !.key = key, !.index = index]
    BY <1>5 DEF Record
  <2> HIDE DEF key, index
  <2> QED
    BY <1>1, <2>2, <2>3 DEF PlayerType
<1>6. ASSUME NEW p \in timers, PreloadLoads(p)
      PROVE  PlayerType'
  <2>1. p.row \in Row /\ player' = [player EXCEPT !.key = p.row, !.index = TRUE]
    BY <1>1, <1>6 DEF PreloadLoads, TimerRecord
  <2> QED
    BY <1>1, <2>1, Numbers DEF PlayerType
<1>7. CASE ManualHandOff
  <2> DEFINE d == Other(native.active)
  <2>1. d \in Deck /\ native.on[d] \in Row
    BY <1>1, <1>3
  <2>2. player' = [player EXCEPT !.guard = TRUE, !.active = d, !.cur = native.on[d]]
    BY <1>7 DEF ManualHandOff
  <2> HIDE DEF d
  <2> QED
    BY <1>1, <2>1, <2>2 DEF PlayerType
<1>8. CASE GuardPasses \/ Seek \/ SeekEnds
  BY <1>1, <1>8 DEF GuardPasses, Seek, SeekEnds, PlayerType
<1>9. CASE TrackStarted
  <2> DEFINE row == FirstOf(Without(queue, native.started))
             held == row # None /\ native.on[Other(native.active)] = row
             key == IF held THEN row ELSE None
             d == native.active
  <2>1. row \in Optional
    BY <1>2, FirstOfRow
  <2>2. player' = [player EXCEPT !.active = d, !.cur = native.on[d], !.next = row, !.index = held, !.key = key,
                                 !.frozen = FALSE]
    BY <1>9 DEF TrackStarted
  <2>3. d \in Deck /\ native.on[d] \in Row
    BY <1>1
  <2> HIDE DEF row, d
  <2>4. key \in Optional /\ held \in BOOLEAN
    BY <2>1, Numbers
  <2> HIDE DEF key, held
  <2> QED
    BY <1>1, <2>1, <2>2, <2>3, <2>4 DEF PlayerType
<1>10. CASE NeedNext
  <2> DEFINE row == IF player.cur = native.on[native.active] /\ player.next # None THEN player.next
                    ELSE FirstOf(Without(queue, native.on[native.active]))
  <2>1. row \in Optional
    BY <1>1, <1>2, FirstOfRow
  <2>2. player' = [player EXCEPT !.key = row, !.next = row, !.index = TRUE] \/ player' = [player EXCEPT !.next = row]
    BY <1>10 DEF NeedNext
  <2> HIDE DEF row
  <2> QED
    BY <1>1, <2>1, <2>2 DEF PlayerType
<1>11. ASSUME Next, ~(\E t \in Thread : Apply(t) \/ Record(t)), ~(\E p \in timers : PreloadLoads(p)), ~ManualHandOff,
              ~GuardPasses, ~Seek, ~SeekEnds, ~TrackStarted, ~NeedNext
       PROVE  player' = player
  BY <1>11 DEF Next, Edit, Replan, DeferredIsLost, Begin, ReadPlan, Resolve, Abort, Load, PreloadStale,
       PreloadEnds, CrossFade, Finished
<1> QED
  BY <1>1, <1>4, <1>5, <1>6, <1>7, <1>8, <1>9, <1>10, <1>11 DEF PlayerType

\* What a load and a start do to the daemon.
LEMMA HoldsTyped ==
  ASSUME NativeType, NEW d \in Deck, NEW r \in Row,
         native' = [native EXCEPT !.on[d] = r, !.phase[d] = "ready"]
  PROVE  NativeType' /\ \A e \in Deck \ {d} : native'.on[e] = native.on[e]
BY DEF NativeType

LEMMA MovesTyped ==
  ASSUME NativeType, NEW skip \in BOOLEAN, Moves(skip)
  PROVE  NativeType' /\ native'.on = native.on
<1> DEFINE a == native.active
           d == Other(a)
           old == IF skip THEN "terminal" ELSE native.phase[a]
           mv == ~skip
<1>1. a \in Deck /\ d \in Deck /\ a # d /\ native.on[d] \in Row /\ native.phase \in [Deck -> {"ready", "playing", "terminal"}]
  BY DEF NativeType, Deck, Other
<1>2. native' = [native EXCEPT !.active = d, !.phase = [@ EXCEPT ![d] = "playing", ![a] = old], !.moving = mv,
                               !.started = native.on[d]]
  BY <1>1 DEF Moves, NativeType
<1>3. old \in {"ready", "playing", "terminal"} /\ mv \in BOOLEAN
  BY <1>1
<1> HIDE DEF d, a, old, mv
<1>4. [native.phase EXCEPT ![d] = "playing", ![a] = old] \in [Deck -> {"ready", "playing", "terminal"}]
  BY <1>1, <1>3
<1>5. native' = [native EXCEPT !.active = d, !.phase = [native.phase EXCEPT ![d] = "playing", ![a] = old],
                               !.moving = mv, !.started = native.on[d]]
  BY <1>2
<1> QED
  BY <1>1, <1>3, <1>4, <1>5 DEF NativeType, Optional

LEMMA NativeKept ==
  ASSUME Inv, Next
  PROVE  NativeType' /\ \A d \in Deck : native.phase[d] = "playing" => native'.on[d] = native.on[d]
<1>1. /\ NativeType /\ queue \in Seq(Row) /\ timers \subseteq TimerRecord
      /\ player.next \in Optional
      /\ native \in [active : Deck, on : [Deck -> Row], phase : [Deck -> {"ready", "playing", "terminal"}],
                     moving : BOOLEAN, started : Optional]
  BY DEF Inv, Types, PlayerType, NativeType, QueueType, TimerType
<1>2. \A d \in Deck : Other(d) \in Deck
  BY DEF Deck, Other
<1>3. ASSUME NEW t \in Thread, Load(t)
      PROVE  NativeType' /\ \A d \in Deck : native.phase[d] = "playing" => native'.on[d] = native.on[d]
  <2> DEFINE d == Other(replan[t].active)
             r == replan[t].row
  <2>1. d \in Deck /\ r \in Row
    <3>1. replan[t].active \in Deck /\ replan[t].row \in Optional
      BY DEF Inv, Types, ReplanType, ReplanRecord
    <3>2. replan[t].row # None
      BY <1>3 DEF Inv, Sound, Load
    <3> QED
      BY <1>2, <3>1, <3>2 DEF Optional
  <2>2. native' = native \/ (native.phase[d] # "playing" /\ native' = [native EXCEPT !.on[d] = r, !.phase[d] = "ready"])
    BY <1>3 DEF Load, Refused, Holds
  <2> HIDE DEF d, r
  <2>3. CASE native' = native
    BY <1>1, <2>3 DEF NativeType
  <2>4. CASE native.phase[d] # "playing" /\ native' = [native EXCEPT !.on[d] = r, !.phase[d] = "ready"]
    BY <1>1, <2>1, <2>4, HoldsTyped
  <2> QED
    BY <2>2, <2>3, <2>4
<1>4. ASSUME NEW p \in timers, PreloadLoads(p)
      PROVE  NativeType' /\ \A d \in Deck : native.phase[d] = "playing" => native'.on[d] = native.on[d]
  <2> DEFINE d == Other(p.active)
  <2>1. d \in Deck /\ p.row \in Row
    BY <1>1, <1>2 DEF TimerRecord
  <2>2. native.phase[d] # "playing" /\ native' = [native EXCEPT !.on[d] = p.row, !.phase[d] = "ready"]
    BY <1>4 DEF PreloadLoads, Refused, Holds
  <2> HIDE DEF d
  <2> QED
    BY <1>1, <2>1, <2>2, HoldsTyped
<1>5. CASE CrossFade \/ ManualHandOff
  BY <1>1, <1>5, MovesTyped DEF CrossFade, ManualHandOff
<1>6. CASE Finished
  BY <1>1, <1>2, <1>6 DEF Finished, NativeType
<1>7. CASE TrackStarted
  BY <1>1, <1>7, Numbers DEF TrackStarted, NativeType
<1>8. CASE NeedNext
  <2> DEFINE row == IF player.cur = native.on[native.active] /\ player.next # None THEN player.next
                    ELSE FirstOf(Without(queue, native.on[native.active]))
             d == Other(native.active)
  <2>1. Without(queue, native.on[native.active]) \in Seq(Row)
    BY <1>1, RemoveFirstFacts DEF Without
  <2>2. row \in Optional
    BY <1>1, <2>1, FirstOfRow
  <2>3. /\ row # None /\ native.phase[d] = "terminal"
        /\ native' = [native EXCEPT !.on[d] = row, !.phase[d] = "ready"]
    BY <1>8 DEF NeedNext
  <2>4. d \in Deck
    BY <1>1, <1>2
  <2> HIDE DEF d, row
  <2> QED
    BY <1>1, <2>2, <2>3, <2>4, HoldsTyped DEF Optional
<1>9. ASSUME Next, ~(\E t \in Thread : Load(t)), ~(\E p \in timers : PreloadLoads(p)), ~CrossFade, ~ManualHandOff,
             ~Finished, ~TrackStarted, ~NeedNext
      PROVE  native' = native
  BY <1>9 DEF Next, Edit, Replan, DeferredIsLost, Begin, ReadPlan, Resolve, Abort, Apply, Record, PreloadStale,
       PreloadEnds, GuardPasses, Seek, SeekEnds
<1> QED
  BY <1>1, <1>3, <1>4, <1>5, <1>6, <1>7, <1>8, <1>9 DEF NativeType

LEMMA TimersKept ==
  ASSUME Inv, Next
  PROVE  TimerType'
<1>1. /\ timers \subseteq TimerRecord /\ player.cur \in Row
  BY DEF Inv, Types, TimerType, PlayerType
<1>2. Older \subseteq TimerRecord
  BY <1>1 DEF Older, TimerRecord
<1>3. ASSUME NEW t \in Thread, Load(t)
      PROVE  timers' \subseteq TimerRecord
  <2>1. replan[t].active \in Deck /\ replan[t].row \in Optional /\ replan[t].row # None
    BY <1>3 DEF Inv, Types, ReplanType, ReplanRecord, Sound, Load
  <2>2. timers' = timers \/ Preload(t)
    BY <1>3 DEF Load
  <2> DEFINE p == [now |-> TRUE, active |-> replan[t].active, cur |-> player.cur, row |-> replan[t].row]
  <2>3. p \in TimerRecord
    BY <1>1, <2>1 DEF TimerRecord, Optional
  <2>4. timers' = timers \/ timers' = timers \cup {p}
    BY <2>2 DEF Preload
  <2> HIDE DEF p
  <2> QED
    BY <1>1, <2>3, <2>4
<1>4. ASSUME Next, ~ \E t \in Thread : Load(t)
      PROVE  timers' \subseteq timers \/ timers' = Older
  BY <1>4 DEF Next, Edit, Replan, DeferredIsLost, Begin, ReadPlan, Resolve, Abort, Apply, Record, PreloadStale,
       PreloadEnds, PreloadLoads, Gone, CrossFade, ManualHandOff, GuardPasses, Seek, SeekEnds, Finished, NeedNext,
       TrackStarted
<1> QED
  BY <1>1, <1>2, <1>3, <1>4 DEF TimerType

-----------------------------------------------------------------------------
(* What each step leaves of the threads *)

Others(t) == \A u \in Thread \ {t} : Same(u)

\* The threads stay as they are.
LEMMA QuietKeeps ==
  ASSUME Inv, \A u \in Thread : Same(u), version' = version,
         bounds.faults > 0 => bounds'.faults > 0, planned' = planned \/ planned' = version
  PROVE  (\A u \in Thread : Sound(replan[u])') /\ Newest' /\ Covered'
<1>1. \A u \in Thread : /\ Sound(replan[u])' /\ (Fresh(replan[u])' <=> Fresh(replan[u]))
                        /\ (Coming(replan[u])' <=> Coming(replan[u])) /\ (Behind(replan[u])' <=> Behind(replan[u]))
  BY DEF Inv, Same, Sound, Fresh, Coming, Behind
<1>2. Newest'
  BY <1>1 DEF Inv, Newest
<1>3. Covered'
  BY <1>1 DEF Inv, Covered
<1> QED
  BY <1>1, <1>2, <1>3

\* One thread goes to r, which is not at a plan; if it was on its way to the
\* queue, r is, or its plan is in force or a fault stopped it.
LEMMA OneKeeps ==
  ASSUME Inv, NEW t \in Thread, Others(t), Sound(replan[t])', version' = version,
         bounds.faults > 0 => bounds'.faults > 0, planned' = planned,
         Fresh(replan[t])' => Fresh(replan[t]),
         Behind(replan[t])' => Behind(replan[t]),
         Coming(replan[t]) => Coming(replan[t])' \/ bounds'.faults > 0
  PROVE  (\A u \in Thread : Sound(replan[u])') /\ Newest' /\ Covered'
<1>1. \A u \in Thread \ {t} : /\ Sound(replan[u])' /\ (Fresh(replan[u])' <=> Fresh(replan[u]))
                        /\ (Coming(replan[u])' <=> Coming(replan[u])) /\ (Behind(replan[u])' <=> Behind(replan[u]))
  BY DEF Inv, Others, Same, Sound, Fresh, Coming, Behind
<1>2. Newest'
  BY <1>1 DEF Inv, Newest
<1>3. Covered'
  BY <1>1 DEF Inv, Covered
<1> QED
  BY <1>1, <1>2, <1>3

LEMMA EditKeeps ==
  ASSUME Inv, NEW t \in Thread, Edit(t)
  PROVE  ReplanType' /\ (\A u \in Thread : Sound(replan[u])') /\ Newest' /\ Covered'
<1>1. /\ ReplanType /\ version' = version + 1 /\ version \in Nat /\ At(t, "reload")
      /\ \A u \in Thread : replan[u].version \in Nat /\ Sound(replan[u])
  BY DEF Edit, Inv, Types, CountType, ReplanType, ReplanRecord
<1>2. /\ ReplanType' /\ \A u \in Thread \ {t} : replan'[u] = replan[u]
      /\ replan'[t].at = "reload" /\ replan'[t].version = replan[t].version
  BY <1>1, TurnAt DEF Place
<1>3. \A u \in Thread : Sound(replan[u])'
  BY <1>1, <1>2 DEF Sound
<1>4. Newest'
  BY <1>2 DEF Inv, Newest, Fresh
<1>5. Covered'
  BY <1>2 DEF Covered, Coming
<1> QED
  BY <1>2, <1>3, <1>4, <1>5

LEMMA BeginKeeps ==
  ASSUME Inv, NEW t \in Thread, Begin(t)
  PROVE  ReplanType' /\ (\A u \in Thread : Sound(replan[u])') /\ Newest' /\ Covered'
<1> DEFINE plan == [Idle EXCEPT !.at = "plan"]
<1>1. /\ ReplanType /\ BoundType /\ version' = version /\ version \in Nat
      /\ bounds' = bounds \/ \E f : Fails(f)
  BY DEF Begin, Inv, Types, CountType
<1>2. plan \in ReplanRecord /\ plan.at = "plan" /\ ~plan.stale /\ plan.version = 0
  BY IdleRecord DEF ReplanRecord, Place, Replanning, Idle
<1>3. PICK r \in {Idle, Defer(t), plan} : NewSerial(t, r) /\ (r = Idle => bounds'.faults > 0)
  <2>1. CASE NewSerial(t, Defer(t)) \/ NewSerial(t, plan)
    BY <1>2, <2>1, IdleRecord
  <2>2. CASE NewSerial(t, Idle) /\ \E f : Fails(f)
    BY <1>1, <2>2, FailsBound
  <2> QED
    BY <2>1, <2>2 DEF Begin
<1>4. r \in ReplanRecord /\ r.version = 0 /\ r.at \in {"none", "deferred", "plan"} /\ (r.at = "plan" => ~r.stale)
  BY <1>2, IdleRecord
<1> HIDE DEF plan
<1>5. /\ ReplanType' /\ replan'[t] = r
      /\ \A u \in Thread \ {t} :
           /\ replan'[u].at = replan[u].at /\ replan'[u].version = replan[u].version
           /\ replan'[u].cur = replan[u].cur /\ replan'[u].row = replan[u].row
           /\ replan[u].at \in Replanning => replan'[u].stale
  BY <1>1, <1>3, <1>4, TurnSerial
<1>6. \A u \in Thread : Sound(replan[u])'
  BY <1>1, <1>4, <1>5 DEF Inv, Sound
<1>7. \A u \in Thread \ {t} : ~Fresh(replan[u])'
  BY <1>5 DEF Fresh, Replanning
<1>8. Newest'
  BY <1>7 DEF Newest
<1>9. bounds'.faults > 0 \/ Coming(replan[t])'
  BY <1>2, <1>3, <1>5, IdleRecord DEF Coming, Fresh
<1> QED
  BY <1>5, <1>6, <1>8, <1>9 DEF Covered

LEMMA ReadPlanKeeps ==
  ASSUME Inv, NEW t \in Thread, ReadPlan(t)
  PROVE  ReplanType' /\ (\A u \in Thread : Sound(replan[u])') /\ Newest' /\ Covered'
<1> DEFINE r == [replan[t] EXCEPT !.at = "resolve", !.fresh = queue, !.version = version]
<1>1. /\ ReplanType /\ replan[t] \in ReplanRecord /\ version \in 0..MaxEdits /\ queue \in Seq(Row)
      /\ replan' = [replan EXCEPT ![t] = r] /\ replan[t].at = "plan" /\ version' = version
  BY DEF ReadPlan, Inv, Types, CountType, QueueType, ReplanType
<1>2. /\ r \in ReplanRecord /\ r.at = "resolve" /\ r.version = version /\ r.stale = replan[t].stale
  BY <1>1 DEF ReplanRecord, Place, Replanning
<1> HIDE DEF r
<1>3. ReplanType' /\ replan'[t] = r /\ \A u \in Thread \ {t} : replan'[u] = replan[u]
  BY <1>1, <1>2, Turn
<1>4. Others(t) /\ Sound(replan[t])'
  BY <1>1, <1>2, <1>3 DEF Others, Same, Sound
<1>5. /\ Fresh(replan[t])' => Fresh(replan[t])
      /\ ~Behind(replan[t])'
      /\ Coming(replan[t]) => Coming(replan[t])'
  BY <1>1, <1>2, <1>3 DEF Fresh, Behind, Coming
<1>6. planned' = planned /\ bounds' = bounds
  BY DEF ReadPlan
<1> QED
  BY <1>1, <1>3, <1>4, <1>5, <1>6, OneKeeps

LEMMA ResolveKeeps ==
  ASSUME Inv, NEW t \in Thread, Resolve(t)
  PROVE  ReplanType' /\ (\A u \in Thread : Sound(replan[u])') /\ Newest' /\ Covered'
<1> DEFINE d == native.active
           row == FirstOf(Without(replan[t].fresh, native.on[d]))
           keep == row # None /\ native.on[Other(d)] = row /\ native.phase[Other(d)] # "terminal"
           c == native.on[d]
           r == [replan[t] EXCEPT !.at = "apply", !.active = d, !.cur = c, !.row = row, !.fresh = <<>>, !.keep = keep]
<1>1. /\ ReplanType /\ replan[t] \in ReplanRecord /\ d \in Deck /\ c \in Row
      /\ replan[t].fresh \in Seq(Row) /\ replan[t].version <= version
      /\ replan' = [replan EXCEPT ![t] = r] /\ replan[t].at = "resolve" /\ version' = version
  BY DEF Resolve, Inv, Types, NativeType, ReplanType, ReplanRecord, Sound
<1>2. row \in Optional /\ keep \in BOOLEAN /\ <<>> \in Seq(Row)
  <2>1. Without(replan[t].fresh, native.on[d]) \in Seq(Row)
    BY <1>1, RemoveFirstFacts DEF Without
  <2> QED
    BY <2>1, FirstOfRow
<1> HIDE DEF d, row, keep, c
<1>3. /\ r \in ReplanRecord /\ r.at = "apply" /\ r.version = replan[t].version /\ r.stale = replan[t].stale
      /\ r.cur = c
  BY <1>1, <1>2 DEF ReplanRecord, Place, Replanning, Optional
<1> HIDE DEF r
<1>4. ReplanType' /\ replan'[t] = r /\ \A u \in Thread \ {t} : replan'[u] = replan[u]
  BY <1>1, <1>3, Turn
<1>5. Others(t) /\ Sound(replan[t])'
  BY <1>1, <1>3, <1>4, Numbers DEF Others, Same, Sound
<1>6. /\ Fresh(replan[t])' => Fresh(replan[t])
      /\ Behind(replan[t])' => Behind(replan[t])
      /\ Coming(replan[t]) => Coming(replan[t])'
  BY <1>1, <1>3, <1>4 DEF Fresh, Behind, Coming
<1>7. planned' = planned /\ bounds' = bounds
  BY DEF Resolve
<1> QED
  BY <1>1, <1>4, <1>5, <1>6, <1>7, OneKeeps

\* A thread ends that was not on its way to the queue, or by a fault.
LEMMA DoneKeeps ==
  ASSUME Inv, NEW t \in Thread, Done(t), version' = version, planned' = planned,
         bounds.faults > 0 => bounds'.faults > 0,
         Coming(replan[t]) => bounds'.faults > 0
  PROVE  ReplanType' /\ (\A u \in Thread : Sound(replan[u])') /\ Newest' /\ Covered'
<1>1. ReplanType' /\ replan'[t] = Idle /\ \A u \in Thread \ {t} : replan'[u] = replan[u]
  BY IdleRecord, Turn DEF Done, Inv, Types
<1>2. Others(t) /\ Sound(replan[t])' /\ ~Fresh(replan[t])' /\ ~Behind(replan[t])'
  <2>1. version \in Nat
    BY DEF Inv, Types, CountType
  <2> QED
    BY <1>1, <2>1, IdleRecord DEF Others, Same, Sound, Fresh, Behind
<1> QED
  BY <1>1, <1>2, OneKeeps

LEMMA EndKeeps ==
  ASSUME Inv, NEW t \in Thread, DeferredIsLost(t) \/ Abort(t) \/ Record(t)
  PROVE  ReplanType' /\ (\A u \in Thread : Sound(replan[u])') /\ Newest' /\ Covered'
<1>1. Done(t) /\ version' = version /\ planned' = planned
  BY DEF DeferredIsLost, Abort, Record
<1>2. CASE DeferredIsLost(t)
  BY <1>1, <1>2, DoneKeeps, FailsBound DEF DeferredIsLost, Inv, Types
<1>3. CASE Abort(t) \/ Record(t)
  <2>1. ~Coming(replan[t]) /\ bounds' = bounds
    BY <1>3 DEF Abort, Record, Stale, Coming, Fresh
  <2> QED
    BY <1>1, <2>1, DoneKeeps
<1> QED
  BY <1>2, <1>3

LEMMA LoadKeeps ==
  ASSUME Inv, NEW t \in Thread, Load(t)
  PROVE  ReplanType' /\ (\A u \in Thread : Sound(replan[u])') /\ Newest' /\ Covered'
<1>1. /\ ReplanType /\ replan[t] \in ReplanRecord /\ replan[t].at = "load" /\ ~Coming(replan[t])
      /\ version' = version /\ planned' = planned /\ bounds' = bounds /\ Sound(replan[t])
  BY DEF Load, Inv, Types, ReplanType, Coming, Fresh
<1>2. CASE Done(t)
  BY <1>1, <1>2, DoneKeeps
<1>3. ASSUME NEW n \in {TRUE, replan[t].now}, replan' = [replan EXCEPT ![t].at = "record", ![t].now = n]
      PROVE  ReplanType' /\ (\A u \in Thread : Sound(replan[u])') /\ Newest' /\ Covered'
  <2> DEFINE r == [replan[t] EXCEPT !.at = "record", !.now = n]
  <2>1. replan' = [replan EXCEPT ![t] = r]
    BY <1>3
  <2>2. n \in BOOLEAN
    BY <1>1 DEF ReplanRecord
  <2>3. r \in ReplanRecord /\ r.at = "record" /\ r.version = replan[t].version /\ r.row = replan[t].row
    BY <1>1, <2>2 DEF ReplanRecord, Place, Replanning
  <2> HIDE DEF r
  <2>4. ReplanType' /\ replan'[t] = r /\ \A u \in Thread \ {t} : replan'[u] = replan[u]
    BY <1>1, <2>1, <2>3, Turn
  <2>5. Others(t) /\ Sound(replan[t])' /\ ~Fresh(replan[t])' /\ ~Behind(replan[t])'
    BY <1>1, <2>3, <2>4 DEF Others, Same, Sound, Fresh, Behind
  <2> QED
    BY <1>1, <2>4, <2>5, OneKeeps
<1> QED
  BY <1>2, <1>3 DEF Load

\* The plan of the newest replan comes into force: it is of the queue as it is, or
\* somebody else is on the way.
LEMMA ApplyKeeps ==
  ASSUME Inv, NEW t \in Thread, Apply(t)
  PROVE  ReplanType' /\ (\A u \in Thread : Sound(replan[u])') /\ Newest' /\ Covered'
<1> DEFINE load == [Idle EXCEPT !.at = "load", !.now = TRUE, !.row = replan[t].row, !.active = replan[t].active]
           r == IF replan[t].row = None \/ replan[t].keep THEN Idle ELSE load
           m(u) == [replan[u] EXCEPT !.now = FALSE]
<1>1. /\ ReplanType /\ replan[t] \in ReplanRecord /\ replan[t].at = "apply" /\ ~replan[t].stale /\ Fresh(replan[t])
      /\ version' = version /\ planned' = replan[t].version /\ bounds' = bounds /\ version \in Nat
  BY DEF Apply, Stale, Inv, Types, ReplanType, CountType, Fresh
<1>2. load \in ReplanRecord /\ load.at = "load" /\ load.row = replan[t].row /\ load.version = 0
  BY <1>1, IdleRecord DEF ReplanRecord, Place, Replanning, Optional, Idle
<1>3. r \in ReplanRecord /\ r.at \in {"none", "load"} /\ r.version = 0 /\ (r.at = "load" => r.row # None)
  BY <1>2, IdleRecord
<1>4. \A u \in Thread : /\ m(u) \in ReplanRecord /\ m(u).at = replan[u].at /\ m(u).stale = replan[u].stale
                        /\ m(u).version = replan[u].version /\ m(u).cur = replan[u].cur /\ m(u).row = replan[u].row
  BY <1>1, TurnGeneration
<1>5. replan' = [u \in Thread |-> IF u = t THEN r ELSE m(u)]
  BY DEF Apply
<1> HIDE DEF load, r, m
<1>6. ReplanType' /\ replan'[t] = r /\ Others(t)
  BY <1>3, <1>4, <1>5 DEF ReplanType, Others, Same
<1>7. \A u \in Thread \ {t} : ~Fresh(replan[u]) /\ (Coming(replan[u])' <=> Coming(replan[u])) /\ ~Fresh(replan[u])'
                              /\ Sound(replan[u])'
  BY <1>1, <1>6 DEF Inv, Newest, Others, Same, Fresh, Coming, Sound
<1>8. Sound(replan[t])' /\ ~Fresh(replan[t])'
  BY <1>1, <1>3, <1>6 DEF Sound, Fresh
<1>9. Newest'
  BY <1>7, <1>8 DEF Newest
<1>10. Covered'
  <2>1. CASE \E u \in Thread \ {t} : Coming(replan[u])
    BY <1>7, <2>1 DEF Covered
  <2>2. CASE bounds.faults > 0
    BY <1>1, <2>2 DEF Covered
  <2>3. CASE replan[t].version = version
    BY <1>1, <1>7, <1>8, <2>3 DEF Covered, Behind
  <2>4. bounds.faults > 0 \/ (\E u \in Thread \ {t} : Coming(replan[u])) \/ replan[t].version = version
    BY <1>1 DEF Inv, Covered, Coming, Behind
  <2> QED
    BY <2>1, <2>2, <2>3, <2>4
<1> QED
  BY <1>6, <1>7, <1>8, <1>9, <1>10

LEMMA ThreadsKept ==
  ASSUME Inv, Next
  PROVE  ReplanType' /\ (\A u \in Thread : Sound(replan[u])') /\ Newest' /\ Covered'
<1>1. ReplanType /\ (bounds.faults > 0 => bounds'.faults > 0)
  BY BoundsKept DEF Inv, Types
<1>2. ASSUME NEW t \in Thread, Edit(t) \/ Replan(t)
      PROVE  ReplanType' /\ (\A u \in Thread : Sound(replan[u])') /\ Newest' /\ Covered'
  BY <1>2, EditKeeps, BeginKeeps, ReadPlanKeeps, ResolveKeeps, EndKeeps, ApplyKeeps, LoadKeeps DEF Replan
<1>3. ASSUME NEW p \in timers, NEW t \in Thread, PreloadStale(p, t)
      PROVE  ReplanType' /\ (\A u \in Thread : Sound(replan[u])') /\ Newest' /\ Covered'
  <2>1. /\ At(t, "deferred") /\ replan[t].at = "none" /\ Sound(replan[t])
        /\ version' = version /\ planned' = planned /\ bounds' = bounds
    BY <1>3 DEF PreloadStale, NextIdle, Inv
  <2>2. /\ ReplanType' /\ \A u \in Thread \ {t} : replan'[u] = replan[u]
        /\ replan'[t].at = "deferred" /\ replan'[t].version = replan[t].version
    BY <1>1, <2>1, TurnAt DEF Place
  <2>3. /\ Others(t) /\ Sound(replan[t])' /\ ~Fresh(replan[t])' /\ ~Behind(replan[t])' /\ Coming(replan[t])'
    BY <2>1, <2>2 DEF Others, Same, Sound, Fresh, Behind, Coming
  <2> QED
    BY <2>1, <2>2, <2>3, OneKeeps
<1>4. CASE ManualHandOff
  <2> DEFINE m(u) == [replan[u] EXCEPT !.now = FALSE]
  <2>1. /\ replan' = [u \in Thread |-> m(u)] /\ version' = version /\ planned' = planned
    BY <1>4 DEF ManualHandOff
  <2>2. \A u \in Thread : /\ m(u) \in ReplanRecord /\ m(u).at = replan[u].at /\ m(u).stale = replan[u].stale
                          /\ m(u).version = replan[u].version /\ m(u).cur = replan[u].cur /\ m(u).row = replan[u].row
    BY <1>1, TurnGeneration
  <2> HIDE DEF m
  <2>3. ReplanType' /\ \A u \in Thread : Same(u)
    BY <2>1, <2>2 DEF ReplanType, Same
  <2> QED
    BY <1>1, <2>1, <2>3, QuietKeeps
<1>5. ASSUME Next, ~(\E t \in Thread : Edit(t) \/ Replan(t)), ~ManualHandOff,
             ~(\E p \in timers, t \in Thread : PreloadStale(p, t))
      PROVE  replan' = replan /\ version' = version /\ (planned' = planned \/ planned' = version)
  BY <1>5 DEF Next, PreloadEnds, PreloadLoads, CrossFade, GuardPasses, Seek, SeekEnds, Finished, NeedNext, TrackStarted
<1>6. CASE replan' = replan /\ version' = version /\ (planned' = planned \/ planned' = version)
  <2>1. ReplanType' /\ \A u \in Thread : Same(u)
    BY <1>1, <1>6 DEF ReplanType, Same
  <2> QED
    BY <1>1, <1>6, <2>1, QuietKeeps
<1> QED
  BY <1>2, <1>3, <1>4, <1>5, <1>6

-----------------------------------------------------------------------------

LEMMA InitTyped ==
  ASSUME Init
  PROVE  Inv
<1> DEFINE q == [i \in 1..(Rows - 2) |-> i + 1]
<1>1. QueueType
  <2>1. Rows - 2 \in Nat /\ \A i \in 1..(Rows - 2) : i + 1 \in Row
    BY Numbers DEF Row
  <2>2. q \in Seq(Row)
    <3>1. q \in [1..(Rows - 2) -> Row]
      BY <2>1
    <3> QED
      BY <2>1, <3>1
  <2>3. IsInjective(q)
    BY DEF IsInjective
  <2> QED
    BY <2>2, <2>3 DEF Init, QueueType
<1>2. CountType /\ BoundType /\ TimerType
  BY Numbers DEF Init, CountType, BoundType, TimerType
<1>3. PlayerType /\ NativeType
  BY Numbers DEF Init, PlayerType, NativeType, Deck
<1>4. ReplanType
  BY IdleRecord DEF Init, ReplanType
<1>5. \A t \in Thread : replan[t] = Idle
  BY DEF Init
<1>6. (\A t \in Thread : Sound(replan[t])) /\ Newest
  BY <1>5, IdleRecord DEF Init, Sound, Newest, Fresh
<1>7. Covered
  BY <1>5, IdleRecord DEF Init, Covered, Behind, Fresh
<1> QED
  BY <1>1, <1>2, <1>3, <1>4, <1>6, <1>7 DEF Inv, Types

LEMMA StepTyped ==
  ASSUME Inv, [Next]_vars
  PROVE  Inv'
<1>1. CASE Next
  BY <1>1, QueueKept, CountKept, BoundsKept, PlayerKept, NativeKept, TimersKept, ThreadsKept DEF Inv, Types
<1>2. CASE UNCHANGED vars
  BY <1>2 DEF vars, Inv, Types, QueueType, CountType, BoundType, PlayerType, NativeType, ReplanType, TimerType,
       Sound, Newest, Covered, Fresh, Coming, Behind
<1> QED
  BY <1>1, <1>2

LEMMA AlwaysInv == Spec => []Inv
<1>1. Init => Inv
  BY InitTyped
<1>2. Inv /\ [Next]_vars => Inv'
  BY StepTyped
<1> QED
  BY <1>1, <1>2, PTL DEF Spec

\* However many threads replan, and however late, stale or postponed: the plan in
\* force is of the queue as it is, or a thread is on its way that will plan it,
\* unless a fault lost the replan.
THEOREM PlanNeverForgotten == Spec => []ReplanInv
<1>1. Inv => ReplanInv
  <2> SUFFICES ASSUME Inv
               PROVE  ReplanInv
    OBVIOUS
  <2>1. TypeOK
    BY DEF Inv, Types, QueueType, CountType, BoundType, PlayerType, NativeType, ReplanType, TimerType,
         ReplanRecord, TimerRecord, Optional, TypeOK
  <2>2. bounds.faults \in Nat
    BY DEF Inv, Types, BoundType
  <2>3. PlanIsComing
    BY <2>2 DEF Inv, Covered, Coming, Fresh, PlanIsComing
  <2> QED
    BY <2>1, <2>3 DEF ReplanInv
<1> QED
  BY <1>1, AlwaysInv, PTL

\* No load, by a replan, a timer or the answer to need_next, reaches the deck that
\* is heard, whatever it held when the load was decided.
THEOREM HeardDeckKeepsItsRow == Spec => ActiveUntouched
<1> DEFINE Keeps == \A d \in Deck : native.phase[d] = "playing" => native'.on[d] = native.on[d]
<1>1. Inv /\ [Next]_vars => [Keeps]_vars
  BY NativeKept
<1>2. Spec => [][Keeps]_vars
  BY <1>1, AlwaysInv, PTL DEF Spec
<1> QED
  BY <1>2 DEF ActiveUntouched
===============================================================================
