--------------------------- MODULE Automation_proofs ---------------------------
(***************************************************************************)
(* Theorems about Automation, for any due seconds, grace, replay, rotation *)
(* and number of operations: what two fills of AutoDJ could break holds,   *)
(* no due second of a started script is missed, no occurrence runs twice,  *)
(* and one that was skipped leaves no row.                                 *)
(*                                                                         *)
(* The script worker is carried by two facts: the ticks it has done are    *)
(* those before engine.tick, and the occurrence in hand is later than the  *)
(* last one that ran.                                                      *)
(***************************************************************************)
EXTENDS Automation, SequencesExt, SequenceTheorems, WellFoundedInduction, FiniteSetTheorems, TLAPS

(* What RemoveFirst and Append make of a queue *)

\* A set of naturals has a least element.
LEMMA LeastOfNat ==
  ASSUME NEW I \in SUBSET Nat, I # {}
  PROVE  \E m \in I : \A i \in I : m <= i
<1> DEFINE R == OpToRel(<, Nat)
<1>1. R = {p \in Nat \X Nat : p[1] < p[2]}
  BY DEF OpToRel
<1>2. PICK m \in I : \A i \in I : <<i, m>> \notin R
  BY NatLessThanWellFounded, WFMin
<1> HIDE DEF R
<1>3. \A i \in I : ~(i < m)
  BY <1>1, <1>2
<1> QED
  BY <1>3

LEMMA MinOfNat ==
  ASSUME NEW I \in SUBSET Nat, I # {}
  PROVE  Min(I) \in I /\ \A i \in I : Min(I) <= i
BY LeastOfNat DEF Min

\* What is in a queue with e at the end.
LEMMA AppendFacts ==
  ASSUME NEW S, NEW s \in Seq(S), NEW e \in S
  PROVE  /\ Append(s, e) \in Seq(S) /\ Len(Append(s, e)) = Len(s) + 1
         /\ ToSet(Append(s, e)) = ToSet(s) \cup {e}
         /\ \A i \in 1..(Len(s) + 1) : Append(s, e)[i] = IF i <= Len(s) THEN s[i] ELSE e
<1> DEFINE t == Append(s, e)
<1>1. /\ t \in Seq(S) /\ Len(t) = Len(s) + 1 /\ Len(s) \in Nat
      /\ \A i \in 1..(Len(s) + 1) : t[i] = IF i <= Len(s) THEN s[i] ELSE e
  OBVIOUS
<1> HIDE DEF t
<1>2. 1..(Len(s) + 1) = 1..Len(s) \cup {Len(s) + 1}
  BY <1>1
<1>3. t[Len(s) + 1] = e /\ \A i \in 1..Len(s) : t[i] = s[i]
  BY <1>1
<1>4. ToSet(t) = ToSet(s) \cup {e}
  BY <1>1, <1>2, <1>3 DEF ToSet
<1> QED
  BY <1>1, <1>4 DEF t

\* The place that RemoveFirst takes out, the first that holds e.
LEMMA RemovedPlace ==
  ASSUME NEW S, NEW s \in Seq(S), NEW e \in ToSet(s)
  PROVE  \E k \in 1..Len(s) :
           /\ s[k] = e
           /\ RemoveFirst(s, e) \in Seq(S) /\ Len(RemoveFirst(s, e)) = Len(s) - 1
           /\ \A i \in 1..(Len(s) - 1) : RemoveFirst(s, e)[i] = IF i < k THEN s[i] ELSE s[i + 1]
<1> DEFINE I == {i \in 1..Len(s) : s[i] = e}
           k == Min(I)
           a == SubSeq(s, 1, k - 1)
           b == SubSeq(s, k + 1, Len(s))
<1>1. I # {} /\ I \in SUBSET Nat /\ Len(s) \in Nat
  BY DEF ToSet
<1>2. k \in I /\ \A i \in I : k <= i
  BY <1>1, LeastOfNat DEF Min
<1>3. RemoveFirst(s, e) = a \o b
  BY <1>1 DEF RemoveFirst, RemoveAt, SelectInSeq
<1> HIDE DEF k
<1>4. /\ a \in Seq(S) /\ Len(a) = k - 1 /\ \A i \in 1..(k - 1) : a[i] = s[i]
      /\ b \in Seq(S) /\ Len(b) = Len(s) - k /\ \A i \in 1..(Len(s) - k) : b[i] = s[k + i]
  BY <1>2
<1> HIDE DEF a, b
<1>5. k \in 1..Len(s) /\ s[k] = e
  BY <1>2
<1>6. /\ a \o b \in Seq(S) /\ Len(a \o b) = Len(a) + Len(b)
      /\ \A i \in 1..(Len(a) + Len(b)) : (a \o b)[i] = IF i <= Len(a) THEN a[i] ELSE b[i - Len(a)]
  BY <1>4, ConcatProperties
<1>7. \A i \in 1..(Len(s) - 1) : (a \o b)[i] = IF i < k THEN s[i] ELSE s[i + 1]
  BY <1>1, <1>4, <1>5, <1>6
<1>8. Len(a \o b) = Len(s) - 1
  BY <1>1, <1>4, <1>5, <1>6
<1> QED
  BY <1>3, <1>5, <1>6, <1>7, <1>8

\* What is in a queue without its first e.
LEMMA RemoveFirstFacts ==
  ASSUME NEW S, NEW s \in Seq(S), NEW e
  PROVE  /\ RemoveFirst(s, e) \in Seq(S)
         /\ ToSet(RemoveFirst(s, e)) \subseteq ToSet(s)
         /\ ToSet(s) \ {e} \subseteq ToSet(RemoveFirst(s, e))
         /\ e \in ToSet(s) => Len(RemoveFirst(s, e)) = Len(s) - 1
         /\ e \notin ToSet(s) => RemoveFirst(s, e) = s
<1>1. CASE e \notin ToSet(s)
  <2>1. ~ \E i \in 1..Len(s) : s[i] = e
    BY <1>1 DEF ToSet
  <2> QED
    BY <1>1, <2>1 DEF RemoveFirst
<1>2. CASE e \in ToSet(s)
  <2> DEFINE q == RemoveFirst(s, e)
  <2> HIDE DEF q
  <2>1. PICK k \in 1..Len(s) :
           /\ s[k] = e
           /\ q \in Seq(S) /\ Len(q) = Len(s) - 1
           /\ \A i \in 1..(Len(s) - 1) : q[i] = IF i < k THEN s[i] ELSE s[i + 1]
    BY <1>2, RemovedPlace, Zenon DEF q
  <2>2. ToSet(q) \subseteq ToSet(s)
    BY <2>1 DEF ToSet
  <2>3. ASSUME NEW i \in 1..Len(s), s[i] # e
        PROVE  s[i] \in ToSet(q)
    <3>1. IF i < k THEN i \in 1..Len(q) /\ q[i] = s[i] ELSE i - 1 \in 1..Len(q) /\ q[i - 1] = s[i]
      BY <2>1, <2>3
    <3> QED
      BY <3>1 DEF ToSet
  <2>4. ToSet(s) \ {e} \subseteq ToSet(q)
    BY <2>3 DEF ToSet
  <2> QED
    BY <1>2, <2>1, <2>2, <2>4 DEF q
<1> QED
  BY <1>1, <1>2

(* The parts of TypeOK *)

EngineRecord ==
  [pending : BOOLEAN, tick : Second, deferred : Second, at : Place, key : Second,
   run : 0..MaxOps, wasOn : BOOLEAN, unstopped : BOOLEAN, behind : BOOLEAN]
ScriptRecord ==
  [status : {"stopped", "waiting", "error"}, cached : BOOLEAN, last : Second, since : 0..LastSecond + 1]
FillRecord == [at : {"none", "wanted", "counted", "picked"}, need : 0..Keep, from : 0..Slots - 1, rotation : 0..MaxOps]
DjRecord ==
  [cursor : 0..Slots - 1, stored : 0..MaxOps, rotation : 0..MaxOps, lock : Filler \cup {"free"},
   fill : [Filler -> FillRecord], worker : {"none", "running", "leaving"}, turn : 0..Slots - 1]

StationType ==
  /\ uses \in Uses /\ now \in Second /\ ops \in 0..MaxOps
  /\ air \in [on : BOOLEAN, heard : {"user", "rule", "url"}]
QueueType == queue \in Seq(QueueRow)
ScriptType == script \in ScriptRecord
EngineType == engine \in EngineRecord
RuleType == rule \in [on : BOOLEAN, next : Second]
SchedType == sched \in [at : {"none", "insert", "update"}, key : Second, wasOn : BOOLEAN]
DjType == dj \in DjRecord
DoneType ==
  /\ done \in [script : SUBSET Due, skipped : SUBSET QueueRow, rule : SUBSET Due]
Types == StationType /\ QueueType /\ ScriptType /\ EngineType /\ RuleType /\ SchedType /\ DjType /\ DoneType

(* AutoDJ: who counts or picks holds the lock; what it will add has room; and the *)
(* stored cursor is the slot whose turn it is, unless the rotation was edited.    *)

Held(f) == dj.fill[f].at \in {"counted", "picked"}
Lock == \A f \in Filler : dj.lock = f <=> Held(f)
Autos(s) == {i \in 1..Len(s) : s[i].by = "autodj"}
AutoRows == Autos(queue)
Room == /\ Cardinality(AutoRows) <= Keep
        /\ \A f \in Filler : Held(f) => Cardinality(AutoRows) + dj.fill[f].need <= Keep
Rotation ==
  /\ dj.stored <= dj.rotation /\ dj.rotation <= ops
  /\ \A f \in Filler : Held(f) => dj.fill[f].rotation <= dj.rotation /\ dj.stored = dj.fill[f].rotation
  /\ dj.stored # dj.rotation => dj.turn = 0
  /\ \A f \in Filler : dj.fill[f].at = "counted" /\ dj.fill[f].rotation = dj.rotation => dj.fill[f].from = dj.turn
  /\ (\A f \in Filler : dj.fill[f].at # "counted") /\ dj.stored = dj.rotation => dj.cursor = dj.turn

(* The scheduler's rule waits for no run that was recorded. *)

RuleOnce ==
  /\ sched.at # "none" => sched.key \in Due /\ sched.key <= now
  /\ rule.on /\ rule.next # None => rule.next \in Due
  /\ \A k \in done.rule :
       /\ k <= now
       /\ rule.on /\ rule.next # None => k < rule.next
       /\ sched.at # "none" => k < sched.key

(* The script worker *)

Busy == engine.at \in {"look", "insert", "inserted", "front", "ahead", "next"}
Clock ==
  /\ engine.tick <= now /\ script.since <= now + 1
  /\ engine.pending <=> engine.at # "none"
  /\ engine.pending => engine.tick # None
  /\ engine.pending => (engine.deferred = now \/ (engine.deferred = None /\ engine.tick = now))
  /\ engine.pending => engine.behind \/ engine.deferred <= engine.tick + Replay
  /\ "scripts" \notin uses => script.since = None /\ ~script.cached /\ ~engine.pending
  /\ ~air.on => script.since = None
Known ==
  /\ air.on /\ script.cached /\ (script.status = "waiting" \/ Busy \/ engine.at = "known") => script.since # None
  /\ engine.at = "known" => engine.unstopped
InHand ==
  /\ script.last \in Due \cup {None} /\ script.last <= engine.tick
  /\ Busy => engine.key = DueAt(engine.tick) /\ engine.key # None /\ engine.key > script.last
Caught(t) == \A d \in Due : script.since <= d /\ d <= t => script.last >= d
CaughtUp ==
  script.since # None /\ ~engine.behind =>
    IF engine.pending THEN \A d \in Due : script.since <= d /\ d < engine.tick => script.last >= d ELSE Caught(now)
DoneOnce ==
  \A k \in done.script :
    k <= script.last \/ (engine.at \in {"inserted", "front", "ahead", "next"} /\ k = engine.key)

\* A script's row in the queue, or skipped, is of an occurrence that began; no two
\* occurrences have rows alike.
Inserted == engine.at \in {"inserted", "front", "ahead", "next"}
OfScript(x) == x.by = "script"
Made == {x \in ToSet(queue) \cup done.skipped : OfScript(x)}
Runs ==
  /\ Busy => engine.run <= ops
  /\ \A x \in Made : /\ x.run <= ops
                     /\ x.run = ops => x.key <= script.last \/ (Inserted /\ x = Created)
                     /\ Busy /\ ~Inserted => x # Created
  /\ Inserted => Created \notin done.skipped
  /\ \A x \in done.skipped : OfScript(x)
Once(s) == \A i, j \in 1..Len(s) : s[i] = s[j] /\ OfScript(s[i]) => i = j
RowOnce == Once(queue)
SkippedGone == \A i \in 1..Len(queue) : queue[i] \notin done.skipped

Inv == /\ Types
       /\ Lock /\ Room /\ Rotation
       /\ RuleOnce
       /\ Clock /\ Known /\ InHand /\ CaughtUp /\ DoneOnce
       /\ Runs /\ RowOnce /\ SkippedGone

-----------------------------------------------------------------------------
(* Seconds that are due *)

LEMMA Numbers ==
  /\ LastSecond \in Nat /\ Due \subseteq 1..LastSecond /\ Grace \in Nat /\ Replay \in Nat \ {0} /\ Late \in Nat
  /\ Zone \in Nat /\ Keep \in Nat \ {0} /\ Slots \in Nat \ {0} /\ MaxOps \in Nat
  /\ None = 0 /\ Second = 0..LastSecond /\ None \in Second /\ None \notin Due /\ Due \subseteq Second
BY AutomationAssumption DEF None, Second

LEMMA DueSeconds ==
  \A d \in Due : d \in Nat /\ d >= 1 /\ d <= LastSecond /\ d # None
BY Numbers

LEMMA Seconds ==
  \A t : t \in Second <=> t \in Nat /\ t <= LastSecond
BY Numbers DEF Second

LEMMA MaxOfNat ==
  ASSUME NEW n \in Nat, NEW S \in SUBSET (0..n), S # {}
  PROVE  Max(S) \in S /\ \A x \in S : x <= Max(S)
<1> DEFINE T == {n - x : x \in S}
<1>1. T \in SUBSET Nat /\ T # {}
  <2>1. \A x \in S : n - x \in Nat
    OBVIOUS
  <2> QED
    BY <2>1
<1>2. PICK m \in T : \A i \in T : m <= i
  BY <1>1, LeastOfNat
<1>3. PICK x \in S : m = n - x
  BY <1>2
<1>4. \A y \in S : n - y \in T
  OBVIOUS
<1>5. \A y \in S : x >= y
  BY <1>2, <1>3, <1>4
<1>6. \E z \in S : \A y \in S : z >= y
  BY <1>5
<1> QED
  BY <1>6 DEF Max

\* The occurrence of a tick is the latest due second that is not too old.
LEMMA DueAtFacts ==
  ASSUME NEW t \in Second
  PROVE  /\ DueAt(t) \in Due \cup {None} /\ DueAt(t) <= t
         /\ \A d \in Due : d <= t /\ t - d <= Grace => DueAt(t) # None /\ d <= DueAt(t)
         /\ t \in Due => DueAt(t) = t
<1> DEFINE due == {d \in Due : d <= t /\ t - d <= Grace}
<1>1. t \in Nat /\ due \in SUBSET (0..LastSecond) /\ LastSecond \in Nat
  BY Numbers, DueSeconds, Seconds
<1>2. CASE due = {}
  <2>1. DueAt(t) = None
    BY <1>2 DEF DueAt
  <2>2. t \notin Due
    BY <1>1, <1>2, Numbers
  <2> QED
    BY <1>1, <1>2, <2>1, <2>2, Numbers
<1>3. CASE due # {}
  <2>1. DueAt(t) = Max(due)
    BY <1>3 DEF DueAt
  <2>2. Max(due) \in due /\ \A x \in due : x <= Max(due)
    BY <1>1, <1>3, MaxOfNat
  <2> HIDE DEF due
  <2>3. DueAt(t) \in due /\ \A x \in due : x <= DueAt(t)
    BY <2>1, <2>2
  <2>4. DueAt(t) \in Due /\ DueAt(t) <= t /\ \A d \in Due : d <= t /\ t - d <= Grace => d <= DueAt(t)
    BY <2>3 DEF due
  <2>5. DueAt(t) # None
    BY <2>4, Numbers
  <2>6. t \in Due => DueAt(t) = t
    <3>1. t \in Due => t <= DueAt(t)
      BY <1>1, <2>4, Numbers
    <3>2. DueAt(t) \in Nat
      BY <2>4, DueSeconds
    <3> QED
      BY <1>1, <2>4, <3>1, <3>2
  <2> QED
    BY <2>4, <2>5, <2>6
<1> QED
  BY <1>2, <1>3

\* An occurrence that was not the last to run is later than it.
LEMMA LaterOccurrence ==
  ASSUME NEW t \in Second, NEW l \in Due \cup {None}, l <= t, DueAt(t) \notin {None, l}
  PROVE  DueAt(t) \in Due /\ DueAt(t) > l
<1>1. DueAt(t) \in Due /\ DueAt(t) <= t
  BY DueAtFacts
<1>2. /\ DueAt(t) \in Nat /\ DueAt(t) >= 1 /\ t \in Nat /\ Grace \in Nat /\ None = 0 /\ l \in Nat
  BY <1>1, DueSeconds, Seconds, Numbers
<1>3. CASE l = None
  BY <1>1, <1>3, <1>2
<1>4. CASE l \in Due /\ DueAt(t) <= l
  <2>1. t - DueAt(t) <= Grace
    <3> DEFINE due == {d \in Due : d <= t /\ t - d <= Grace}
    <3>1. due # {}
      BY DEF DueAt
    <3>2. due \in SUBSET (0..LastSecond)
      BY DueSeconds, Numbers
    <3>3. DueAt(t) \in due
      BY <3>1, <3>2, Numbers, MaxOfNat DEF DueAt
    <3> QED
      BY <3>3
  <2>2. t - l <= Grace
    BY <1>1, <1>4, <1>2, <2>1
  <2>3. l <= DueAt(t)
    BY <1>4, <2>2, DueAtFacts
  <2> QED
    BY <1>1, <1>4, <1>2, <2>3
<1> QED
  BY <1>1, <1>3, <1>4, <1>2

\* The next run of a recurring rule.
LEMMA NextDueFacts ==
  ASSUME NEW t \in Nat
  PROVE  /\ NextDue(t) \in Due \cup {None}
         /\ NextDue(t) # None => NextDue(t) > t
         /\ \A d \in Due : d > t => NextDue(t) # None /\ NextDue(t) <= d
<1> DEFINE due == {d \in Due : d > t}
<1>1. due \in SUBSET Nat
  BY DueSeconds
<1>2. CASE due = {}
  BY <1>2 DEF NextDue
<1>3. CASE due # {}
  <2>1. NextDue(t) = Min(due)
    BY <1>3 DEF NextDue
  <2>2. Min(due) \in due /\ \A x \in due : Min(due) <= x
    BY <1>1, <1>3, MinOfNat
  <2> HIDE DEF due
  <2>3. NextDue(t) \in due /\ \A x \in due : NextDue(t) <= x
    BY <2>1, <2>2
  <2> QED
    BY <2>3, Numbers DEF due
<1> QED
  BY <1>2, <1>3

-----------------------------------------------------------------------------
(* AutoDJ's rows in a queue *)

LEMMA AutosFinite ==
  ASSUME NEW s \in Seq(QueueRow)
  PROVE  IsFiniteSet(Autos(s)) /\ Cardinality(Autos(s)) \in Nat /\ Cardinality(Autos(s)) <= Len(s)
<1>1. Autos(s) \in SUBSET (1..Len(s)) /\ Len(s) \in Nat
  BY DEF Autos
<1>2. IsFiniteSet(1..Len(s)) /\ Cardinality(1..Len(s)) = Len(s)
  <2>1. Cardinality(1..Len(s)) = IF 1 > Len(s) THEN 0 ELSE Len(s) - 1 + 1
    BY <1>1, FS_Interval
  <2> QED
    BY <1>1, <2>1, FS_Interval
<1>3. IsFiniteSet(Autos(s)) /\ Cardinality(Autos(s)) <= Len(s)
  BY <1>1, <1>2, FS_Subset
<1> QED
  BY <1>3, FS_CardinalityType

\* A queue whose rows of AutoDJ each have a place of their own in another has no more.
LEMMA AutosFewer ==
  ASSUME NEW s \in Seq(QueueRow), NEW q \in Seq(QueueRow), NEW f \in [Autos(q) -> Autos(s)],
         \A i, j \in Autos(q) : f[i] = f[j] => i = j
  PROVE  Cardinality(Autos(q)) <= Cardinality(Autos(s))
<1>1. f \in Injection(Autos(q), Autos(s))
  BY DEF Injection, IsInjective
<1>2. IsFiniteSet(Autos(s))
  BY AutosFinite
<1> HIDE DEF Autos
<1> QED
  BY <1>1, <1>2, FS_Injection

LEMMA AutosTail ==
  ASSUME NEW s \in Seq(QueueRow), s # <<>>
  PROVE  Tail(s) \in Seq(QueueRow) /\ Cardinality(Autos(Tail(s))) <= Cardinality(Autos(s))
<1> DEFINE q == Tail(s)
           f == [i \in Autos(q) |-> i + 1]
<1>1. q \in Seq(QueueRow) /\ Len(q) = Len(s) - 1 /\ \A i \in 1..(Len(s) - 1) : q[i] = s[i + 1]
  OBVIOUS
<1>2. Len(s) \in Nat
  OBVIOUS
<1> HIDE DEF q
<1>3. f \in [Autos(q) -> Autos(s)] /\ \A i, j \in Autos(q) : f[i] = f[j] => i = j
  BY <1>1, <1>2 DEF Autos
<1> HIDE DEF f
<1>4. Cardinality(Autos(q)) <= Cardinality(Autos(s))
  BY <1>1, <1>3, AutosFewer
<1> QED
  BY <1>1, <1>4 DEF q

LEMMA AutosAppend ==
  ASSUME NEW s \in Seq(QueueRow), NEW e \in QueueRow, e.by # "autodj"
  PROVE  Append(s, e) \in Seq(QueueRow) /\ Autos(Append(s, e)) = Autos(s)
<1>1. /\ Append(s, e) \in Seq(QueueRow) /\ Len(Append(s, e)) = Len(s) + 1 /\ Len(s) \in Nat
      /\ \A i \in 1..(Len(s) + 1) : Append(s, e)[i] = IF i <= Len(s) THEN s[i] ELSE e
  BY AppendFacts
<1> QED
  BY <1>1 DEF Autos

LEMMA ConsFacts ==
  ASSUME NEW S, NEW s \in Seq(S), NEW e \in S
  PROVE  /\ <<e>> \o s \in Seq(S) /\ Len(<<e>> \o s) = Len(s) + 1 /\ Len(s) \in Nat
         /\ (<<e>> \o s)[1] = e /\ \A i \in 2..(Len(s) + 1) : (<<e>> \o s)[i] = s[i - 1]
OBVIOUS

LEMMA AutosCons ==
  ASSUME NEW s \in Seq(QueueRow), NEW e \in QueueRow, e.by # "autodj"
  PROVE  <<e>> \o s \in Seq(QueueRow) /\ Cardinality(Autos(<<e>> \o s)) <= Cardinality(Autos(s))
<1> DEFINE q == <<e>> \o s
           f == [i \in Autos(q) |-> i - 1]
<1>1. /\ q \in Seq(QueueRow) /\ Len(q) = Len(s) + 1 /\ Len(s) \in Nat
      /\ q[1] = e /\ \A i \in 2..(Len(s) + 1) : q[i] = s[i - 1]
  BY ConsFacts
<1> HIDE DEF q
<1>2. \A i \in Autos(q) : i \in 2..(Len(s) + 1) /\ i - 1 \in Autos(s)
  BY <1>1 DEF Autos
<1>3. f \in [Autos(q) -> Autos(s)] /\ \A i, j \in Autos(q) : f[i] = f[j] => i = j
  BY <1>2
<1> HIDE DEF f
<1>4. Cardinality(Autos(q)) <= Cardinality(Autos(s))
  BY <1>1, <1>3, AutosFewer
<1> QED
  BY <1>1, <1>4 DEF q

LEMMA ConsSet ==
  ASSUME NEW S, NEW s \in Seq(S), NEW e \in S
  PROVE  ToSet(<<e>> \o s) = ToSet(s) \cup {e}
<1> DEFINE q == <<e>> \o s
<1>1. /\ q \in Seq(S) /\ Len(q) = Len(s) + 1 /\ Len(s) \in Nat
      /\ q[1] = e /\ \A i \in 2..(Len(s) + 1) : q[i] = s[i - 1]
  BY ConsFacts
<1> HIDE DEF q
<1>2. \A i \in 1..Len(s) : s[i] \in ToSet(s)
  BY DEF ToSet
<1>3. \A i \in 1..(Len(s) + 1) : i = 1 \/ (i \in 2..(Len(s) + 1) /\ i - 1 \in 1..Len(s) /\ q[i] = s[i - 1])
  BY <1>1
<1>6. ToSet(q) \subseteq ToSet(s) \cup {e}
  <2>1. \A i \in 1..(Len(s) + 1) : q[i] \in ToSet(s) \cup {e}
    BY <1>1, <1>2, <1>3
  <2>2. ToSet(q) = {q[i] : i \in 1..(Len(s) + 1)}
    BY <1>1 DEF ToSet
  <2> QED
    BY <2>1, <2>2
<1>7. e \in ToSet(q)
  <2>1. 1 \in DOMAIN q
    BY <1>1
  <2> QED
    BY <1>1, <2>1 DEF ToSet
<1>8. ASSUME NEW i \in 1..Len(s)
      PROVE  s[i] \in ToSet(q)
  <2>1. i + 1 \in 2..(Len(s) + 1) /\ (i + 1) - 1 = i
    BY <1>1
  <2>2. i + 1 \in DOMAIN q /\ q[i + 1] = s[i]
    BY <1>1, <2>1
  <2> QED
    BY <2>2 DEF ToSet
<1>9. ToSet(s) \subseteq ToSet(q)
  BY <1>8 DEF ToSet
<1> QED
  BY <1>6, <1>7, <1>9 DEF q

LEMMA AutosRemove ==
  ASSUME NEW s \in Seq(QueueRow), NEW e
  PROVE  RemoveFirst(s, e) \in Seq(QueueRow) /\ Cardinality(Autos(RemoveFirst(s, e))) <= Cardinality(Autos(s))
<1>1. CASE e \notin ToSet(s)
  <2>1. RemoveFirst(s, e) = s
    BY <1>1, RemoveFirstFacts
  <2> QED
    BY <2>1, AutosFinite
<1>2. CASE e \in ToSet(s)
  <2> DEFINE q == RemoveFirst(s, e)
  <2>1. PICK k \in 1..Len(s) : /\ q \in Seq(QueueRow) /\ Len(q) = Len(s) - 1
                               /\ \A i \in 1..(Len(s) - 1) : q[i] = IF i < k THEN s[i] ELSE s[i + 1]
    BY <1>2, RemovedPlace
  <2> HIDE DEF q
  <2> DEFINE f == [i \in Autos(q) |-> IF i < k THEN i ELSE i + 1]
  <2>2. \A i \in Autos(q) : i \in 1..(Len(s) - 1) /\ (IF i < k THEN i ELSE i + 1) \in Autos(s)
    BY <2>1 DEF Autos
  <2>3. f \in [Autos(q) -> Autos(s)]
    BY <2>2
  <2>4. \A i, j \in Autos(q) : f[i] = f[j] => i = j
    BY <2>1, <2>2
  <2> HIDE DEF f
  <2>5. Cardinality(Autos(q)) <= Cardinality(Autos(s))
    BY <2>1, <2>3, <2>4, AutosFewer
  <2> QED
    BY <2>1, <2>5 DEF q
<1> QED
  BY <1>1, <1>2

LEMMA AutosMore ==
  ASSUME NEW s \in Seq(QueueRow), NEW n \in Nat, NEW t \in Seq(QueueRow), Len(t) = n,
         \A i \in 1..n : t[i].by = "autodj"
  PROVE  s \o t \in Seq(QueueRow) /\ Cardinality(Autos(s \o t)) = Cardinality(Autos(s)) + n
<1> DEFINE q == s \o t
           m == Len(s)
           new == (m + 1)..(m + n)
<1>1. /\ q \in Seq(QueueRow) /\ m \in Nat /\ Len(q) = m + n
      /\ \A i \in 1..m : q[i] = s[i]
      /\ \A i \in 1..n : q[m + i] = t[i]
  OBVIOUS
<1> HIDE DEF q, m
<1>2. \A i \in new : i - m \in 1..n /\ q[i] = t[i - m]
  <2> TAKE i \in new
  <2>1. i - m \in 1..n /\ m + (i - m) = i
    BY <1>1
  <2> QED
    BY <1>1, <2>1
<1>3. Autos(q) = Autos(s) \cup new
  <2>1. \A i \in 1..(m + n) : i \in 1..m \/ i \in new
    BY <1>1
  <2>2. \A i \in new : i \in 1..(m + n) /\ q[i].by = "autodj"
    BY <1>1, <1>2
  <2> QED
    BY <1>1, <2>1, <2>2 DEF Autos, m
<1>4. IsFiniteSet(Autos(s)) /\ Cardinality(Autos(s)) \in Nat
  BY AutosFinite
<1>5. IsFiniteSet(new) /\ Cardinality(new) = n
  <2>1. Cardinality(new) = IF m + 1 > m + n THEN 0 ELSE (m + n) - (m + 1) + 1
    BY <1>1, FS_Interval
  <2> QED
    BY <1>1, <2>1, FS_Interval
<1>6. Autos(s) \cap new = {}
  BY <1>1 DEF Autos, m
<1> HIDE DEF new
<1>7. Cardinality(Autos(q)) = Cardinality(Autos(s)) + Cardinality(new) - Cardinality(Autos(s) \cap new)
  BY <1>3, <1>4, <1>5, FS_Union
<1>8. Cardinality({}) = 0
  BY FS_EmptySet
<1>9. Cardinality(Autos(q)) = Cardinality(Autos(s)) + n
  <2>1. Cardinality(Autos(s) \cap new) = 0
    BY <1>6, <1>8
  <2>2. Cardinality(Autos(q)) = Cardinality(Autos(s)) + n - 0
    BY <1>5, <1>7, <2>1, Zenon
  <2> QED
    BY <1>4, <2>2
<1> QED
  BY <1>1, <1>9 DEF q

-----------------------------------------------------------------------------
(* A script's rows in a queue *)

LEMMA OnceTail ==
  ASSUME NEW s \in Seq(QueueRow), s # <<>>, Once(s)
  PROVE  Once(Tail(s)) /\ ToSet(Tail(s)) \subseteq ToSet(s)
<1> DEFINE q == Tail(s)
<1>1. q \in Seq(QueueRow) /\ Len(q) = Len(s) - 1 /\ (\A i \in 1..(Len(s) - 1) : q[i] = s[i + 1]) /\ Len(s) \in Nat
  OBVIOUS
<1> HIDE DEF q
<1>2. \A i \in 1..(Len(s) - 1) : i + 1 \in 1..Len(s)
  BY <1>1
<1>3. ASSUME NEW i \in 1..(Len(s) - 1), NEW j \in 1..(Len(s) - 1), q[i] = q[j], OfScript(q[i])
      PROVE  i = j
  <2>1. i + 1 = j + 1
    BY <1>1, <1>2, <1>3 DEF Once
  <2> QED
    BY <2>1
<1>4. Once(q)
  BY <1>1, <1>3 DEF Once
<1>5. ToSet(q) \subseteq ToSet(s)
  BY <1>1, <1>2 DEF ToSet
<1> QED
  BY <1>4, <1>5 DEF q

LEMMA OnceAppend ==
  ASSUME NEW s \in Seq(QueueRow), NEW e \in QueueRow, Once(s), OfScript(e) => e \notin ToSet(s)
  PROVE  Once(Append(s, e)) /\ ToSet(Append(s, e)) = ToSet(s) \cup {e}
<1>1. /\ Append(s, e) \in Seq(QueueRow) /\ Len(Append(s, e)) = Len(s) + 1 /\ Len(s) \in Nat
      /\ ToSet(Append(s, e)) = ToSet(s) \cup {e}
      /\ \A i \in 1..(Len(s) + 1) : Append(s, e)[i] = IF i <= Len(s) THEN s[i] ELSE e
  BY AppendFacts
<1>2. \A i \in 1..Len(s) : s[i] \in ToSet(s)
  BY DEF ToSet
<1>3. ASSUME NEW q, q = Append(s, e)
      PROVE  Once(q)
  <2>1. ASSUME NEW i \in 1..(Len(s) + 1), NEW j \in 1..(Len(s) + 1), q[i] = q[j], OfScript(q[i])
        PROVE  i = j
    BY <1>1, <1>2, <1>3, <2>1 DEF Once
  <2> QED
    BY <1>1, <1>3, <2>1 DEF Once
<1> QED
  BY <1>1, <1>3

LEMMA OnceCons ==
  ASSUME NEW s \in Seq(QueueRow), NEW e \in QueueRow, Once(s), OfScript(e) => e \notin ToSet(s)
  PROVE  Once(<<e>> \o s) /\ ToSet(<<e>> \o s) = ToSet(s) \cup {e}
<1> DEFINE q == <<e>> \o s
<1>1. /\ q \in Seq(QueueRow) /\ Len(q) = Len(s) + 1 /\ Len(s) \in Nat
      /\ q[1] = e /\ \A i \in 2..(Len(s) + 1) : q[i] = s[i - 1]
  BY ConsFacts
<1> HIDE DEF q
<1>2. \A i \in 1..Len(s) : s[i] \in ToSet(s)
  BY DEF ToSet
<1>3. \A i \in 1..(Len(s) + 1) : i = 1 \/ (i \in 2..(Len(s) + 1) /\ i - 1 \in 1..Len(s) /\ q[i] = s[i - 1])
  BY <1>1
<1>4. ASSUME NEW i \in 1..(Len(s) + 1), NEW j \in 1..(Len(s) + 1), q[i] = q[j], OfScript(q[i])
      PROVE  i = j
  <2>1. CASE i = 1 \/ j = 1
    BY <1>1, <1>2, <1>3, <1>4, <2>1
  <2>2. CASE i # 1 /\ j # 1
    <3>1. i - 1 = j - 1
      BY <1>3, <1>4, <2>2 DEF Once
    <3> QED
      BY <3>1
  <2> QED
    BY <2>1, <2>2
<1>5. Once(q)
  BY <1>1, <1>4 DEF Once
<1>6. ToSet(<<e>> \o s) = ToSet(s) \cup {e}
  BY ConsSet
<1> QED
  BY <1>5, <1>6 DEF q

LEMMA OnceRemove ==
  ASSUME NEW s \in Seq(QueueRow), NEW e, Once(s), OfScript(e)
  PROVE  /\ Once(RemoveFirst(s, e)) /\ e \notin ToSet(RemoveFirst(s, e))
         /\ ToSet(RemoveFirst(s, e)) = ToSet(s) \ {e}
<1> DEFINE q == RemoveFirst(s, e)
<1>1. ToSet(q) \subseteq ToSet(s) /\ ToSet(s) \ {e} \subseteq ToSet(q) /\ (e \notin ToSet(s) => q = s)
  BY RemoveFirstFacts
<1>2. CASE e \notin ToSet(s)
  BY <1>1, <1>2
<1>3. CASE e \in ToSet(s)
  <2>1. PICK k \in 1..Len(s) : /\ s[k] = e /\ q \in Seq(QueueRow) /\ Len(q) = Len(s) - 1
                               /\ \A i \in 1..(Len(s) - 1) : q[i] = IF i < k THEN s[i] ELSE s[i + 1]
    BY <1>3, RemovedPlace
  <2> HIDE DEF q
  <2> DEFINE at(i) == IF i < k THEN i ELSE i + 1
  <2>7. Len(s) \in Nat /\ k \in Nat
    BY <2>1
  <2>2. ASSUME NEW i \in 1..(Len(s) - 1)
        PROVE  at(i) \in 1..Len(s) /\ at(i) # k /\ q[i] = s[at(i)]
    <3>1. at(i) \in 1..Len(s) /\ at(i) # k
      BY <2>7
    <3>2. q[i] = IF i < k THEN s[i] ELSE s[i + 1]
      BY <2>1
    <3> QED
      BY <3>1, <3>2
  <2>3. \A i, j \in 1..(Len(s) - 1) : at(i) = at(j) => i = j
    OBVIOUS
  <2> HIDE DEF at
  <2>4. Once(q)
    <3>1. ASSUME NEW i \in 1..(Len(s) - 1), NEW j \in 1..(Len(s) - 1), q[i] = q[j], OfScript(q[i])
          PROVE  i = j
      <4>1. /\ q[i] = s[at(i)] /\ q[j] = s[at(j)]
            /\ at(i) \in 1..Len(s) /\ at(j) \in 1..Len(s)
        BY <2>2
      <4>2. at(i) = at(j)
        BY <3>1, <4>1 DEF Once
      <4> QED
        BY <2>3, <4>2
    <3>2. Len(q) = Len(s) - 1
      BY <2>1
    <3> QED
      BY <3>1, <3>2 DEF Once
  <2>5. \A i \in 1..(Len(s) - 1) : q[i] # e
    BY <2>1, <2>2 DEF Once
  <2>6. e \notin ToSet(q)
    BY <2>1, <2>5 DEF ToSet
  <2> QED
    BY <1>1, <2>4, <2>6 DEF q
<1> QED
  BY <1>2, <1>3 DEF q

-----------------------------------------------------------------------------
(* The clock and the counter of operations *)

LEMMA Counts ==
  ASSUME StationType
  PROVE  /\ now \in Nat /\ now <= LastSecond /\ now \in Second /\ ops \in Nat /\ ops <= MaxOps
         /\ now + 1 \in 0..LastSecond + 1
BY Numbers, Seconds DEF StationType

LEMMA OpCounts ==
  ASSUME StationType, Op
  PROVE  ops' = ops + 1 /\ ops' \in 0..MaxOps /\ ops' \in Nat /\ ops' > ops
BY Counts, Numbers DEF Op

LEMMA OpsStep ==
  ASSUME StationType, Next
  PROVE  ops' = ops \/ Op
BY DEF Next, Tick, Engine, TickOffAir, ReadScript, Begin, Look, Insert, Reorder, Interrupt, Raise, StartScript,
     StopScript, Scheduler, Poll, PollOffAir, Fire, UpdateRule, ToggleRule, AutoDJ, WorkerFills, TrackFills,
     StartFill, TrackNeedsNone, Leave, Gone, Pick, Enqueue, EditRotation, Plays, PlaysStream, OffAir, StartupFill,
     OnAir, Fails

LEMMA OpsGrow ==
  ASSUME StationType, Next
  PROVE  ops' \in 0..MaxOps /\ ops' \in Nat /\ ops' >= ops /\ (ops' # ops => Op)
BY OpsStep, OpCounts, Counts, Numbers

LEMMA TimeGoes ==
  ASSUME StationType, Next
  PROVE  now' = now \/ (Tick /\ now' = now + 1)
BY DEF Next, Tick, Engine, TickOffAir, ReadScript, Begin, Look, Insert, Reorder, Interrupt, Raise, StartScript,
     StopScript, Scheduler, Poll, PollOffAir, Fire, UpdateRule, ToggleRule, AutoDJ, WorkerFills, TrackFills,
     StartFill, TrackNeedsNone, Leave, Gone, Pick, Enqueue, EditRotation, Plays, PlaysStream, OffAir, StartupFill,
     OnAir

LEMMA StationKept ==
  ASSUME Types, Next
  PROVE  StationType'
<1>1. StationType /\ uses \in Uses /\ air \in [on : BOOLEAN, heard : {"user", "rule", "url"}]
  BY DEF Types, StationType
<1>2. uses' = uses
  BY DEF Next, Tick, Engine, TickOffAir, ReadScript, Begin, Look, Insert, Reorder, Interrupt, Raise, StartScript,
     StopScript, Scheduler, Poll, PollOffAir, Fire, UpdateRule, ToggleRule, AutoDJ, WorkerFills, TrackFills,
     StartFill, TrackNeedsNone, Leave, Gone, Pick, Enqueue, EditRotation, Plays, PlaysStream, OffAir, StartupFill,
     OnAir
<1>3. now' \in Second
  <2>1. Tick => now < LastSecond
    BY DEF Tick
  <2> QED
    BY <1>1, <2>1, TimeGoes, Counts, Seconds, Numbers
<1>4. air' \in [on : BOOLEAN, heard : {"user", "rule", "url"}]
  <2>1. CASE Plays
    <3> DEFINE h == IF Head(queue).by = "rule" THEN "rule" ELSE "user"
    <3>1. air' = [air EXCEPT !.heard = h] /\ h \in {"user", "rule", "url"}
      BY <2>1 DEF Plays
    <3> HIDE DEF h
    <3> QED
      BY <1>1, <3>1
  <2>2. CASE PlaysStream
    BY <1>1, <2>2 DEF PlaysStream
  <2>4. CASE OffAir
    <3>1. air' = [on |-> FALSE, heard |-> "user"]
      BY <2>4 DEF OffAir
    <3> QED
      BY <3>1
  <2>5. CASE OnAir
    <3>1. air' = [on |-> TRUE, heard |-> "user"]
      BY <2>5 DEF OnAir
    <3> QED
      BY <3>1
  <2>3. ASSUME Next, ~Plays, ~PlaysStream, ~OffAir, ~OnAir
        PROVE  air' = air
    BY <2>3 DEF Next, Tick, Engine, TickOffAir, ReadScript, Begin, Look, Insert, Reorder, Interrupt, Raise,
       StartScript, StopScript, Scheduler, Poll, PollOffAir, Fire, UpdateRule, ToggleRule, AutoDJ, WorkerFills,
       TrackFills, StartFill, TrackNeedsNone, Leave, Gone, Pick, Enqueue, EditRotation, StartupFill
  <2> QED
    BY <1>1, <2>1, <2>2, <2>3, <2>4, <2>5
<1> QED
  BY <1>1, <1>2, <1>3, <1>4, OpsGrow DEF StationType

-----------------------------------------------------------------------------
(* The script worker *)

\* The next of the seconds that were missed, or idle.
LEMMA NextTickFacts ==
  ASSUME NEW e \in EngineRecord
  PROVE  LET r == NextTick(e) IN
         /\ r \in EngineRecord /\ r.behind = e.behind /\ r.at \in {"none", "tick"}
         /\ e.deferred = None \/ e.deferred <= e.tick =>
              ~r.pending /\ r.at = "none" /\ r.tick = e.tick /\ r.deferred = None
         /\ ~(e.deferred = None \/ e.deferred <= e.tick) =>
              /\ r.pending = e.pending /\ r.at = "tick" /\ r.deferred = e.deferred
              /\ r.tick > e.tick /\ r.tick <= e.deferred
              /\ e.deferred <= e.tick + Replay => r.tick = e.tick + 1
<1> DEFINE r == NextTick(e)
           tick == IF e.deferred + 1 > e.tick + 1 + Replay THEN e.deferred + 1 - Replay ELSE e.tick + 1
<1>1. /\ e.tick \in Nat /\ e.tick <= LastSecond /\ e.deferred \in Nat /\ e.deferred <= LastSecond
      /\ e.pending \in BOOLEAN
  BY Seconds DEF EngineRecord
<1>2. "none" \in Place /\ "tick" \in Place /\ 0 \in 0..MaxOps
  BY Numbers DEF Place
<1>3. CASE e.deferred = None \/ e.deferred <= e.tick
  <2>1. r = [e EXCEPT !.pending = FALSE, !.deferred = None, !.at = "none", !.key = None, !.run = 0, !.unstopped = FALSE]
    BY <1>3 DEF NextTick
  <2>2. /\ r \in EngineRecord /\ r.behind = e.behind /\ ~r.pending /\ r.at = "none" /\ r.tick = e.tick
        /\ r.deferred = None
    BY <1>2, <2>1, Numbers DEF EngineRecord
  <2> QED
    BY <1>3, <2>2
<1>4. CASE ~(e.deferred = None \/ e.deferred <= e.tick)
  <2>1. r = [e EXCEPT !.tick = tick, !.at = "tick", !.key = None, !.run = 0, !.unstopped = FALSE]
    BY <1>4 DEF NextTick
  <2>2. /\ tick \in Nat /\ tick > e.tick /\ tick <= e.deferred /\ (e.deferred <= e.tick + Replay => tick = e.tick + 1)
    BY <1>1, <1>4, Numbers
  <2>5. tick <= LastSecond
    BY <1>1, <2>2, Numbers
  <2>3. tick \in Second
    BY <2>2, <2>5, Seconds
  <2> HIDE DEF tick
  <2>4. /\ r \in EngineRecord /\ r.behind = e.behind /\ r.pending = e.pending /\ r.at = "tick" /\ r.tick = tick
        /\ r.deferred = e.deferred
    BY <1>2, <2>1, <2>3, Numbers DEF EngineRecord
  <2> QED
    BY <1>4, <2>2, <2>4
<1> QED
  BY <1>3, <1>4

\* A tick comes.
LEMMA DispatchedFacts ==
  ASSUME EngineType, NEW t \in Second
  PROVE  LET r == Dispatched(t) IN
         /\ r \in EngineRecord
         /\ engine.pending =>
              /\ r.pending /\ r.tick = engine.tick /\ r.deferred = t /\ r.at = engine.at /\ r.key = engine.key
              /\ r.run = engine.run /\ r.unstopped = engine.unstopped
              /\ engine.behind => r.behind
              /\ ~r.behind => t - engine.tick <= Replay
         /\ ~engine.pending =>
              r.pending /\ r.tick = t /\ r.deferred = None /\ r.at = "tick" /\ r.behind = engine.behind
<1> DEFINE r == Dispatched(t)
           b == engine.behind \/ t - engine.tick > Replay
<1>1. engine \in EngineRecord /\ engine.tick \in Nat /\ t \in Nat
  BY Seconds DEF EngineType, EngineRecord
<1>2. CASE engine.pending
  <2>1. r = [engine EXCEPT !.deferred = t, !.behind = b]
    BY <1>2 DEF Dispatched
  <2>2. b \in BOOLEAN /\ (engine.behind => b) /\ (~b => t - engine.tick <= Replay)
    BY <1>1, Numbers
  <2> HIDE DEF b
  <2>3. /\ r \in EngineRecord /\ r.pending = engine.pending /\ r.tick = engine.tick /\ r.deferred = t
        /\ r.at = engine.at /\ r.key = engine.key /\ r.run = engine.run /\ r.unstopped = engine.unstopped /\ r.behind = b
    BY <1>1, <2>1, <2>2 DEF EngineRecord
  <2> QED
    BY <1>2, <2>2, <2>3
<1>3. CASE ~engine.pending
  <2>1. r = [engine EXCEPT !.pending = TRUE, !.tick = t, !.deferred = None, !.at = "tick"]
    BY <1>3 DEF Dispatched
  <2>2. /\ r \in EngineRecord /\ r.pending /\ r.tick = t /\ r.deferred = None /\ r.at = "tick"
        /\ r.behind = engine.behind
    BY <1>1, <2>1, Numbers DEF EngineRecord, Place
  <2> QED
    BY <1>3, <2>2
<1> QED
  BY <1>2, <1>3

\* How an occurrence goes on, or ends.
Goes(a) ==
  /\ engine' \in EngineRecord /\ engine'.at = a
  /\ engine'.pending = engine.pending /\ engine'.tick = engine.tick /\ engine'.deferred = engine.deferred
  /\ engine'.key = engine.key /\ engine'.run = engine.run /\ engine'.behind = engine.behind
  /\ script' = script

LEMMA GoesOn ==
  ASSUME EngineType, NEW a \in Place, engine' = [engine EXCEPT !.at = a], script' = script
  PROVE  Goes(a)
BY DEF EngineType, EngineRecord, Goes

LEMMA EndsFacts ==
  ASSUME EngineType, ScriptType, NEW status \in {"stopped", "waiting", "error"}, Ends(status)
  PROVE  /\ engine' = NextTick(engine) /\ engine' \in EngineRecord /\ script' \in ScriptRecord
         /\ script'.last = engine.key /\ script'.status = status /\ script'.cached = script.cached
         /\ script'.since \in {script.since, None}
         /\ status # "error" => script'.since = script.since
<1>1. engine \in EngineRecord /\ script \in ScriptRecord /\ engine.key \in Second
  BY DEF EngineType, ScriptType, EngineRecord
<1> DEFINE s == IF status = "error" THEN None ELSE script.since
<1>2. engine' = NextTick(engine) /\ script' = [script EXCEPT !.last = engine.key, !.status = status, !.since = s]
  BY DEF Ends
<1>3. s \in 0..LastSecond + 1 /\ s \in {script.since, None} /\ (status # "error" => s = script.since)
  BY <1>1, Numbers DEF ScriptRecord
<1> HIDE DEF s
<1>4. /\ script' \in ScriptRecord /\ script'.last = engine.key /\ script'.status = status
      /\ script'.cached = script.cached /\ script'.since = s
  BY <1>1, <1>2, <1>3 DEF ScriptRecord
<1> QED
  BY <1>1, <1>2, <1>3, <1>4, NextTickFacts

-----------------------------------------------------------------------------
(* The rows and what is kept of each occurrence *)

LEMMA RowsMade ==
  ASSUME Types
  PROVE  /\ Created \in QueueRow /\ OfScript(Created) /\ Created.by # "autodj"
         /\ Row("rule", sched.key, 0) \in QueueRow /\ ~OfScript(Row("rule", sched.key, 0))
         /\ Row("rule", sched.key, 0).by # "autodj"
<1>1. engine.key \in Nat /\ engine.run \in 0..MaxOps /\ sched.key \in Nat /\ 0 \in 0..MaxOps
  BY Seconds, Numbers DEF Types, EngineType, EngineRecord, SchedType
<1> QED
  BY <1>1 DEF Created, Row, QueueRow, OfScript

LEMMA SlotRows ==
  ASSUME DjType, NEW f \in Filler
  PROVE  LET new == [i \in 1..dj.fill[f].need |-> Row("autodj", Slot(f, i), 0)] IN
         /\ dj.fill[f].need \in Nat /\ new \in Seq(QueueRow) /\ Len(new) = dj.fill[f].need
         /\ \A i \in 1..dj.fill[f].need : new[i].by = "autodj"
<1> DEFINE n == dj.fill[f].need
           new == [i \in 1..n |-> Row("autodj", Slot(f, i), 0)]
<1>1. n \in Nat /\ dj.fill[f].from \in Nat /\ Slots \in Nat \ {0} /\ 0 \in 0..MaxOps
  BY Numbers DEF DjType, DjRecord, FillRecord
<1>2. \A i \in 1..n : Slot(f, i) \in Nat
  BY <1>1 DEF Slot
<1>3. \A i \in 1..n : Row("autodj", Slot(f, i), 0) \in QueueRow /\ Row("autodj", Slot(f, i), 0).by = "autodj"
  BY <1>1, <1>2 DEF Row, QueueRow
<1> HIDE DEF n
<1> QED
  BY <1>1, <1>3 DEF n

\* How a step changes the queue.
QueueStep ==
  \/ queue' = queue
  \/ queue' = Without(Created) /\ Inserted /\ done'.skipped \in {done.skipped, done.skipped \cup {Created}}
  \/ queue' = Without(Created) /\ engine.at = "look" /\ done'.skipped = done.skipped \cup {Created}
  \/ queue' = Append(queue, Created) /\ Insert /\ engine'.at = "inserted"
  \/ queue' = ToFront(Created) /\ Inserted
  \/ queue' \in {Append(queue, Row("rule", sched.key, 0)), <<Row("rule", sched.key, 0)>> \o queue}
  \/ \E f \in Filler : dj.fill[f].at = "picked" /\ Enqueue(f) /\
       queue' = queue \o [i \in 1..dj.fill[f].need |-> Row("autodj", Slot(f, i), 0)]
  \/ Plays /\ queue # <<>> /\ queue' = Tail(queue)

LEMMA QueueSteps ==
  ASSUME Types, Next
  PROVE  QueueStep
<1>1. CASE Look
  BY <1>1 DEF Look, Skips, QueueStep, Inserted, DoneType, Types
<1>2. CASE Insert
  <2>1. engine \in EngineRecord
    BY DEF Types, EngineType
  <2>2. engine' = [engine EXCEPT !.at = "inserted"] => engine'.at = "inserted"
    BY <2>1 DEF EngineRecord
  <2> QED
    BY <1>2, <2>2 DEF Insert, QueueStep
<1>3. CASE Reorder
  BY <1>3 DEF Reorder, QueueStep, Inserted
<1>4. CASE Interrupt
  BY <1>4 DEF Interrupt, Skips, QueueStep, Inserted, DoneType, Types
<1>5. CASE Fire
  BY <1>5 DEF Fire, QueueStep
<1>6. CASE \E f \in Filler : Enqueue(f)
  BY <1>6 DEF Enqueue, QueueStep
<1>7. CASE Plays
  BY <1>7 DEF Plays, QueueStep
<1>8. ASSUME Next, ~Look, ~Insert, ~Reorder, ~Interrupt, ~Fire, ~(\E f \in Filler : Enqueue(f)), ~Plays
      PROVE  queue' = queue
  BY <1>8 DEF Next, Tick, Engine, TickOffAir, ReadScript, Begin, Raise, StartScript,
     StopScript, Scheduler, Poll, PollOffAir, UpdateRule, ToggleRule, AutoDJ, WorkerFills,
     TrackFills, StartFill, TrackNeedsNone, Leave, Gone, Pick, EditRotation, PlaysStream, OffAir, StartupFill, OnAir
<1> QED
  BY <1>1, <1>2, <1>3, <1>4, <1>5, <1>6, <1>7, <1>8 DEF QueueStep

LEMMA FrontFacts ==
  ASSUME NEW e \in QueueRow, queue \in Seq(QueueRow), e.by # "autodj"
  PROVE  /\ ToFront(e) \in Seq(QueueRow) /\ ToSet(ToFront(e)) = ToSet(queue)
         /\ Cardinality(Autos(ToFront(e))) <= Cardinality(Autos(queue))
         /\ Once(queue) /\ OfScript(e) => Once(ToFront(e))
<1> DEFINE q == RemoveFirst(queue, e)
<1>1. CASE e \notin ToSet(queue)
  BY <1>1, AutosFinite DEF ToFront
<1>2. CASE e \in ToSet(queue)
  <2>1. ToFront(e) = <<e>> \o q
    BY <1>2 DEF ToFront, Without
  <2>2. q \in Seq(QueueRow) /\ Cardinality(Autos(q)) <= Cardinality(Autos(queue))
    BY AutosRemove
  <2>3. Once(queue) /\ OfScript(e) => Once(q) /\ e \notin ToSet(q) /\ ToSet(q) = ToSet(queue) \ {e}
    BY OnceRemove
  <2>4. ToSet(q) \subseteq ToSet(queue) /\ ToSet(queue) \ {e} \subseteq ToSet(q)
    BY RemoveFirstFacts
  <2> HIDE DEF q
  <2>5. <<e>> \o q \in Seq(QueueRow) /\ Cardinality(Autos(<<e>> \o q)) <= Cardinality(Autos(q))
    BY <2>2, AutosCons
  <2>6. Cardinality(Autos(q)) \in Nat /\ Cardinality(Autos(queue)) \in Nat /\ Cardinality(Autos(<<e>> \o q)) \in Nat
    BY <2>2, <2>5, AutosFinite
  <2>7. ToSet(<<e>> \o q) = ToSet(q) \cup {e}
    BY <2>2, ConsSet
  <2>8. Once(queue) /\ OfScript(e) => Once(<<e>> \o q)
    BY <2>2, <2>3, OnceCons
  <2>9. ToSet(<<e>> \o q) = ToSet(queue)
    BY <1>2, <2>4, <2>7
  <2>10. Cardinality(Autos(<<e>> \o q)) <= Cardinality(Autos(queue))
    BY <2>2, <2>5, <2>6
  <2> QED
    BY <2>1, <2>5, <2>8, <2>9, <2>10
<1> QED
  BY <1>1, <1>2

LEMMA QueueKept ==
  ASSUME Types, Next
  PROVE  QueueType' /\ (Cardinality(Autos(queue')) <= Cardinality(AutoRows) \/ \E f \in Filler :
                          /\ dj.fill[f].at = "picked" /\ Enqueue(f)
                          /\ Cardinality(Autos(queue')) = Cardinality(AutoRows) + dj.fill[f].need)
<1>1. queue \in Seq(QueueRow) /\ Cardinality(AutoRows) \in Nat /\ AutoRows = Autos(queue)
  BY AutosFinite DEF Types, QueueType, AutoRows
<1> DEFINE Good(q) == q \in Seq(QueueRow) /\ Cardinality(Autos(q)) <= Cardinality(AutoRows)
<1>2. Good(queue) /\ Good(Without(Created)) /\ Good(ToFront(Created))
  BY <1>1, RowsMade, AutosRemove, FrontFacts DEF Without
<1>3. ASSUME NEW e \in QueueRow, e.by # "autodj"
      PROVE  Good(Append(queue, e)) /\ Good(<<e>> \o queue)
  BY <1>1, <1>3, AutosAppend, AutosCons
<1>4. queue # <<>> => Good(Tail(queue))
  BY <1>1, AutosTail
<1>5. ASSUME NEW f \in Filler, dj.fill[f].at = "picked", Enqueue(f),
             queue' = queue \o [i \in 1..dj.fill[f].need |-> Row("autodj", Slot(f, i), 0)]
      PROVE  queue' \in Seq(QueueRow) /\ Cardinality(Autos(queue')) = Cardinality(AutoRows) + dj.fill[f].need
  <2> DEFINE new == [i \in 1..dj.fill[f].need |-> Row("autodj", Slot(f, i), 0)]
  <2>1. /\ dj.fill[f].need \in Nat /\ new \in Seq(QueueRow) /\ Len(new) = dj.fill[f].need
        /\ \A i \in 1..dj.fill[f].need : new[i].by = "autodj"
    BY SlotRows DEF Types
  <2>2. queue' = queue \o new
    BY <1>5
  <2> HIDE DEF new
  <2> QED
    BY <1>1, <2>1, <2>2, AutosMore
<1>6. Good(queue') \/ \E f \in Filler : dj.fill[f].at = "picked" /\ Enqueue(f) /\
        queue' = queue \o [i \in 1..dj.fill[f].need |-> Row("autodj", Slot(f, i), 0)]
  <2> HIDE DEF Good
  <2>1. QueueStep
    BY QueueSteps
  <2>2. Good(Append(queue, Created)) /\ Good(Append(queue, Row("rule", sched.key, 0)))
        /\ Good(<<Row("rule", sched.key, 0)>> \o queue)
    BY <1>3, RowsMade
  <2> QED
    BY <1>2, <1>4, <2>1, <2>2 DEF QueueStep
<1> QED
  BY <1>5, <1>6 DEF QueueType

-----------------------------------------------------------------------------
(* AutoDJ's steps, field by field *)

NoFiller(f) == dj'.fill[f].at \in {"none", "wanted"}
Others(f) == \A g \in Filler \ {f} : dj'.fill[g] = dj.fill[g]

LEMMA DjFields ==
  ASSUME DjType
  PROVE  /\ dj \in DjRecord /\ dj.fill \in [Filler -> FillRecord] /\ NotFilling \in FillRecord
         /\ NotFilling.at = "none" /\ "start" \in Filler /\ "worker" \in Filler
         /\ \A f \in Filler : dj.fill[f] \in FillRecord
         /\ dj.worker \in {"none", "running", "leaving"}
BY Numbers DEF DjType, DjRecord, FillRecord, NotFilling, Filler

DjQuiet ==
  /\ dj' \in DjRecord /\ dj'.cursor = dj.cursor /\ dj'.stored = dj.stored /\ dj'.rotation = dj.rotation
  /\ dj'.lock = dj.lock /\ dj'.turn = dj.turn
  /\ \A f \in Filler : dj'.fill[f] = dj.fill[f] \/ (~Held(f) /\ NoFiller(f))

LEMMA FillOf ==
  ASSUME DjType, NEW f \in Filler, NEW r \in FillRecord, ~Held(f), r.at \in {"none", "wanted"},
         NEW w \in {"none", "running", "leaving"}, dj' = [dj EXCEPT !.worker = w, !.fill[f] = r]
  PROVE  DjQuiet
<1>1. dj' \in DjRecord /\ dj'.fill = [dj.fill EXCEPT ![f] = r]
  BY DjFields DEF DjRecord
<1>2. /\ dj'.cursor = dj.cursor /\ dj'.stored = dj.stored /\ dj'.rotation = dj.rotation
      /\ dj'.lock = dj.lock /\ dj'.turn = dj.turn
  BY DjFields DEF DjRecord
<1>3. dj'.fill[f] = r /\ \A g \in Filler \ {f} : dj'.fill[g] = dj.fill[g]
  BY <1>1, DjFields
<1> QED
  BY <1>1, <1>2, <1>3 DEF DjQuiet, NoFiller

LEMMA WorkerOf ==
  ASSUME DjType, NEW w \in {"none", "running", "leaving"}, dj' = [dj EXCEPT !.worker = w]
  PROVE  DjQuiet
BY DjFields DEF DjRecord, DjQuiet

LEMMA PlaysQuietly ==
  ASSUME DjType, Plays
  PROVE  DjQuiet
<1> DEFINE w == LookedAfter(dj.worker)
           r == IF "autodj" \in uses /\ dj.fill["start"].at = "none"
                THEN [NotFilling EXCEPT !.at = "wanted"] ELSE dj.fill["start"]
<1>1. dj' = [dj EXCEPT !.worker = w, !.fill["start"] = r]
  BY DEF Plays
<1>2. w \in {"none", "running", "leaving"}
  BY DjFields DEF LookedAfter, WorkerFor
<1>3. r \in FillRecord /\ (r = dj.fill["start"] \/ (~Held("start") /\ r.at = "wanted"))
  BY DjFields, Numbers DEF NotFilling, FillRecord, Held
<1> HIDE DEF w, r
<1>4. CASE ~Held("start") /\ r.at = "wanted"
  BY <1>1, <1>2, <1>3, <1>4, FillOf, DjFields
<1>5. CASE r = dj.fill["start"]
  <2>1. dj' = [dj EXCEPT !.worker = w]
    BY <1>1, <1>5, DjFields DEF DjRecord
  <2> QED
    BY <1>2, <2>1, WorkerOf
<1> QED
  BY <1>3, <1>4, <1>5

LEMMA QuietSteps ==
  ASSUME DjType, TrackNeedsNone \/ Leave \/ Gone \/ Plays \/ OnAir \/ StartupFill
  PROVE  DjQuiet
<1>1. CASE TrackNeedsNone
  <2>1. dj' = [dj EXCEPT !.worker = dj.worker, !.fill["start"] = NotFilling] /\ ~Held("start")
    BY <1>1, DjFields DEF TrackNeedsNone, Held, DjRecord
  <2> QED
    BY <2>1, DjFields, FillOf
<1>2. CASE Leave
  BY <1>2, WorkerOf DEF Leave
<1>3. CASE Gone
  BY <1>3, WorkerOf DEF Gone
<1>4. CASE Plays
  BY <1>4, PlaysQuietly
<1>5. CASE OnAir
  <2>1. WorkerFor(dj.worker) \in {"none", "running", "leaving"}
    BY DjFields DEF WorkerFor
  <2> QED
    BY <1>5, <2>1, WorkerOf DEF OnAir
<1>6. CASE StartupFill
  <2> DEFINE r == [dj.fill["start"] EXCEPT !.at = "wanted"]
  <2>1. dj' = [dj EXCEPT !.fill["start"].at = "wanted"] /\ ~Held("start")
    BY <1>6, DjFields DEF StartupFill, Held
  <2>2. r \in FillRecord /\ r.at = "wanted"
    BY DjFields DEF FillRecord
  <2>3. dj' = [dj EXCEPT !.worker = dj.worker, !.fill["start"] = r]
    BY <2>1, DjFields DEF DjRecord
  <2> HIDE DEF r
  <2>4. r.at \in {"none", "wanted"} /\ ~Held("start") /\ dj.worker \in {"none", "running", "leaving"}
    BY <2>1, <2>2, DjFields
  <2> QED
    BY <2>2, <2>3, <2>4, DjFields, FillOf
<1> QED
  BY <1>1, <1>2, <1>3, <1>4, <1>5, <1>6

LEMMA StartFillFacts ==
  ASSUME Types, NEW f \in Filler, StartFill(f)
  PROVE  /\ dj' \in DjRecord /\ dj.lock = "free" /\ dj'.lock = f /\ dj'.cursor = dj.cursor
         /\ dj'.stored = dj.rotation /\ dj'.rotation = dj.rotation /\ dj'.turn = dj.turn
         /\ dj'.fill[f].at = "counted" /\ dj'.fill[f].need = Keep - Len(queue)
         /\ dj'.fill[f].rotation = dj.rotation
         /\ dj'.fill[f].from = IF dj.stored = dj.rotation THEN dj.cursor ELSE 0
         /\ Others(f) /\ queue' = queue /\ ops' = ops
<1> DEFINE c == IF dj.stored = dj.rotation THEN dj.cursor ELSE 0
           n == Keep - Len(queue)
           r == [at |-> "counted", need |-> n, rotation |-> dj.rotation, from |-> c]
<1>1. dj' = [dj EXCEPT !.lock = f, !.stored = dj.rotation, !.fill[f] = r]
  BY DEF StartFill
<1>2. n \in 0..Keep /\ c \in 0..Slots - 1 /\ dj.rotation \in 0..MaxOps
  <2>1. Len(queue) \in Nat /\ Len(queue) < Keep /\ Keep \in Nat
    BY Numbers DEF StartFill, Types, QueueType
  <2>2. dj.cursor \in 0..Slots - 1 /\ 0 \in 0..Slots - 1 /\ dj.rotation \in 0..MaxOps
    BY Numbers DEF Types, DjType, DjRecord
  <2> QED
    BY <2>1, <2>2
<1> HIDE DEF c, n
<1>3. r \in FillRecord /\ r.at = "counted" /\ r.need = n /\ r.rotation = dj.rotation /\ r.from = c
  BY <1>2 DEF FillRecord
<1> HIDE DEF r
<1>4. DjType /\ dj \in DjRecord /\ dj.fill \in [Filler -> FillRecord]
  BY DjFields DEF Types
<1>5. /\ dj'.lock = f /\ dj'.cursor = dj.cursor /\ dj'.stored = dj.rotation /\ dj'.rotation = dj.rotation
      /\ dj'.turn = dj.turn /\ dj'.fill = [dj.fill EXCEPT ![f] = r] /\ dj' \in DjRecord
  BY <1>1, <1>2, <1>3, <1>4 DEF DjRecord
<1>6. dj'.fill[f] = r /\ Others(f)
  BY <1>4, <1>5 DEF Others
<1> QED
  BY <1>3, <1>5, <1>6 DEF c, n, StartFill, Unlocked

PickedSlot(f) == (dj.fill[f].from + dj.fill[f].need) % Slots
LEMMA PickFacts ==
  ASSUME DjType, NEW f \in Filler, Pick(f)
  PROVE  /\ dj' \in DjRecord /\ dj.fill[f].at = "counted" /\ dj'.cursor = PickedSlot(f)
         /\ dj'.stored = dj.fill[f].rotation /\ dj'.rotation = dj.rotation
         /\ dj'.turn = IF dj.fill[f].rotation = dj.rotation THEN PickedSlot(f) ELSE dj.turn
         /\ \/ /\ dj'.lock = dj.lock /\ dj'.fill[f].at = "picked" /\ dj'.fill[f].need = dj.fill[f].need
               /\ dj'.fill[f].rotation = dj.fill[f].rotation
            \/ dj'.lock = "free" /\ dj'.fill[f].at = "none"
         /\ Others(f) /\ queue' = queue
<1> DEFINE s == PickedSlot(f)
           u == IF dj.fill[f].rotation = dj.rotation THEN s ELSE dj.turn
           r == [dj.fill[f] EXCEPT !.at = "picked"]
<1>1. /\ dj \in DjRecord /\ dj.fill \in [Filler -> FillRecord] /\ dj.fill[f] \in FillRecord
      /\ NotFilling \in FillRecord /\ NotFilling.at = "none"
  BY DjFields
<1>2. s \in 0..Slots - 1
  <2> DEFINE n == dj.fill[f].from + dj.fill[f].need
  <2>1. n \in Nat /\ Slots \in Nat \ {0}
    BY <1>1, Numbers DEF FillRecord
  <2> HIDE DEF n
  <2>2. n % Slots \in 0..Slots - 1
    BY <2>1, SMT
  <2> QED
    BY <2>2 DEF PickedSlot, n
<1>3. dj.fill[f].at = "counted" /\ queue' = queue
  BY DEF Pick
<1>4. \/ dj' = [dj EXCEPT !.cursor = s, !.stored = dj.fill[f].rotation, !.fill[f].at = "picked", !.turn = u]
      \/ dj' = [dj EXCEPT !.cursor = s, !.stored = dj.fill[f].rotation, !.lock = "free", !.turn = u,
                          !.fill[f] = NotFilling]
  BY DEF Pick, PickedSlot
<1> HIDE DEF s
<1>5. u \in 0..Slots - 1 /\ dj.fill[f].rotation \in 0..MaxOps
  BY <1>1, <1>2 DEF DjRecord, FillRecord
<1> HIDE DEF u
<1>6. r \in FillRecord /\ r.at = "picked" /\ r.need = dj.fill[f].need /\ r.rotation = dj.fill[f].rotation
  BY <1>1 DEF FillRecord
<1>7. CASE dj' = [dj EXCEPT !.cursor = s, !.stored = dj.fill[f].rotation, !.fill[f].at = "picked", !.turn = u]
  <2>1. dj' = [dj EXCEPT !.cursor = s, !.stored = dj.fill[f].rotation, !.fill[f] = r, !.turn = u]
    BY <1>1, <1>7 DEF DjRecord
  <2> HIDE DEF r
  <2>2. /\ dj' \in DjRecord /\ dj'.cursor = s /\ dj'.stored = dj.fill[f].rotation /\ dj'.rotation = dj.rotation
        /\ dj'.turn = u /\ dj'.lock = dj.lock /\ dj'.fill = [dj.fill EXCEPT ![f] = r]
    BY <1>1, <1>2, <1>5, <1>6, <2>1 DEF DjRecord
  <2>3. dj'.fill[f] = r /\ Others(f)
    BY <1>1, <2>2 DEF Others
  <2> QED
    BY <1>3, <1>6, <2>2, <2>3 DEF s, u
<1>8. CASE dj' = [dj EXCEPT !.cursor = s, !.stored = dj.fill[f].rotation, !.lock = "free", !.turn = u,
                          !.fill[f] = NotFilling]
  <2>2. /\ dj' \in DjRecord /\ dj'.cursor = s /\ dj'.stored = dj.fill[f].rotation /\ dj'.rotation = dj.rotation
        /\ dj'.turn = u /\ dj'.lock = "free" /\ dj'.fill = [dj.fill EXCEPT ![f] = NotFilling]
    BY <1>1, <1>2, <1>5, <1>8 DEF DjRecord
  <2>3. dj'.fill[f] = NotFilling /\ Others(f)
    BY <1>1, <2>2 DEF Others
  <2> QED
    BY <1>1, <1>3, <2>2, <2>3 DEF s, u
<1> QED
  BY <1>4, <1>7, <1>8

LEMMA EnqueueFacts ==
  ASSUME DjType, NEW f \in Filler, Enqueue(f)
  PROVE  /\ dj' \in DjRecord /\ dj'.cursor = dj.cursor /\ dj'.stored = dj.stored /\ dj'.rotation = dj.rotation
         /\ dj'.turn = dj.turn /\ dj'.lock = "free" /\ dj'.fill[f].at = "none" /\ Others(f)
         /\ dj.fill[f].at = "picked"
<1>1. /\ dj \in DjRecord /\ dj.fill \in [Filler -> FillRecord]
      /\ NotFilling \in FillRecord /\ NotFilling.at = "none"
  BY DjFields
<1>2. dj' = [dj EXCEPT !.lock = "free", !.fill[f] = NotFilling] /\ dj.fill[f].at = "picked"
  BY DEF Enqueue
<1>3. /\ dj' \in DjRecord /\ dj'.cursor = dj.cursor /\ dj'.stored = dj.stored /\ dj'.rotation = dj.rotation
      /\ dj'.turn = dj.turn /\ dj'.lock = "free" /\ dj'.fill = [dj.fill EXCEPT ![f] = NotFilling]
  BY <1>1, <1>2 DEF DjRecord
<1>4. dj'.fill[f] = NotFilling /\ Others(f)
  BY <1>1, <1>3 DEF Others
<1> QED
  BY <1>1, <1>2, <1>3, <1>4

LEMMA EditFacts ==
  ASSUME Types, Rotation, EditRotation
  PROVE  /\ dj' \in DjRecord /\ dj'.cursor = dj.cursor /\ dj'.stored = dj.stored /\ dj'.rotation = dj.rotation + 1
         /\ dj'.turn = 0 /\ dj'.lock = dj.lock /\ dj'.fill = dj.fill /\ ops' = ops + 1 /\ queue' = queue
<1>1. DjType /\ StationType /\ dj \in DjRecord
  BY DjFields DEF Types
<1>2. ops' = ops + 1 /\ ops' \in 0..MaxOps /\ queue' = queue
  BY <1>1, OpCounts DEF EditRotation
<1>3. dj.rotation \in Nat /\ dj.rotation <= ops /\ ops \in Nat
  BY <1>1, Counts DEF Rotation, DjRecord
<1>4. dj.rotation + 1 \in 0..MaxOps /\ 0 \in 0..Slots - 1
  BY <1>2, <1>3, Numbers
<1>5. dj' = [dj EXCEPT !.rotation = dj.rotation + 1, !.turn = 0]
  BY DEF EditRotation
<1> QED
  BY <1>1, <1>2, <1>4, <1>5 DEF DjRecord

LEMMA DjSteps ==
  ASSUME DjType, Next
  PROVE  \/ DjQuiet
         \/ \E f \in Filler : StartFill(f) \/ Pick(f) \/ Enqueue(f)
         \/ EditRotation
<1>1. CASE TrackNeedsNone \/ Leave \/ Gone \/ Plays \/ OnAir \/ StartupFill
  BY <1>1, QuietSteps
<1>2. CASE WorkerFills \/ TrackFills
  BY <1>2, DjFields DEF WorkerFills, TrackFills
<1>3. ASSUME dj' = dj
      PROVE  DjQuiet
  BY <1>3, DjFields DEF DjQuiet
<1>4. ASSUME Next, ~TrackNeedsNone, ~Leave, ~Gone, ~Plays, ~OnAir, ~StartupFill, ~WorkerFills, ~TrackFills,
             ~EditRotation, ~(\E f \in Filler : Pick(f) \/ Enqueue(f))
      PROVE  dj' = dj
  BY <1>4 DEF Next, Tick, Engine, TickOffAir, ReadScript, Begin, Look, Insert, Reorder, Interrupt, Raise,
     StartScript, StopScript, Scheduler, Poll, PollOffAir, Fire, UpdateRule, ToggleRule, AutoDJ, PlaysStream, OffAir
<1> QED
  BY <1>1, <1>2, <1>3, <1>4

-----------------------------------------------------------------------------
(* Two fills do not overlap *)

LEMMA DjNumbers ==
  ASSUME DjType
  PROVE  /\ dj.stored \in Nat /\ dj.rotation \in Nat /\ dj.cursor \in Nat /\ dj.turn \in Nat
         /\ \A f \in Filler : dj.fill[f].rotation \in Nat /\ dj.fill[f].from \in Nat /\ dj.fill[f].need \in Nat
         /\ "free" \notin Filler
BY DjFields, Numbers DEF DjRecord, FillRecord, Filler

LEMMA LockKept ==
  ASSUME Types, Lock, Rotation, Next
  PROVE  DjType' /\ Lock'
<1>1. DjType
  BY DEF Types
<1>2. CASE DjQuiet
  BY <1>2 DEF DjQuiet, DjType, Lock, Held, NoFiller
<1>3. ASSUME NEW f \in Filler, StartFill(f)
      PROVE  DjType' /\ Lock'
  BY <1>1, <1>3, StartFillFacts, DjNumbers DEF Others, DjType, Lock, Held
<1>4. ASSUME NEW f \in Filler, Pick(f)
      PROVE  DjType' /\ Lock'
  BY <1>1, <1>4, PickFacts, DjNumbers DEF Others, DjType, Lock, Held
<1>5. ASSUME NEW f \in Filler, Enqueue(f)
      PROVE  DjType' /\ Lock'
  BY <1>1, <1>5, EnqueueFacts, DjNumbers DEF Others, DjType, Lock, Held
<1>6. CASE EditRotation
  BY <1>6, EditFacts DEF DjType, Lock, Held
<1> QED
  BY <1>1, <1>2, <1>3, <1>4, <1>5, <1>6, DjSteps

LEMMA RotationKept ==
  ASSUME Types, Lock, Rotation, Next
  PROVE  Rotation'
<1>1. DjType /\ StationType
  BY DEF Types
<1>2. /\ dj.stored \in Nat /\ dj.rotation \in Nat /\ ops \in Nat /\ ops' \in Nat /\ ops' >= ops
      /\ \A f \in Filler : dj.fill[f].rotation \in Nat
  BY <1>1, DjNumbers, Counts, OpsGrow
<1>3. CASE DjQuiet
  <2>1. \A f \in Filler : dj'.fill[f].at = "counted" <=> dj.fill[f].at = "counted"
    BY <1>3 DEF DjQuiet, Held, NoFiller
  <2> QED
    BY <1>2, <1>3, <2>1 DEF DjQuiet, Rotation, Held, NoFiller
<1>4. ASSUME NEW f \in Filler, StartFill(f)
      PROVE  Rotation'
  <2>1. \A g \in Filler : ~Held(g)
    BY <1>1, <1>4, StartFillFacts, DjNumbers DEF Lock
  <2>2. \A g \in Filler \ {f} : ~Held(g)'
    BY <1>4, <2>1, StartFillFacts DEF Others, Held
  <2>3. dj.stored = dj.rotation => dj.cursor = dj.turn
    BY <2>1 DEF Rotation, Held
  <2>4. dj'.fill[f].from = dj.turn
    BY <1>4, <2>3, StartFillFacts DEF Rotation
  <2> QED
    BY <1>2, <1>4, <2>2, <2>4, StartFillFacts DEF Rotation, Held
<1>5. ASSUME NEW f \in Filler, Pick(f)
      PROVE  Rotation'
  <2>1. Held(f) /\ \A g \in Filler \ {f} : ~Held(g)
    BY <1>1, <1>5, PickFacts DEF Lock, Held
  <2>2. \A g \in Filler \ {f} : ~Held(g)'
    BY <1>1, <1>5, <2>1, PickFacts DEF Others, Held
  <2>3. dj.fill[f].rotation = dj.stored /\ dj.stored <= dj.rotation /\ dj.rotation <= ops
    BY <2>1 DEF Rotation
  <2>4. dj'.fill[f].at # "counted" /\ (dj'.fill[f].at = "picked" => dj'.fill[f].rotation = dj.stored)
    BY <1>1, <1>5, <2>3, PickFacts
  <2>5. dj'.stored = dj.stored /\ dj'.rotation = dj.rotation
    BY <1>1, <1>5, <2>3, PickFacts
  <2>6. dj.stored # dj.rotation => dj'.turn = 0
    BY <1>1, <1>5, <2>3, PickFacts DEF Rotation
  <2>7. dj.stored = dj.rotation => dj'.cursor = dj'.turn
    BY <1>1, <1>5, <2>3, PickFacts
  <2> QED
    BY <1>2, <2>2, <2>3, <2>4, <2>5, <2>6, <2>7 DEF Rotation, Held
<1>6. ASSUME NEW f \in Filler, Enqueue(f)
      PROVE  Rotation'
  <2>1. Held(f) /\ dj.fill[f].at # "counted" /\ \A g \in Filler \ {f} : ~Held(g)
    BY <1>1, <1>6, EnqueueFacts DEF Lock, Held
  <2>2. (\A g \in Filler : ~Held(g)') /\ \A g \in Filler : dj.fill[g].at # "counted"
    BY <1>1, <1>6, <2>1, EnqueueFacts DEF Others, Held
  <2> QED
    BY <1>1, <1>2, <1>6, <2>2, EnqueueFacts DEF Rotation, Held
<1>7. CASE EditRotation
  <2>1. /\ dj'.stored = dj.stored /\ dj'.rotation = dj.rotation + 1 /\ dj'.turn = 0 /\ dj'.fill = dj.fill
        /\ ops' = ops + 1
    BY <1>7, EditFacts
  <2>2. dj'.stored # dj'.rotation /\ dj'.rotation <= ops' /\ dj'.stored <= dj'.rotation
    BY <1>2, <2>1 DEF Rotation
  <2>3. \A f \in Filler : Held(f) => dj.fill[f].rotation <= dj'.rotation /\ dj.fill[f].rotation # dj'.rotation
    BY <1>2, <2>1 DEF Rotation
  <2> QED
    BY <2>1, <2>2, <2>3 DEF Rotation, Held
<1> QED
  BY <1>1, <1>3, <1>4, <1>5, <1>6, <1>7, DjSteps

LEMMA RoomKept ==
  ASSUME Types, Lock, Room, Rotation, Next
  PROVE  Room'
<1>1. DjType /\ queue \in Seq(QueueRow)
  BY DEF Types, QueueType
<1>2. /\ Cardinality(AutoRows) \in Nat /\ Cardinality(AutoRows') \in Nat /\ Keep \in Nat /\ Len(queue) \in Nat
      /\ Cardinality(AutoRows) <= Len(queue) /\ AutoRows' = Autos(queue')
      /\ \A f \in Filler : dj.fill[f].need \in Nat /\ dj'.fill[f].need \in Nat
  <2>1. queue' \in Seq(QueueRow) /\ DjType'
    BY QueueKept, LockKept DEF QueueType
  <2>2. \A f \in Filler : dj'.fill[f].need \in Nat
    BY <2>1, Numbers DEF DjType, DjRecord, FillRecord
  <2>3. Cardinality(Autos(queue')) \in Nat
    BY <2>1, AutosFinite
  <2> QED
    BY <1>1, <2>2, <2>3, AutosFinite, Numbers, DjNumbers DEF AutoRows
<1>3. CASE DjQuiet
  <2>2. \A f \in Filler : ~Enqueue(f)
    BY <1>1, <1>3, EnqueueFacts, DjNumbers DEF DjQuiet, Held
  <2>3. Cardinality(AutoRows') <= Cardinality(AutoRows)
    BY <1>2, <2>2, QueueKept
  <2>4. \A f \in Filler : Held(f)' => Held(f) /\ dj'.fill[f].need = dj.fill[f].need
    BY <1>3 DEF DjQuiet, Held, NoFiller
  <2> QED
    BY <1>2, <2>3, <2>4 DEF Room
<1>4. ASSUME NEW f \in Filler, StartFill(f)
      PROVE  Room'
  <2>1. \A g \in Filler \ {f} : ~Held(g)'
    BY <1>1, <1>4, StartFillFacts, DjNumbers DEF Lock, Others, Held
  <2>2. queue' = queue /\ dj'.fill[f].need = Keep - Len(queue)
    BY <1>4, StartFillFacts
  <2>3. Cardinality(AutoRows') = Cardinality(AutoRows)
    BY <1>2, <2>2 DEF AutoRows
  <2> QED
    BY <1>2, <2>1, <2>2, <2>3 DEF Room
<1>5. ASSUME NEW f \in Filler, Pick(f)
      PROVE  Room'
  <2>1. Held(f) /\ \A g \in Filler \ {f} : ~Held(g)'
    BY <1>1, <1>5, PickFacts DEF Lock, Held, Others
  <2>2. queue' = queue /\ (Held(f)' => dj'.fill[f].need = dj.fill[f].need)
    BY <1>1, <1>5, PickFacts DEF Held
  <2>3. Cardinality(AutoRows') = Cardinality(AutoRows)
    BY <1>2, <2>2 DEF AutoRows
  <2> QED
    BY <1>2, <2>1, <2>2, <2>3 DEF Room
<1>6. ASSUME NEW f \in Filler, Enqueue(f)
      PROVE  Room'
  <2>1. Held(f) /\ (\A g \in Filler : ~Held(g)') /\ \A g \in Filler \ {f} : ~Held(g)
    BY <1>1, <1>6, EnqueueFacts DEF Lock, Held, Others
  <2>2. \/ Cardinality(AutoRows') <= Cardinality(AutoRows)
        \/ Cardinality(AutoRows') = Cardinality(AutoRows) + dj.fill[f].need
    <3>1. \A g \in Filler : dj.fill[g].at = "picked" => g = f
      BY <2>1 DEF Held
    <3> QED
      BY <1>2, <3>1, QueueKept
  <2> QED
    BY <1>2, <2>1, <2>2 DEF Room
<1>7. CASE EditRotation
  <2>1. queue' = queue /\ dj'.fill = dj.fill
    BY <1>7, EditFacts
  <2> QED
    BY <2>1 DEF Room, AutoRows, Held
<1> QED
  BY <1>1, <1>3, <1>4, <1>5, <1>6, <1>7, DjSteps

-----------------------------------------------------------------------------
(* The scheduler *)

\* What a step makes of the rule: nothing, it is off, or it waits for the next
\* run; the page computes that in UTC.
RuleOff == ~rule'.on
RuleAt(t) == rule'.next = NextDue(t)
RuleStep ==
  /\ rule' \in [on : BOOLEAN, next : Second]
  /\ rule' = rule \/ RuleOff \/ RuleAt(now) \/ RuleAt(now + Zone)
SchedStep ==
  /\ sched' \in [at : {"none", "insert", "update"}, key : Second, wasOn : BOOLEAN]
  /\ \/ sched'.at = sched.at /\ sched'.key = sched.key
     \/ sched'.at = "none"
     \/ sched.at = "insert" /\ sched'.at = "update" /\ sched'.key = sched.key
     \/ sched.at = "none" /\ rule' = rule /\ rule.on /\ rule.next # None /\ rule.next <= now /\ sched'.key = rule.next

LEMMA RuleSteps ==
  ASSUME Types, Next
  PROVE  RuleStep
<1>1. rule \in [on : BOOLEAN, next : Second] /\ now \in Nat /\ now + Zone \in Nat /\ None \in Second
  BY Counts, Numbers DEF Types, RuleType
<1>2. ASSUME NEW t \in Nat
      PROVE  NextDue(t) \in Second
  BY NextDueFacts, Numbers
<1>3. NextDue(now) \in Second /\ NextDue(now + Zone) \in Second
  BY <1>1, <1>2
<1>4. CASE Poll
  BY <1>1, <1>3, <1>4 DEF Poll, RuleStep, RuleAt
<1>5. CASE UpdateRule
  <2>1. CASE rule' = [on |-> NextDue(now) # None, next |-> NextDue(now)]
    <3> DEFINE b == NextDue(now) # None
               d == NextDue(now)
    <3>1. rule' = [on |-> b, next |-> d] /\ b \in BOOLEAN /\ d \in Second
      BY <1>3, <2>1
    <3> HIDE DEF b, d
    <3>2. rule' \in [on : BOOLEAN, next : Second] /\ rule'.next = d
      BY <3>1
    <3> QED
      BY <3>2 DEF RuleStep, RuleAt, d
  <2> QED
    BY <1>1, <1>5, <2>1 DEF UpdateRule, RuleStep
<1>6. ASSUME rule' = [on |-> FALSE, next |-> None]
      PROVE  RuleStep
  BY <1>1, <1>6 DEF RuleStep, RuleOff
<1>7. ASSUME rule' = [on |-> TRUE, next |-> NextDue(now + Zone)]
      PROVE  RuleStep
  <2>1. rule' \in [on : BOOLEAN, next : Second] /\ rule'.next = NextDue(now + Zone)
    BY <1>3, <1>7
  <2> QED
    BY <2>1 DEF RuleStep, RuleAt
<1>8. ASSUME rule' = rule
      PROVE  RuleStep
  BY <1>1, <1>8 DEF RuleStep
<1>9. CASE PollOffAir \/ ToggleRule \/ OffAir \/ OnAir
  BY <1>6, <1>7, <1>8, <1>9 DEF PollOffAir, ToggleRule, OffAir, OnAir
<1>10. ASSUME Next, ~Poll, ~UpdateRule, ~PollOffAir, ~ToggleRule, ~OffAir, ~OnAir
       PROVE  rule' = rule
  BY <1>10 DEF Next, Tick, Engine, TickOffAir, ReadScript, Begin, Look, Insert, Reorder, Interrupt, Raise, StartScript,
     StopScript, Scheduler, Fire, AutoDJ, WorkerFills, TrackFills, StartFill, TrackNeedsNone, Leave, Gone, Pick,
     Enqueue, EditRotation, Plays, PlaysStream, StartupFill, ruleVars
<1> QED
  BY <1>4, <1>5, <1>8, <1>9, <1>10

LEMMA SchedSteps ==
  ASSUME Types, Next
  PROVE  SchedStep
<1>1. /\ sched \in [at : {"none", "insert", "update"}, key : Second, wasOn : BOOLEAN] /\ rule.next \in Second
      /\ None \in Second
  BY Numbers DEF Types, SchedType, RuleType
<1>2. CASE Poll
  <2>1. ASSUME sched' = [sched EXCEPT !.wasOn = TRUE]
        PROVE  SchedStep
    BY <1>1, <2>1 DEF SchedStep
  <2>2. ASSUME sched' = [at |-> "insert", key |-> rule.next, wasOn |-> TRUE]
        PROVE  sched' \in [at : {"none", "insert", "update"}, key : Second, wasOn : BOOLEAN] /\ sched'.key = rule.next
    BY <1>1, <2>2
  <2> QED
    BY <1>1, <1>2, <2>1, <2>2 DEF Poll, SchedStep
<1>3. CASE PollOffAir
  BY <1>1, <1>3 DEF PollOffAir, SchedStep
<1>4. CASE Fire
  BY <1>1, <1>4 DEF Fire, SchedStep
<1>5. CASE UpdateRule
  BY <1>1, <1>5 DEF UpdateRule, SchedStep
<1>6. ASSUME Next, ~Poll, ~PollOffAir, ~Fire, ~UpdateRule
      PROVE  sched' = sched
  BY <1>6 DEF Next, Tick, Engine, TickOffAir, ReadScript, Begin, Look, Insert, Reorder, Interrupt, Raise, StartScript,
     StopScript, Scheduler, ToggleRule, AutoDJ, WorkerFills, TrackFills, StartFill, TrackNeedsNone, Leave, Gone, Pick,
     Enqueue, EditRotation, Plays, PlaysStream, OffAir, StartupFill, OnAir, ruleVars
<1> QED
  BY <1>1, <1>2, <1>3, <1>4, <1>5, <1>6 DEF SchedStep

\* An update that records a run makes the rule wait for the next.
LEMMA RecordSteps ==
  ASSUME Types, Next
  PROVE  \/ done'.rule = done.rule
         \/ /\ done'.rule = done.rule \cup {sched.key} /\ sched.at = "update" /\ sched'.at = "none"
            /\ RuleAt(now)
<1>1. done \in [script : SUBSET Due, skipped : SUBSET QueueRow, rule : SUBSET Due]
  BY DEF Types, DoneType
<1>2. CASE UpdateRule
  <2>1. sched'.at = "none" /\ sched.at = "update"
    BY <1>2 DEF UpdateRule, Types, SchedType
  <2>2. \/ done' = done
        \/ done' = [done EXCEPT !.rule = @ \cup {sched.key}] /\ RuleAt(now)
    BY <1>2 DEF UpdateRule, RuleAt
  <2> QED
    BY <1>1, <2>1, <2>2
<1>3. CASE Look \/ Insert \/ Interrupt \/ StartScript \/ StopScript \/ OffAir
  <2>1. \/ done' = done \/ done' = [done EXCEPT !.skipped = @ \cup {Created}]
        \/ done' = [done EXCEPT !.script = @ \cup {engine.key}]
        \/ done' = [done EXCEPT !.script = {}, !.skipped = {}]
    BY <1>3 DEF Look, Insert, Interrupt, StartScript, StopScript, OffAir, Skips
  <2> QED
    BY <1>1, <2>1
<1>4. ASSUME Next, ~UpdateRule, ~Look, ~Insert, ~Interrupt, ~StartScript, ~StopScript, ~OffAir
      PROVE  done' = done
  BY <1>4 DEF Next, Tick, Engine, TickOffAir, ReadScript, Begin, Reorder, Raise,
     Scheduler, Poll, PollOffAir, Fire, ToggleRule, AutoDJ, WorkerFills, TrackFills, StartFill, TrackNeedsNone, Leave,
     Gone, Pick, Enqueue, EditRotation, Plays, PlaysStream, StartupFill, OnAir
<1> QED
  BY <1>2, <1>3, <1>4

LEMMA RuleOnceKept ==
  ASSUME Types, RuleOnce, Next
  PROVE  RuleOnce'
<1>1. RuleStep /\ SchedStep
  BY RuleSteps, SchedSteps
<1>2. now \in Nat /\ now' \in Nat /\ now <= now' /\ now + Zone \in Nat /\ now <= now + Zone
  BY TimeGoes, Counts, Numbers DEF Types
<1>3. rule' = rule \/ RuleOff \/ (rule'.next \in Due \cup {None} /\ (rule'.next # None => rule'.next > now))
  <2>1. ASSUME NEW t \in Nat, t >= now, RuleAt(t)
        PROVE  rule'.next \in Due \cup {None} /\ (rule'.next # None => rule'.next > now)
    <3>1. NextDue(t) \in Due \cup {None} /\ (NextDue(t) # None => NextDue(t) > t)
      BY NextDueFacts
    <3> QED
      BY <1>2, <2>1, <3>1, DueSeconds DEF RuleAt
  <2> QED
    BY <1>1, <1>2, <2>1 DEF RuleStep
<1>4. sched'.at # "none" => sched'.key \in Due /\ sched'.key <= now'
  <2>1. sched'.at # "none" => sched'.key \in Due /\ sched'.key <= now
    BY <1>1 DEF SchedStep, RuleOnce
  <2> QED
    BY <1>2, <2>1, DueSeconds
<1>5. rule'.on /\ rule'.next # None => rule'.next \in Due
  BY <1>3 DEF RuleOnce, RuleOff
<1>6. ASSUME NEW k \in done.rule
      PROVE  /\ k <= now' /\ (rule'.on /\ rule'.next # None => k < rule'.next)
             /\ (sched'.at # "none" => k < sched'.key)
  <2>1. k \in Nat /\ k <= now
    BY <1>6, DueSeconds DEF Types, DoneType, RuleOnce
  <2>2. rule'.on /\ rule'.next # None => k < rule'.next
    BY <1>2, <1>3, <1>5, <1>6, <2>1, DueSeconds DEF RuleOnce, RuleOff
  <2>3. sched'.at # "none" => k < sched'.key
    BY <1>1, <1>6 DEF SchedStep, RuleOnce
  <2> QED
    BY <1>2, <2>1, <2>2, <2>3
<1>7. CASE done'.rule = done.rule
  BY <1>4, <1>5, <1>6, <1>7 DEF RuleOnce
<1>8. CASE done'.rule = done.rule \cup {sched.key} /\ sched.at = "update" /\ sched'.at = "none" /\ RuleAt(now)
  <2>1. sched.key \in Nat /\ sched.key <= now
    BY <1>8, DueSeconds DEF RuleOnce
  <2>2. NextDue(now) # None => NextDue(now) > now /\ NextDue(now) \in Nat
    BY <1>2, NextDueFacts, DueSeconds
  <2>3. sched.key <= now' /\ (rule'.next # None => sched.key < rule'.next)
    BY <1>2, <1>8, <2>1, <2>2 DEF RuleAt
  <2> QED
    BY <1>4, <1>5, <1>6, <1>8, <2>3 DEF RuleOnce
<1> QED
  BY <1>7, <1>8, RecordSteps

LEMMA RuleKept ==
  ASSUME Types, RuleAwaitsRuns, Next, Zone = 0
  PROVE  RuleAwaitsRuns'
<1>1. RuleStep
  BY RuleSteps
<1>2. now \in Nat /\ now' \in Nat /\ now <= now' /\ now + Zone = now
  BY TimeGoes, Counts, Numbers DEF Types
<1>3. RuleAt(now) => \A d \in Due : d > now => (rule'.next # None /\ rule'.next <= d)
  BY <1>2, NextDueFacts DEF RuleAt
<1>4. rule'.on => \A d \in Due : d > now => (rule'.next # None /\ rule'.next <= d)
  BY <1>1, <1>2, <1>3 DEF RuleStep, RuleOff, RuleAwaitsRuns
<1> QED
  BY <1>2, <1>4, DueSeconds DEF RuleAwaitsRuns

-----------------------------------------------------------------------------
(* The script worker's steps, field by field *)

\* On to a tick that was missed, or idle.
Moved ==
  /\ engine' \in EngineRecord /\ engine'.behind = engine.behind /\ engine'.at \in {"none", "tick"}
  /\ engine.deferred = None \/ engine.deferred <= engine.tick =>
       ~engine'.pending /\ engine'.at = "none" /\ engine'.tick = engine.tick /\ engine'.deferred = None
  /\ ~(engine.deferred = None \/ engine.deferred <= engine.tick) =>
       /\ engine'.pending = engine.pending /\ engine'.at = "tick" /\ engine'.deferred = engine.deferred
       /\ engine'.tick > engine.tick /\ engine'.tick <= engine.deferred
       /\ engine.deferred <= engine.tick + Replay => engine'.tick = engine.tick + 1

Waits == script'.last = script.last /\ script'.cached = script.cached /\ script'.since = script.since
EndedStep ==
  /\ Busy /\ Moved /\ script'.last = engine.key /\ script'.cached = script.cached
  /\ \/ script'.status = "waiting" /\ script'.since = script.since
     \/ script'.status = "error" /\ script'.since = None
GoesStep ==
  /\ Busy /\ Goes(engine'.at) /\ engine'.at \in {"insert", "inserted", "front", "ahead", "next"}
  /\ engine'.at = "insert" <=> engine.at = "look"
OffAirStep == engine.at = "tick" /\ ~air.on /\ Moved /\ Waits
ReadStep ==
  /\ engine.at = "tick" /\ air.on
  /\ \/ /\ engine' \in EngineRecord /\ engine'.at = "known" /\ engine'.unstopped = (script.since # None)
        /\ engine'.pending = engine.pending /\ engine'.tick = engine.tick /\ engine'.deferred = engine.deferred
        /\ engine'.behind = engine.behind /\ script.status = "waiting" /\ script.cached /\ script' = script
     \/ /\ Moved /\ script'.last = script.last /\ script'.cached = script.cached /\ script'.since = None
        /\ script'.status # "waiting"
BeginStep ==
  /\ engine.at = "known" /\ Waits
  /\ \/ DueAt(engine.tick) \in {None, script.last} /\ Moved
     \/ /\ DueAt(engine.tick) \notin {None, script.last} /\ engine' \in EngineRecord /\ engine'.at = "look"
        /\ engine'.key = DueAt(engine.tick) /\ engine'.run = ops /\ engine'.pending = engine.pending
        /\ engine'.tick = engine.tick /\ engine'.deferred = engine.deferred /\ engine'.behind = engine.behind
\* The page: the worker does not notice.
Forgets == done'.script = {} /\ done'.skipped = {}
StartStep == /\ engine' = engine /\ air.on /\ "scripts" \in uses /\ ops' # ops
             /\ script'.last = None /\ script'.since = now + 1 /\ Forgets
StopStep == /\ engine' = engine /\ ops' # ops /\ script'.last = None /\ script'.since = None
            /\ ~script'.cached /\ Forgets
OffAirScript == /\ engine' = engine /\ ops' # ops /\ script'.last = None /\ script'.since = None
                /\ script'.cached = script.cached /\ Forgets
OnAirStep == /\ engine' = engine /\ ops' # ops /\ script'.last = script.last
             /\ IF "scripts" \in uses THEN script'.since = now + 1 ELSE script' = script
TickStep ==
  /\ now' = now + 1 /\ script' = script
  /\ engine' \in EngineRecord
  /\ engine.pending =>
       /\ engine'.pending /\ engine'.tick = engine.tick /\ engine'.deferred = now' /\ engine'.at = engine.at
       /\ engine'.key = engine.key /\ engine'.run = engine.run /\ engine'.unstopped = engine.unstopped
       /\ engine.behind => engine'.behind
       /\ ~engine'.behind => now' - engine.tick <= Replay
  /\ ~engine.pending =>
       \/ engine' = engine /\ "scripts" \notin uses
       \/ /\ engine'.pending /\ engine'.tick = now' /\ engine'.deferred = None /\ engine'.at = "tick"
          /\ engine'.behind = engine.behind /\ "scripts" \in uses

LEMMA EngineFields ==
  ASSUME Types
  PROVE  /\ EngineType /\ ScriptType /\ StationType /\ engine \in EngineRecord /\ script \in ScriptRecord
         /\ engine.tick \in Nat /\ engine.tick <= LastSecond /\ engine.deferred \in Nat /\ engine.key \in Nat
         /\ engine.key \in Second /\ engine.run \in Nat /\ script.last \in Nat /\ script.since \in Nat
         /\ engine.pending \in BOOLEAN /\ script.cached \in BOOLEAN
         /\ script.status \in {"stopped", "waiting", "error"}
BY Seconds, Numbers DEF Types, EngineType, ScriptType, EngineRecord, ScriptRecord

LEMMA NextTickMoves ==
  ASSUME EngineType, NEW e \in EngineRecord, e.tick = engine.tick, e.deferred = engine.deferred,
         e.pending = engine.pending, e.behind = engine.behind, engine' = NextTick(e)
  PROVE  Moved
BY NextTickFacts DEF Moved

LEMMA EndsMoves ==
  ASSUME Types, Busy, \E status \in {"error", "waiting"} : Ends(status)
  PROVE  EndedStep /\ script' \in ScriptRecord
<1>1. PICK status \in {"error", "waiting"} : Ends(status)
  OBVIOUS
<1>2. /\ engine' = NextTick(engine) /\ script' \in ScriptRecord
      /\ script'.last = engine.key /\ script'.status = status /\ script'.cached = script.cached
  BY <1>1, EndsFacts, EngineFields
<1>3. \/ script'.status = "waiting" /\ script'.since = script.since
      \/ script'.status = "error" /\ script'.since = None
  <2>1. script' = [script EXCEPT !.last = engine.key, !.status = status,
                                 !.since = IF status = "error" THEN None ELSE @]
    BY <1>1 DEF Ends
  <2>2. script \in ScriptRecord
    BY EngineFields
  <2> QED
    BY <1>1, <1>2, <2>1, <2>2 DEF ScriptRecord
<1>4. Moved
  BY <1>2, NextTickMoves, EngineFields
<1> QED
  BY <1>2, <1>3, <1>4 DEF EndedStep

LEMMA ReadMoves ==
  ASSUME Types, ReadScript
  PROVE  ReadStep /\ script' \in ScriptRecord
<1> DEFINE e == [engine EXCEPT !.wasOn = TRUE]
           active == script.status = "waiting"
<1>1. engine \in EngineRecord /\ script \in ScriptRecord /\ EngineType
  BY EngineFields
<1>2. engine.at = "tick" /\ air.on
  BY DEF ReadScript
<1>3. CASE active /\ script.cached
  <2> DEFINE b == script.since # None
  <2>1. engine' = [engine EXCEPT !.wasOn = TRUE, !.at = "known", !.unstopped = b] /\ script' = script
    BY <1>1, <1>3 DEF ReadScript, EngineRecord
  <2>2. b \in BOOLEAN /\ "known" \in Place
    BY DEF Place
  <2> HIDE DEF b
  <2>3. /\ engine' \in EngineRecord /\ engine'.at = "known" /\ engine'.unstopped = b
        /\ engine'.pending = engine.pending /\ engine'.tick = engine.tick /\ engine'.deferred = engine.deferred
        /\ engine'.behind = engine.behind
    BY <1>1, <2>1, <2>2 DEF EngineRecord
  <2> QED
    BY <1>1, <1>2, <1>3, <2>1, <2>3 DEF ReadStep, b
<1>4. CASE ~(active /\ script.cached)
  <2> DEFINE s == IF active THEN "error" ELSE "stopped"
  <2>1. engine' = NextTick(e) /\ script' = [script EXCEPT !.status = s, !.since = None]
    BY <1>4 DEF ReadScript
  <2>2. /\ e \in EngineRecord /\ e.tick = engine.tick /\ e.deferred = engine.deferred
        /\ e.pending = engine.pending /\ e.behind = engine.behind
    BY <1>1 DEF EngineRecord
  <2> HIDE DEF e
  <2>3. Moved
    BY <1>1, <2>1, <2>2, NextTickMoves
  <2>4. s \in {"stopped", "error"} /\ None \in 0..LastSecond + 1
    BY Numbers
  <2> HIDE DEF s
  <2>5. /\ script' \in ScriptRecord /\ script'.last = script.last /\ script'.cached = script.cached
        /\ script'.since = None /\ script'.status = s
    BY <1>1, <2>1, <2>4 DEF ScriptRecord
  <2> QED
    BY <1>2, <2>3, <2>4, <2>5 DEF ReadStep
<1> QED
  BY <1>3, <1>4

LEMMA TickOffAirMoves ==
  ASSUME Types, TickOffAir
  PROVE  OffAirStep /\ script' \in ScriptRecord
<1> DEFINE e == [engine EXCEPT !.wasOn = FALSE]
<1>1. engine \in EngineRecord /\ script \in ScriptRecord /\ EngineType
  BY EngineFields
<1>2. engine.at = "tick" /\ ~air.on /\ engine' = NextTick(e)
  BY DEF TickOffAir
<1>3. script' = script \/ script' = [script EXCEPT !.status = "stopped"]
  BY DEF TickOffAir
<1>4. script' \in ScriptRecord /\ Waits
  BY <1>1, <1>3 DEF ScriptRecord, Waits
<1>5. /\ e \in EngineRecord /\ e.tick = engine.tick /\ e.deferred = engine.deferred
      /\ e.pending = engine.pending /\ e.behind = engine.behind
  BY <1>1 DEF EngineRecord
<1> HIDE DEF e
<1>6. Moved
  BY <1>1, <1>2, <1>5, NextTickMoves
<1> QED
  BY <1>2, <1>4, <1>6 DEF OffAirStep

LEMMA BeginMoves ==
  ASSUME Types, Begin
  PROVE  BeginStep /\ script' \in ScriptRecord
<1> DEFINE key == DueAt(engine.tick)
<1>1. engine \in EngineRecord /\ script \in ScriptRecord /\ EngineType /\ engine.tick \in Second
  BY EngineFields DEF EngineRecord
<1>2. key \in Second /\ ops \in 0..MaxOps /\ "look" \in Place
  <2>1. DueAt(engine.tick) \in Due \cup {None}
    BY <1>1, DueAtFacts
  <2> QED
    BY <2>1, Numbers DEF Place, Types, StationType
<1>3. script' = [script EXCEPT !.status = "waiting"] /\ engine.at = "known"
  BY DEF Begin
<1>4. script' \in ScriptRecord /\ Waits
  BY <1>1, <1>3 DEF ScriptRecord, Waits
<1>5. CASE key \in {None, script.last}
  <2>1. engine' = NextTick(engine)
    BY <1>5 DEF Begin
  <2>2. Moved
    BY <1>1, <2>1, NextTickMoves
  <2> QED
    BY <1>3, <1>4, <1>5, <2>2 DEF BeginStep
<1>6. CASE key \notin {None, script.last}
  <2>1. engine' = [engine EXCEPT !.at = "look", !.key = key, !.run = ops]
    BY <1>6 DEF Begin
  <2> HIDE DEF key
  <2>2. /\ engine' \in EngineRecord /\ engine'.at = "look" /\ engine'.key = key /\ engine'.run = ops
        /\ engine'.pending = engine.pending /\ engine'.tick = engine.tick /\ engine'.deferred = engine.deferred
        /\ engine'.behind = engine.behind
    BY <1>1, <1>2, <2>1 DEF EngineRecord
  <2> QED
    BY <1>3, <1>4, <1>6, <2>2 DEF BeginStep, key
<1> QED
  BY <1>5, <1>6

LEMMA WorksOn ==
  ASSUME Types, Look \/ Insert \/ Reorder \/ Interrupt \/ Raise
  PROVE  /\ EndedStep \/ GoesStep
         /\ script' \in ScriptRecord /\ now' = now /\ air' = air
<1>1. Busy /\ now' = now /\ air' = air
  BY DEF Look, Insert, Reorder, Interrupt, Raise, Busy
<1>2. EngineType /\ script \in ScriptRecord
  BY EngineFields
<1> DEFINE a == CASE engine.at = "look" -> "insert" [] engine.at = "inserted" -> "front" [] OTHER -> "next"
<1>3. \/ \E status \in {"error", "waiting"} : Ends(status)
      \/ script' = script /\ engine.at \in {"look", "inserted", "ahead"} /\ engine' = [engine EXCEPT !.at = a]
      \/ script' = script /\ engine.at = "insert" /\ engine' = [engine EXCEPT !.at = "inserted"]
      \/ script' = script /\ engine.at \in {"inserted", "front"} /\ engine' = [engine EXCEPT !.at = "ahead"]
  BY DEF Look, Insert, Reorder, Interrupt, Raise, Skips
<1>4. CASE \E status \in {"error", "waiting"} : Ends(status)
  BY <1>1, <1>4, EndsMoves
<1>5. ASSUME NEW b \in {"insert", "inserted", "front", "ahead", "next"}, script' = script,
             engine' = [engine EXCEPT !.at = b], b = "insert" <=> engine.at = "look"
      PROVE  GoesStep
  <2>1. Goes(b)
    BY <1>2, <1>5, GoesOn DEF Place
  <2>2. engine'.at = b
    BY <2>1 DEF Goes
  <2> QED
    BY <1>1, <1>5, <2>1, <2>2 DEF GoesStep
<1>6. engine.at \in {"look", "inserted", "ahead"} =>
        a \in {"insert", "front", "next"} /\ (a = "insert" <=> engine.at = "look")
  OBVIOUS
<1> HIDE DEF a
<1> QED
  BY <1>1, <1>2, <1>3, <1>4, <1>5, <1>6

LEMMA TickMoves ==
  ASSUME Types, Clock, Tick
  PROVE  TickStep
<1>1. now' = now + 1 /\ script' = script /\ now' \in Second /\ engine \in EngineRecord /\ EngineType
  BY StationKept, EngineFields DEF Tick, Next, StationType
<1>4. "scripts" \notin uses => ~engine.pending
  BY DEF Clock
<1>2. CASE "scripts" \notin uses
  <2>1. engine' = engine
    BY <1>2 DEF Tick
  <2> QED
    BY <1>1, <1>2, <1>4, <2>1 DEF TickStep
<1>3. CASE "scripts" \in uses
  <2>1. engine' = Dispatched(now') /\ now + 1 = now'
    BY <1>1, <1>3 DEF Tick
  <2>2. /\ engine' \in EngineRecord
        /\ engine.pending =>
             /\ engine'.pending /\ engine'.tick = engine.tick /\ engine'.deferred = now'
             /\ engine'.at = engine.at /\ engine'.key = engine.key /\ engine'.run = engine.run
             /\ engine'.unstopped = engine.unstopped /\ (engine.behind => engine'.behind)
             /\ (~engine'.behind => now' - engine.tick <= Replay)
        /\ ~engine.pending =>
             /\ engine'.pending /\ engine'.tick = now' /\ engine'.deferred = None /\ engine'.at = "tick"
             /\ engine'.behind = engine.behind
    <3> DEFINE r == Dispatched(now')
    <3>1. engine' = r
      BY <2>1
    <3>2. /\ r \in EngineRecord
          /\ engine.pending =>
              /\ r.pending /\ r.tick = engine.tick /\ r.deferred = now' /\ r.at = engine.at /\ r.key = engine.key
              /\ r.run = engine.run /\ r.unstopped = engine.unstopped
              /\ engine.behind => r.behind
              /\ ~r.behind => now' - engine.tick <= Replay
          /\ ~engine.pending =>
              r.pending /\ r.tick = now' /\ r.deferred = None /\ r.at = "tick" /\ r.behind = engine.behind
      BY <1>1, DispatchedFacts
    <3> HIDE DEF r
    <3> QED
      BY <3>1, <3>2
  <2> QED
    BY <1>1, <1>3, <2>1, <2>2 DEF TickStep
<1> QED
  BY <1>2, <1>3

LEMMA PageMoves ==
  ASSUME Types
  PROVE  /\ StartScript => StartStep /\ script' \in ScriptRecord
         /\ StopScript => StopStep /\ script' \in ScriptRecord
         /\ OffAir => OffAirScript /\ script' \in ScriptRecord
         /\ OnAir => OnAirStep /\ script' \in ScriptRecord
<1>1. /\ script \in ScriptRecord /\ now + 1 \in 0..LastSecond + 1 /\ None \in Second /\ None \in 0..LastSecond + 1
  BY EngineFields, Counts, Numbers DEF Types
<1>2. Op => ops' # ops
  BY OpCounts, Counts DEF Types
<1>3. Started \in ScriptRecord /\ Started.since = now + 1 /\ Started.last = None
  BY <1>1 DEF Started, ScriptRecord
<1>4. Stopped \in ScriptRecord /\ Stopped.since = None /\ Stopped.last = None /\ ~Stopped.cached
  BY <1>1 DEF Stopped, ScriptRecord
<1>9. done' = [done EXCEPT !.script = {}, !.skipped = {}] => Forgets
  BY DEF Types, DoneType, Forgets
<1>5. StartScript => StartStep /\ script' \in ScriptRecord
  BY <1>2, <1>3, <1>9 DEF StartScript, StartStep
<1>6. StopScript => StopStep /\ script' \in ScriptRecord
  BY <1>2, <1>4, <1>9 DEF StopScript, StopStep
<1>7. OffAir => OffAirScript /\ script' \in ScriptRecord
  BY <1>1, <1>2, <1>9 DEF OffAir, OffAirScript, ScriptRecord
<1>8. ASSUME OnAir
      PROVE  OnAirStep /\ script' \in ScriptRecord
  <2>1. CASE "scripts" \notin uses
    BY <1>1, <1>2, <1>8, <2>1 DEF OnAir, OnAirStep
  <2>2. CASE "scripts" \in uses /\ script.status = "waiting"
    <3>1. script' = [script EXCEPT !.since = now + 1]
      BY <1>8, <2>2 DEF OnAir
    <3>2. script' \in ScriptRecord /\ script'.last = script.last /\ script'.since = now + 1
      BY <1>1, <3>1 DEF ScriptRecord
    <3> QED
      BY <1>2, <1>8, <2>2, <3>2 DEF OnAir, OnAirStep
  <2>3. CASE "scripts" \in uses /\ script.status # "waiting"
    <3>1. script' = [Started EXCEPT !.last = script.last]
      BY <1>8, <2>3 DEF OnAir
    <3>2. script' \in ScriptRecord /\ script'.last = script.last /\ script'.since = now + 1
      BY <1>1, <1>3, <3>1 DEF ScriptRecord
    <3> QED
      BY <1>2, <1>8, <2>3, <3>2 DEF OnAir, OnAirStep
  <2> QED
    BY <2>1, <2>2, <2>3
<1> QED
  BY <1>5, <1>6, <1>7, <1>8

EngineSame == engine' = engine /\ script' = script
EngineStep ==
  \/ TickStep /\ air' = air
  \/ now' = now /\ air' = air /\
       (OffAirStep \/ ReadStep \/ BeginStep \/ EndedStep \/ GoesStep \/ StartStep \/ StopStep)
  \/ now' = now /\ ((OffAirScript /\ air.on /\ ~air'.on) \/ (OnAirStep /\ ~air.on /\ air'.on))
  \/ now' = now /\ EngineSame /\ air'.on = air.on

LEMMA EngineSteps ==
  ASSUME Types, Clock, Next
  PROVE  EngineStep /\ script' \in ScriptRecord /\ engine' \in EngineRecord
<1>1. engine \in EngineRecord /\ script \in ScriptRecord /\ air \in [on : BOOLEAN, heard : {"user", "rule", "url"}]
  BY EngineFields DEF StationType
<1>2. CASE Tick
  <2>1. TickStep /\ air' = air /\ script' = script
    BY <1>2, TickMoves DEF Tick
  <2> QED
    BY <1>1, <2>1 DEF EngineStep, TickStep
<1>3. CASE TickOffAir \/ ReadScript \/ Begin
  <2>1. now' = now /\ air' = air
    BY <1>3 DEF TickOffAir, ReadScript, Begin
  <2>2. (OffAirStep \/ ReadStep \/ BeginStep) /\ script' \in ScriptRecord
    BY <1>3, TickOffAirMoves, ReadMoves, BeginMoves
  <2>3. engine' \in EngineRecord
    BY <2>2 DEF OffAirStep, ReadStep, BeginStep, Moved
  <2> QED
    BY <2>1, <2>2, <2>3 DEF EngineStep
<1>4. CASE Look \/ Insert \/ Reorder \/ Interrupt \/ Raise
  <2>1. (EndedStep \/ GoesStep) /\ script' \in ScriptRecord /\ now' = now /\ air' = air
    BY <1>4, WorksOn
  <2>2. engine' \in EngineRecord
    BY <2>1 DEF EndedStep, GoesStep, Moved, Goes
  <2> QED
    BY <2>1, <2>2 DEF EngineStep
<1>5. CASE StartScript \/ StopScript
  <2>1. now' = now /\ air' = air /\ engine' = engine
    BY <1>5 DEF StartScript, StopScript
  <2> QED
    BY <1>1, <1>5, <2>1, PageMoves DEF EngineStep
<1>6. CASE OffAir
  <2>1. now' = now /\ air.on /\ ~air'.on /\ engine' = engine
    BY <1>6 DEF OffAir
  <2> QED
    BY <1>1, <1>6, <2>1, PageMoves DEF EngineStep
<1>7. CASE OnAir
  <2>1. now' = now /\ ~air.on /\ air'.on /\ engine' = engine
    BY <1>7 DEF OnAir
  <2> QED
    BY <1>1, <1>7, <2>1, PageMoves DEF EngineStep
<1>8. CASE Plays \/ PlaysStream
  <2>1. now' = now /\ EngineSame
    BY <1>8 DEF Plays, PlaysStream, EngineSame, scriptVars
  <2>2. air'.on = air.on
    BY <1>1, <1>8 DEF Plays, PlaysStream
  <2> QED
    BY <1>1, <2>1, <2>2 DEF EngineStep, EngineSame
<1>9. ASSUME Next, ~Tick, ~TickOffAir, ~ReadScript, ~Begin, ~Look, ~Insert, ~Reorder, ~Interrupt, ~Raise,
             ~StartScript, ~StopScript, ~OffAir, ~OnAir, ~Plays, ~PlaysStream
      PROVE  now' = now /\ EngineSame /\ air' = air
  BY <1>9 DEF Next, Engine, Scheduler, Poll, PollOffAir, Fire, UpdateRule, ToggleRule, AutoDJ, WorkerFills, TrackFills,
     StartFill, TrackNeedsNone, Leave, Gone, Pick, Enqueue, EditRotation, StartupFill, EngineSame, scriptVars
<1> QED
  BY <1>1, <1>2, <1>3, <1>4, <1>5, <1>6, <1>7, <1>8, <1>9 DEF EngineStep, EngineSame

-----------------------------------------------------------------------------
(* Each tick is handled, and each occurrence once *)

LEMMA ClockNumbers ==
  ASSUME Types, Clock, Next
  PROVE  /\ now \in Nat /\ now' \in Nat /\ engine.tick \in Nat /\ engine'.tick \in Nat /\ engine.deferred \in Nat
         /\ engine'.deferred \in Nat /\ Replay \in Nat \ {0} /\ script.since \in Nat /\ script'.since \in Nat
         /\ script.last \in Nat /\ script'.last \in Nat /\ None = 0 /\ uses' = uses
         /\ engine.pending \in BOOLEAN /\ engine'.pending \in BOOLEAN
<1>1. script' \in ScriptRecord /\ engine' \in EngineRecord /\ StationType'
  BY EngineSteps, StationKept
<1>2. now' \in Nat /\ engine'.tick \in Nat /\ engine'.deferred \in Nat /\ script'.since \in Nat /\ script'.last \in Nat
  BY <1>1, Seconds, Numbers DEF ScriptRecord, EngineRecord, StationType
<1>3. uses' = uses
  BY DEF Next, Tick, Engine, TickOffAir, ReadScript, Begin, Look, Insert, Reorder, Interrupt, Raise, StartScript,
     StopScript, Scheduler, Poll, PollOffAir, Fire, UpdateRule, ToggleRule, AutoDJ, WorkerFills, TrackFills,
     StartFill, TrackNeedsNone, Leave, Gone, Pick, Enqueue, EditRotation, Plays, PlaysStream, OffAir, StartupFill,
     OnAir
<1> QED
  BY <1>1, <1>2, <1>3, EngineFields, Counts, Numbers DEF EngineRecord

LEMMA MovedClock ==
  ASSUME Types, Clock, Next, Moved, engine.at # "none", now' = now
  PROVE  /\ engine'.tick <= now /\ (engine'.pending <=> engine'.at # "none")
         /\ engine'.pending => engine'.tick # None /\ engine'.deferred = now
         /\ engine'.pending => engine'.behind \/ engine'.deferred <= engine'.tick + Replay
BY ClockNumbers DEF Clock, Moved

LEMMA ClockKept ==
  ASSUME Types, Clock, Next
  PROVE  Clock'
<1>1. EngineStep
  BY EngineSteps
<1>2. CASE TickStep /\ air' = air
  <2>1. CASE engine.pending
    BY <1>2, <2>1, ClockNumbers DEF TickStep, Clock
  <2>2. CASE ~engine.pending
    BY <1>2, <2>2, ClockNumbers DEF TickStep, Clock
  <2> QED
    BY <2>1, <2>2
<1>3. CASE now' = now /\ air' = air /\ Moved /\ engine.at # "none" /\ script'.cached = script.cached
           /\ script'.since \in {script.since, None}
  <2>1. /\ engine'.tick <= now /\ (engine'.pending <=> engine'.at # "none")
        /\ engine'.pending => engine'.tick # None /\ engine'.deferred = now
        /\ engine'.pending => engine'.behind \/ engine'.deferred <= engine'.tick + Replay
    BY <1>3, MovedClock
  <2>2. engine.pending /\ "scripts" \in uses
    BY <1>3 DEF Clock
  <2>3. script'.since <= now' + 1 /\ (~air'.on => script'.since = None)
    BY <1>3, ClockNumbers DEF Clock
  <2> QED
    BY <1>3, <2>1, <2>2, <2>3, ClockNumbers DEF Clock
<1>4. CASE /\ now' = now /\ air' = air /\ engine'.at # "none" /\ engine.at # "none" /\ script'.cached = script.cached
           /\ script'.since = script.since /\ engine'.pending = engine.pending /\ engine'.tick = engine.tick
           /\ engine'.deferred = engine.deferred /\ engine'.behind = engine.behind
  BY <1>4, ClockNumbers DEF Clock
<1>5. CASE now' = now /\ air' = air /\ (StartStep \/ StopStep)
  BY <1>5, ClockNumbers DEF Clock, StartStep, StopStep
<1>6. CASE now' = now /\ OffAirScript /\ air.on /\ ~air'.on
  BY <1>6, ClockNumbers DEF Clock, OffAirScript
<1>7. CASE now' = now /\ OnAirStep /\ ~air.on /\ air'.on
  BY <1>7, ClockNumbers DEF Clock, OnAirStep
<1>8. CASE now' = now /\ EngineSame /\ air'.on = air.on
  BY <1>8, ClockNumbers DEF Clock, EngineSame
<1>9. CASE now' = now /\ air' = air /\ (OffAirStep \/ ReadStep \/ BeginStep \/ EndedStep \/ GoesStep)
  BY <1>3, <1>4, <1>9 DEF OffAirStep, ReadStep, BeginStep, EndedStep, GoesStep, Goes, Busy, Waits
<1> QED
  BY <1>1, <1>2, <1>5, <1>6, <1>7, <1>8, <1>9 DEF EngineStep

LEMMA KnownKept ==
  ASSUME Types, Clock, Known, Next
  PROVE  Known'
<1>1. EngineStep
  BY EngineSteps
<1>2. CASE TickStep /\ air' = air
  <2>1. CASE engine.pending
    BY <1>2, <2>1 DEF TickStep, Known, Busy
  <2>2. CASE ~engine.pending
    BY <1>2, <2>2 DEF TickStep, Known, Busy
  <2> QED
    BY <2>1, <2>2
<1>3. CASE air' = air /\ OffAirStep
  BY <1>3 DEF OffAirStep, Moved, Known
<1>4. CASE air' = air /\ ReadStep
  BY <1>4 DEF ReadStep, Moved, Known, Busy
<1>5. CASE air' = air /\ BeginStep
  BY <1>5 DEF BeginStep, Moved, Known, Busy, Waits
<1>6. CASE air' = air /\ EndedStep
  BY <1>6 DEF EndedStep, Moved, Known, Busy
<1>7. CASE air' = air /\ GoesStep
  BY <1>7 DEF GoesStep, Goes, Known, Busy
<1>8. CASE air' = air /\ (StartStep \/ StopStep)
  BY <1>8, ClockNumbers DEF StartStep, StopStep, Known
<1>9. CASE OffAirScript /\ ~air'.on
  BY <1>9 DEF OffAirScript, Known
<1>10. CASE OnAirStep /\ ~air.on
  BY <1>10, ClockNumbers DEF OnAirStep, Known, Clock
<1>11. CASE EngineSame /\ air'.on = air.on
  BY <1>11 DEF EngineSame, Known, Busy
<1> QED
  BY <1>1, <1>2, <1>3, <1>4, <1>5, <1>6, <1>7, <1>8, <1>9, <1>10, <1>11 DEF EngineStep

LEMMA InHandKept ==
  ASSUME Types, Clock, InHand, Next
  PROVE  InHand'
<1>1. EngineStep
  BY EngineSteps
<1>2. /\ engine.tick \in Second /\ DueAt(engine.tick) \in Due \cup {None} /\ DueAt(engine.tick) <= engine.tick
      /\ \A d \in Due : d \in Nat /\ d > None
  <2>1. engine.tick \in Second
    BY EngineFields DEF EngineRecord
  <2> QED
    BY <2>1, DueAtFacts, DueSeconds, Numbers
<1>3. engine'.tick >= engine.tick
  <2>1. TickStep => engine'.tick >= engine.tick
    BY ClockNumbers DEF TickStep, Clock
  <2>2. Moved => engine'.tick >= engine.tick
    BY ClockNumbers DEF Moved
  <2>3. \/ TickStep \/ Moved \/ engine'.tick = engine.tick
    BY <1>1 DEF EngineStep, OffAirStep, ReadStep, BeginStep, EndedStep, GoesStep, Goes, StartStep, StopStep,
       OffAirScript, OnAirStep, EngineSame
  <2> QED
    BY <2>1, <2>2, <2>3, ClockNumbers
<1>4. script'.last \in Due \cup {None} /\ script'.last <= engine'.tick
  <2>1. CASE script'.last \in {script.last, None}
    BY <1>3, <2>1, ClockNumbers DEF InHand
  <2>2. CASE EndedStep
    <3>1. script'.last = DueAt(engine.tick)
      BY <2>2 DEF EndedStep, InHand
    <3> QED
      BY <1>2, <1>3, <3>1, ClockNumbers
  <2> QED
    BY <1>1, <2>1, <2>2 DEF EngineStep, TickStep, OffAirStep, ReadStep, BeginStep, GoesStep, Goes, StartStep, StopStep,
       OffAirScript, OnAirStep, EngineSame, Waits
<1>5. CASE BeginStep
  <2>1. engine'.at = "look" => engine'.key = DueAt(engine'.tick) /\ engine'.key # None /\ engine'.key > script'.last
    <3>1. CASE DueAt(engine.tick) \notin {None, script.last}
      <4>1. DueAt(engine.tick) > script.last
        BY <1>2, <3>1, LaterOccurrence DEF InHand
      <4> QED
        BY <1>5, <3>1, <4>1 DEF BeginStep, Moved, Waits
    <3>2. CASE DueAt(engine.tick) \in {None, script.last}
      BY <1>5, <3>2 DEF BeginStep, Moved
    <3> QED
      BY <3>1, <3>2
  <2>2. Busy' => engine'.at = "look"
    BY <1>5 DEF BeginStep, Moved, Busy
  <2> QED
    BY <1>4, <2>1, <2>2 DEF InHand
<1>6. CASE ~Busy'
  BY <1>4, <1>6 DEF InHand
<1>7. CASE Busy /\ engine'.key = engine.key /\ engine'.tick = engine.tick /\ script'.last \in {script.last, None}
  BY <1>2, <1>4, <1>7 DEF InHand
<1>8. BeginStep \/ ~Busy' \/
      (Busy /\ engine'.key = engine.key /\ engine'.tick = engine.tick /\ script'.last \in {script.last, None})
  BY <1>1 DEF EngineStep, TickStep, OffAirStep, ReadStep, EndedStep, GoesStep, Goes, StartStep, StopStep,
       OffAirScript, OnAirStep, EngineSame, Waits, Moved, Busy
<1> QED
  BY <1>5, <1>6, <1>7, <1>8

\* Whoever handled all seconds up to its tick goes on without missing one.
LEMMA MovesOnCaughtUp ==
  ASSUME Types, Clock, Next, Moved, engine.at # "none", now' = now,
         script'.since # None => \A d \in Due : script'.since <= d /\ d <= engine.tick => script'.last >= d
  PROVE  CaughtUp'
<1> SUFFICES ASSUME script'.since # None, ~engine'.behind
             PROVE  IF engine'.pending
                    THEN \A d \in Due : script'.since <= d /\ d < engine'.tick => script'.last >= d
                    ELSE \A d \in Due : script'.since <= d /\ d <= now' => script'.last >= d
  BY DEF CaughtUp, Caught
<1>1. /\ engine.pending /\ (engine.deferred = now \/ (engine.deferred = None /\ engine.tick = now))
      /\ engine.tick <= now
  BY DEF Clock
<1>2. ~engine.behind /\ engine.deferred <= engine.tick + Replay
  BY <1>1 DEF Moved, Clock
<1>3. CASE engine.deferred = None \/ engine.deferred <= engine.tick
  <2>1. ~engine'.pending /\ engine.tick = now'
    BY <1>1, <1>3, ClockNumbers DEF Moved
  <2> QED
    BY <2>1
<1>4. CASE ~(engine.deferred = None \/ engine.deferred <= engine.tick)
  <2>1. engine'.pending /\ engine'.tick = engine.tick + 1
    BY <1>1, <1>2, <1>4 DEF Moved
  <2>2. \A d \in Due : d < engine'.tick => d <= engine.tick
    BY <2>1, DueSeconds, ClockNumbers
  <2> QED
    BY <2>1, <2>2
<1> QED
  BY <1>3, <1>4

LEMMA CaughtUpKept ==
  ASSUME Types, Clock, Known, InHand, CaughtUp, Next
  PROVE  CaughtUp'
<1>1. EngineStep
  BY EngineSteps
<1>2. /\ engine.tick \in Second /\ \A d \in Due : d \in Nat /\ d > None
      /\ engine.tick \in Due => DueAt(engine.tick) = engine.tick
  <2>1. engine.tick \in Second
    BY EngineFields DEF EngineRecord
  <2> QED
    BY <2>1, DueAtFacts, DueSeconds, Numbers
<1>3. CASE TickStep
  <2>1. CASE engine.pending
    BY <1>3, <2>1 DEF TickStep, CaughtUp
  <2>2. CASE ~engine.pending
    <3>1. CASE engine' = engine /\ "scripts" \notin uses
      BY <1>3, <3>1 DEF TickStep, CaughtUp, Clock
    <3>2. CASE engine'.pending /\ engine'.tick = now' /\ engine'.behind = engine.behind
      <4>1. \A d \in Due : d < engine'.tick => d <= now
        BY <1>2, <1>3, <3>2, ClockNumbers DEF TickStep
      <4> QED
        BY <1>3, <2>2, <3>2, <4>1 DEF TickStep, CaughtUp, Caught
    <3> QED
      BY <1>3, <2>2, <3>1, <3>2 DEF TickStep
  <2> QED
    BY <2>1, <2>2
<1>4. CASE script'.since = None
  BY <1>4 DEF CaughtUp
<1>5. CASE EndedStep /\ now' = now
  <2>1. engine.at # "none" /\ engine.pending /\ script'.last = DueAt(engine.tick) /\ script'.last > script.last
    BY <1>5 DEF EndedStep, Busy, InHand, Clock
  <2>2. ~engine'.behind => ~engine.behind
    BY <1>5 DEF EndedStep, Moved
  <2>3. CASE script'.since # None /\ ~engine.behind
    <3>1. script'.since = script.since
      BY <1>5, <2>3 DEF EndedStep
    <3>2. \A d \in Due : script.since <= d /\ d < engine.tick => script.last >= d
      BY <2>1, <2>3, <3>1 DEF CaughtUp
    <3>3. ASSUME NEW d \in Due, script'.since <= d, d <= engine.tick
          PROVE  script'.last >= d
      <4>1. CASE d < engine.tick
        BY <1>2, <2>1, <3>1, <3>2, <3>3, <4>1, ClockNumbers
      <4>2. CASE d = engine.tick
        BY <1>2, <2>1, <4>2, ClockNumbers
      <4> QED
        BY <1>2, <3>3, <4>1, <4>2, ClockNumbers
    <3> QED
      BY <1>5, <2>1, <3>3, MovesOnCaughtUp DEF EndedStep
  <2>4. CASE script'.since = None \/ engine'.behind
    BY <2>4 DEF CaughtUp
  <2> QED
    BY <2>2, <2>3, <2>4
<1>6. CASE BeginStep /\ now' = now
  <2>1. engine.pending /\ engine.at # "none" /\ script'.since = script.since /\ script'.last = script.last
    BY <1>6 DEF BeginStep, Clock, Waits
  <2>2. CASE DueAt(engine.tick) \in {None, script.last} /\ Moved
    <3>1. ~engine'.behind => ~engine.behind
      BY <2>2 DEF Moved
    <3>2. CASE script.since # None /\ ~engine.behind
      <4>1. ASSUME NEW d \in Due, script'.since <= d, d <= engine.tick
            PROVE  script'.last >= d
        <5>1. CASE d < engine.tick
          BY <2>1, <3>2, <4>1, <5>1 DEF CaughtUp
        <5>2. CASE d = engine.tick
          BY <1>2, <2>1, <2>2, <5>2, ClockNumbers
        <5> QED
          BY <1>2, <4>1, <5>1, <5>2, ClockNumbers
      <4> QED
        BY <1>6, <2>1, <2>2, <4>1, MovesOnCaughtUp
    <3>3. CASE script'.since = None \/ engine'.behind
      BY <3>3 DEF CaughtUp
    <3> QED
      BY <2>1, <3>1, <3>2, <3>3
  <2>3. CASE engine'.pending = engine.pending /\ engine'.tick = engine.tick /\ engine'.behind = engine.behind
    BY <2>1, <2>3 DEF CaughtUp
  <2> QED
    BY <1>6, <2>2, <2>3 DEF BeginStep
<1>7. CASE script'.since = now + 1 /\ engine' = engine /\ now' = now
  <2>1. engine.tick <= now
    BY DEF Clock
  <2>2. \A d \in Due : ~(now + 1 <= d /\ d <= now) /\ ~(now + 1 <= d /\ d < engine.tick)
    BY <1>2, <2>1, ClockNumbers
  <2> QED
    BY <1>7, <2>2 DEF CaughtUp, Caught
<1>8. CASE /\ now' = now /\ engine'.pending = engine.pending /\ engine'.tick = engine.tick
           /\ engine'.behind = engine.behind /\ script'.since = script.since /\ script'.last = script.last
  BY <1>8 DEF CaughtUp, Caught
<1>9. OffAirStep => script'.since = None
  BY DEF OffAirStep, Clock, Waits
<1> QED
  BY <1>1, <1>3, <1>4, <1>5, <1>6, <1>7, <1>8, <1>9 DEF EngineStep, ReadStep, GoesStep, Goes, StartStep, StopStep,
     OffAirScript, OnAirStep, EngineSame

\* What is kept of an occurrence when it inserts, is skipped, or is forgotten.
ScriptRecorded ==
  \/ done'.script = done.script \/ (Forgets /\ script'.last = None)
  \/ done'.script = done.script \cup {engine.key} /\ GoesStep /\ engine.at = "insert" /\ engine'.at = "inserted"
SkipRecorded ==
  \/ done'.skipped = done.skipped \/ done'.skipped = {}
  \/ /\ done'.skipped = done.skipped \cup {Created} /\ queue' = Without(Created) /\ EndedStep

LEMMA DoneSteps ==
  ASSUME Types, Next
  PROVE  ScriptRecorded /\ SkipRecorded
<1>1. done \in [script : SUBSET Due, skipped : SUBSET QueueRow, rule : SUBSET Due] /\ engine \in EngineRecord
  BY EngineFields DEF Types, DoneType
<1>2. ASSUME Busy, Skips
      PROVE  ScriptRecorded /\ SkipRecorded
  <2>1. EndedStep /\ queue' = Without(Created) /\ done' = [done EXCEPT !.skipped = @ \cup {Created}]
    BY <1>2, EndsMoves DEF Skips
  <2> QED
    BY <1>1, <2>1 DEF ScriptRecorded, SkipRecorded
<1>3. ASSUME done' = done
      PROVE  ScriptRecorded /\ SkipRecorded
  BY <1>3 DEF ScriptRecorded, SkipRecorded
<1>4. CASE Look \/ Interrupt
  BY <1>2, <1>3, <1>4 DEF Look, Interrupt, Busy
<1>5. CASE Insert
  <2>1. CASE engine' = [engine EXCEPT !.at = "inserted"] /\ done' = [done EXCEPT !.script = @ \cup {engine.key}]
             /\ script' = script
    <3>1. Goes("inserted")
      BY <2>1, EngineFields, GoesOn DEF Place
    <3>2. GoesStep /\ engine.at = "insert" /\ engine'.at = "inserted"
      BY <1>5, <3>1 DEF Insert, Goes, GoesStep, Busy
    <3> QED
      BY <1>1, <2>1, <3>2 DEF ScriptRecorded, SkipRecorded
  <2> QED
    BY <1>3, <1>5, <2>1 DEF Insert
<1>6. CASE StartScript \/ StopScript \/ OffAir
  BY <1>6, PageMoves DEF StartStep, StopStep, OffAirScript, ScriptRecorded, SkipRecorded, Forgets
<1>7. CASE UpdateRule
  <2>1. done' = done \/ done' = [done EXCEPT !.rule = @ \cup {sched.key}]
    BY <1>7 DEF UpdateRule
  <2> QED
    BY <1>1, <2>1 DEF ScriptRecorded, SkipRecorded
<1>8. ASSUME Next, ~Look, ~Interrupt, ~Insert, ~StartScript, ~StopScript, ~OffAir, ~UpdateRule
      PROVE  done' = done
  BY <1>8 DEF Next, Tick, Engine, TickOffAir, ReadScript, Begin, Reorder, Raise, Scheduler, Poll, PollOffAir, Fire,
     ToggleRule, AutoDJ, WorkerFills, TrackFills, StartFill, TrackNeedsNone, Leave, Gone, Pick, Enqueue, EditRotation,
     Plays, PlaysStream, StartupFill, OnAir
<1> QED
  BY <1>3, <1>4, <1>5, <1>6, <1>7, <1>8

LEMMA DoneTypeKept ==
  ASSUME Types, Clock, InHand, RuleOnce, Next
  PROVE  DoneType'
<1>1. DoneType /\ Created \in QueueRow
  BY RowsMade DEF Types
<1>2. Busy => engine.key \in Due
  <2>1. engine.tick \in Second
    BY EngineFields DEF EngineRecord
  <2> QED
    BY <2>1, DueAtFacts DEF InHand
<1>3. sched.at # "none" => sched.key \in Due
  BY DEF RuleOnce
<1>4. done'.script \subseteq Due
  BY <1>1, <1>2, DoneSteps DEF ScriptRecorded, Forgets, GoesStep, DoneType
<1>5. done'.skipped \subseteq QueueRow
  BY <1>1, DoneSteps DEF SkipRecorded, DoneType
<1>6. done'.rule \subseteq Due
  BY <1>1, <1>3, RecordSteps DEF DoneType
<1>7. \/ done' = done \/ done' = [done EXCEPT !.skipped = @ \cup {Created}]
      \/ done' = [done EXCEPT !.script = @ \cup {engine.key}] \/ done' = [done EXCEPT !.script = {}, !.skipped = {}]
      \/ done' = [done EXCEPT !.rule = @ \cup {sched.key}]
  BY DEF Next, Tick, Engine, TickOffAir, ReadScript, Begin, Reorder, Raise, Scheduler, Poll, PollOffAir, Fire,
     ToggleRule, AutoDJ, WorkerFills, TrackFills, StartFill, TrackNeedsNone, Leave, Gone, Pick, Enqueue, EditRotation,
     Plays, PlaysStream, StartupFill, OnAir, Look, Insert, Interrupt, Skips, StartScript, StopScript, OffAir, UpdateRule
<1>8. done' = [script |-> done'.script, skipped |-> done'.skipped, rule |-> done'.rule]
  BY <1>1, <1>7 DEF DoneType
<1> QED
  BY <1>4, <1>5, <1>6, <1>8 DEF DoneType

LEMMA DoneOnceKept ==
  ASSUME Types, Clock, InHand, DoneOnce, Next
  PROVE  DoneOnce'
<1>1. EngineStep /\ ScriptRecorded /\ (Busy => engine.key > script.last)
  BY EngineSteps, DoneSteps DEF InHand
<1>2. \A k \in done.script : k \in Nat
  BY DueSeconds DEF Types, DoneType
<1>3. ASSUME NEW k \in done.script, ~Forgets
      PROVE  k <= script'.last \/ (engine'.at \in {"inserted", "front", "ahead", "next"} /\ k = engine'.key)
  <2>1. k <= script.last \/ (engine.at \in {"inserted", "front", "ahead", "next"} /\ k = engine.key)
    BY DEF DoneOnce
  <2>2. CASE EndedStep
    <3>1. script'.last = engine.key /\ engine.key > script.last /\ engine.key \in Nat
      BY <1>1, <2>2, EngineFields DEF EndedStep
    <3> QED
      BY <1>2, <2>1, <3>1, ClockNumbers
  <2>3. CASE GoesStep
    BY <2>1, <2>3 DEF GoesStep, Goes, Busy
  <2>4. CASE TickStep
    <3>1. engine.at # "none" => engine.pending
      BY DEF Clock
    <3> QED
      BY <2>1, <2>4, <3>1 DEF TickStep
  <2>5. CASE script'.last = script.last /\ engine' = engine
    BY <2>1, <2>5
  <2>6. CASE script'.last = script.last /\ engine.at \in {"tick", "known"}
    BY <2>1, <2>6
  <2> QED
    BY <1>1, <1>3, <2>2, <2>3, <2>4, <2>5, <2>6 DEF EngineStep, OffAirStep, ReadStep, BeginStep, StartStep, StopStep,
       OffAirScript, OnAirStep, EngineSame, Waits
<1>4. CASE Forgets
  BY <1>4 DEF Forgets, DoneOnce
<1>5. CASE ~Forgets /\ done'.script = done.script
  BY <1>3, <1>5 DEF DoneOnce
<1>6. CASE /\ ~Forgets /\ done'.script = done.script \cup {engine.key} /\ GoesStep /\ engine.at = "insert"
           /\ engine'.at = "inserted"
  BY <1>3, <1>6 DEF DoneOnce, GoesStep, Goes
<1> QED
  BY <1>1, <1>4, <1>5, <1>6 DEF ScriptRecorded

-----------------------------------------------------------------------------
(* The rows of each occurrence *)

LEMMA OnceMore ==
  ASSUME NEW s \in Seq(QueueRow), NEW t \in Seq(QueueRow), Once(s), \A i \in 1..Len(t) : t[i].by = "autodj"
  PROVE  /\ Once(s \o t)
         /\ \A x \in ToSet(s \o t) : x \in ToSet(s) \/ x.by = "autodj"
<1> DEFINE q == s \o t
<1>1. /\ q \in Seq(QueueRow) /\ Len(s) \in Nat /\ Len(t) \in Nat /\ Len(q) = Len(s) + Len(t)
      /\ \A i \in 1..Len(s) : q[i] = s[i]
      /\ \A i \in (Len(s) + 1)..(Len(s) + Len(t)) : q[i] = t[i - Len(s)]
  OBVIOUS
<1> HIDE DEF q
<1>2. \A i \in 1..Len(q) : (i \in 1..Len(s) /\ q[i] = s[i]) \/ q[i].by = "autodj"
  <2>1. \A i \in 1..Len(q) : i \in 1..Len(s) \/ (i \in (Len(s) + 1)..(Len(s) + Len(t)) /\ i - Len(s) \in 1..Len(t))
    BY <1>1
  <2> QED
    BY <1>1, <2>1
<1>3. Once(q)
  BY <1>2 DEF Once, OfScript
<1>4. \A x \in ToSet(q) : x \in ToSet(s) \/ x.by = "autodj"
  <2>3. DOMAIN q = 1..Len(q)
    BY <1>1
  <2>1. ToSet(q) = {q[i] : i \in 1..Len(q)}
    BY <2>3, Zenon DEF ToSet
  <2>2. \A i \in 1..Len(s) : s[i] \in ToSet(s)
    BY DEF ToSet
  <2> QED
    BY <1>2, <2>1, <2>2
<1> QED
  BY <1>3, <1>4 DEF q

\* A step adds rows that are not a script's, or the occurrence's own; or removes.
RowsStep ==
  /\ Once(queue')
  /\ \/ \A x \in ToSet(queue') : x \in ToSet(queue) \/ ~OfScript(x)
     \/ ToSet(queue') = ToSet(queue) \cup {Created} /\ GoesStep /\ engine.at = "insert" /\ engine'.at = "inserted"
        /\ done' = [done EXCEPT !.script = @ \cup {engine.key}]

LEMMA RowsSteps ==
  ASSUME Types, RowOnce, Clock, Runs, Next
  PROVE  RowsStep /\ (queue' = Without(Created) => Created \notin ToSet(queue'))
<1>1. queue \in Seq(QueueRow) /\ Once(queue)
  BY DEF Types, QueueType, RowOnce
<1>2. /\ Created \in QueueRow /\ OfScript(Created)
      /\ Row("rule", sched.key, 0) \in QueueRow /\ ~OfScript(Row("rule", sched.key, 0))
      /\ Created.by # "autodj"
  BY RowsMade
<1>4. CASE queue' = Without(Created)
  <2>1. Once(Without(Created)) /\ ToSet(Without(Created)) = ToSet(queue) \ {Created}
    BY <1>1, <1>2, OnceRemove DEF Without
  <2> QED
    BY <1>4, <2>1 DEF RowsStep
<1>3. CASE queue' = queue
  BY <1>1, <1>3, <1>4 DEF RowsStep
<1>5. CASE queue' = Append(queue, Created) /\ Insert /\ engine'.at = "inserted"
  <2>1. engine.at = "insert" /\ Created \notin ToSet(queue)
    BY <1>2, <1>5 DEF Insert, Runs, Made, Busy, Inserted
  <2>2. ~(\E status \in {"error", "waiting"} : Ends(status))
    <3>1. (\E status \in {"error", "waiting"} : Ends(status)) => engine'.at \in {"none", "tick"}
      BY <2>1, EndsMoves DEF EndedStep, Moved, Busy
    <3> QED
      BY <1>5, <3>1
  <2>3. /\ done' = [done EXCEPT !.script = @ \cup {engine.key}] /\ script' = script
        /\ engine' = [engine EXCEPT !.at = "inserted"]
    BY <1>5, <2>2, Zenon DEF Insert
  <2>4. Goes("inserted")
    BY <2>3, EngineFields, GoesOn DEF Place
  <2>5. GoesStep
    BY <2>1, <2>4 DEF Goes, GoesStep, Busy
  <2>6. Once(queue') /\ ToSet(queue') = ToSet(queue) \cup {Created}
    BY <1>1, <1>2, <1>5, <2>1, OnceAppend
  <2> QED
    BY <1>5, <2>1, <2>3, <2>5, <2>6, <1>4 DEF RowsStep
<1>6. CASE queue' = ToFront(Created)
  <2>1. Once(queue') /\ ToSet(queue') = ToSet(queue)
    BY <1>1, <1>2, <1>6, FrontFacts
  <2> QED
    BY <1>4, <2>1 DEF RowsStep
<1>7. CASE queue' \in {Append(queue, Row("rule", sched.key, 0)), <<Row("rule", sched.key, 0)>> \o queue}
  <2> DEFINE r == Row("rule", sched.key, 0)
  <2>1. r \in QueueRow /\ ~OfScript(r)
    BY <1>2
  <2> HIDE DEF r
  <2>2. /\ Once(Append(queue, r)) /\ ToSet(Append(queue, r)) = ToSet(queue) \cup {r}
        /\ Once(<<r>> \o queue) /\ ToSet(<<r>> \o queue) = ToSet(queue) \cup {r}
    BY <1>1, <2>1, OnceAppend, OnceCons
  <2>3. Once(queue') /\ ToSet(queue') = ToSet(queue) \cup {r}
    BY <1>7, <2>2 DEF r
  <2> QED
    BY <1>4, <2>1, <2>3 DEF RowsStep
<1>8. ASSUME NEW f \in Filler, queue' = queue \o [i \in 1..dj.fill[f].need |-> Row("autodj", Slot(f, i), 0)]
      PROVE  RowsStep
  <2> DEFINE new == [i \in 1..dj.fill[f].need |-> Row("autodj", Slot(f, i), 0)]
  <2>1. new \in Seq(QueueRow) /\ \A i \in 1..Len(new) : new[i].by = "autodj"
    BY SlotRows DEF Types
  <2>2. queue' = queue \o new
    BY <1>8
  <2> HIDE DEF new
  <2> QED
    BY <1>1, <2>1, <2>2, OnceMore DEF RowsStep, OfScript
<1>9. CASE queue # <<>> /\ queue' = Tail(queue)
  BY <1>1, <1>4, <1>9, OnceTail DEF RowsStep
<1> QED
  BY <1>3, <1>4, <1>5, <1>6, <1>7, <1>8, <1>9, QueueSteps DEF QueueStep

LEMMA SkippedGoneKept ==
  ASSUME Types, Clock, RowOnce, Runs, SkippedGone, Next
  PROVE  RowOnce' /\ SkippedGone'
<1>1. RowsStep /\ (queue' = Without(Created) => Created \notin ToSet(queue')) /\ SkipRecorded
  BY RowsSteps, DoneSteps
<1>2. queue \in Seq(QueueRow) /\ queue' \in Seq(QueueRow)
  BY QueueKept DEF Types, QueueType
<1>3. \A x \in ToSet(queue) : x \notin done.skipped
  BY <1>2 DEF SkippedGone, ToSet
<1>4. \A x \in done.skipped : OfScript(x)
  BY DEF Runs
<1>5. CASE \A x \in ToSet(queue') : x \in ToSet(queue) \/ ~OfScript(x)
  <2>1. \A x \in ToSet(queue') : x \notin done.skipped
    BY <1>3, <1>4, <1>5
  <2>2. \A x \in ToSet(queue') : x \notin done'.skipped
    BY <1>1, <2>1 DEF SkipRecorded
  <2>3. \A i \in 1..Len(queue') : queue'[i] \in ToSet(queue')
    BY <1>2 DEF ToSet
  <2> QED
    BY <1>1, <2>2, <2>3 DEF RowsStep, RowOnce, SkippedGone
<1>6. CASE /\ ToSet(queue') = ToSet(queue) \cup {Created} /\ GoesStep /\ engine.at = "insert"
           /\ engine'.at = "inserted" /\ done' = [done EXCEPT !.script = @ \cup {engine.key}]
  <2>1. done'.skipped = done.skipped
    BY <1>6 DEF Types, DoneType
  <2>2. Created \notin done.skipped
    BY <1>6, RowsMade DEF Runs, Made, Busy, Inserted
  <2>3. \A i \in 1..Len(queue') : queue'[i] \in ToSet(queue')
    BY <1>2 DEF ToSet
  <2> QED
    BY <1>1, <1>3, <1>6, <2>1, <2>2, <2>3 DEF RowsStep, RowOnce, SkippedGone
<1> QED
  BY <1>1, <1>5, <1>6 DEF RowsStep

\* A row that is made is the occurrence's own, or was made before.
LEMMA MadeSteps ==
  ASSUME Types, Clock, RowOnce, Runs, Next
  PROVE  /\ \A x \in Made' : x \in Made \/ (x = Created /\ (EndedStep \/ (GoesStep /\ engine.at = "insert")))
         /\ \A x \in done'.skipped : OfScript(x)
         /\ GoesStep => done'.skipped \in {done.skipped, {}}
<1>1. RowsStep /\ SkipRecorded /\ OfScript(Created)
  BY RowsSteps, DoneSteps, RowsMade
<1>2. ~(GoesStep /\ EndedStep)
  BY DEF GoesStep, EndedStep, Moved
<1>3. \A x \in done'.skipped : x \in done.skipped \/ (x = Created /\ EndedStep)
  BY <1>1 DEF SkipRecorded
<1>4. \A x \in ToSet(queue') : x \in ToSet(queue) \/ ~OfScript(x) \/ (x = Created /\ GoesStep /\ engine.at = "insert")
  BY <1>1 DEF RowsStep
<1> QED
  BY <1>1, <1>2, <1>3, <1>4 DEF Made, SkipRecorded, Runs

LEMMA RunsKept ==
  ASSUME Types, Clock, InHand, RowOnce, Runs, Next
  PROVE  Runs'
<1>1. EngineStep /\ ops \in Nat /\ ops' \in Nat /\ ops' >= ops /\ engine.run \in Nat
  BY EngineSteps, OpsGrow, Counts, EngineFields
<1>2. /\ \A x \in Made' : x \in Made \/ (x = Created /\ (EndedStep \/ (GoesStep /\ engine.at = "insert")))
      /\ \A x \in done'.skipped : OfScript(x)
      /\ GoesStep => done'.skipped \in {done.skipped, {}}
  BY MadeSteps
<1>3. Created.key = engine.key /\ Created.run = engine.run
  BY DEF Created, Row
<1>4. \A x \in Made : x.run \in Nat /\ x.key \in Nat /\ x.run <= ops
  <2>1. \A x \in Made : x \in QueueRow
    BY DEF Made, Types, QueueType, DoneType, ToSet
  <2> QED
    BY <2>1, Numbers DEF QueueRow, Runs
<1>5. CASE EndedStep
  <2>1. ~Busy' /\ ~Inserted' /\ script'.last = engine.key /\ engine.key > script.last /\ engine.run <= ops
    BY <1>5 DEF EndedStep, Moved, Busy, Inserted, InHand, Runs
  <2>2. \A x \in Made : x.run = ops => x.key <= script'.last
    BY <1>3, <1>4, <2>1, ClockNumbers DEF Runs
  <2>3. engine.key \in Nat
    BY EngineFields
  <2>4. ASSUME NEW x \in Made'
        PROVE  x.run <= ops' /\ (x.run = ops' => x.key <= script'.last)
    <3>1. CASE x \in Made
      BY <1>1, <1>4, <2>2, <3>1
    <3>2. CASE x = Created
      BY <1>1, <1>3, <2>1, <2>3, <3>2
    <3> QED
      BY <1>2, <3>1, <3>2
  <2> QED
    BY <1>2, <2>1, <2>4 DEF Runs
<1>6. CASE GoesStep
  <2>1. /\ Busy /\ Created' = Created /\ engine.run <= ops /\ script' = script /\ engine'.run = engine.run
        /\ Inserted => Inserted'
    BY <1>6 DEF GoesStep, Goes, Created, Busy, Inserted, Runs
  <2>2. ASSUME NEW x \in Made'
        PROVE  x.run <= ops' /\ (x.run = ops' => x.key <= script'.last \/ (Inserted' /\ x = Created'))
    <3>1. CASE x \in Made
      BY <1>1, <1>4, <2>1, <3>1 DEF Runs
    <3>2. CASE x = Created /\ engine.at = "insert"
      <4>1. Inserted'
        BY <1>6, <3>2 DEF GoesStep, Inserted
      <4> QED
        BY <1>1, <1>3, <2>1, <3>2, <4>1
    <3> QED
      BY <1>2, <1>6, <3>1, <3>2 DEF GoesStep, EndedStep, Moved
  <2>3. ~Inserted' => engine.at = "look"
    BY <1>6 DEF GoesStep, Inserted
  <2>4. ~Inserted' => Created \notin Made'
    BY <1>2, <1>6, <2>1, <2>3 DEF Runs, Inserted, GoesStep, EndedStep, Moved
  <2>5. Inserted' => Created \notin done'.skipped
    <3>1. Created \notin done.skipped
      BY <1>6, <2>1, <2>3, RowsMade DEF Runs, Made
    <3> QED
      BY <1>2, <1>6, <3>1
  <2> QED
    BY <1>1, <1>2, <2>1, <2>2, <2>4, <2>5 DEF Runs
<1>7. CASE ~EndedStep /\ ~GoesStep
  <2>1. Made' \subseteq Made
    BY <1>2, <1>7
  <2>2. done'.skipped \subseteq done.skipped
    BY <1>7, DoneSteps DEF SkipRecorded
  <2>3. CASE /\ engine'.at = engine.at /\ engine'.key = engine.key /\ engine'.run = engine.run
             /\ script'.last = script.last \/ ops' # ops
    <3>1. Created' = Created /\ (Busy' <=> Busy) /\ (Inserted' <=> Inserted)
      BY <2>3 DEF Created, Busy, Inserted
    <3>2. ASSUME NEW x \in Made'
          PROVE  /\ x.run <= ops'
                 /\ x.run = ops' => x.key <= script'.last \/ (Inserted' /\ x = Created')
                 /\ Busy' /\ ~Inserted' => x # Created'
      BY <1>1, <1>4, <2>1, <2>3, <3>1 DEF Runs
    <3> QED
      BY <1>1, <1>2, <2>2, <2>3, <3>1, <3>2 DEF Runs
  <2>4. CASE ~Inserted /\ ~Busy' /\ ~Inserted' /\ script'.last = script.last
    BY <1>1, <1>2, <1>4, <2>1, <2>4 DEF Runs
  <2>5. CASE /\ BeginStep /\ engine'.at = "look" /\ engine'.key = DueAt(engine.tick) /\ engine'.run = ops
             /\ DueAt(engine.tick) \notin {None, script.last} /\ now' = now /\ air' = air
    <3>1. ~Inserted /\ ~Inserted' /\ script'.last = script.last
      BY <2>5 DEF BeginStep, Inserted, Waits
    <3>2. DueAt(engine.tick) > script.last /\ DueAt(engine.tick) \in Nat
      <4>1. engine.tick \in Second
        BY EngineFields DEF EngineRecord
      <4> QED
        BY <2>5, <4>1, LaterOccurrence, DueSeconds DEF InHand
    <3>3. Created'.key = DueAt(engine.tick) /\ Created'.run = ops
      BY <2>5 DEF Created, Row
    <3>4. ASSUME NEW x \in Made'
          PROVE  /\ x.run <= ops'
                 /\ x.run = ops' => x.key <= script'.last
                 /\ x # Created'
      BY <1>1, <1>4, <2>1, <3>1, <3>2, <3>3, ClockNumbers DEF Runs
    <3> QED
      BY <1>1, <1>2, <2>5, <3>1, <3>4 DEF Runs
  <2>6. TickStep => \/ /\ engine'.at = engine.at /\ engine'.key = engine.key /\ engine'.run = engine.run
                       /\ script'.last = script.last
                    \/ ~Inserted /\ ~Busy' /\ ~Inserted' /\ script'.last = script.last
    BY DEF TickStep, Clock, Inserted, Busy
  <2> QED
    BY <1>1, <1>7, <2>3, <2>4, <2>5, <2>6 DEF EngineStep, OffAirStep, ReadStep, BeginStep, StartStep, StopStep,
       OffAirScript, OnAirStep, EngineSame, Waits, Moved, Busy, Inserted
<1> QED
  BY <1>5, <1>6, <1>7

-----------------------------------------------------------------------------
(* The inductive invariant *)

LEMMA InvInit == Init => Inv
<1> SUFFICES ASSUME Init
             PROVE  Inv
  OBVIOUS
<1>1. /\ uses \in Uses /\ now = 0 /\ queue = <<>> /\ ops = 0 /\ air = [on |-> TRUE, heard |-> "user"]
      /\ script = [status |-> "stopped", cached |-> FALSE, last |-> None, since |-> None]
      /\ engine = [pending |-> FALSE, tick |-> None, deferred |-> None, at |-> "none", key |-> None,
                   run |-> 0, wasOn |-> TRUE, unstopped |-> FALSE, behind |-> FALSE]
      /\ rule = [on |-> FALSE, next |-> None] /\ sched = [at |-> "none", key |-> None, wasOn |-> TRUE]
      /\ done = [script |-> {}, skipped |-> {}, rule |-> {}]
  BY DEF Init
<1>2. None = 0 /\ 0 \in Second /\ 0 \in 0..LastSecond + 1 /\ 0 \in 0..MaxOps /\ 0 \in 0..Keep /\ 0 \in 0..Slots - 1
  BY Numbers
<1>3. /\ dj.cursor = 0 /\ dj.stored = 0 /\ dj.rotation = 0 /\ dj.lock = "free" /\ dj.turn = 0 /\ dj \in DjRecord
      /\ \A f \in Filler : dj.fill[f] = NotFilling
  <2> DEFINE w == IF "autodj" \in uses THEN "running" ELSE "none"
             g == [f \in Filler |-> NotFilling]
  <2>1. dj = [cursor |-> 0, stored |-> 0, rotation |-> 0, lock |-> "free", fill |-> g, worker |-> w, turn |-> 0]
    BY DEF Init
  <2>2. w \in {"none", "running", "leaving"} /\ g \in [Filler -> FillRecord] /\ \A f \in Filler : g[f] = NotFilling
    BY <1>2 DEF NotFilling, FillRecord
  <2> HIDE DEF w, g
  <2> QED
    BY <1>2, <2>1, <2>2 DEF DjRecord
<1>4. StationType /\ RuleType /\ SchedType
  BY <1>1, <1>2 DEF StationType, RuleType, SchedType
<1>5. ScriptType /\ EngineType /\ DjType
  BY <1>1, <1>2, <1>3 DEF ScriptType, EngineType, ScriptRecord, EngineRecord, DjType, Place
<1>6. QueueType /\ DoneType
  BY <1>1 DEF QueueType, DoneType
<1>7. Lock /\ Rotation
  BY <1>1, <1>2, <1>3 DEF Lock, Rotation, Held, NotFilling, Filler
<1>8. Room
  <2>1. AutoRows = {}
    BY <1>1 DEF AutoRows, Autos
  <2>2. Cardinality(AutoRows) = 0
    BY <2>1, FS_EmptySet
  <2> QED
    BY <1>3, <2>2, Numbers DEF Room, Held, NotFilling
<1>9. RuleOnce
  BY <1>1 DEF RuleOnce
<1>10. Clock /\ Known /\ InHand /\ DoneOnce
  BY <1>1, <1>2 DEF Clock, Known, InHand, DoneOnce, Busy
<1>11. CaughtUp /\ RowOnce /\ SkippedGone
  BY <1>1 DEF CaughtUp, RowOnce, Once, SkippedGone
<1>12. Runs
  BY <1>1 DEF Runs, Made, Busy, Inserted, ToSet
<1> QED
  BY <1>4, <1>5, <1>6, <1>7, <1>8, <1>9, <1>10, <1>11, <1>12 DEF Inv, Types

LEMMA InvStep == Inv /\ [Next]_vars => Inv'
<1>1. ASSUME Inv, Next
      PROVE  Inv'
  <2>1. /\ Types /\ Lock /\ Room /\ Rotation /\ RuleOnce /\ Clock /\ Known /\ InHand /\ CaughtUp /\ DoneOnce
        /\ Runs /\ RowOnce /\ SkippedGone /\ Next
    BY <1>1 DEF Inv
  <2>2. StationType' /\ QueueType' /\ DjType' /\ DoneType'
    BY <2>1, StationKept, QueueKept, LockKept, DoneTypeKept
  <2>3. ScriptType' /\ EngineType'
    BY <2>1, EngineSteps DEF ScriptType, EngineType
  <2>4. RuleType' /\ SchedType'
    BY <2>1, RuleSteps, SchedSteps DEF RuleStep, SchedStep, RuleType, SchedType
  <2>5. Lock' /\ Room' /\ Rotation' /\ RuleOnce'
    BY <2>1, LockKept, RoomKept, RotationKept, RuleOnceKept
  <2>6. Clock' /\ Known' /\ InHand' /\ CaughtUp' /\ DoneOnce'
    BY <2>1, ClockKept, KnownKept, InHandKept, CaughtUpKept, DoneOnceKept
  <2>7. Runs' /\ RowOnce' /\ SkippedGone'
    BY <2>1, RunsKept, SkippedGoneKept
  <2> QED
    BY <2>2, <2>3, <2>4, <2>5, <2>6, <2>7 DEF Inv, Types
<1>2. ASSUME Inv, UNCHANGED vars
      PROVE  Inv'
  <2>1. /\ uses' = uses /\ now' = now /\ air' = air /\ queue' = queue /\ script' = script /\ engine' = engine
        /\ rule' = rule /\ sched' = sched /\ dj' = dj /\ done' = done /\ ops' = ops
    BY <1>2 DEF vars
  <2>2. Types'
    BY <1>2, <2>1 DEF Inv, Types, StationType, QueueType, ScriptType, EngineType, RuleType, SchedType, DjType, DoneType
  <2>3. Lock' /\ Room' /\ Rotation' /\ RuleOnce'
    BY <1>2, <2>1 DEF Inv, Lock, Room, Rotation, RuleOnce, Held, AutoRows
  <2>4. Clock' /\ Known' /\ InHand' /\ CaughtUp' /\ DoneOnce'
    BY <1>2, <2>1 DEF Inv, Clock, Known, InHand, CaughtUp, DoneOnce, Busy, Caught
  <2>5. Runs' /\ RowOnce' /\ SkippedGone'
    <3>1. Created' = Created /\ (Inserted <=> Inserted') /\ (Busy <=> Busy') /\ Made' = Made
      BY <2>1 DEF Created, Inserted, Busy, Made
    <3> QED
      BY <1>2, <2>1, <3>1 DEF Inv, Runs, RowOnce, SkippedGone
  <2> QED
    BY <2>2, <2>3, <2>4, <2>5 DEF Inv
<1> QED
  BY <1>1, <1>2

LEMMA AlwaysInv == Spec => []Inv
BY InvInit, InvStep, PTL DEF Spec

LEMMA TypesGiveTypeOK ==
  ASSUME Types, Lock
  PROVE  TypeOK
BY DEF Types, StationType, QueueType, ScriptType, EngineType, RuleType, SchedType, DjType, DoneType, Lock, Held,
   TypeOK, ScriptRecord, EngineRecord, DjRecord, FillRecord

-----------------------------------------------------------------------------
(* The theorems *)

\* Whatever two fills of AutoDJ do at once, under the station's lock they neither
\* overfill the queue nor take a slot of an unedited rotation out of turn
\* (fill_queue_once).
THEOREM FillsInTurn == Spec => []FillInv
<1>1. Inv => FillInv
  <2> SUFFICES ASSUME Inv
               PROVE  FillInv
    OBVIOUS
  <2>1. Types /\ Lock /\ Room /\ Rotation
    BY DEF Inv
  <2>2. TypeOK /\ InTurn
    BY <2>1, TypesGiveTypeOK DEF Rotation, InTurn
  <2>3. AutoRows = {i \in DOMAIN queue : queue[i].by = "autodj"}
    BY <2>1 DEF AutoRows, Autos, Types, QueueType
  <2>4. KeepHeld
    BY <2>1, <2>3 DEF Room, KeepHeld
  <2> QED
    BY <2>2, <2>4 DEF FillInv
<1> QED
  BY <1>1, AlwaysInv, PTL

\* An occurrence that gave way to a rule's row or a stream leaves none of its rows,
\* wherever in the occurrence the script's worker noticed
\* (_cancel_scheduled_script_queue_items, _mark_station_script_skip).
THEOREM SkippedOccurrenceIsGone == Spec => []SkippedLeavesNoRow
<1>1. Inv => SkippedLeavesNoRow
  BY DEF Inv, Types, QueueType, SkippedGone, SkippedLeavesNoRow
<1> QED
  BY <1>1, AlwaysInv, PTL

\* No occurrence of a script is inserted twice between two starts, no run of a rule
\* that was recorded fires again, and a stopped script begins none unless the worker
\* had read its status before (_run_station_script_once).
THEOREM OccurrencesRunOnce == Spec => OncePerOccurrence
<1>1. Inv /\ [Next]_vars =>
        [/\ engine.at = "insert" /\ engine'.at = "inserted" => engine.key \notin done.script
         /\ sched.at = "insert" => (sched'.at = "insert" \/ sched.key \notin done.rule)
         /\ engine.at = "known" /\ engine'.at = "look" => (engine.unstopped \/ script.since # None)]_vars
  <2> SUFFICES ASSUME Inv
               PROVE  /\ engine.at = "insert" => engine.key \notin done.script
                      /\ sched.at = "insert" => sched.key \notin done.rule
                      /\ engine.at = "known" => engine.unstopped
    OBVIOUS
  <2>1. Types /\ InHand /\ DoneOnce /\ RuleOnce /\ Known
    BY DEF Inv
  <2>2. engine.at = "insert" => engine.key \notin done.script
    <3>1. engine.key \in Nat /\ script.last \in Nat
      BY <2>1, EngineFields
    <3> QED
      BY <2>1, <3>1 DEF InHand, Busy, DoneOnce
  <2>3. sched.at = "insert" => sched.key \notin done.rule
    <3>1. sched.at = "insert" => sched.key \in Nat
      BY <2>1, DueSeconds DEF RuleOnce
    <3> QED
      BY <2>1, <3>1 DEF RuleOnce
  <2> QED
    BY <2>1, <2>2, <2>3 DEF Known
<1>2. Spec => [][/\ engine.at = "insert" /\ engine'.at = "inserted" => engine.key \notin done.script
                 /\ sched.at = "insert" => (sched'.at = "insert" \/ sched.key \notin done.rule)
                 /\ engine.at = "known" /\ engine'.at = "look" => (engine.unstopped \/ script.since # None)]_vars
  BY <1>1, AlwaysInv, PTL DEF Spec
<1> QED
  BY <1>2 DEF OncePerOccurrence

LEMMA RuleInit == Init => RuleAwaitsRuns
BY DEF Init, RuleAwaitsRuns

LEMMA RuleStays == Inv /\ RuleAwaitsRuns /\ Zone = 0 /\ [Next]_vars => RuleAwaitsRuns'
<1>1. ASSUME Inv, RuleAwaitsRuns, Zone = 0, Next
      PROVE  RuleAwaitsRuns'
  BY <1>1, RuleKept DEF Inv
<1>2. ASSUME RuleAwaitsRuns, UNCHANGED vars
      PROVE  RuleAwaitsRuns'
  BY <1>2 DEF RuleAwaitsRuns, vars
<1> QED
  BY <1>1, <1>2

\* A started script ran every second that was due when its worker is idle and never
\* fell more than a minute behind: whatever kept it, each deferred tick is replayed
\* (_script_engine_dispatch_station).
THEOREM NoTickIsMissed == Spec => []NoTickMissed
<1>1. Inv => NoTickMissed
  BY DEF Inv, CaughtUp, Caught, NoTickMissed
<1> QED
  BY <1>1, AlwaysInv, PTL

\* Where the page's clock is the station's, an enabled rule waits as well for each
\* run that is to come: neither scripts nor rules miss one (compute_next_run_at).
THEOREM NoRunIsMissed ==
  ASSUME Zone = 0
  PROVE  Spec => []NoneMissed
<1>1. Inv /\ [Next]_vars /\ RuleAwaitsRuns => RuleAwaitsRuns'
  BY RuleStays
<1>2. Spec => []RuleAwaitsRuns
  BY <1>1, AlwaysInv, RuleInit, PTL DEF Spec
<1>3. NoTickMissed /\ RuleAwaitsRuns => NoneMissed
  BY DEF NoneMissed
<1> QED
  BY <1>2, <1>3, NoTickIsMissed, PTL
=============================================================================
