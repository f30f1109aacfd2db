----------------------- MODULE StationRegistry_proofs -----------------------
(***************************************************************************)
(* Theorems about StationRegistry, for any number of connections, stations *)
(* and keys.  The steps fall into eight kinds by what they do to the       *)
(* table, to the engines and to the commands that run; each kind keeps the *)
(* counts and the owners, and is a step or a stutter of StationLife.       *)
(***************************************************************************)
EXTENDS StationRegistry, FiniteSetTheorems, TLAPS

Doing(c) == thread[c].at = "destroying"

(* What the table and the threads look like between any two steps. *)

StationType ==
  station \in [Slot -> [key : Key \cup {NoKey}, engine : 0 .. MaxCreated,
                        removing : BOOLEAN, refs : Nat]]
ThreadType ==
  thread \in [Client -> [at : {"none", "accepted", "reading", "using", "walking",
                               "stopping", "removing", "destroying"},
                         key : Key \cup {NoKey}, slot : 0 .. MaxStations + 1,
                         engine : 0 .. MaxCreated]]
DaemonType ==
  daemon \in [at : {"accepting", "leaving", "draining", "drained", "closing",
                    "emptying", "clearing", "freeing", "gone"},
              slot : 0 .. MaxStations + 1, engine : 0 .. MaxCreated,
              stopping : BOOLEAN, closing : BOOLEAN]
EngineType == created \in 0 .. MaxCreated /\ alive \subseteq 1 .. created
ClientType == connected \subseteq Client /\ ending \subseteq connected

\* Slots are those of the table where they are used as such, an entry has an
\* engine if it is in use, and nothing else if it is not.
Shape ==
  /\ \A s \in Slot : InUse(s) <=> station[s].engine # NoEngine
  /\ \A c \in Client :
       thread[c].at \in {"using", "stopping", "removing", "destroying"} => thread[c].slot \in Slot
  /\ \A c \in Client : Doing(c) => thread[c].engine # NoEngine
  /\ daemon.at = "freeing" => daemon.slot \in Slot
  /\ daemon.at # "freeing" => daemon.engine = NoEngine

LEMMA TypeParts ==
  TypeOK <=> StationType /\ ThreadType /\ DaemonType /\ EngineType /\ ClientType
BY DEF TypeOK, StationType, ThreadType, DaemonType, EngineType, ClientType

LEMMA TypePartsNext ==
  TypeOK' <=> StationType' /\ ThreadType' /\ DaemonType' /\ EngineType' /\ ClientType'
BY DEF TypeOK, StationType, ThreadType, DaemonType, EngineType, ClientType

LEMMA Constants == /\ Slot \subseteq Nat \ {0} /\ 1 \in Slot
                   /\ \A s \in Slot : s + 1 \in 0 .. MaxStations + 1
                   /\ Slot \subseteq 0 .. MaxStations + 1
                   /\ NoEngine \in 0 .. MaxCreated
BY RegistryAssumption DEF Slot, NoEngine

-----------------------------------------------------------------------------
(* Types *)

Typed == TypeOK /\ Shape

LEMMA TypeInit == Init => Typed
BY RegistryAssumption, Constants
   DEF Init, Typed, TypeOK, Shape, InUse, EmptyEntry, NoThread, NoEngine, Doing, Engine

\* One step of the connections keeps types and shape.
LEMMA TypeConnection ==
  ASSUME Typed, NEW c \in Client, Connection(c)
  PROVE  Typed'
<1> USE RegistryAssumption, Constants DEF Typed, TypeOK, Shape, InUse, Doing, NoEngine
<1>1. CASE Accept(c)
  BY <1>1 DEF Accept
<1>2. CASE Connect(c)
  BY <1>2 DEF Connect, Reading, NoThread
<1>3. CASE TurnAway(c)
  BY <1>3 DEF TurnAway, NoThread
<1>4. CASE Disconnect(c)
  BY <1>4 DEF Disconnect, NoThread
<1> QED
  BY <1>1, <1>2, <1>3, <1>4 DEF Connection

LEMMA TakeType ==
  ASSUME Typed, NEW c \in Client, NEW s \in Slot, NEW k \in Key \cup {NoKey},
         Take(c, k, s), UNCHANGED <<created, alive, connected, ending, daemon>>
  PROVE  Typed'
<1> USE RegistryAssumption, Constants DEF Typed, TypeOK, Shape, InUse, Doing, NoEngine
<1>1. StationType' /\ ThreadType'
  BY DEF Take, EmptyEntry, Reading, NoThread, StationType, ThreadType
<1>2. Shape'
  BY <1>1 DEF Take, EmptyEntry, Reading, NoThread, StationType, ThreadType
<1> QED
  BY <1>1, <1>2, TypeParts, TypePartsNext DEF DaemonType, EngineType, ClientType

LEMMA TypeLater ==
  ASSUME Typed, NEW c \in Client, NEW k \in Key, NEW s \in Slot, RemoveLater(c, k, s)
  PROVE  Typed'
<1>1. StationType /\ ThreadType /\ DaemonType /\ EngineType /\ ClientType /\ Shape
  BY TypeParts DEF Typed
<1>2. StationType'
  BY <1>1 DEF RemoveLater, StationType
<1>3. ThreadType'
  <2>1. [at |-> "removing", key |-> k, slot |-> s, engine |-> NoEngine] \in
          [at : {"none", "accepted", "reading", "using", "walking",
                 "stopping", "removing", "destroying"},
           key : Key \cup {NoKey}, slot : 0 .. MaxStations + 1, engine : 0 .. MaxCreated]
    BY Constants
  <2> QED
    BY <1>1, <2>1 DEF RemoveLater, ThreadType
<1>4. Shape'
  <2>1. \A r \in Slot : station'[r].key = station[r].key /\ station'[r].engine = station[r].engine
    BY <1>1 DEF RemoveLater, StationType
  <2>2. \A b \in Client : b # c => thread'[b] = thread[b]
    BY <1>1 DEF RemoveLater, ThreadType
  <2>3. thread'[c].at = "removing" /\ thread'[c].slot = s
    BY <1>1 DEF RemoveLater, ThreadType
  <2> QED
    BY <1>1, <2>1, <2>2, <2>3 DEF RemoveLater, Shape, InUse, Doing
<1> QED
  BY <1>1, <1>2, <1>3, <1>4, TypePartsNext
     DEF Typed, RemoveLater, DaemonType, EngineType, ClientType

LEMMA TypeCommand ==
  ASSUME Typed, NEW c \in Client, Command(c)
  PROVE  Typed'
<1> USE RegistryAssumption, Constants DEF Typed, TypeOK, Shape, InUse, Doing, NoEngine
<1>1. ASSUME NEW k \in Key, NEW s \in Slot, Acquire(c, k, s)
      PROVE  Typed'
  BY <1>1 DEF Acquire, Retain, Enter
<1>2. ASSUME NEW k \in Key, NEW s \in Slot, Create(c, k, s)
      PROVE  Typed'
  BY <1>2 DEF Create, Enter
<1>3. ASSUME NEW k \in Key, NEW s \in Slot, RemoveNow(c, k, s)
      PROVE  Typed'
  BY <1>3, TakeType DEF RemoveNow
<1>4. ASSUME NEW k \in Key, NEW s \in Slot, RemoveLater(c, k, s)
      PROVE  Typed'
  BY <1>4, TypeLater
<1>5. CASE StopAll(c)
  BY <1>5 DEF StopAll, Walk, Enter
<1> QED
  BY <1>1, <1>2, <1>3, <1>4, <1>5 DEF Command

LEMMA TypeProceed ==
  ASSUME Typed, NEW c \in Client, Proceed(c)
  PROVE  Typed'
<1> USE RegistryAssumption, Constants DEF Typed, TypeOK, Shape, InUse, Doing, NoEngine
<1>1. CASE Release(c)
  BY <1>1 DEF Release, Dropped, Reading, NoThread
<1>2. CASE RemoveResume(c)
  BY <1>2, TakeType DEF RemoveResume
<1>3. CASE Destroy(c)
  BY <1>3 DEF Destroy, Reading, NoThread
<1>4. CASE StopEntry(c)
  BY <1>4 DEF StopEntry, Retain, Enter, Running
<1>5. CASE SkipEntry(c)
  BY <1>5 DEF SkipEntry, Walk, Enter
<1>6. CASE StoppedEntry(c)
  BY <1>6 DEF StoppedEntry, Walk, Enter, Dropped
<1>7. CASE StoppedAll(c)
  BY <1>7 DEF StoppedAll, Reading, NoThread
<1> QED
  BY <1>1, <1>2, <1>3, <1>4, <1>5, <1>6, <1>7 DEF Proceed

LEMMA TypeClear ==
  ASSUME Typed, ClearEntry
  PROVE  Typed'
<1>1. StationType /\ ThreadType /\ DaemonType /\ EngineType /\ ClientType /\ Shape
  BY TypeParts DEF Typed
<1> DEFINE s == daemon.slot
<1>2. s \in Slot /\ daemon.at = "clearing" /\ daemon.engine = NoEngine
  BY <1>1 DEF ClearEntry, Shape
<1>3. UNCHANGED <<created, alive, connected, thread, ending>>
  BY DEF ClearEntry
<1>4. CASE InUse(s) /\ station[s].refs > 0
  <2>1. station' = [station EXCEPT ![s].removing = TRUE] /\ UNCHANGED daemon
    BY <1>4 DEF ClearEntry
  <2>2. StationType'
    BY <1>1, <2>1 DEF StationType
  <2>3. Shape'
    BY <1>1, <1>2, <1>3, <2>1 DEF Shape, StationType, InUse, Doing
  <2> QED
    BY <1>1, <1>3, <2>1, <2>2, <2>3, TypePartsNext
       DEF Typed, ThreadType, DaemonType, EngineType, ClientType
<1>5. CASE InUse(s) /\ ~(station[s].refs > 0)
  <2>1. /\ station' = [station EXCEPT ![s] = EmptyEntry]
        /\ daemon' = [daemon EXCEPT !.at = "freeing", !.engine = station[s].engine]
    BY <1>5 DEF ClearEntry
  <2>2. StationType' /\ DaemonType'
    BY <1>1, <1>2, <2>1, RegistryAssumption DEF StationType, DaemonType, EmptyEntry, NoEngine
  <2>3. Shape'
    BY <1>1, <1>2, <1>3, <2>1 DEF Shape, StationType, DaemonType, InUse, Doing, EmptyEntry
  <2> QED
    BY <1>1, <1>3, <2>2, <2>3, TypePartsNext DEF Typed, ThreadType, EngineType, ClientType
<1>6. CASE ~InUse(s)
  <2>1. /\ station' = [station EXCEPT ![s] = @]
        /\ daemon' = [daemon EXCEPT !.at = "freeing", !.engine = NoEngine]
    BY <1>6 DEF ClearEntry
  <2>2. station' = station /\ DaemonType'
    BY <1>1, <1>2, <2>1, RegistryAssumption DEF StationType, DaemonType, NoEngine
  <2>3. Shape'
    BY <1>1, <1>2, <1>3, <2>1, <2>2 DEF Shape, DaemonType, InUse, Doing
  <2> QED
    BY <1>1, <1>3, <2>2, <2>3, TypePartsNext
       DEF Typed, StationType, ThreadType, EngineType, ClientType
<1> QED
  BY <1>4, <1>5, <1>6

LEMMA TypeFree ==
  ASSUME Typed, FreeEntry
  PROVE  Typed'
<1>1. StationType /\ ThreadType /\ DaemonType /\ EngineType /\ ClientType /\ Shape
  BY TypeParts DEF Typed
<1>2. daemon.slot \in Slot /\ daemon.slot + 1 \in 0 .. MaxStations + 1
  BY <1>1, Constants DEF FreeEntry, Shape
<1>3. DaemonType'
  <2>1. daemon' = [daemon EXCEPT !.at = "clearing", !.slot = daemon.slot + 1, !.engine = NoEngine]
    BY DEF FreeEntry
  <2>2. NoEngine \in 0 .. MaxCreated
    BY Constants
  <2> QED
    BY <1>1, <1>2, <2>1, <2>2 DEF DaemonType
<1>4. Shape'
  BY <1>1, <1>3 DEF FreeEntry, DaemonType, Shape, InUse, Doing
<1> QED
  BY <1>1, <1>3, <1>4, TypePartsNext
     DEF Typed, FreeEntry, StationType, ThreadType, EngineType, ClientType

LEMMA TypeShutdown ==
  ASSUME Typed, Stop \/ Shutdown
  PROVE  Typed'
<1> USE RegistryAssumption, Constants DEF Typed, TypeOK, Shape, InUse, Doing, NoEngine
<1>1. CASE Stop
  BY <1>1 DEF Stop
<1>2. CASE LeaveLoop
  BY <1>2 DEF LeaveLoop
<1>3. CASE ShutdownClients
  BY <1>3 DEF ShutdownClients
<1>4. CASE Drained
  BY <1>4 DEF Drained
<1>5. CASE CloseDaemon
  BY <1>5 DEF CloseDaemon
<1>6. CASE ClearEntry
  BY <1>6, TypeClear
<1>7. CASE FreeEntry
  BY <1>7, TypeFree
<1>8. CASE Exit
  BY <1>8 DEF Exit
<1> QED
  BY <1>1, <1>2, <1>3, <1>4, <1>5, <1>6, <1>7, <1>8 DEF Shutdown

LEMMA TypeNext == Typed /\ [Next]_vars => Typed'
<1>1. CASE UNCHANGED vars
  BY <1>1 DEF vars, Typed, TypeOK, Shape, InUse, Doing
<1> QED
  BY <1>1, TypeConnection, TypeCommand, TypeProceed, TypeShutdown DEF Next

\* The variables keep their types; in particular no thread of the daemon goes
\* beyond the table.
THEOREM TypeCorrect == Spec => []TypeOK
<1>1. Typed => TypeOK
  BY DEF Typed
<1> QED
  BY TypeInit, TypeNext, <1>1, PTL DEF Spec

-----------------------------------------------------------------------------
(* The kinds of step *)

Idle(c) == ~Holds(c) /\ ~Doing(c)
Busy(c) == Holds(c) \/ Doing(c)

\* Entries and threads that a step leaves as they are, as far as counts, owners
\* and keys go.
AlikeEntry(s) == /\ station'[s].key = station[s].key
                 /\ station'[s].engine = station[s].engine
                 /\ station'[s].refs = station[s].refs
AlikeThread(c) == /\ Idle(c)' <=> Idle(c)
                  /\ Busy(c) => thread'[c] = thread[c]
ElseEntries(s) == \A r \in Slot \ {s} : AlikeEntry(r)
ElseThreads(c) == \A b \in Client \ {c} : AlikeThread(b)
SameTable == \A s \in Slot : AlikeEntry(s)
SameThreads == \A c \in Client : AlikeThread(c)
SameEngines == created' = created /\ alive' = alive

Quiet == SameTable /\ SameThreads /\ SameEngines /\ daemon'.engine = daemon.engine

Joins(c, s) ==
  /\ Idle(c) /\ InUse(s)
  /\ station'[s].key = station[s].key /\ station'[s].engine = station[s].engine
  /\ station'[s].refs = station[s].refs + 1
  /\ Holds(c)' /\ thread'[c].slot = s /\ thread'[c].engine = station[s].engine
  /\ ElseEntries(s) /\ ElseThreads(c) /\ SameEngines /\ daemon'.engine = daemon.engine

Founds(c, k, s) ==
  /\ Idle(c) /\ ~InUse(s) /\ \A r \in Slot : station[r].key # k
  /\ created < MaxCreated /\ created' = created + 1 /\ alive' = alive \cup {created'}
  /\ station'[s].key = k /\ station'[s].engine = created' /\ station'[s].refs = 1
  /\ Holds(c)' /\ thread'[c].slot = s /\ thread'[c].engine = created'
  /\ ElseEntries(s) /\ ElseThreads(c) /\ daemon'.engine = daemon.engine

Parts(c) ==
  LET s == thread[c].slot IN
  /\ Holds(c) /\ s \in Slot
  /\ station'[s].key = station[s].key /\ station'[s].engine = station[s].engine
  /\ station'[s].refs = IF station[s].refs > 0 THEN station[s].refs - 1 ELSE station[s].refs
  /\ Idle(c)'
  /\ ElseEntries(s) /\ ElseThreads(c) /\ SameEngines /\ daemon'.engine = daemon.engine

Takes(c, s) ==
  /\ Idle(c) /\ InUse(s) /\ station[s].refs = 0
  /\ station'[s] = EmptyEntry
  /\ Doing(c)' /\ thread'[c].engine = station[s].engine
  /\ ElseEntries(s) /\ ElseThreads(c) /\ SameEngines /\ daemon'.engine = daemon.engine

Destroys(c) ==
  /\ Doing(c) /\ Idle(c)'
  /\ created' = created /\ alive' = alive \ {thread[c].engine}
  /\ SameTable /\ ElseThreads(c) /\ daemon'.engine = daemon.engine

Clears(s) ==
  /\ InUse(s) /\ station[s].refs = 0 /\ station'[s] = EmptyEntry
  /\ daemon.engine = NoEngine /\ daemon'.engine = station[s].engine
  /\ ElseEntries(s) /\ SameThreads /\ SameEngines

Frees ==
  /\ created' = created /\ alive' = alive \ {daemon.engine}
  /\ daemon'.engine = NoEngine
  /\ SameTable /\ SameThreads

Kinds ==
  \/ Quiet \/ Frees
  \/ \E c \in Client : Parts(c) \/ Destroys(c)
  \/ \E s \in Slot : Clears(s)
  \/ \E c \in Client, s \in Slot : Joins(c, s) \/ Takes(c, s)
  \/ \E c \in Client, k \in Key, s \in Slot : Founds(c, k, s)

LEMMA KindConnection ==
  ASSUME Typed, NEW c \in Client, Connection(c)
  PROVE  Quiet
<1>1. StationType /\ ThreadType
  BY TypeParts DEF Typed
<1>2. UNCHANGED <<station, created, alive, daemon>>
  BY DEF Connection, Accept, Connect, TurnAway, Disconnect
<1>3. thread[c].at \in {"none", "accepted", "reading"}
  BY DEF Connection, Accept, Connect, TurnAway, Disconnect
<1>4. /\ \A b \in Client \ {c} : thread'[b] = thread[b]
      /\ thread'[c].at \in {"none", "accepted", "reading"}
  BY <1>1 DEF Connection, Accept, Connect, TurnAway, Disconnect, NoThread, Reading, ThreadType
<1> QED
  BY <1>2, <1>3, <1>4
     DEF Quiet, SameTable, SameThreads, SameEngines, AlikeEntry, AlikeThread,
         Idle, Busy, Holds, Doing

LEMMA KindTake ==
  ASSUME Typed, NEW c \in Client, NEW s \in Slot, NEW k,
         Idle(c), station[s].refs = 0, Take(c, k, s),
         UNCHANGED <<created, alive, connected, ending, daemon>>
  PROVE  Quiet \/ Takes(c, s)
<1>1. StationType /\ ThreadType /\ Shape
  BY TypeParts DEF Typed
<1>2. station'[s] = EmptyEntry /\ \A r \in Slot \ {s} : station'[r] = station[r]
  BY <1>1 DEF Take, StationType
<1>3. \A b \in Client \ {c} : thread'[b] = thread[b]
  BY <1>1 DEF Take, ThreadType
<1>4. CASE station[s].engine = NoEngine
  <2>1. thread'[c].at = "reading"
    BY <1>1, <1>4 DEF Take, ThreadType, Reading, NoThread
  <2>2. station[s].key = NoKey
    BY <1>1, <1>4 DEF Shape, InUse
  <2>3. AlikeEntry(s)
    BY <1>2, <1>4, <2>2 DEF AlikeEntry, EmptyEntry
  <2> QED
    BY <1>2, <1>3, <2>1, <2>3
       DEF Quiet, SameTable, SameThreads, SameEngines, AlikeEntry, AlikeThread,
           Idle, Busy, Holds, Doing
<1>5. CASE station[s].engine # NoEngine
  <2>1. thread'[c].at = "destroying" /\ thread'[c].engine = station[s].engine
    BY <1>1, <1>5 DEF Take, ThreadType
  <2>2. InUse(s)
    BY <1>1, <1>5 DEF Shape
  <2> QED
    BY <1>2, <1>3, <2>1, <2>2
       DEF Takes, ElseEntries, ElseThreads, SameEngines, AlikeEntry, AlikeThread,
           Idle, Busy, Holds, Doing
<1> QED
  BY <1>4, <1>5

LEMMA KindRetain ==
  ASSUME Typed, NEW c \in Client, NEW s \in Slot, NEW at \in {"using", "stopping"},
         Idle(c), InUse(s), Retain(s), Enter(c, at, s, station[s].engine),
         UNCHANGED <<created, alive, connected, ending, daemon>>
  PROVE  Joins(c, s)
<1>1. StationType /\ ThreadType
  BY TypeParts DEF Typed
<1>2. /\ station'[s].key = station[s].key /\ station'[s].engine = station[s].engine
      /\ station'[s].refs = station[s].refs + 1
      /\ \A r \in Slot \ {s} : station'[r] = station[r]
  BY <1>1 DEF Retain, StationType
<1>3. /\ thread'[c] = [at |-> at, key |-> NoKey, slot |-> s, engine |-> station[s].engine]
      /\ \A b \in Client \ {c} : thread'[b] = thread[b]
  BY <1>1 DEF Enter, ThreadType
<1> QED
  BY <1>2, <1>3
     DEF Joins, ElseEntries, ElseThreads, SameEngines, AlikeEntry, AlikeThread,
         Idle, Busy, Holds, Doing

LEMMA KindDrop ==
  ASSUME Typed, NEW c \in Client, Holds(c), station' = Dropped(thread[c].slot),
         thread'[c].at \in {"reading", "walking"},
         \A b \in Client \ {c} : thread'[b] = thread[b],
         UNCHANGED <<created, alive, connected, ending, daemon>>
  PROVE  Parts(c)
<1>1. StationType /\ ThreadType /\ thread[c].slot \in Slot
  BY TypeParts DEF Typed, Shape, Holds
<1> DEFINE s == thread[c].slot
<1>2. /\ station'[s].key = station[s].key /\ station'[s].engine = station[s].engine
      /\ station'[s].refs = IF station[s].refs > 0 THEN station[s].refs - 1
                            ELSE station[s].refs
      /\ \A q \in Slot \ {s} : station'[q] = station[q]
  BY <1>1 DEF Dropped, StationType
<1> QED
  BY <1>1, <1>2
     DEF Parts, ElseEntries, ElseThreads, SameEngines, AlikeEntry, AlikeThread,
         Idle, Busy, Holds, Doing

LEMMA KindCommand ==
  ASSUME Typed, NEW c \in Client, Command(c)
  PROVE  Kinds
<1>1. StationType /\ ThreadType /\ Shape
  BY TypeParts DEF Typed
<1>2. thread[c].at = "reading" /\ Idle(c)
  BY DEF Command, Acquire, Create, RemoveNow, RemoveLater, StopAll, Idle, Holds, Doing
<1>3. ASSUME NEW k \in Key, NEW s \in Slot, Acquire(c, k, s)
      PROVE  Joins(c, s)
  <2>1. InUse(s)
    BY <1>3, RegistryAssumption DEF Acquire, InUse
  <2> QED
    BY <1>2, <1>3, <2>1, KindRetain DEF Acquire
<1>4. ASSUME NEW k \in Key, NEW s \in Slot, Create(c, k, s)
      PROVE  Founds(c, k, s)
  <2>1. /\ station'[s].key = k /\ station'[s].engine = created' /\ station'[s].refs = 1
        /\ \A r \in Slot \ {s} : station'[r] = station[r]
    BY <1>1, <1>4 DEF Create, StationType
  <2>2. /\ thread'[c] = [at |-> "using", key |-> NoKey, slot |-> s, engine |-> created']
        /\ \A b \in Client \ {c} : thread'[b] = thread[b]
    BY <1>1, <1>4 DEF Create, Enter, ThreadType
  <2> QED
    BY <1>2, <1>4, <2>1, <2>2
       DEF Create, Vacant, Founds, ElseEntries, ElseThreads, AlikeEntry, AlikeThread,
           Idle, Busy, Holds, Doing
<1>5. ASSUME NEW k \in Key, NEW s \in Slot, RemoveNow(c, k, s)
      PROVE  Quiet \/ Takes(c, s)
  BY <1>2, <1>5, KindTake DEF RemoveNow
<1>6. ASSUME NEW k \in Key, NEW s \in Slot, RemoveLater(c, k, s)
      PROVE  Quiet
  <2>1. \A r \in Slot : AlikeEntry(r)
    BY <1>1, <1>6 DEF RemoveLater, StationType, AlikeEntry
  <2>2. thread'[c].at = "removing" /\ \A b \in Client \ {c} : thread'[b] = thread[b]
    BY <1>1, <1>6 DEF RemoveLater, ThreadType
  <2> QED
    BY <1>2, <1>6, <2>1, <2>2
       DEF RemoveLater, Quiet, SameTable, SameThreads, SameEngines, AlikeThread,
           Idle, Busy, Holds, Doing
<1>7. CASE StopAll(c)
  <2>1. thread'[c].at = "walking" /\ \A b \in Client \ {c} : thread'[b] = thread[b]
    BY <1>1, <1>7 DEF StopAll, Walk, Enter, ThreadType
  <2> QED
    BY <1>2, <1>7, <2>1
       DEF StopAll, Kinds, Quiet, SameTable, SameThreads, SameEngines, AlikeEntry, AlikeThread,
           Idle, Busy, Holds, Doing
<1> QED
  BY <1>3, <1>4, <1>5, <1>6, <1>7 DEF Command, Kinds

LEMMA KindProceed ==
  ASSUME Typed, NEW c \in Client, Proceed(c)
  PROVE  Kinds
<1>1. StationType /\ ThreadType /\ Shape
  BY TypeParts DEF Typed
<1>2. CASE Release(c)
  <2>1. Parts(c)
    <3>1. Holds(c) /\ station' = Dropped(thread[c].slot)
      BY <1>2 DEF Release, Holds
    <3>2. thread'[c].at = "reading" /\ \A b \in Client \ {c} : thread'[b] = thread[b]
      BY <1>1, <1>2 DEF Release, Reading, NoThread, ThreadType
    <3>3. UNCHANGED <<created, alive, connected, ending, daemon>>
      BY <1>2 DEF Release
    <3> QED
      BY <3>1, <3>2, <3>3, KindDrop
  <2> QED
    BY <2>1 DEF Kinds
<1>3. CASE RemoveResume(c)
  <2>1. thread[c].slot \in Slot /\ Idle(c)
    BY <1>1, <1>3 DEF RemoveResume, Shape, Idle, Holds, Doing
  <2>2. Quiet \/ Takes(c, thread[c].slot)
    BY <1>3, <2>1, KindTake DEF RemoveResume
  <2> QED
    BY <2>1, <2>2 DEF Kinds
<1>4. CASE Destroy(c)
  <2>1. thread'[c].at = "reading" /\ \A b \in Client \ {c} : thread'[b] = thread[b]
    BY <1>1, <1>4 DEF Destroy, ThreadType, Reading, NoThread
  <2>2. Destroys(c)
    BY <1>4, <2>1
       DEF Destroy, Destroys, SameTable, ElseThreads, AlikeEntry, AlikeThread,
           Idle, Busy, Holds, Doing
  <2> QED
    BY <2>2 DEF Kinds
<1>5. CASE StopEntry(c)
  <2> DEFINE s == thread[c].slot
  <2>1. s \in Slot /\ InUse(s) /\ Idle(c)
    BY <1>5 DEF StopEntry, Running, Idle, Holds, Doing
  <2>2. Joins(c, s)
    BY <1>5, <2>1, KindRetain DEF StopEntry
  <2> QED
    BY <2>1, <2>2 DEF Kinds
<1>6. CASE SkipEntry(c) \/ StoppedAll(c)
  <2>1. thread[c].at = "walking" /\ UNCHANGED <<station, created, alive, daemon>>
    BY <1>6 DEF SkipEntry, StoppedAll
  <2>2. /\ thread'[c].at \in {"walking", "reading"}
        /\ \A b \in Client \ {c} : thread'[b] = thread[b]
    BY <1>1, <1>6 DEF SkipEntry, StoppedAll, Walk, Enter, ThreadType, Reading, NoThread
  <2> QED
    BY <2>1, <2>2
       DEF Kinds, Quiet, SameTable, SameThreads, SameEngines, AlikeEntry, AlikeThread,
           Idle, Busy, Holds, Doing
<1>7. CASE StoppedEntry(c)
  <2>1. Parts(c)
    <3>1. Holds(c) /\ station' = Dropped(thread[c].slot)
      BY <1>7 DEF StoppedEntry, Holds
    <3>2. thread'[c].at = "walking" /\ \A b \in Client \ {c} : thread'[b] = thread[b]
      BY <1>1, <1>7 DEF StoppedEntry, Walk, Enter, ThreadType
    <3>3. UNCHANGED <<created, alive, connected, ending, daemon>>
      BY <1>7 DEF StoppedEntry
    <3> QED
      BY <3>1, <3>2, <3>3, KindDrop
  <2> QED
    BY <2>1 DEF Kinds
<1> QED
  BY <1>2, <1>3, <1>4, <1>5, <1>6, <1>7 DEF Proceed

LEMMA KindShutdown ==
  ASSUME Typed, Stop \/ Shutdown
  PROVE  Kinds
<1>1. StationType /\ DaemonType /\ Shape
  BY TypeParts DEF Typed
<1>2. thread' = thread
  BY DEF Stop, Shutdown, LeaveLoop, ShutdownClients, Drained, CloseDaemon, ClearEntry,
         FreeEntry, Exit
<1>3. SameThreads
  BY <1>2 DEF SameThreads, AlikeThread, Idle, Busy, Holds, Doing
<1>4. CASE Stop \/ LeaveLoop \/ ShutdownClients \/ Drained \/ CloseDaemon \/ Exit
  <2>1. UNCHANGED <<station, created, alive>>
    BY <1>4 DEF Stop, LeaveLoop, ShutdownClients, Drained, CloseDaemon, Exit
  <2>2. daemon'.engine = daemon.engine
    BY <1>1, <1>4 DEF Stop, LeaveLoop, ShutdownClients, Drained, CloseDaemon, Exit, DaemonType
  <2> QED
    BY <1>3, <2>1, <2>2 DEF Kinds, Quiet, SameTable, SameEngines, AlikeEntry
<1>5. CASE ClearEntry
  <2> DEFINE s == daemon.slot
  <2>1. s \in Slot /\ daemon.engine = NoEngine /\ UNCHANGED <<created, alive>>
    BY <1>1, <1>5 DEF ClearEntry, Shape
  <2>2. CASE InUse(s) /\ station[s].refs > 0
    <3>1. station' = [station EXCEPT ![s].removing = TRUE] /\ UNCHANGED daemon
      BY <1>5, <2>2 DEF ClearEntry
    <3>2. SameTable
      BY <1>1, <3>1 DEF SameTable, AlikeEntry, StationType
    <3> QED
      BY <1>3, <2>1, <3>1, <3>2 DEF Kinds, Quiet, SameEngines
  <2>3. CASE InUse(s) /\ ~(station[s].refs > 0)
    <3>1. /\ station' = [station EXCEPT ![s] = EmptyEntry]
          /\ daemon' = [daemon EXCEPT !.at = "freeing", !.engine = station[s].engine]
      BY <1>5, <2>3 DEF ClearEntry
    <3>2. station'[s] = EmptyEntry /\ \A r \in Slot \ {s} : station'[r] = station[r]
      BY <1>1, <2>1, <3>1 DEF StationType
    <3>3. station[s].refs = 0 /\ daemon'.engine = station[s].engine
      BY <1>1, <2>1, <2>3, <3>1 DEF StationType, DaemonType
    <3>4. Clears(s)
      BY <1>3, <2>1, <2>3, <3>2, <3>3 DEF Clears, ElseEntries, AlikeEntry, SameEngines
    <3> QED
      BY <2>1, <3>4 DEF Kinds
  <2>4. CASE ~InUse(s)
    <3>1. /\ station' = [station EXCEPT ![s] = @]
          /\ daemon' = [daemon EXCEPT !.at = "freeing", !.engine = NoEngine]
      BY <1>5, <2>4 DEF ClearEntry
    <3>2. SameTable
      BY <1>1, <3>1 DEF SameTable, AlikeEntry, StationType
    <3>3. daemon'.engine = daemon.engine
      BY <1>1, <2>1, <3>1 DEF DaemonType
    <3> QED
      BY <1>3, <2>1, <3>2, <3>3 DEF Kinds, Quiet, SameEngines
  <2> QED
    BY <2>2, <2>3, <2>4
<1>6. CASE FreeEntry
  <2>1. daemon'.engine = NoEngine
    BY <1>1, <1>6 DEF FreeEntry, DaemonType
  <2> QED
    BY <1>3, <1>6, <2>1 DEF FreeEntry, Kinds, Frees, SameTable, AlikeEntry
<1> QED
  BY <1>4, <1>5, <1>6 DEF Shutdown

LEMMA KindNext ==
  ASSUME Typed, [Next]_vars
  PROVE  Kinds
<1>1. CASE UNCHANGED vars
  BY <1>1 DEF vars, Kinds, Quiet, SameTable, SameThreads, SameEngines, AlikeEntry,
              AlikeThread, Idle, Busy, Holds, Doing
<1>2. ASSUME NEW c \in Client, Connection(c)
      PROVE  Kinds
  BY <1>2, KindConnection DEF Kinds
<1> QED
  BY <1>1, <1>2, KindCommand, KindProceed, KindShutdown DEF Next

-----------------------------------------------------------------------------
(* The counts *)

LEMMA UsersFinite == \A s : IsFiniteSet(Users(s)) /\ Cardinality(Users(s)) \in Nat
BY FS_Subset, FS_CardinalityType, RegistryAssumption DEF Users

\* Threads that run nothing before and after a step are no users.
LEMMA UsersAlike ==
  ASSUME SameThreads, NEW s
  PROVE  Users(s)' = Users(s)
BY DEF SameThreads, AlikeThread, Idle, Busy, Users, Holds, Doing

LEMMA UsersIdle ==
  ASSUME NEW c \in Client, ~Holds(c), ~Holds(c)', ElseThreads(c), NEW s
  PROVE  Users(s)' = Users(s)
BY DEF ElseThreads, AlikeThread, Idle, Busy, Users, Holds, Doing

LEMMA UsersJoin ==
  ASSUME NEW c \in Client, NEW s, ~Holds(c), Holds(c)', thread'[c].slot = s, ElseThreads(c)
  PROVE  /\ Cardinality(Users(s)') = Cardinality(Users(s)) + 1
         /\ \A r : r # s => Users(r)' = Users(r)
<1>1. Users(s)' = Users(s) \cup {c} /\ c \notin Users(s)
  BY DEF ElseThreads, AlikeThread, Idle, Busy, Users, Holds, Doing
<1>2. \A r : r # s => Users(r)' = Users(r)
  BY DEF ElseThreads, AlikeThread, Idle, Busy, Users, Holds, Doing
<1>3. Cardinality(Users(s) \cup {c}) = Cardinality(Users(s)) + 1
  BY <1>1, UsersFinite, FS_AddElement
<1> QED
  BY <1>1, <1>2, <1>3

LEMMA UsersPart ==
  ASSUME NEW c \in Client, NEW s, Holds(c), thread[c].slot = s, ~Holds(c)', ElseThreads(c)
  PROVE  /\ Cardinality(Users(s)') = Cardinality(Users(s)) - 1
         /\ Cardinality(Users(s)) > 0
         /\ \A r : r # s => Users(r)' = Users(r)
<1>1. Users(s)' = Users(s) \ {c} /\ c \in Users(s)
  BY DEF ElseThreads, AlikeThread, Idle, Busy, Users, Holds, Doing
<1>2. \A r : r # s => Users(r)' = Users(r)
  BY DEF ElseThreads, AlikeThread, Idle, Busy, Users, Holds, Doing
<1>3. Cardinality(Users(s) \ {c}) = Cardinality(Users(s)) - 1
  BY <1>1, UsersFinite, FS_RemoveElement
<1>4. Cardinality(Users(s)) > 0
  BY <1>1, UsersFinite, FS_EmptySet
<1> QED
  BY <1>1, <1>2, <1>3, <1>4

\* An entry nobody counts has no users.
LEMMA NoUsers ==
  ASSUME CountIsUsers, NEW s \in Slot, station[s].refs = 0
  PROVE  \A c \in Client : ~(Holds(c) /\ thread[c].slot = s)
<1>1. Users(s) = {}
  BY UsersFinite, FS_EmptySet DEF CountIsUsers
<1> QED
  BY <1>1 DEF Users

RegistryInv == Typed /\ CountIsUsers /\ UsedIsAlive /\ OneOwner /\ OneEntryPerKey

LEMMA CountNext ==
  ASSUME RegistryInv, Kinds
  PROVE  CountIsUsers'
<1>1. StationType /\ ThreadType /\ Shape /\ CountIsUsers
  BY TypeParts DEF RegistryInv, Typed
<1>2. CASE Quiet \/ Frees
  <2>1. SameTable /\ SameThreads
    BY <1>2 DEF Quiet, Frees
  <2>2. \A s \in Slot : Users(s)' = Users(s) /\ station'[s].refs = station[s].refs
    BY <2>1, UsersAlike DEF SameTable, AlikeEntry
  <2> QED
    BY <1>1, <2>2 DEF CountIsUsers
<1>3. ASSUME NEW c \in Client, Parts(c)
      PROVE  CountIsUsers'
  <2>1. Holds(c) /\ ~Holds(c)' /\ ElseThreads(c)
    BY <1>3 DEF Parts, Idle
  <2>2. ASSUME NEW s \in Slot, s = thread[c].slot
        PROVE  CountIsUsers'
    <3>1. /\ Cardinality(Users(s)') = Cardinality(Users(s)) - 1
          /\ Cardinality(Users(s)) > 0
          /\ \A r : r # s => Users(r)' = Users(r)
      BY <2>1, <2>2, UsersPart
    <3>2. station'[s].refs = station[s].refs - 1 /\ \A r \in Slot \ {s} : AlikeEntry(r)
      BY <1>1, <1>3, <2>2, <3>1 DEF Parts, ElseEntries, CountIsUsers
    <3> QED
      BY <1>1, <3>1, <3>2 DEF CountIsUsers, AlikeEntry
  <2> QED
    BY <1>3, <2>2 DEF Parts
<1>4. ASSUME NEW c \in Client, Destroys(c)
      PROVE  CountIsUsers'
  <2>1. ~Holds(c) /\ ~Holds(c)' /\ ElseThreads(c) /\ SameTable
    BY <1>4 DEF Destroys, Doing, Holds, Idle
  <2> QED
    BY <1>1, <2>1, UsersIdle DEF CountIsUsers, SameTable, AlikeEntry
<1>5. ASSUME NEW s \in Slot, Clears(s)
      PROVE  CountIsUsers'
  <2>1. \A r \in Slot : station'[r].refs = station[r].refs
    BY <1>5 DEF Clears, ElseEntries, AlikeEntry, EmptyEntry
  <2> QED
    <3>1. \A r \in Slot : Users(r)' = Users(r)
      BY <1>5, UsersAlike DEF Clears
    <3> QED
      BY <1>1, <2>1, <3>1 DEF CountIsUsers
<1>6. ASSUME NEW c \in Client, NEW s \in Slot, Joins(c, s)
      PROVE  CountIsUsers'
  <2>1. ~Holds(c) /\ Holds(c)' /\ thread'[c].slot = s /\ ElseThreads(c)
    BY <1>6 DEF Joins, Idle
  <2>2. station'[s].refs = station[s].refs + 1 /\ \A r \in Slot \ {s} : AlikeEntry(r)
    BY <1>6 DEF Joins, ElseEntries
  <2> QED
    BY <1>1, <2>1, <2>2, UsersJoin DEF CountIsUsers, AlikeEntry
<1>7. ASSUME NEW c \in Client, NEW s \in Slot, Takes(c, s)
      PROVE  CountIsUsers'
  <2>1. ~Holds(c) /\ ~Holds(c)' /\ ElseThreads(c)
    BY <1>7 DEF Takes, Idle, Doing, Holds
  <2>2. \A r \in Slot : station'[r].refs = station[r].refs
    BY <1>7 DEF Takes, ElseEntries, AlikeEntry, EmptyEntry
  <2> QED
    <3>1. \A r \in Slot : Users(r)' = Users(r)
      BY <2>1, UsersIdle
    <3> QED
      BY <1>1, <2>2, <3>1 DEF CountIsUsers
<1>8. ASSUME NEW c \in Client, NEW k \in Key, NEW s \in Slot, Founds(c, k, s)
      PROVE  CountIsUsers'
  <2>1. ~Holds(c) /\ Holds(c)' /\ thread'[c].slot = s /\ ElseThreads(c)
    BY <1>8 DEF Founds, Idle
  <2>2. station'[s].refs = 1 /\ \A r \in Slot \ {s} : AlikeEntry(r)
    BY <1>8 DEF Founds, ElseEntries
  <2>3. station[s].engine = NoEngine
    BY <1>1, <1>8 DEF Founds, Shape
  <2>4. Users(s) = {}
    <3>1. \A b \in Client : Holds(b) => station[thread[b].slot].engine \in alive
      BY DEF RegistryInv, UsedIsAlive
    <3>2. NoEngine \notin alive
      BY Constants DEF RegistryInv, OneOwner
    <3> QED
      BY <2>3, <3>1, <3>2 DEF Users
  <2>5. Cardinality(Users(s)') = 1
    BY <2>1, <2>4, UsersJoin, FS_EmptySet
  <2> QED
    BY <1>1, <2>1, <2>2, <2>5, UsersJoin DEF CountIsUsers, AlikeEntry
<1> QED
  BY <1>2, <1>3, <1>4, <1>5, <1>6, <1>7, <1>8 DEF Kinds

-----------------------------------------------------------------------------
(* The owners *)

\* OneOwner said of one engine at a time.
LEMMA Owners ==
  OneOwner <=>
    /\ \A e : e \in alive <=> /\ e # NoEngine
                              /\ \/ \E s \in Slot : e = station[s].engine
                                 \/ \E c \in Client : Doing(c) /\ e = thread[c].engine
                                 \/ e = daemon.engine
    /\ \A r, s \in Slot : station[r].engine = station[s].engine /\ r # s
                            => station[r].engine = NoEngine
    /\ \A b, c \in Client : Doing(b) /\ Doing(c) /\ thread[b].engine = thread[c].engine => b = c
    /\ \A s \in Slot, c \in Client :
         Doing(c) /\ station[s].engine = thread[c].engine => station[s].engine = NoEngine
    /\ daemon.engine # NoEngine =>
         /\ \A s \in Slot : station[s].engine # daemon.engine
         /\ \A c \in Client : Doing(c) => thread[c].engine # daemon.engine
BY DEF OneOwner, Listed, Doomed, Doing

OwnersNow ==
  /\ \A e : e \in alive <=> /\ e # NoEngine
                            /\ \/ \E s \in Slot : e = station[s].engine
                               \/ \E c \in Client : Doing(c) /\ e = thread[c].engine
                               \/ e = daemon.engine
  /\ \A r, s \in Slot : station[r].engine = station[s].engine /\ r # s
                          => station[r].engine = NoEngine
  /\ \A b, c \in Client : Doing(b) /\ Doing(c) /\ thread[b].engine = thread[c].engine => b = c
  /\ \A s \in Slot, c \in Client :
       Doing(c) /\ station[s].engine = thread[c].engine => station[s].engine = NoEngine
  /\ daemon.engine # NoEngine =>
       /\ \A s \in Slot : station[s].engine # daemon.engine
       /\ \A c \in Client : Doing(c) => thread[c].engine # daemon.engine

LEMMA OwnersNext ==
  ASSUME RegistryInv, Kinds
  PROVE  OwnersNow'
<1>1. StationType /\ ThreadType /\ DaemonType /\ EngineType /\ Shape /\ OwnersNow
  BY TypeParts, Owners DEF RegistryInv, Typed, OwnersNow
<1>2. CASE Quiet
  BY <1>1, <1>2 DEF Quiet, SameTable, SameThreads, SameEngines, AlikeEntry, AlikeThread,
                    Idle, Busy, Holds, Doing, OwnersNow
<1>3. CASE Frees
  BY <1>1, <1>3 DEF Frees, SameTable, SameThreads, AlikeEntry, AlikeThread,
                    Idle, Busy, Holds, Doing, OwnersNow
<1>4. ASSUME NEW c \in Client, Parts(c)
      PROVE  OwnersNow'
  <2>1. /\ \A s \in Slot : station'[s].engine = station[s].engine
        /\ ~Doing(c) /\ ~Doing(c)' /\ ElseThreads(c) /\ SameEngines
        /\ daemon'.engine = daemon.engine
    BY <1>4 DEF Parts, ElseEntries, AlikeEntry, Idle, Holds, Doing
  <2> QED
    BY <1>1, <2>1 DEF ElseThreads, SameEngines, AlikeThread, Idle, Busy, Holds, Doing, OwnersNow
<1>5. ASSUME NEW c \in Client, Destroys(c)
      PROVE  OwnersNow'
  <2>1. /\ \A s \in Slot : station'[s].engine = station[s].engine
        /\ Doing(c) /\ ~Doing(c)' /\ daemon'.engine = daemon.engine
        /\ alive' = alive \ {thread[c].engine}
        /\ \A b \in Client \ {c} : /\ Doing(b)' <=> Doing(b)
                                   /\ Doing(b) => thread'[b] = thread[b]
    BY <1>5 DEF Destroys, SameTable, ElseThreads, AlikeEntry, AlikeThread, Idle, Busy, Holds, Doing
  <2> QED
    BY <1>1, <2>1 DEF OwnersNow, Shape
<1>6. ASSUME NEW s \in Slot, Clears(s)
      PROVE  OwnersNow'
  <2>1. /\ station[s].engine # NoEngine /\ station'[s].engine = NoEngine
        /\ \A r \in Slot \ {s} : station'[r].engine = station[r].engine
        /\ alive' = alive /\ daemon.engine = NoEngine /\ daemon'.engine = station[s].engine
        /\ \A b \in Client : /\ Doing(b)' <=> Doing(b)
                             /\ Doing(b) => thread'[b] = thread[b]
    BY <1>1, <1>6 DEF Clears, SameEngines, SameThreads, ElseEntries, AlikeEntry, AlikeThread,
                      Idle, Busy, Holds, Doing, Shape, EmptyEntry
  <2> QED
    BY <1>1, <2>1 DEF OwnersNow
<1>7. ASSUME NEW c \in Client, NEW s \in Slot, Joins(c, s)
      PROVE  OwnersNow'
  <2>1. /\ \A r \in Slot : station'[r].engine = station[r].engine
        /\ ~Doing(c) /\ ~Doing(c)' /\ alive' = alive /\ daemon'.engine = daemon.engine
        /\ \A b \in Client \ {c} : /\ Doing(b)' <=> Doing(b)
                                   /\ Doing(b) => thread'[b] = thread[b]
    BY <1>7 DEF Joins, SameEngines, ElseEntries, ElseThreads, AlikeEntry, AlikeThread,
                Idle, Busy, Holds, Doing
  <2> QED
    BY <1>1, <2>1 DEF OwnersNow
<1>8. ASSUME NEW c \in Client, NEW s \in Slot, Takes(c, s)
      PROVE  OwnersNow'
  <2>1. /\ station[s].engine # NoEngine /\ station'[s].engine = NoEngine
        /\ \A r \in Slot \ {s} : station'[r].engine = station[r].engine
        /\ alive' = alive /\ daemon'.engine = daemon.engine
        /\ ~Doing(c) /\ Doing(c)' /\ thread'[c].engine = station[s].engine
        /\ \A b \in Client \ {c} : /\ Doing(b)' <=> Doing(b)
                                   /\ Doing(b) => thread'[b] = thread[b]
    BY <1>1, <1>8 DEF Takes, SameEngines, ElseEntries, ElseThreads, AlikeEntry, AlikeThread,
                      Idle, Busy, Holds, Doing, Shape, EmptyEntry
  <2> QED
    BY <1>1, <2>1 DEF OwnersNow
<1>9. ASSUME NEW c \in Client, NEW k \in Key, NEW s \in Slot, Founds(c, k, s)
      PROVE  OwnersNow'
  <2>1. /\ station[s].engine = NoEngine /\ station'[s].engine = created'
        /\ \A r \in Slot \ {s} : station'[r].engine = station[r].engine
        /\ alive' = alive \cup {created'} /\ daemon'.engine = daemon.engine
        /\ ~Doing(c) /\ ~Doing(c)'
        /\ \A b \in Client \ {c} : /\ Doing(b)' <=> Doing(b)
                                   /\ Doing(b) => thread'[b] = thread[b]
    BY <1>1, <1>9 DEF Founds, ElseEntries, ElseThreads, AlikeEntry, AlikeThread,
                      Idle, Busy, Holds, Doing, Shape
  <2>2. created' # NoEngine /\ created' \notin alive
    BY <1>1, <1>9, RegistryAssumption DEF Founds, EngineType, NoEngine
  <2> QED
    BY <1>1, <2>1, <2>2 DEF OwnersNow
<1> QED
  BY <1>2, <1>3, <1>4, <1>5, <1>6, <1>7, <1>8, <1>9 DEF Kinds

LEMMA OwnerNext ==
  ASSUME RegistryInv, Kinds
  PROVE  OneOwner'
BY OwnersNext DEF OwnersNow, OneOwner, Listed, Doomed, Doing

\* An engine is new when it is created, and listed once, so an entry that is
\* filled does not disturb the commands that run on others.
LEMMA UsedNext ==
  ASSUME RegistryInv, Kinds
  PROVE  UsedIsAlive'
<1>1. /\ StationType /\ ThreadType /\ DaemonType /\ EngineType /\ Shape
      /\ OwnersNow /\ UsedIsAlive /\ CountIsUsers
  BY TypeParts, Owners DEF RegistryInv, Typed, OwnersNow
<1>10. \A b \in Client : Holds(b) => thread[b].slot \in Slot
  BY <1>1 DEF Shape, Holds
<1>11. NoEngine \notin alive
  BY <1>1 DEF OwnersNow
<1>2. CASE Quiet
  BY <1>10, <1>1, <1>2 DEF Quiet, SameTable, SameThreads, SameEngines, AlikeEntry, AlikeThread,
                    Idle, Busy, Holds, Doing, UsedIsAlive
<1>3. CASE Frees
  BY <1>10, <1>1, <1>3, <1>11 DEF Frees, SameTable, SameThreads, AlikeEntry, AlikeThread,
                    Idle, Busy, Holds, Doing, UsedIsAlive
<1>4. ASSUME NEW c \in Client, Parts(c)
      PROVE  UsedIsAlive'
  <2>1. /\ \A s \in Slot : station'[s].engine = station[s].engine
        /\ ~Doing(c)' /\ ~Holds(c)' /\ alive' = alive /\ daemon'.engine = daemon.engine
        /\ \A b \in Client \ {c} : /\ Doing(b)' <=> Doing(b)
                                   /\ Holds(b)' <=> Holds(b)
                                   /\ Doing(b) \/ Holds(b) => thread'[b] = thread[b]
    BY <1>4 DEF Parts, ElseEntries, ElseThreads, SameEngines, AlikeEntry, AlikeThread,
                Idle, Busy, Holds, Doing
  <2> QED
    BY <1>10, <1>1, <2>1 DEF UsedIsAlive, Doing
<1>5. ASSUME NEW c \in Client, Destroys(c)
      PROVE  UsedIsAlive'
  <2>1. /\ \A s \in Slot : station'[s].engine = station[s].engine
        /\ Doing(c) /\ ~Doing(c)' /\ ~Holds(c)' /\ daemon'.engine = daemon.engine
        /\ alive' = alive \ {thread[c].engine}
        /\ \A b \in Client \ {c} : /\ Doing(b)' <=> Doing(b)
                                   /\ Holds(b)' <=> Holds(b)
                                   /\ Doing(b) \/ Holds(b) => thread'[b] = thread[b]
    BY <1>5 DEF Destroys, SameTable, ElseThreads, AlikeEntry, AlikeThread, Idle, Busy, Holds, Doing
  <2> QED
    BY <1>10, <1>1, <2>1 DEF UsedIsAlive, Doing
<1>6. ASSUME NEW s \in Slot, Clears(s)
      PROVE  UsedIsAlive'
  <2>1. /\ \A r \in Slot \ {s} : station'[r].engine = station[r].engine
        /\ alive' = alive /\ daemon'.engine = station[s].engine /\ station[s].engine # NoEngine
        /\ \A b \in Client : /\ Doing(b)' <=> Doing(b)
                             /\ Holds(b)' <=> Holds(b)
                             /\ Doing(b) \/ Holds(b) => thread'[b] = thread[b]
    BY <1>1, <1>6 DEF Clears, SameEngines, SameThreads, ElseEntries, AlikeEntry, AlikeThread,
                      Idle, Busy, Holds, Doing, Shape
  <2>2. \A b \in Client : Holds(b) => thread[b].slot # s
    BY <1>1, <1>6, NoUsers DEF Clears
  <2> QED
    BY <1>10, <1>1, <2>1, <2>2 DEF UsedIsAlive, Doing, OwnersNow
<1>7. ASSUME NEW c \in Client, NEW s \in Slot, Joins(c, s)
      PROVE  UsedIsAlive'
  <2>1. /\ \A r \in Slot : station'[r].engine = station[r].engine
        /\ ~Doing(c)' /\ alive' = alive /\ daemon'.engine = daemon.engine
        /\ station[s].engine # NoEngine
        /\ thread'[c].slot = s /\ thread'[c].engine = station[s].engine
        /\ \A b \in Client \ {c} : /\ Doing(b)' <=> Doing(b)
                                   /\ Holds(b)' <=> Holds(b)
                                   /\ Doing(b) \/ Holds(b) => thread'[b] = thread[b]
    BY <1>1, <1>7 DEF Joins, SameEngines, ElseEntries, ElseThreads, AlikeEntry, AlikeThread,
                Idle, Busy, Holds, Doing, Shape
  <2>2. /\ station[s].engine \in alive /\ daemon.engine # station[s].engine
        /\ \A b \in Client : Doing(b) => thread[b].engine # station[s].engine
    BY <1>1, <2>1 DEF OwnersNow
  <2> QED
    BY <1>10, <1>1, <2>1, <2>2 DEF UsedIsAlive, Doing
<1>8. ASSUME NEW c \in Client, NEW s \in Slot, Takes(c, s)
      PROVE  UsedIsAlive'
  <2>1. /\ \A r \in Slot \ {s} : station'[r].engine = station[r].engine
        /\ alive' = alive /\ daemon'.engine = daemon.engine /\ station[s].engine # NoEngine
        /\ ~Holds(c)' /\ thread'[c].engine = station[s].engine
        /\ \A b \in Client \ {c} : /\ Doing(b)' <=> Doing(b)
                                   /\ Holds(b)' <=> Holds(b)
                                   /\ Doing(b) \/ Holds(b) => thread'[b] = thread[b]
    BY <1>1, <1>8 DEF Takes, SameEngines, ElseEntries, ElseThreads, AlikeEntry, AlikeThread,
                      Idle, Busy, Holds, Doing, Shape
  <2>2. \A b \in Client : Holds(b) => thread[b].slot # s
    BY <1>1, <1>8, NoUsers DEF Takes
  <2>3. \A b \in Client : Holds(b) => thread[b].engine # station[s].engine
    BY <1>10, <1>1, <2>1, <2>2 DEF UsedIsAlive, OwnersNow
  <2> QED
    BY <1>10, <1>1, <2>1, <2>2, <2>3 DEF UsedIsAlive, Doing
<1>9. ASSUME NEW c \in Client, NEW k \in Key, NEW s \in Slot, Founds(c, k, s)
      PROVE  UsedIsAlive'
  <2>1. /\ station[s].engine = NoEngine /\ station'[s].engine = created'
        /\ \A r \in Slot \ {s} : station'[r].engine = station[r].engine
        /\ alive' = alive \cup {created'} /\ daemon'.engine = daemon.engine
        /\ ~Doing(c)' /\ thread'[c].slot = s /\ thread'[c].engine = created'
        /\ \A b \in Client \ {c} : /\ Doing(b)' <=> Doing(b)
                                   /\ Holds(b)' <=> Holds(b)
                                   /\ Doing(b) \/ Holds(b) => thread'[b] = thread[b]
    BY <1>1, <1>9 DEF Founds, ElseEntries, ElseThreads, AlikeEntry, AlikeThread,
                      Idle, Busy, Holds, Doing, Shape
  <2>2. created' # NoEngine /\ created' \notin alive
    BY <1>1, <1>9, RegistryAssumption DEF Founds, EngineType, NoEngine
  <2>3. /\ daemon.engine # created'
        /\ \A b \in Client : Doing(b) => thread[b].engine # created'
    BY <1>1, <2>2 DEF OwnersNow
  <2>4. \A b \in Client : Holds(b) => thread[b].slot # s
    BY <1>1, <1>11, <2>1 DEF UsedIsAlive
  <2> QED
    BY <1>10, <1>1, <2>1, <2>2, <2>3, <2>4 DEF UsedIsAlive, Doing
<1> QED
  BY <1>2, <1>3, <1>4, <1>5, <1>6, <1>7, <1>8, <1>9 DEF Kinds

LEMMA KeyNext ==
  ASSUME RegistryInv, Kinds
  PROVE  OneEntryPerKey'
<1>1. OneEntryPerKey
  BY DEF RegistryInv
<1>2. CASE \A s \in Slot : station'[s].key = station[s].key
  BY <1>1, <1>2 DEF OneEntryPerKey, InUse
<1>3. ASSUME NEW s \in Slot, station'[s].key = NoKey,
             \A r \in Slot \ {s} : station'[r].key = station[r].key
      PROVE  OneEntryPerKey'
  BY <1>1, <1>3 DEF OneEntryPerKey, InUse
<1>4. ASSUME NEW c \in Client, NEW k \in Key, NEW s \in Slot, Founds(c, k, s)
      PROVE  OneEntryPerKey'
  BY <1>1, <1>4 DEF OneEntryPerKey, InUse, Founds, ElseEntries, AlikeEntry
<1>5. ASSUME NEW s \in Slot, station'[s] = EmptyEntry, ElseEntries(s)
      PROVE  OneEntryPerKey'
  BY <1>3, <1>5 DEF EmptyEntry, ElseEntries, AlikeEntry
<1>6. ASSUME Quiet \/ Frees \/ (\E c \in Client : Parts(c) \/ Destroys(c))
             \/ (\E c \in Client, s \in Slot : Joins(c, s))
      PROVE  OneEntryPerKey'
  BY <1>2, <1>6 DEF Quiet, Frees, Parts, Destroys, Joins, SameTable, ElseEntries, AlikeEntry
<1> QED
  BY <1>4, <1>5, <1>6 DEF Kinds, Clears, Takes

LEMMA RegistryInit == Init => RegistryInv
<1> SUFFICES ASSUME Init PROVE RegistryInv
  OBVIOUS
<1>1. Typed
  BY TypeInit
<1>2. \A s \in Slot : Users(s) = {} /\ station[s] = EmptyEntry
  BY DEF Init, Users, Holds, NoThread
<1>3. CountIsUsers
  BY <1>2, FS_EmptySet DEF CountIsUsers, EmptyEntry
<1>4. UsedIsAlive
  BY DEF Init, UsedIsAlive, Holds, NoThread
<1>5. OneOwner
  BY <1>2, Owners DEF Init, Doing, NoThread, EmptyEntry
<1>6. OneEntryPerKey
  BY <1>2 DEF OneEntryPerKey, InUse, EmptyEntry
<1> QED
  BY <1>1, <1>3, <1>4, <1>5, <1>6 DEF RegistryInv

LEMMA RegistryNext == RegistryInv /\ [Next]_vars => RegistryInv'
<1> SUFFICES ASSUME RegistryInv, [Next]_vars PROVE RegistryInv'
  OBVIOUS
<1>1. Typed' /\ Kinds
  BY TypeNext, KindNext DEF RegistryInv
<1> QED
  BY <1>1, CountNext, UsedNext, OwnerNext, KeyNext DEF RegistryInv

\* The count of a station is the number of commands that run on it, though
\* entries are cleared and handed out again under removals that still wait.
THEOREM CountsAreUsers == Spec => []CountIsUsers
<1>1. RegistryInv => CountIsUsers
  BY DEF RegistryInv
<1> QED
  BY RegistryInit, RegistryNext, <1>1, PTL DEF Spec

\* No command ever runs on an engine that is freed or about to be.
THEOREM UsedEnginesLive == Spec => []UsedIsAlive
<1>1. RegistryInv => UsedIsAlive
  BY DEF RegistryInv
<1> QED
  BY RegistryInit, RegistryNext, <1>1, PTL DEF Spec

\* No engine is lost and none is freed twice.
THEOREM EnginesHaveOneOwner == Spec => []OneOwner
<1>1. RegistryInv => OneOwner
  BY DEF RegistryInv
<1> QED
  BY RegistryInit, RegistryNext, <1>1, PTL DEF Spec

\* A key names at most one station, whoever creates and removes it.
THEOREM KeysAreDistinct == Spec => []OneEntryPerKey
<1>1. RegistryInv => OneEntryPerKey
  BY DEF RegistryInv
<1> QED
  BY RegistryInit, RegistryNext, <1>1, PTL DEF Spec

-----------------------------------------------------------------------------
(* The life of an engine *)

Phase(e) == IF e > created THEN "new"
            ELSE IF e \in Listed THEN "open"
            ELSE IF e \in alive THEN "closed" ELSE "freed"
Usage(e) == {c \in Client : Holds(c) /\ thread[c].engine = e}

\* What the promise asks for, said of one engine at a time.
LEMMA LifeStep ==
  ASSUME \/ \A e \in Engine : Phase(e)' = Phase(e) /\ Usage(e)' = Usage(e)
         \/ \E x \in Engine :
              /\ \A e \in Engine \ {x} : Phase(e)' = Phase(e) /\ Usage(e)' = Usage(e)
              /\ \/ /\ Phase(x) = "open" /\ Phase(x)' = "open"
                    /\ \E c \in Client : \/ Usage(x)' = Usage(x) \cup {c}
                                         \/ Usage(x)' = Usage(x) \ {c}
                 \/ /\ Phase(x) = "new" /\ Phase(x)' = "open"
                    /\ \E c \in Client : Usage(x)' = {c}
                 \/ /\ Phase(x) = "open" /\ Phase(x)' = "closed"
                    /\ Usage(x) = {} /\ Usage(x)' = {}
                 \/ /\ Phase(x) = "closed" /\ Phase(x)' = "freed"
                    /\ Usage(x)' = Usage(x)
  PROVE  [Life!LifeNext]_(Life!lvars)
<1> DEFINE P == [e \in Engine |-> Phase(e)]
           U == [e \in Engine |-> Usage(e)]
<1>1. CASE \A e \in Engine : Phase(e)' = Phase(e) /\ Usage(e)' = Usage(e)
  <2>1. P' = P /\ U' = U
    BY <1>1
  <2> QED
    BY <2>1 DEF Life!lvars, Phase, Usage
<1>2. ASSUME NEW x \in Engine,
             \A e \in Engine \ {x} : Phase(e)' = Phase(e) /\ Usage(e)' = Usage(e)
      PROVE  /\ P' = [P EXCEPT ![x] = Phase(x)']
             /\ U' = [U EXCEPT ![x] = Usage(x)']
  BY <1>2
<1>3. ASSUME NEW x \in Engine, NEW c \in Client,
             \A e \in Engine \ {x} : Phase(e)' = Phase(e) /\ Usage(e)' = Usage(e),
             Phase(x) = "open", Phase(x)' = "open",
             Usage(x)' = Usage(x) \cup {c} \/ Usage(x)' = Usage(x) \ {c}
      PROVE  Life!LifeNext
  <2>1. P[x] = "open" /\ P' = P
    BY <1>3
  <2>2. U' = [U EXCEPT ![x] = @ \cup {c}] \/ U' = [U EXCEPT ![x] = @ \ {c}]
    BY <1>2, <1>3
  <2>3. Life!Enter(x, c) \/ Life!Leave(x, c)
    BY <2>1, <2>2 DEF Life!Enter, Life!Leave, Phase, Usage
  <2> QED
    BY <2>3 DEF Life!LifeNext
<1>4. ASSUME NEW x \in Engine, NEW c \in Client,
             \A e \in Engine \ {x} : Phase(e)' = Phase(e) /\ Usage(e)' = Usage(e),
             Phase(x) = "new", Phase(x)' = "open", Usage(x)' = {c}
      PROVE  Life!LifeNext
  <2>1. P[x] = "new" /\ P' = [P EXCEPT ![x] = "open"] /\ U' = [U EXCEPT ![x] = {c}]
    BY <1>2, <1>4
  <2>2. Life!Open(x, c)
    BY <2>1 DEF Life!Open, Phase, Usage
  <2> QED
    BY <2>2 DEF Life!LifeNext
<1>5. ASSUME NEW x \in Engine,
             \A e \in Engine \ {x} : Phase(e)' = Phase(e) /\ Usage(e)' = Usage(e),
             Phase(x) = "open", Phase(x)' = "closed", Usage(x) = {}, Usage(x)' = {}
      PROVE  Life!LifeNext
  <2>1. P[x] = "open" /\ U[x] = {} /\ P' = [P EXCEPT ![x] = "closed"] /\ U' = U
    BY <1>2, <1>5
  <2>2. Life!Close(x)
    BY <2>1 DEF Life!Close, Phase, Usage
  <2> QED
    BY <2>2 DEF Life!LifeNext
<1>6. ASSUME NEW x \in Engine,
             \A e \in Engine \ {x} : Phase(e)' = Phase(e) /\ Usage(e)' = Usage(e),
             Phase(x) = "closed", Phase(x)' = "freed", Usage(x)' = Usage(x)
      PROVE  Life!LifeNext
  <2>1. P[x] = "closed" /\ P' = [P EXCEPT ![x] = "freed"] /\ U' = U
    BY <1>2, <1>6
  <2>2. Life!Free(x)
    BY <2>1 DEF Life!Free, Phase, Usage
  <2> QED
    BY <2>2 DEF Life!LifeNext
<1> QED
  BY <1>1, <1>3, <1>4, <1>5, <1>6

\* How phase and use of an engine follow from the table and the threads.
LEMMA PhaseAlike ==
  ASSUME NEW e, created' = created, e \in Listed <=> e \in Listed', e \in alive <=> e \in alive'
  PROVE  Phase(e)' = Phase(e)
BY DEF Phase

LEMMA UsageAlike ==
  ASSUME \A b \in Client : (Holds(b)' <=> Holds(b)) /\ (Holds(b) => thread'[b] = thread[b]),
         NEW e
  PROVE  Usage(e)' = Usage(e)
BY DEF Usage, Holds

LEMMA PromiseNext ==
  ASSUME RegistryInv, Kinds
  PROVE  [Life!LifeNext]_(Life!lvars)
<1>1. /\ EngineType /\ DaemonType /\ StationType /\ ThreadType /\ Shape
      /\ OwnersNow /\ UsedIsAlive /\ CountIsUsers
  BY TypeParts, Owners DEF RegistryInv, Typed, OwnersNow
<1>2. \A e \in alive : e \in Engine /\ ~(e > created)
  BY <1>1, RegistryAssumption DEF EngineType, Engine
<1>3. ASSUME NEW s \in Slot, InUse(s)
      PROVE  /\ station[s].engine \in Engine /\ station[s].engine \in alive
             /\ Phase(station[s].engine) = "open"
  <2>1. station[s].engine \in alive /\ station[s].engine \in Listed
    BY <1>1, <1>3 DEF Shape, OwnersNow, Listed
  <2> QED
    BY <1>2, <2>1 DEF Phase
<1>4. CASE Quiet
  <2>1. \A e : Phase(e)' = Phase(e)
    BY <1>4, PhaseAlike DEF Quiet, SameTable, SameEngines, AlikeEntry, Listed
  <2>2. \A e : Usage(e)' = Usage(e)
    BY <1>4, UsageAlike DEF Quiet, SameThreads, AlikeThread, Idle, Busy, Holds, Doing
  <2> QED
    BY <2>1, <2>2, LifeStep
<1>5. ASSUME NEW x \in alive, x \notin Listed, created' = created, alive' = alive \ {x},
             SameTable, \A e : Usage(e)' = Usage(e)
      PROVE  [Life!LifeNext]_(Life!lvars)
  <2>1. \A e : e \in Listed' <=> e \in Listed
    BY <1>5 DEF SameTable, AlikeEntry, Listed
  <2>2. \A e \in Engine \ {x} : Phase(e)' = Phase(e)
    BY <1>5, <2>1, PhaseAlike
  <2>3. Phase(x) = "closed" /\ Phase(x)' = "freed"
    BY <1>2, <1>5, <2>1 DEF Phase
  <2> QED
    BY <1>2, <1>5, <2>2, <2>3, LifeStep
<1>6. CASE Frees
  <2>1. \A e : Usage(e)' = Usage(e)
    BY <1>6, UsageAlike DEF Frees, SameThreads, AlikeThread, Idle, Busy, Holds, Doing
  <2>2. CASE daemon.engine = NoEngine
    <3>1. alive' = alive
      BY <1>1, <1>6, <2>2 DEF Frees, OwnersNow
    <3>2. \A e : Phase(e)' = Phase(e)
      BY <1>6, <3>1, PhaseAlike DEF Frees, SameTable, AlikeEntry, Listed
    <3> QED
      BY <2>1, <3>2, LifeStep
  <2>3. CASE daemon.engine # NoEngine
    <3>1. daemon.engine \in alive /\ daemon.engine \notin Listed
      BY <1>1, <2>3 DEF OwnersNow, Listed
    <3> QED
      BY <1>5, <1>6, <2>1, <3>1 DEF Frees
  <2> QED
    BY <2>2, <2>3
<1>7. ASSUME NEW c \in Client, Destroys(c)
      PROVE  [Life!LifeNext]_(Life!lvars)
  <2>1. \A e : Usage(e)' = Usage(e)
    BY <1>7, UsageAlike DEF Destroys, ElseThreads, AlikeThread, Idle, Busy, Holds, Doing
  <2>2. thread[c].engine \in alive /\ thread[c].engine \notin Listed
    BY <1>1, <1>7 DEF Destroys, OwnersNow, Listed, Shape
  <2> QED
    BY <1>5, <1>7, <2>1, <2>2 DEF Destroys
<1>8. ASSUME NEW c \in Client, Parts(c)
      PROVE  [Life!LifeNext]_(Life!lvars)
  <2>1. \A e : Phase(e)' = Phase(e)
    BY <1>8, PhaseAlike DEF Parts, ElseEntries, SameEngines, AlikeEntry, Listed
  <2>2. ASSUME NEW x, x = thread[c].engine
        PROVE  Usage(x)' = Usage(x) \ {c} /\ \A e : e # x => Usage(e)' = Usage(e)
    BY <1>8, <2>2 DEF Parts, ElseThreads, AlikeThread, Idle, Busy, Holds, Doing, Usage
  <2>3. thread[c].engine \in Engine /\ Phase(thread[c].engine) = "open"
    <3>1. Holds(c) /\ thread[c].slot \in Slot
      BY <1>8 DEF Parts
    <3>2. thread[c].engine \in alive /\ thread[c].engine \in Listed
      BY <1>1, <3>1 DEF UsedIsAlive, Listed
    <3> QED
      BY <1>2, <3>2 DEF Phase
  <2>4. ASSUME NEW x \in Engine, x = thread[c].engine
        PROVE  [Life!LifeNext]_(Life!lvars)
    BY <2>1, <2>2, <2>3, <2>4, LifeStep
  <2> QED
    BY <2>3, <2>4
<1>9. ASSUME NEW c \in Client, NEW s \in Slot, Joins(c, s)
      PROVE  [Life!LifeNext]_(Life!lvars)
  <2>1. \A e : Phase(e)' = Phase(e)
    BY <1>9, PhaseAlike DEF Joins, ElseEntries, SameEngines, AlikeEntry, Listed
  <2>2. ASSUME NEW x \in Engine, x = station[s].engine
        PROVE  [Life!LifeNext]_(Life!lvars)
    <3>1. Usage(x)' = Usage(x) \cup {c} /\ \A e : e # x => Usage(e)' = Usage(e)
      BY <1>9, <2>2 DEF Joins, ElseThreads, AlikeThread, Idle, Busy, Holds, Doing, Usage
    <3>2. Phase(x) = "open"
      BY <1>3, <1>9, <2>2 DEF Joins
    <3> QED
      BY <2>1, <3>1, <3>2, LifeStep
  <2> QED
    BY <1>3, <1>9, <2>2 DEF Joins
<1>10. ASSUME NEW s \in Slot, NEW x \in Engine, x = station[s].engine,
              InUse(s), station[s].refs = 0, station'[s] = EmptyEntry,
              ElseEntries(s), SameEngines, \A e : Usage(e)' = Usage(e)
       PROVE  [Life!LifeNext]_(Life!lvars)
  <2>1. \A b \in Client : Holds(b) => thread[b].engine # x
    <3>1. \A b \in Client : Holds(b) => thread[b].slot \in Slot \ {s}
      BY <1>1, <1>10, NoUsers DEF Shape, Holds
    <3> QED
      BY <1>1, <1>10, <3>1 DEF UsedIsAlive, OwnersNow, Shape
  <2>2. Usage(x) = {} /\ Usage(x)' = {}
    BY <1>10, <2>1 DEF Usage
  <2>3. Phase(x) = "open" /\ x \in alive /\ x # NoEngine
    BY <1>1, <1>3, <1>10 DEF Shape
  <2>4. x \notin Listed'
    BY <1>1, <1>10, <2>3 DEF Listed, ElseEntries, AlikeEntry, EmptyEntry, OwnersNow
  <2>5. Phase(x)' = "closed"
    BY <1>2, <1>10, <2>3, <2>4 DEF Phase, SameEngines
  <2>6. \A e \in Engine \ {x} : e \in Listed' <=> e \in Listed
    BY <1>10, RegistryAssumption DEF Listed, ElseEntries, AlikeEntry, EmptyEntry, NoEngine, Engine
  <2>7. \A e \in Engine \ {x} : Phase(e)' = Phase(e)
    BY <1>10, <2>6, PhaseAlike DEF SameEngines
  <2> QED
    BY <1>10, <2>2, <2>3, <2>5, <2>7, LifeStep
<1>11. ASSUME NEW s \in Slot, Clears(s)
       PROVE  [Life!LifeNext]_(Life!lvars)
  <2>1. \A e : Usage(e)' = Usage(e)
    BY <1>11, UsageAlike DEF Clears, SameThreads, AlikeThread, Idle, Busy, Holds, Doing
  <2> QED
    BY <1>3, <1>10, <1>11, <2>1 DEF Clears
<1>12. ASSUME NEW c \in Client, NEW s \in Slot, Takes(c, s)
       PROVE  [Life!LifeNext]_(Life!lvars)
  <2>1. \A e : Usage(e)' = Usage(e)
    BY <1>12, UsageAlike DEF Takes, ElseThreads, AlikeThread, Idle, Busy, Holds, Doing
  <2> QED
    BY <1>3, <1>10, <1>12, <2>1 DEF Takes
<1>13. ASSUME NEW c \in Client, NEW k \in Key, NEW s \in Slot, Founds(c, k, s)
       PROVE  [Life!LifeNext]_(Life!lvars)
  <2>1. ASSUME NEW x \in Engine, x = created'
        PROVE  [Life!LifeNext]_(Life!lvars)
    <3>1. x = created + 1 /\ created \in Nat
      BY <1>1, <1>13, <2>1, RegistryAssumption DEF Founds, EngineType
    <3>2. /\ station[s].engine = NoEngine /\ station'[s].engine = x
          /\ \A r \in Slot \ {s} : station'[r].engine = station[r].engine
          /\ alive' = alive \cup {x}
      BY <1>1, <1>13, <2>1 DEF Founds, Shape, ElseEntries, AlikeEntry
    <3>3. Phase(x) = "new" /\ Phase(x)' = "open"
      BY <2>1, <3>1, <3>2 DEF Phase, Listed
    <3>4. \A e \in Engine \ {x} : e \in Listed' <=> e \in Listed
      BY <3>2, RegistryAssumption DEF Listed, NoEngine, Engine
    <3>5. \A e \in Engine \ {x} : Phase(e)' = Phase(e)
      BY <2>1, <3>1, <3>2, <3>4, RegistryAssumption DEF Phase, Engine
    <3>6. x \notin alive
      BY <1>1, <3>1 DEF EngineType
    <3>7. Usage(x) = {}
      BY <1>1, <3>6 DEF Usage, UsedIsAlive
    <3>8. Usage(x)' = Usage(x) \cup {c} /\ \A e : e # x => Usage(e)' = Usage(e)
      BY <1>13, <2>1 DEF Founds, ElseThreads, AlikeThread, Idle, Busy, Holds, Doing, Usage
    <3> QED
      BY <3>3, <3>5, <3>7, <3>8, LifeStep
  <2> QED
    BY <1>1, <1>13, <2>1, RegistryAssumption DEF Founds, EngineType, Engine
<1> QED
  BY <1>4, <1>6, <1>7, <1>8, <1>9, <1>11, <1>12, <1>13 DEF Kinds

\* The daemon implements the life of an engine: it is used only between its
\* creation and its end, and ends only when nobody uses it.
THEOREM DaemonKeepsPromise == Spec => LifePromise
<1>1. Init => Life!LifeInit
  <2> SUFFICES ASSUME Init PROVE Life!LifeInit
    OBVIOUS
  <2>1. \A e \in Engine : e > created
    BY RegistryAssumption DEF Init, Engine
  <2>2. \A c \in Client : ~Holds(c)
    BY DEF Init, Holds, NoThread
  <2> QED
    BY <2>1, <2>2 DEF Life!LifeInit
<1>2. RegistryInv /\ [Next]_vars => [Life!LifeNext]_(Life!lvars)
  BY KindNext, PromiseNext DEF RegistryInv
<1> QED
  BY RegistryInit, RegistryNext, <1>1, <1>2, PTL DEF Spec, LifePromise, Life!LifeSpec

-----------------------------------------------------------------------------
(* The shutdown *)

Final == {"clearing", "freeing", "gone"}

\* Only registered connections run commands; a closed daemon registers none, so
\* the table, once it is being cleared, stays clear.
ShutInv ==
  /\ \A c \in Client : thread[c].at \in {"none", "accepted"} \/ c \in connected
  /\ daemon.at \in {"closing", "emptying"} \cup Final => daemon.closing
  /\ daemon.at \in Final => connected = {}
  /\ daemon.at = "clearing" => daemon.slot > 0 /\ \A s \in Slot : s < daemon.slot => ~InUse(s)
  /\ daemon.at = "freeing" => \A s \in Slot : s <= daemon.slot => ~InUse(s)
  /\ daemon.at = "gone" => \A s \in Slot : ~InUse(s)

LEMMA ShutInit == Init => ShutInv
BY DEF Init, ShutInv, NoThread, Final

\* A thread at work is registered, so nothing is being cleared.
LEMMA ShutThread ==
  ASSUME Typed, ShutInv, NEW c \in Client, Connection(c) \/ Command(c) \/ Proceed(c)
  PROVE  ShutInv'
<1>1. ThreadType /\ DaemonType /\ daemon' = daemon
  BY TypeParts DEF Typed, Connection, Accept, Connect, TurnAway, Disconnect, Command, Acquire,
     Create, RemoveNow, RemoveLater, StopAll, Proceed, Release, RemoveResume, Destroy,
     StopEntry, SkipEntry, StoppedEntry, StoppedAll
<1>2. \A b \in Client \ {c} : thread'[b] = thread[b]
  BY <1>1 DEF Connection, Accept, Connect, TurnAway, Disconnect, Command, Acquire, Create,
     RemoveNow, RemoveLater, StopAll, Proceed, Release, RemoveResume, Destroy, StopEntry,
     SkipEntry, StoppedEntry, StoppedAll, Enter, Walk, Take, ThreadType
<1>3. CASE Connection(c)
  <2>1. station' = station
    BY <1>3 DEF Connection, Accept, Connect, TurnAway, Disconnect
  <2>2. \/ thread'[c].at \in {"none", "accepted"} /\ connected' = connected
        \/ thread'[c].at = "none" /\ connected' = connected \ {c}
        \/ connected' = connected \cup {c} /\ ~daemon.closing
    BY <1>1, <1>3 DEF Connection, Accept, Connect, TurnAway, Disconnect, Admitted, NoThread,
       ThreadType
  <2> QED
    BY <1>1, <1>2, <2>1, <2>2 DEF ShutInv, InUse, Final
<1>4. CASE Command(c) \/ Proceed(c)
  <2>1. thread[c].at \notin {"none", "accepted"} /\ connected' = connected
    BY <1>4 DEF Command, Acquire, Create, RemoveNow, RemoveLater, StopAll, Proceed, Release,
       RemoveResume, Destroy, StopEntry, SkipEntry, StoppedEntry, StoppedAll
  <2>2. c \in connected /\ daemon.at \notin Final
    BY <2>1 DEF ShutInv
  <2> QED
    BY <1>1, <1>2, <2>1, <2>2 DEF ShutInv, Final
<1> QED
  BY <1>3, <1>4

LEMMA ShutDaemon ==
  ASSUME Typed, ShutInv, Stop \/ Shutdown
  PROVE  ShutInv'
<1>1. StationType /\ DaemonType /\ Shape
  BY TypeParts DEF Typed
<1>2. thread' = thread /\ connected' = connected
  BY DEF Stop, Shutdown, LeaveLoop, ShutdownClients, Drained, CloseDaemon, ClearEntry,
         FreeEntry, Exit
<1>3. CASE Stop \/ LeaveLoop \/ ShutdownClients \/ CloseDaemon
  <2>1. station' = station
    BY <1>3 DEF Stop, LeaveLoop, ShutdownClients, CloseDaemon
  <2>2. \/ /\ daemon'.at = daemon.at /\ daemon'.closing = daemon.closing
           /\ daemon'.slot = daemon.slot
        \/ daemon'.at \in {"leaving", "draining"}
        \/ daemon'.at \in {"closing", "emptying"} /\ daemon'.closing
    BY <1>1, <1>3 DEF Stop, LeaveLoop, ShutdownClients, CloseDaemon, DaemonType, ShutInv
  <2> QED
    BY <1>2, <2>1, <2>2 DEF ShutInv, InUse, Final
<1>4. CASE Drained
  <2>1. station' = station /\ connected = {}
    BY <1>4 DEF Drained
  <2>2. \/ daemon'.at = "drained"
        \/ daemon'.at = "clearing" /\ daemon'.slot = 1 /\ daemon'.closing
    BY <1>1, <1>4 DEF Drained, DaemonType, ShutInv
  <2> QED
    BY <1>2, <2>1, <2>2, Constants DEF ShutInv, InUse, Final, Slot
<1>5. CASE ClearEntry
  <2> DEFINE s == daemon.slot
  <2>1. /\ s \in Slot /\ daemon.at = "clearing"
        /\ daemon.closing /\ connected = {} /\ \A r \in Slot : r < s => ~InUse(r)
    BY <1>5 DEF ClearEntry, ShutInv, Final
  <2>2. \A r \in Slot \ {s} : station'[r] = station[r]
    BY <1>1, <1>5 DEF ClearEntry, StationType
  <2>3. CASE InUse(s) /\ station[s].refs > 0
    BY <1>1, <1>2, <1>5, <2>1, <2>2, <2>3, Constants DEF ClearEntry, ShutInv, InUse, Final
  <2>4. CASE ~(InUse(s) /\ station[s].refs > 0)
    <3>1. daemon'.at = "freeing" /\ daemon'.slot = s /\ daemon'.closing
      BY <1>1, <1>5, <2>1, <2>4 DEF ClearEntry, DaemonType
    <3>2. station'[s].key = NoKey
      BY <1>1, <1>5, <2>1, <2>4 DEF ClearEntry, StationType, InUse, EmptyEntry
    <3>3. \A r \in Slot : r <= s /\ r # s => r < s
      BY <2>1, RegistryAssumption DEF Slot
    <3> QED
      BY <1>2, <2>1, <2>2, <3>1, <3>2, <3>3 DEF ShutInv, InUse, Final
  <2> QED
    BY <2>3, <2>4
<1>6. CASE FreeEntry
  <2>1. /\ daemon'.at = "clearing" /\ daemon'.slot = daemon.slot + 1
        /\ daemon'.closing = daemon.closing /\ station' = station
        /\ daemon.at = "freeing" /\ daemon.slot \in Slot
    BY <1>1, <1>6 DEF FreeEntry, DaemonType, Shape
  <2>2. daemon.slot + 1 > 0 /\ \A r \in Slot : r < daemon.slot + 1 => r <= daemon.slot
    BY <2>1, RegistryAssumption DEF Slot
  <2> QED
    BY <1>2, <2>1, <2>2 DEF ShutInv, InUse, Final
<1>7. CASE Exit
  <2>1. /\ daemon'.at = "gone" /\ daemon'.closing = daemon.closing /\ station' = station
        /\ daemon.at = "clearing" /\ daemon.slot \in 0 .. MaxStations + 1 /\ daemon.slot \notin Slot
    BY <1>1, <1>7 DEF Exit, DaemonType
  <2>2. \A r \in Slot : r < daemon.slot
    BY <2>1, RegistryAssumption DEF Slot, ShutInv
  <2> QED
    BY <1>2, <2>1, <2>2 DEF ShutInv, InUse, Final
<1> QED
  BY <1>3, <1>4, <1>5, <1>6, <1>7 DEF Shutdown

LEMMA ShutNext == RegistryInv /\ ShutInv /\ [Next]_vars => ShutInv'
<1> SUFFICES ASSUME RegistryInv, ShutInv, [Next]_vars PROVE ShutInv'
  OBVIOUS
<1>1. CASE UNCHANGED vars
  BY <1>1 DEF vars, ShutInv, InUse
<1> QED
  BY <1>1, ShutThread, ShutDaemon DEF RegistryInv, Next

LEMMA ShutOrder == RegistryInv /\ ShutInv => ShutdownInOrder
<1> SUFFICES ASSUME RegistryInv, ShutInv, daemon.at \in Final
             PROVE  /\ \A c \in Client : ~Holds(c)
                    /\ daemon.at = "gone" => alive = {}
  BY DEF ShutdownInOrder, Final
<1>1. \A c \in Client : ~Holds(c) /\ ~Doing(c)
  BY DEF ShutInv, Holds, Doing
<1>2. CASE daemon.at = "gone"
  <2>1. daemon.engine = NoEngine /\ \A s \in Slot : station[s].engine = NoEngine
    BY <1>2 DEF RegistryInv, Typed, Shape, ShutInv
  <2> QED
    BY <1>1, <2>1, Owners DEF RegistryInv
<1> QED
  BY <1>1, <1>2

\* No command runs while the table is cleared, and no engine is left at the end.
THEOREM ShutdownIsOrderly == Spec => []ShutdownInOrder
BY RegistryInit, RegistryNext, ShutInit, ShutNext, ShutOrder, PTL DEF Spec
=============================================================================
