-------------------------- MODULE StationRegistry --------------------------
(***************************************************************************)
(* The native daemon: the table of stations, the connections that use it   *)
(* and the shutdown (native_engine/src/daemon.c, main.c).                  *)
(*                                                                         *)
(* Every connection has a thread that runs one command at a time.  A step  *)
(* is what a thread does while it holds daemon->lock, or the freeing of an *)
(* engine, which it does without.  A command that runs on a station keeps  *)
(* it by a reference count; a removal waits for the count to be zero.      *)
(* What a command does to its station is DeckEngine's business.            *)
(***************************************************************************)
EXTENDS Naturals, FiniteSets

CONSTANTS
  Client,        \* the file descriptors of connections
  Key, NoKey,    \* station keys
  MaxStations,   \* WB_NATIVE_STATION_MAX
  MaxClients,    \* WB_NATIVE_CLIENT_MAX
  MaxCreated,    \* bound: engines created in a behaviour
  AcceptErrors   \* whether accept() may fail, which ends the accept loop

ASSUME RegistryAssumption ==
  /\ IsFiniteSet(Client)
  /\ NoKey \notin Key
  /\ MaxStations \in Nat \ {0} /\ MaxClients \in Nat /\ MaxCreated \in Nat
  /\ AcceptErrors \in BOOLEAN

Slot == 1 .. MaxStations
Engine == 1 .. MaxCreated
NoEngine == 0

VARIABLES
  station,    \* daemon->stations; an entry is in use when it has a key
  created,    \* stations_created_total, which also names the engines
  alive,      \* the engines that are allocated
  connected,  \* client_fds
  thread,     \* of each connection: where its thread is, and its locals
  ending,     \* connections whose receive loop will see its end
  daemon      \* the main thread, stop_requested and shutting_down

vars == <<station, created, alive, connected, thread, ending, daemon>>

EmptyEntry == [key |-> NoKey, engine |-> NoEngine, removing |-> FALSE, refs |-> 0]

NoThread == [at |-> "none", key |-> NoKey, slot |-> 0, engine |-> NoEngine]
Reading == [NoThread EXCEPT !.at = "reading"]

Init ==
  /\ station = [s \in Slot |-> EmptyEntry]
  /\ created = 0 /\ alive = {}
  /\ connected = {} /\ ending = {}
  /\ thread = [c \in Client |-> NoThread]
  /\ daemon = [at |-> "accepting", slot |-> 0, engine |-> NoEngine,
               stopping |-> FALSE, closing |-> FALSE]

InUse(s) == station[s].key # NoKey
Holds(c) == thread[c].at \in {"using", "stopping"}
Users(s) == {c \in Client : Holds(c) /\ thread[c].slot = s}

\* The first free entry of the table, if there is one.
Vacant(s) == ~InUse(s) /\ \A r \in Slot : ~InUse(r) => s <= r

-----------------------------------------------------------------------------
(* Connections *)

Accept(c) ==
  /\ daemon.at = "accepting" /\ thread[c].at = "none"
  /\ thread' = [thread EXCEPT ![c].at = "accepted"]
  /\ UNCHANGED <<station, created, alive, connected, ending, daemon>>

\* Mutant: a closed daemon takes connections.
AdmittedLate(c) == Cardinality(connected) < MaxClients

Admitted(c) == ~daemon.closing /\ Cardinality(connected) < MaxClients

\* The thread registers its connection.  It looks at stop_requested before it
\* waits for a command.
Connect(c) ==
  /\ thread[c].at = "accepted" /\ daemon.at # "gone"
  /\ Admitted(c)
  /\ connected' = connected \cup {c}
  /\ thread' = [thread EXCEPT ![c] = Reading]
  /\ ending' = IF daemon.stopping THEN ending \cup {c} ELSE ending
  /\ UNCHANGED <<station, created, alive, daemon>>

TurnAway(c) ==
  /\ thread[c].at = "accepted" /\ daemon.at # "gone"
  /\ ~Admitted(c)
  /\ thread' = [thread EXCEPT ![c] = NoThread]
  /\ UNCHANGED <<station, created, alive, connected, ending, daemon>>

\* The peer went away, an answer could not be sent, or the loop ended.
Disconnect(c) ==
  /\ thread[c].at = "reading"
  /\ connected' = connected \ {c} /\ ending' = ending \ {c}
  /\ thread' = [thread EXCEPT ![c] = NoThread]
  /\ UNCHANGED <<station, created, alive, daemon>>

-----------------------------------------------------------------------------
(* Commands that run on a station; create_station has the same shape *)

Retain(s) == station' = [station EXCEPT ![s].refs = @ + 1]

Enter(c, at, s, e) ==
  thread' = [thread EXCEPT ![c] = [at |-> at, key |-> NoKey, slot |-> s, engine |-> e]]

\* The station is there, and not being removed.
Acquire(c, k, s) ==
  /\ thread[c].at = "reading"
  /\ station[s].key = k /\ ~station[s].removing
  /\ Retain(s)
  /\ Enter(c, "using", s, station[s].engine)
  /\ UNCHANGED <<created, alive, connected, ending, daemon>>

\* Mutant: whether the station exists is not looked at again.
CreateUnseen(c, k, s) ==
  /\ thread[c].at = "reading" /\ ~daemon.closing
  /\ Vacant(s) /\ created < MaxCreated
  /\ created' = created + 1 /\ alive' = alive \cup {created'}
  /\ station' = [station EXCEPT ![s] =
       [key |-> k, engine |-> created', removing |-> FALSE, refs |-> 1]]
  /\ Enter(c, "using", s, created')
  /\ UNCHANGED <<connected, ending, daemon>>

\* The station is not there, and created for the command.
Create(c, k, s) ==
  /\ thread[c].at = "reading"
  /\ ~daemon.closing
  /\ \A r \in Slot : station[r].key # k
  /\ Vacant(s)
  /\ created < MaxCreated
  /\ created' = created + 1 /\ alive' = alive \cup {created'}
  /\ station' = [station EXCEPT ![s] =
       [key |-> k, engine |-> created', removing |-> FALSE, refs |-> 1]]
  /\ Enter(c, "using", s, created')
  /\ UNCHANGED <<connected, ending, daemon>>

Dropped(s) ==
  [station EXCEPT ![s].refs = IF @ > 0 THEN @ - 1 ELSE @]

Release(c) ==
  /\ thread[c].at = "using"
  /\ station' = Dropped(thread[c].slot)
  /\ thread' = [thread EXCEPT ![c] = Reading]
  /\ UNCHANGED <<created, alive, connected, ending, daemon>>

-----------------------------------------------------------------------------
(* remove_station *)

\* Mutant: the engine of the entry is destroyed, the entry stays.
TakeAndLeave(c, k, s) ==
  /\ UNCHANGED station
  /\ thread' = [thread EXCEPT ![c] =
       IF station[s].engine = NoEngine THEN Reading
       ELSE [at |-> "destroying", key |-> k, slot |-> s, engine |-> station[s].engine]]

\* The entry is cleared, and its engine is this thread's to destroy.  There is
\* none when another removal of the same station was faster.
Take(c, k, s) ==
  /\ station' = [station EXCEPT ![s] = EmptyEntry]
  /\ thread' = [thread EXCEPT ![c] =
       IF station[s].engine = NoEngine THEN Reading
       ELSE [at |-> "destroying", key |-> k, slot |-> s, engine |-> station[s].engine]]

\* Mutant: a removal does not wait for the commands that run.
RemoveInUse(c, k, s) ==
  /\ thread[c].at = "reading"
  /\ station[s].key = k
  /\ Take(c, k, s)
  /\ UNCHANGED <<created, alive, connected, ending, daemon>>

RemoveNow(c, k, s) ==
  /\ thread[c].at = "reading"
  /\ station[s].key = k /\ station[s].refs = 0
  /\ Take(c, k, s)
  /\ UNCHANGED <<created, alive, connected, ending, daemon>>

RemoveLater(c, k, s) ==
  /\ thread[c].at = "reading"
  /\ station[s].key = k /\ station[s].refs > 0
  /\ station' = [station EXCEPT ![s].removing = TRUE]
  /\ thread' = [thread EXCEPT ![c] =
       [at |-> "removing", key |-> k, slot |-> s, engine |-> NoEngine]]
  /\ UNCHANGED <<created, alive, connected, ending, daemon>>

\* Mutant: a removal that was woken does not look at the count again.
ResumeUncounted(c) ==
  /\ thread[c].at = "removing"
  /\ Take(c, thread[c].key, thread[c].slot)
  /\ UNCHANGED <<created, alive, connected, ending, daemon>>

\* pthread_cond_wait returns.  Whatever the entry holds by now is taken.
RemoveResume(c) ==
  /\ thread[c].at = "removing"
  /\ station[thread[c].slot].refs = 0
  /\ Take(c, thread[c].key, thread[c].slot)
  /\ UNCHANGED <<created, alive, connected, ending, daemon>>

Destroy(c) ==
  /\ thread[c].at = "destroying"
  /\ alive' = alive \ {thread[c].engine}
  /\ thread' = [thread EXCEPT ![c] = Reading]
  /\ UNCHANGED <<station, created, connected, ending, daemon>>

-----------------------------------------------------------------------------
(* stop_all_stations: the table is walked one entry at a time *)

Walk(c, s) == Enter(c, "walking", s, NoEngine)

StopAll(c) ==
  /\ thread[c].at = "reading"
  /\ Walk(c, 1)
  /\ UNCHANGED <<station, created, alive, connected, ending, daemon>>

Running(s) == InUse(s) /\ ~station[s].removing

StopEntry(c) ==
  /\ thread[c].at = "walking"
  /\ LET s == thread[c].slot IN
     /\ s \in Slot /\ Running(s)
     /\ Retain(s)
     /\ Enter(c, "stopping", s, station[s].engine)
  /\ UNCHANGED <<created, alive, connected, ending, daemon>>

SkipEntry(c) ==
  /\ thread[c].at = "walking"
  /\ thread[c].slot \in Slot /\ ~Running(thread[c].slot)
  /\ Walk(c, thread[c].slot + 1)
  /\ UNCHANGED <<station, created, alive, connected, ending, daemon>>

\* Mutant: the walk over all stations forgets to let go.
WalkOnUncounted(c) ==
  /\ thread[c].at = "stopping"
  /\ Walk(c, thread[c].slot + 1)
  /\ UNCHANGED <<station, created, alive, connected, ending, daemon>>

StoppedEntry(c) ==
  /\ thread[c].at = "stopping"
  /\ station' = Dropped(thread[c].slot)
  /\ Walk(c, thread[c].slot + 1)
  /\ UNCHANGED <<created, alive, connected, ending, daemon>>

StoppedAll(c) ==
  /\ thread[c].at = "walking" /\ thread[c].slot \notin Slot
  /\ thread' = [thread EXCEPT ![c] = Reading]
  /\ UNCHANGED <<station, created, alive, connected, ending, daemon>>

-----------------------------------------------------------------------------
(* The main thread *)

\* SIGTERM or SIGINT.
Stop ==
  /\ ~daemon.stopping
  /\ daemon' = [daemon EXCEPT !.stopping = TRUE]
  /\ UNCHANGED <<station, created, alive, connected, thread, ending>>

LeaveLoop ==
  /\ daemon.at = "accepting"
  /\ daemon.stopping \/ AcceptErrors
  /\ daemon' = [daemon EXCEPT !.at = "leaving"]
  /\ UNCHANGED <<station, created, alive, connected, thread, ending>>

\* Mutant: the connections are waited for, not shut down.
WaitForClients ==
  /\ \/ daemon.at = "leaving" /\ daemon' = [daemon EXCEPT !.at = "draining"]
     \/ daemon.at = "closing" /\ daemon' = [daemon EXCEPT !.at = "emptying"]
  /\ UNCHANGED <<station, created, alive, connected, thread, ending>>

\* The sockets of the connections there are now are shut down, and then each
\* of them is waited for, with those that came later.  main does this once, and
\* wb_daemon_destroy again after it has closed the daemon.
ShutdownClients ==
  /\ \/ daemon.at = "leaving" /\ daemon' = [daemon EXCEPT !.at = "draining"]
     \/ daemon.at = "closing" /\ daemon' = [daemon EXCEPT !.at = "emptying"]
  /\ ending' = ending \cup connected
  /\ UNCHANGED <<station, created, alive, connected, thread>>

Drained ==
  /\ connected = {}
  /\ \/ daemon.at = "draining" /\ daemon' = [daemon EXCEPT !.at = "drained"]
     \/ daemon.at = "emptying" /\ daemon' = [daemon EXCEPT !.at = "clearing", !.slot = 1]
  /\ UNCHANGED <<station, created, alive, connected, thread, ending>>

\* shutting_down: connections that come from here on are turned away.
CloseDaemon ==
  /\ daemon.at = "drained"
  /\ daemon' = [daemon EXCEPT !.at = "closing", !.closing = TRUE]
  /\ UNCHANGED <<station, created, alive, connected, thread, ending>>

\* One entry of the table is cleared; it would be waited for, were it in use.
ClearEntry ==
  /\ daemon.at = "clearing" /\ daemon.slot \in Slot
  /\ LET s == daemon.slot IN
     IF InUse(s) /\ station[s].refs > 0
     THEN /\ station' = [station EXCEPT ![s].removing = TRUE]
          /\ UNCHANGED daemon
     ELSE /\ station' = [station EXCEPT ![s] = IF InUse(s) THEN EmptyEntry ELSE @]
          /\ daemon' = [daemon EXCEPT !.at = "freeing",
                          !.engine = IF InUse(s) THEN station[s].engine ELSE NoEngine]
  /\ UNCHANGED <<created, alive, connected, thread, ending>>

FreeEntry ==
  /\ daemon.at = "freeing"
  /\ alive' = alive \ {daemon.engine}
  /\ daemon' = [daemon EXCEPT !.at = "clearing", !.slot = @ + 1, !.engine = NoEngine]
  /\ UNCHANGED <<station, created, connected, thread, ending>>

Exit ==
  /\ daemon.at = "clearing" /\ daemon.slot \notin Slot
  /\ daemon' = [daemon EXCEPT !.at = "gone"]
  /\ UNCHANGED <<station, created, alive, connected, thread, ending>>

-----------------------------------------------------------------------------
Connection(c) == Accept(c) \/ Connect(c) \/ TurnAway(c) \/ Disconnect(c)

Command(c) ==
  \/ \E k \in Key, s \in Slot :
       Acquire(c, k, s) \/ Create(c, k, s) \/ RemoveNow(c, k, s) \/ RemoveLater(c, k, s)
  \/ StopAll(c)

\* What a command does once it has begun.
Proceed(c) ==
  \/ Release(c) \/ RemoveResume(c) \/ Destroy(c)
  \/ StopEntry(c) \/ SkipEntry(c) \/ StoppedEntry(c) \/ StoppedAll(c)

Shutdown ==
  \/ LeaveLoop \/ ShutdownClients \/ Drained \/ CloseDaemon
  \/ ClearEntry \/ FreeEntry \/ Exit

Next ==
  \/ \E c \in Client : Connection(c) \/ Command(c) \/ Proceed(c)
  \/ Stop \/ Shutdown

Spec == Init /\ [][Next]_vars

\* A command that has begun goes on, and so does the shutdown of a stopped
\* daemon.  A connection that was shut down may have commands left to read,
\* but a finite number of them.
Fairness ==
  /\ \A c \in Client :
       /\ WF_vars(Connect(c) \/ TurnAway(c))
       /\ WF_vars(Proceed(c))
       /\ SF_vars(Disconnect(c) /\ c \in ending)
  /\ WF_vars(LeaveLoop /\ daemon.stopping)
  /\ WF_vars(ShutdownClients) /\ WF_vars(Drained) /\ WF_vars(CloseDaemon)
  /\ WF_vars(ClearEntry) /\ WF_vars(FreeEntry) /\ WF_vars(Exit)

FairSpec == Spec /\ Fairness

-----------------------------------------------------------------------------
(* Properties *)

TypeOK ==
  /\ station \in [Slot -> [key : Key \cup {NoKey}, engine : 0 .. MaxCreated,
                           removing : BOOLEAN, refs : Nat]]
  /\ created \in 0 .. MaxCreated
  /\ alive \subseteq 1 .. created
  /\ connected \subseteq Client /\ ending \subseteq connected
  /\ thread \in [Client -> [at : {"none", "accepted", "reading", "using", "walking",
                                  "stopping", "removing", "destroying"},
                            key : Key \cup {NoKey}, slot : 0 .. MaxStations + 1,
                            engine : 0 .. MaxCreated]]
  /\ daemon \in [at : {"accepting", "leaving", "draining", "drained", "closing",
                       "emptying", "clearing", "freeing", "gone"},
                 slot : 0 .. MaxStations + 1, engine : 0 .. MaxCreated,
                 stopping : BOOLEAN, closing : BOOLEAN]

\* The count of an entry is the number of commands that run on it.  Entries are
\* cleared by memset and handed out again while removals of their former station
\* still point at them, so this is not plain (release_station, remove_station).
CountIsUsers == \A s \in Slot : station[s].refs = Cardinality(Users(s))

\* A command runs on an engine that is allocated, is the one of its entry, and
\* is nobody's to destroy (wb_daemon_handle_line uses entry->engine unlocked).
UsedIsAlive ==
  \A c \in Client : Holds(c) =>
    /\ thread[c].engine \in alive
    /\ station[thread[c].slot].engine = thread[c].engine
    /\ \A b \in Client : thread[b].at = "destroying" => thread[b].engine # thread[c].engine
    /\ daemon.engine # thread[c].engine

Doomed == {thread[c].engine : c \in {b \in Client : thread[b].at = "destroying"}}
Listed == {station[s].engine : s \in Slot}

\* Every allocated engine is in one entry of the table, or with one thread that
\* will free it: none is lost, none is freed twice (remove_station,
\* wb_daemon_destroy).
OneOwner ==
  /\ alive = (Listed \cup Doomed \cup {daemon.engine}) \ {NoEngine}
  /\ \A r, s \in Slot : station[r].engine = station[s].engine /\ r # s
                          => station[r].engine = NoEngine
  /\ \A b, c \in Client : thread[b].at = "destroying" /\ thread[c].at = "destroying"
                          /\ thread[b].engine = thread[c].engine => b = c
  /\ Listed \cap Doomed \subseteq {NoEngine}
  /\ daemon.engine # NoEngine => daemon.engine \notin Listed \cup Doomed

\* Two entries never carry the same key, so a command and the removal of its
\* station mean the same one (find_station_locked takes the first match).
OneEntryPerKey == \A r, s \in Slot : InUse(r) /\ station[r].key = station[s].key => r = s

\* When the table is cleared at the end no command runs any more, and when the
\* daemon is gone so are the engines (wb_daemon_destroy).
ShutdownInOrder ==
  /\ daemon.at \in {"clearing", "freeing", "gone"} => \A c \in Client : ~Holds(c)
  /\ daemon.at = "gone" => alive = {}

Life == INSTANCE StationLife WITH
  phase <- [e \in Engine |->
              IF e > created THEN "new"
              ELSE IF e \in Listed THEN "open"
              ELSE IF e \in alive THEN "closed" ELSE "freed"],
  users <- [e \in Engine |-> {c \in Client : Holds(c) /\ thread[c].engine = e}]

\* The daemon implements the life of an engine that StationLife promises, for
\* every interleaving of commands, removals and the shutdown.
LifePromise == Life!LifeSpec

\* A removal that had to wait destroys the station it was asked to remove.
RemovalTakesItsStation ==
  [][\A c \in Client : thread[c].at = "removing" /\ thread'[c].at = "destroying"
       => station[thread[c].slot].key = thread[c].key]_vars

\* A daemon that is told to stop is gone one day (handle_signal, main).
ShutdownEnds == (daemon.stopping /\ daemon.at = "accepting") ~> daemon.at = "gone"
=============================================================================
