----------------------------- MODULE DeckEngine -----------------------------
(***************************************************************************)
(* One station of the native engine: two decks, the command handlers of    *)
(* engine.c, the timing worker of native_timing.c, the decoder voices of   *)
(* audio_probe.c, the analysis workers of audio_analysis.c and the mixer   *)
(* of icecast_output.c.                                                    *)
(*                                                                         *)
(* A step is one critical section of state->lock or output->lock (the      *)
(* nested pair counts as one).  What a thread does after it unlocks waits  *)
(* in todo, and is done one critical section at a time, so every other     *)
(* thread may act in between.  Clocks are abstracted: a condition on time  *)
(* is a choice, made again at every poll.                                  *)
(***************************************************************************)
EXTENDS Naturals, Sequences, FiniteSets

CONSTANTS
  Track,        \* slot tokens: one per load that reaches a deck
  NoTrack,      \* the empty slot token
  NoDeck,       \* the deck '\0'
  Client,       \* connections whose commands the daemon is serving
  HardClean,    \* tracks loaded with hard_clean or short_no_crossfade
  Stub,         \* tracks with no more PCM than the 80 ms hand-off prime
  Analysed,     \* tracks loaded with analysis_requested
  Command,      \* the kinds of command the clients send
  MaxCommands,  \* bound: commands accepted in a behaviour
  Restarts      \* whether the output pipeline may be restarted

Deck == {"A", "B"}
Other(d) == IF d = "A" THEN "B" ELSE "A"

\* One decoder thread of each deck is followed at a time.
Thread == Client \cup {"timing", "mixer"} \cup Deck

ASSUME ConstantsAssumption ==
  /\ NoTrack \notin Track
  /\ NoDeck \notin Deck
  /\ HardClean \subseteq Track /\ Stub \subseteq Track /\ Analysed \subseteq Track
  /\ MaxCommands \in Nat /\ Restarts \in BOOLEAN
  /\ Client \cap ({"timing", "mixer"} \cup Deck) = {}

VARIABLES
  deck,       \* deck_a, deck_b: the confirmed descriptors
  eng,        \* running, paused, accepting_loads, transitioning, active_deck
  timing,     \* WbNativeTimingWorker: scheduled_for and the pending transition
  analysis,   \* each WbAudioAnalysisWorker: the request it waits on, the one it serves
  voice,      \* the two candidate slots of each deck, by the token they hold
  out,        \* the mixer: engine_running, paused, primary_deck, transition
  slot,       \* deck_a_slot_token, deck_b_slot_token of the mixer
  hand,       \* the hard hand-off reservation and its primed FIFO
  worker,     \* the timing thread: where it is, and what it read
  client,     \* each command handler: where it is, and what it read
  todo,       \* the calls each thread still makes after unlocking
  asked,      \* a native_need_next_track request waits for its load
  home,       \* the deck each token was loaded on
  left        \* bound: commands that may still be sent

control == <<deck, eng, timing>>
output  == <<out, slot, hand>>
bounds  == <<home, left>>
vars == <<deck, eng, timing, analysis, voice, out, slot, hand,
          worker, client, todo, asked, home, left>>

Token == Track \cup {NoTrack}
DeckOr == Deck \cup {NoDeck}
Verdict == {"yes", "no", "pending"}
Status == {"none", "cued", "ready", "playing", "hollow", "stopped", "over"}
Op == {"prepare", "analyse", "activate", "startVoice", "stopVoice", "stopVoices",
       "fadeStart", "fadeDone", "delayEntry", "stopOut", "outStart", "outStop",
       "resetTiming", "pause", "resume", "seek", "seekOut", "earlyEof", "naturalEof",
       "finalize", "commit"}

DeckState == [tok : Token, ready : BOOLEAN, started : BOOLEAN,
              consumed : BOOLEAN, terminal : BOOLEAN]
EngineWide == {"stopVoices", "outStart", "outStop", "resetTiming", "pause", "resume"}
Effect == {e \in [op : Op, deck : DeckOr, tok : Token, from : DeckOr, ftok : Token] :
             e.op \notin EngineWide => e.deck \in Deck}

EmptyDeck == [tok |-> NoTrack, ready |-> FALSE, started |-> FALSE,
              consumed |-> FALSE, terminal |-> FALSE]
NoHand == [pending |-> FALSE, from |-> NoDeck, to |-> NoDeck,
           ftok |-> NoTrack, ttok |-> NoTrack, primed |-> FALSE]
NoTransition == [scheduled |-> NoTrack, completion |-> FALSE, entry |-> FALSE,
                 from |-> NoDeck, to |-> NoDeck, ftok |-> NoTrack, ttok |-> NoTrack]
NoAnalysis == [wanted |-> NoTrack, tok |-> NoTrack, phase |-> "idle"]
Asleep == [pc |-> "idle", from |-> "A", ftok |-> NoTrack, ttok |-> NoTrack,
           terminal |-> FALSE, usable |-> FALSE]
NoCommand == [pc |-> "idle", op |-> "none", deck |-> "A", tok |-> NoTrack,
              usable |-> "no", from |-> "A", ftok |-> NoTrack, fusable |-> "no"]

\* The types of the variables; what is reserved or pending names its two decks.
TypeOK ==
  /\ deck \in [Deck -> DeckState]
  /\ eng \in [running : BOOLEAN, paused : BOOLEAN, accepting : BOOLEAN,
              transitioning : BOOLEAN, active : Deck]
  /\ timing \in [scheduled : Token, completion : BOOLEAN, entry : BOOLEAN,
                 from : DeckOr, to : DeckOr, ftok : Token, ttok : Token]
  /\ timing.completion \/ timing.entry => timing.from \in Deck /\ timing.to \in Deck
  /\ analysis \in [Deck -> [wanted : Token, tok : Token,
                           phase : {"idle", "decoding", "checked", "prepared"}]]
  /\ voice \in [Deck -> [Track -> Status]]
  /\ out \in [running : BOOLEAN, paused : BOOLEAN, primary : DeckOr,
              fading : BOOLEAN, from : DeckOr, to : DeckOr]
  /\ slot \in [Deck -> Token]
  /\ hand \in [pending : BOOLEAN, from : DeckOr, to : DeckOr,
               ftok : Token, ttok : Token, primed : BOOLEAN]
  /\ hand.pending => hand.from \in Deck /\ hand.to \in Deck
  /\ worker \in [pc : {"idle", "polled", "recheck", "recover", "prime", "arm",
                       "store", "fade"},
                 from : Deck, ftok : Token, ttok : Token,
                 terminal : BOOLEAN, usable : BOOLEAN]
  /\ client \in [Client -> [pc : {"idle", "wait", "prime", "arm"},
                            op : {"none", "select", "handoff", "transition", "interrupt"},
                            deck : Deck, tok : Token, usable : Verdict,
                            from : Deck, ftok : Token, fusable : Verdict]]
  /\ todo \in [Thread -> Seq(Effect)]
  /\ asked \in BOOLEAN
  /\ home \in [Track -> DeckOr]
  /\ left \in 0..MaxCommands

Init ==
  /\ deck = [d \in Deck |-> EmptyDeck]
  /\ eng = [running |-> FALSE, paused |-> FALSE, accepting |-> TRUE,
            transitioning |-> FALSE, active |-> "A"]
  /\ timing = NoTransition
  /\ analysis = [d \in Deck |-> NoAnalysis]
  /\ voice = [d \in Deck |-> [t \in Track |-> "none"]]
  /\ out = [running |-> FALSE, paused |-> FALSE, primary |-> NoDeck,
            fading |-> FALSE, from |-> NoDeck, to |-> NoDeck]
  /\ slot = [d \in Deck |-> NoTrack]
  /\ hand = NoHand
  /\ worker = Asleep
  /\ client = [c \in Client |-> NoCommand]
  /\ todo = [th \in Thread |-> <<>>]
  /\ asked = FALSE
  /\ home = [t \in Track |-> NoDeck]
  /\ left = MaxCommands

-----------------------------------------------------------------------------
(* Descriptors and identities *)

Holds(d, t) == t # NoTrack /\ deck[d].tok = t
Loaded(d) == deck[d].tok # NoTrack

\* What every path that makes a deck audible writes into its descriptor.
Started(s) == [s EXCEPT !.started = TRUE, !.consumed = FALSE, !.terminal = FALSE]
Released(s) == [s EXCEPT !.consumed = TRUE, !.terminal = TRUE]

\* What the engine becomes when deck d goes on the air, or a transition is over.
AiredUnheard(d) == [eng EXCEPT !.transitioning = FALSE]
Aired(d) == [eng EXCEPT !.active = d, !.transitioning = FALSE]
StillTransitioning == eng
Settled == [eng EXCEPT !.transitioning = FALSE]

Unanalysed(s) == s.tok \in Analysed /\ ~s.ready

AnsweredUnready(s) == IF s.consumed \/ s.terminal THEN "no" ELSE "yes"

\* What wait_for_analysis_ready answers from the snapshot it is given.
VerdictOf(s) == IF s.consumed \/ s.terminal THEN "no"
                ELSE IF Unanalysed(s) THEN "pending" ELSE "yes"

\* What wb_audio_analysis_wait_ready answers once the snapshot left it open.
ReadyNow(d, t) == /\ Holds(d, t)
                  /\ VerdictOf(deck[d]) = "yes"
Waited(d, t, v) == v = "yes" \/ (v = "pending" /\ ReadyNow(d, t))

-----------------------------------------------------------------------------
(* Candidates and voices *)

Seated(d) == {t \in Track : voice[d][t] # "none"}
Activated(d) == {t \in Track : voice[d][t] \in {"playing", "hollow"}}
Reusable(d) == {t \in Track : voice[d][t] \in {"stopped", "over"}}

\* The tokens that may lose their slot to a new one; NoTrack is a free slot.
Vacated(d) == IF Cardinality(Seated(d)) < 2 THEN {NoTrack}
              ELSE IF Reusable(d) # {} THEN Reusable(d)
              ELSE Seated(d) \ Activated(d)

Seat(d, t, s) ==
  IF Vacated(d) = {} THEN voice' = voice
  ELSE \E v \in Vacated(d) :
         voice' = [voice EXCEPT ![d] = [u \in Track |-> IF u = t THEN s
                                                 ELSE IF u = v THEN "none" ELSE @[u]]]

Prepare(d, t) == IF voice[d][t] = "none" THEN Seat(d, t, "cued") ELSE voice' = voice

\* Activating t may retire the other candidate of the deck, if it is inactive.
Promote(d, t, s) ==
  \E retired \in SUBSET (Seated(d) \ (Activated(d) \cup {t})) :
    voice' = [voice EXCEPT ![d] = [u \in Track |-> IF u = t THEN s
                                     ELSE IF u \in retired THEN "none" ELSE @[u]]]

\* A stopped candidate that kept PCM in its ring is activated with no decoder.
Activate(d, t) ==
  CASE voice[d][t] = "none" -> Seat(d, t, "playing")
    [] voice[d][t] \in {"cued", "ready", "over"} -> Promote(d, t, "playing")
    [] voice[d][t] = "stopped" -> \E s \in {"playing", "hollow"} : Promote(d, t, s)
    [] OTHER -> voice' = voice

Stopped(s) == IF s \in {"none", "over"} THEN s ELSE "stopped"

NeverFrozen(d, t) == FALSE

\* The mixer has not switched to t yet, or the engine has not heard of it.
Frozen(d, t) == /\ hand.to = d /\ hand.ttok = t
                /\ \/ hand.pending
                   \/ out.primary = d /\ eng.active # d

\* prebuffer_ready with PCM in the ring; a playing voice may have drained it.
PrebufferReady(d, t) == CASE voice[d][t] = "ready" -> {TRUE}
                          [] voice[d][t] = "playing" -> {TRUE, FALSE}
                          [] OTHER -> {FALSE}

-----------------------------------------------------------------------------
(* The calls a thread makes after unlocking, one critical section each *)

Call(op, d, t) == [op |-> op, deck |-> d, tok |-> t, from |-> NoDeck, ftok |-> NoTrack]
CallFrom(op, d, t, f, ft) == [op |-> op, deck |-> d, tok |-> t, from |-> f, ftok |-> ft]
Bare(op) == Call(op, NoDeck, NoTrack)

Doing(th, op) == todo[th] # <<>> /\ Head(todo[th]).op = op
Done(th) == todo' = [todo EXCEPT ![th] = Tail(@)]
ThenFirst(th, e) == todo' = [todo EXCEPT ![th] = <<e>> \o Tail(@)]
Later(th, es) == todo' = [todo EXCEPT ![th] = es]
Busy(th) == todo[th] # <<>>

\* wb_audio_probe_prepare_deck
PrepareVoice(th) == LET e == Head(todo[th]) IN
  /\ Doing(th, "prepare") /\ Done(th)
  /\ Prepare(e.deck, e.tok)
  /\ UNCHANGED <<control, analysis, output, worker, client, asked, bounds>>

\* wb_audio_analysis_schedule: a new generation of the deck's worker
ScheduleAnalysis(th) == LET e == Head(todo[th]) IN
  /\ Doing(th, "analyse") /\ Done(th)
  /\ analysis' = [analysis EXCEPT ![e.deck].wanted = e.tok]
  /\ UNCHANGED <<control, voice, output, worker, client, asked, bounds>>

ActivateKeepingHand(th) == LET e == Head(todo[th]) IN
  /\ Doing(th, "activate") /\ Done(th)
  /\ slot' = [slot EXCEPT ![e.deck] = e.tok]
  /\ out' = [out EXCEPT !.primary = e.deck]
  /\ UNCHANGED <<control, analysis, voice, hand, worker, client, asked, bounds>>

\* wb_icecast_output_activate_track
ActivateTrack(th) == LET e == Head(todo[th]) IN
  /\ Doing(th, "activate") /\ Done(th)
  /\ hand' = NoHand
  /\ slot' = [slot EXCEPT ![e.deck] = e.tok]
  /\ out' = [out EXCEPT !.primary = e.deck]
  /\ UNCHANGED <<control, analysis, voice, worker, client, asked, bounds>>

\* wb_audio_probe_activate_deck
StartVoice(th) == LET e == Head(todo[th]) IN
  /\ Doing(th, "startVoice") /\ Done(th)
  /\ Activate(e.deck, e.tok)
  /\ UNCHANGED <<control, analysis, output, worker, client, asked, bounds>>

\* wb_audio_probe_stop_track
StopVoice(th) == LET e == Head(todo[th]) IN
  /\ Doing(th, "stopVoice") /\ Done(th)
  /\ voice' = [voice EXCEPT ![e.deck] =
                 [u \in Track |-> IF u = e.tok THEN Stopped(@[u]) ELSE @[u]]]
  /\ UNCHANGED <<control, analysis, output, worker, client, asked, bounds>>

\* wb_audio_probe_stop_all
StopVoices(th) ==
  /\ Doing(th, "stopVoices") /\ Done(th)
  /\ voice' = [d \in Deck |-> [t \in Track |-> "none"]]
  /\ UNCHANGED <<control, analysis, output, worker, client, asked, bounds>>

\* wb_icecast_output_transition_started
TransitionStarted(th) == LET e == Head(todo[th]) IN
  /\ Doing(th, "fadeStart") /\ Done(th)
  /\ hand' = NoHand
  /\ out' = [out EXCEPT !.fading = TRUE, !.from = e.from, !.to = e.deck,
                        !.primary = e.deck]
  /\ UNCHANGED <<control, analysis, voice, slot, worker, client, asked, bounds>>

\* wb_icecast_output_transition_finished
TransitionFinished(th) == LET e == Head(todo[th]) IN
  /\ Doing(th, "fadeDone") /\ Done(th)
  /\ hand' = NoHand
  /\ out' = [out EXCEPT !.fading = FALSE, !.from = NoDeck, !.to = NoDeck,
                        !.primary = e.deck]
  /\ UNCHANGED <<control, analysis, voice, slot, worker, client, asked, bounds>>

\* wb_icecast_output_prepare_delayed_entry: the target's FIFO is emptied
PrepareDelayedEntry(th) == LET e == Head(todo[th]) IN
  /\ Doing(th, "delayEntry") /\ Done(th)
  /\ slot' = [slot EXCEPT ![e.deck] = NoTrack]
  /\ hand' = [hand EXCEPT !.primed = @ /\ hand.to # e.deck]
  /\ UNCHANGED <<control, analysis, voice, out, worker, client, asked, bounds>>

Unreserve(d, t) ==
  hand' = IF hand.pending /\ hand.to = d /\ hand.ttok = t THEN NoHand ELSE hand

\* wb_icecast_output_stop_track
StopTrack(th) == LET e == Head(todo[th]) IN
  /\ Doing(th, "stopOut") /\ Done(th)
  /\ Unreserve(e.deck, e.tok)
  /\ slot' = [slot EXCEPT ![e.deck] = IF @ = e.tok THEN NoTrack ELSE @]
  /\ UNCHANGED <<control, analysis, voice, out, worker, client, asked, bounds>>

\* wb_icecast_output_set_engine_running(TRUE)
OutputStart(th) ==
  /\ Doing(th, "outStart") /\ Done(th)
  /\ out' = [out EXCEPT !.running = TRUE, !.paused = FALSE]
  /\ UNCHANGED <<control, analysis, voice, slot, hand, worker, client, asked, bounds>>

\* wb_icecast_output_set_engine_running(FALSE)
OutputStop(th) ==
  /\ Doing(th, "outStop") /\ Done(th)
  /\ out' = [running |-> FALSE, paused |-> FALSE, primary |-> NoDeck,
             fading |-> FALSE, from |-> NoDeck, to |-> NoDeck]
  /\ slot' = [d \in Deck |-> NoTrack]
  /\ hand' = NoHand
  /\ UNCHANGED <<control, analysis, voice, worker, client, asked, bounds>>

\* wb_native_timing_reset
ResetTiming(th) ==
  /\ Doing(th, "resetTiming") /\ Done(th)
  /\ timing' = [timing EXCEPT !.scheduled = NoTrack, !.completion = FALSE,
                              !.entry = FALSE]
  /\ UNCHANGED <<deck, eng, analysis, voice, output, worker, client, asked, bounds>>

\* wb_icecast_output_set_paused
OutputPause(th) ==
  /\ Doing(th, "pause") \/ Doing(th, "resume")
  /\ Done(th)
  /\ out' = [out EXCEPT !.paused = Doing(th, "pause")]
  /\ UNCHANGED <<control, analysis, voice, slot, hand, worker, client, asked, bounds>>

\* wb_audio_probe_seek_track: only a voice can be sought, and it then reopens.
SeekVoice(th) == LET e == Head(todo[th]) IN
  /\ Doing(th, "seek")
  /\ IF e.tok \in Activated(e.deck)
     THEN /\ voice' = [voice EXCEPT ![e.deck] =
                         [u \in Track |-> IF u = e.tok THEN "playing" ELSE @[u]]]
          /\ ThenFirst(th, Call("seekOut", e.deck, e.tok))
     ELSE Done(th) /\ voice' = voice
  /\ UNCHANGED <<control, analysis, output, worker, client, asked, bounds>>

\* wb_icecast_output_seek_track
SeekOutput(th) == LET e == Head(todo[th]) IN
  /\ Doing(th, "seekOut") /\ Done(th)
  /\ slot' = [slot EXCEPT ![e.deck] = e.tok]
  /\ hand' = NoHand
  /\ out' = [out EXCEPT !.fading = FALSE, !.from = NoDeck, !.to = NoDeck,
                        !.primary = e.deck]
  /\ UNCHANGED <<control, analysis, voice, worker, client, asked, bounds>>

\* wb_icecast_output_handle_terminal_eof.  The end of the outgoing track
\* claims the reserved hand-off, which then only waits for its FIFO to drain.
Claims(d, t) == /\ out.primary = d /\ ~(out.fading /\ out.from = d)
                /\ hand.pending /\ hand.from = d /\ hand.ftok = t

HandleEof(th) == LET e == Head(todo[th])
                     matched == slot[e.deck] = e.tok
                     claimed == matched /\ Claims(e.deck, e.tok)
                 IN
  /\ \/ /\ Doing(th, "earlyEof") /\ Done(th)
        /\ slot' = IF matched /\ ~claimed
                   THEN [slot EXCEPT ![e.deck] = NoTrack] ELSE slot
     \/ /\ Doing(th, "naturalEof") /\ slot' = slot
        /\ IF claimed THEN Done(th)
           ELSE ThenFirst(th, Call("stopOut", e.deck, e.tok))
  /\ IF matched /\ out.primary # e.deck THEN Unreserve(e.deck, e.tok) ELSE hand' = hand
  /\ UNCHANGED <<control, analysis, voice, out, worker, client, asked, bounds>>

\* finalize_hard_handoff, under state->lock: the mixer already switched.
FinalizeHandoff(th) == LET e == Head(todo[th]) IN
  /\ Doing(th, "finalize") /\ Done(th)
  /\ eng' = Aired(e.deck)
  /\ deck' = [d \in Deck |->
                IF d = e.deck /\ Holds(d, e.tok) THEN Started(deck[d])
                ELSE IF d = e.from /\ Holds(d, e.ftok) THEN Released(deck[d])
                ELSE deck[d]]
  /\ UNCHANGED <<timing, analysis, voice, output, worker, client, asked, bounds>>

\* commit_hard_handoff_metadata
CommitMetadata(th) == LET e == Head(todo[th]) IN
  /\ Doing(th, "commit") /\ Done(th)
  /\ hand' = NoHand
  /\ out' = [out EXCEPT !.primary = e.deck]
  /\ UNCHANGED <<control, analysis, voice, slot, worker, client, asked, bounds>>

Do(th) ==
  \/ PrepareVoice(th) \/ ScheduleAnalysis(th) \/ ActivateTrack(th)
  \/ StartVoice(th) \/ StopVoice(th) \/ StopVoices(th)
  \/ TransitionStarted(th) \/ TransitionFinished(th) \/ PrepareDelayedEntry(th)
  \/ StopTrack(th) \/ OutputStart(th) \/ OutputStop(th) \/ ResetTiming(th)
  \/ OutputPause(th) \/ SeekVoice(th) \/ SeekOutput(th) \/ HandleEof(th)
  \/ FinalizeHandoff(th) \/ CommitMetadata(th)

-----------------------------------------------------------------------------
(* The command handlers of engine.c *)

\* A client sends its next command once the previous one was answered.
Receive(c, kind) ==
  /\ kind \in Command /\ left > 0
  /\ client[c].pc = "idle" /\ ~Busy(c)
  /\ left' = left - 1

Reserved(d, t) == hand.pending /\ hand.to = d /\ hand.ttok # t

LoadOverReservation(d, t, guarded) ==
  \/ ~eng.accepting
  \/ /\ guarded /\ eng.running /\ Loaded(d) /\ deck[d].started
     /\ eng.active = d \/ ~(deck[d].terminal \/ deck[d].consumed)

\* handle_load.  Python sets both of the reject_if flags, or neither.
LoadRejected(d, t, guarded) ==
  \/ ~eng.accepting
  \/ Reserved(d, t)
  \/ /\ guarded /\ eng.running /\ Loaded(d) /\ deck[d].started
     /\ eng.active = d \/ ~(deck[d].terminal \/ deck[d].consumed)

Load(c, d, t, guarded) ==
  /\ Receive(c, IF guarded THEN "load" ELSE "force_load")
  /\ home[t] = NoDeck
  /\ IF LoadRejected(d, t, guarded)
     THEN UNCHANGED <<deck, todo, asked, home>>
     ELSE /\ deck' = [deck EXCEPT ![d] = [EmptyDeck EXCEPT
                        !.tok = t, !.ready = t \notin Analysed]]
          /\ Later(c, <<Call(IF t \in Analysed THEN "analyse" ELSE "prepare", d, t)>>)
          /\ asked' = FALSE
          /\ home' = [home EXCEPT ![t] = d]
  /\ UNCHANGED <<eng, timing, analysis, voice, output, worker, client>>

\* The first half of a handler that waits: it copies the descriptor, unlocks.
Snapshot(c, kind, d) ==
  /\ Receive(c, kind) /\ Loaded(d)
  /\ client' = [client EXCEPT ![c] =
       [pc |-> "wait", op |-> kind, deck |-> d, tok |-> deck[d].tok,
        usable |-> VerdictOf(deck[d]), from |-> eng.active,
        ftok |-> deck[eng.active].tok,
        fusable |-> IF kind = "handoff" THEN VerdictOf(deck[eng.active]) ELSE "yes"]]
  /\ UNCHANGED <<control, analysis, voice, output, worker, todo, asked, home>>

SelectDeck(c, d) == Snapshot(c, "select", d)
TransitionDeck(c, d) == Snapshot(c, "transition", d)
InterruptDeck(c, d) == Snapshot(c, "interrupt", d)
HandoffDeck(c, d) ==
  /\ eng.running /\ ~eng.paused /\ ~eng.transitioning
  /\ eng.active # d /\ Loaded(eng.active)
  /\ Snapshot(c, "handoff", d)

Waiting(c, kind) == client[c].pc = "wait" /\ client[c].op = kind
Answered(c) == client' = [client EXCEPT ![c] = NoCommand]
WaitOver(c) == LET h == client[c] IN
  Waited(h.deck, h.tok, h.usable) /\ Waited(h.from, h.ftok, h.fusable)

\* The wait ends in an error: a verdict of "no", a lost identity, a timeout.
Refuse(c) ==
  /\ client[c].pc = "wait" /\ ~WaitOver(c)
  /\ Answered(c)
  /\ UNCHANGED <<control, analysis, voice, output, worker, todo, asked, bounds>>

\* handle_select, handle_transition and script_interrupt after the wait
Superseded(c) ==
  /\ client[c].pc = "wait" /\ client[c].op # "handoff" /\ WaitOver(c)
  /\ ~Holds(client[c].deck, client[c].tok)
  /\ Answered(c)
  /\ UNCHANGED <<control, analysis, voice, output, worker, todo, asked, bounds>>

\* handle_select: the deck that is not kept is released with its voice.
CommitSelect(c) ==
  LET d == client[c].deck
      t == client[c].tok
      r == IF eng.transitioning THEN Other(d) ELSE eng.active
      released == r # d /\ Loaded(r)
      ftok == deck[r].tok
  IN /\ Waiting(c, "select") /\ WaitOver(c) /\ Holds(d, t)
     /\ Answered(c)
     /\ deck' = [x \in Deck |-> IF x = d THEN Started(deck[x])
                               ELSE IF released THEN Released(deck[x]) ELSE deck[x]]
     /\ eng' = Aired(d)
     /\ Later(c, <<Call("activate", d, t), Call("startVoice", d, t),
                   Call("fadeDone", d, NoTrack)>>
                 \o IF released THEN <<Call("stopVoice", r, ftok), Call("stopOut", r, ftok)>>
                    ELSE <<>>)
     /\ UNCHANGED <<timing, analysis, voice, output, worker, asked, bounds>>

\* handle_transition
CommitTransition(c) ==
  LET d == client[c].deck
      t == client[c].tok
  IN /\ Waiting(c, "transition") /\ WaitOver(c) /\ Holds(d, t)
     /\ Answered(c)
     /\ deck' = [deck EXCEPT ![d] = Started(@)]
     /\ eng' = [eng EXCEPT !.active = d, !.transitioning = TRUE]
     /\ Later(c, <<CallFrom("fadeStart", d, NoTrack, client[c].from, NoTrack),
                   Call("activate", d, t), Call("startVoice", d, t)>>)
     /\ UNCHANGED <<timing, analysis, voice, output, worker, asked, bounds>>

\* wb_native_timing_start_script_interrupt: the entry comes later.
InterruptEligible(d) ==
  /\ eng.running /\ ~eng.paused /\ ~eng.transitioning /\ ~timing.completion
  /\ eng.active # d /\ Loaded(eng.active) /\ deck[eng.active].started
  /\ deck[d].ready

CommitInterrupt(c) ==
  LET d == client[c].deck
      f == eng.active
  IN /\ Waiting(c, "interrupt") /\ WaitOver(c) /\ Holds(d, client[c].tok)
     /\ Answered(c)
     /\ IF InterruptEligible(d)
        THEN /\ deck' = [deck EXCEPT ![d] = Started(@)]
             /\ eng' = [eng EXCEPT !.transitioning = TRUE]
             /\ timing' = [scheduled |-> deck[f].tok, completion |-> TRUE, entry |-> TRUE,
                           from |-> f, to |-> d,
                           ftok |-> deck[f].tok, ttok |-> deck[d].tok]
             /\ Later(c, <<Call("delayEntry", d, NoTrack),
                           CallFrom("fadeStart", d, NoTrack, f, NoTrack)>>)
        ELSE UNCHANGED <<control, todo>>
     /\ UNCHANGED <<analysis, voice, output, worker, asked, bounds>>

\* wb_audio_probe_prime_deck takes the first 80 ms and activates the candidate.
PrimeVoice(d, t) ==
  /\ voice[d][t] \in {"cued", "ready", "stopped"}
  /\ Promote(d, t, IF voice[d][t] = "stopped" THEN "hollow" ELSE "playing")
PrimeFails(d, t) == voice[d][t] # "ready" /\ voice' = voice

\* wb_icecast_output_schedule_hard_handoff, under both locks
Armable(f, ft, d, t) ==
  /\ f # d /\ eng.running /\ Holds(f, ft) /\ Holds(d, t)
  /\ out.running /\ out.primary = f /\ slot[f] = ft

ArmUnprimed(f, ft, d, t) ==
  /\ slot' = [slot EXCEPT ![d] = t]
  /\ out' = [out EXCEPT !.fading = FALSE, !.from = NoDeck, !.to = NoDeck]
  /\ hand' = [pending |-> TRUE, from |-> f, to |-> d, ftok |-> ft, ttok |-> t,
              primed |-> FALSE]

Arm(f, ft, d, t) ==
  /\ slot' = [slot EXCEPT ![d] = t]
  /\ out' = [out EXCEPT !.fading = FALSE, !.from = NoDeck, !.to = NoDeck]
  /\ hand' = [pending |-> TRUE, from |-> f, to |-> d, ftok |-> ft, ttok |-> t,
              primed |-> TRUE]

\* handle_hard_handoff between the wait and the reservation
HandoffPrime(c) ==
  LET h == client[c]
  IN /\ Waiting(c, "handoff") /\ WaitOver(c)
     /\ \/ /\ voice[h.from][h.ftok] # "none"
           /\ PrimeVoice(h.deck, h.tok)
           /\ client' = [client EXCEPT ![c].pc = "arm"]
        \/ PrimeFails(h.deck, h.tok) /\ Answered(c)
        \/ voice[h.from][h.ftok] = "none" /\ voice' = voice /\ Answered(c)
     /\ UNCHANGED <<control, analysis, output, worker, todo, asked, bounds>>

HandoffArm(c) ==
  LET h == client[c]
  IN /\ h.pc = "arm"
     /\ Answered(c)
     /\ IF Armable(h.from, h.ftok, h.deck, h.tok)
        THEN Arm(h.from, h.ftok, h.deck, h.tok) /\ todo' = todo
        ELSE Later(c, <<Call("stopVoice", h.deck, h.tok)>>) /\ UNCHANGED output
     /\ UNCHANGED <<control, analysis, voice, worker, asked, bounds>>

StartEngine(c) ==
  /\ Receive(c, "start")
  /\ eng' = [eng EXCEPT !.running = TRUE, !.paused = FALSE, !.accepting = TRUE]
  /\ Later(c, <<Bare("outStart"), Bare("resetTiming")>>)
  /\ UNCHANGED <<deck, timing, analysis, voice, output, worker, client, asked, home>>

StopEngine(c) ==
  /\ Receive(c, "stop")
  /\ eng' = [eng EXCEPT !.running = FALSE, !.paused = FALSE, !.accepting = FALSE,
                        !.transitioning = FALSE]
  /\ Later(c, <<Bare("resetTiming"), Bare("stopVoices"), Bare("outStop")>>)
  /\ UNCHANGED <<deck, timing, analysis, voice, output, worker, client, asked, home>>

\* handle_set_paused
SetPaused(c) ==
  /\ Receive(c, "pause") /\ eng.running
  /\ eng' = [eng EXCEPT !.paused = ~@]
  /\ Later(c, <<Bare(IF eng.paused THEN "resume" ELSE "pause")>>)
  /\ UNCHANGED <<deck, timing, analysis, voice, output, worker, client, asked, home>>

\* handle_sync_event, for the three events Python sends.
\* track_seeked names the track Python believes on the air.
SyncSeeked(c) == LET d == eng.active IN
  /\ Receive(c, "seek") /\ Loaded(d) /\ eng.accepting
  /\ eng' = Settled
  /\ Later(c, <<Call("seek", d, deck[d].tok)>>)
  /\ UNCHANGED <<deck, timing, analysis, voice, output, worker, client, asked, home>>

\* transition_finished: a token the deck no longer holds replaces its descriptor.
SyncFinished(c, d, t) ==
  /\ Receive(c, IF Holds(d, t) THEN "finished" ELSE "late_finished")
  /\ home[t] = d /\ eng.accepting
  /\ deck' = IF Holds(d, t) THEN deck ELSE [deck EXCEPT ![d] = [EmptyDeck EXCEPT !.tok = t]]
  /\ eng' = Aired(d)
  /\ Later(c, <<Call("fadeDone", d, NoTrack)>>)
  /\ UNCHANGED <<timing, analysis, voice, output, worker, client, asked, home>>

\* track_ended names a track of the deck that is off the air.
SyncEnded(c, d, t) ==
  /\ Receive(c, "ended") /\ home[t] = d /\ d # eng.active
  /\ Later(c, <<Call("stopVoice", d, t), Call("stopOut", d, t)>>)
  /\ UNCHANGED <<control, analysis, voice, output, worker, client, asked, home>>

-----------------------------------------------------------------------------
(* The timing worker *)

\* What one poll copies under the lock, when nothing makes it give up.
Poll ==
  LET d == eng.active
      s == deck[d]
      n == deck[Other(d)]
  IN /\ worker.pc = "idle" /\ ~Busy("timing")
     /\ eng.running /\ ~eng.paused /\ ~eng.transitioning
     /\ Loaded(d) /\ (s.ready \/ s.terminal) /\ s.started
     /\ worker' = [pc |-> "polled", from |-> d, ftok |-> s.tok, ttok |-> n.tok,
                   terminal |-> s.terminal,
                   usable |-> n.tok # NoTrack /\ n.ready /\ ~n.consumed
                              /\ ~n.terminal /\ ~n.started]
     /\ UNCHANGED <<control, analysis, voice, output, client, todo, asked, bounds>>

\* start_pending_transition_entry, once the entry time has come
EnterScript ==
  LET f == timing.from
      d == timing.to
      intact == /\ eng.running /\ eng.transitioning
                /\ Holds(f, timing.ftok) /\ Holds(d, timing.ttok)
  IN /\ worker.pc \in {"idle", "polled"} /\ ~Busy("timing") /\ timing.entry
     /\ \/ /\ intact
           /\ timing' = [timing EXCEPT !.entry = FALSE]
           /\ eng' = [eng EXCEPT !.active = d]
           /\ deck' = [deck EXCEPT ![d] = Started(@)]
           /\ Later("timing", <<Call("activate", d, timing.ttok),
                               Call("startVoice", d, timing.ttok)>>)
        \/ /\ ~intact /\ eng.running
           /\ timing' = [timing EXCEPT !.entry = FALSE, !.completion = FALSE]
           /\ eng' = Settled
           /\ deck' = IF Holds(d, timing.ttok)
                      THEN [deck EXCEPT ![d].started = FALSE] ELSE deck
           /\ Later("timing", <<Call("fadeDone", f, NoTrack)>>)
        \/ /\ ~eng.running
           /\ timing' = [timing EXCEPT !.entry = FALSE]
           /\ UNCHANGED <<eng, deck, todo>>
     /\ UNCHANGED <<analysis, voice, output, worker, client, asked, bounds>>

\* finish_native_transition, once the completion time has come; the entry of an
\* interrupt is due earlier and looked at first.
FinishTransition ==
  LET f == timing.from
  IN /\ worker.pc \in {"idle", "polled"} /\ ~Busy("timing")
     /\ timing.completion /\ ~timing.entry
     /\ timing' = [timing EXCEPT !.completion = FALSE]
     /\ eng' = Settled
     /\ deck' = IF Holds(f, timing.ftok) THEN [deck EXCEPT ![f] = Released(@)] ELSE deck
     /\ Later("timing", <<Call("fadeDone", timing.to, NoTrack),
                         Call("stopVoice", f, timing.ftok),
                         Call("stopOut", f, timing.ftok)>>)
     /\ UNCHANGED <<analysis, voice, output, worker, client, asked, bounds>>

Goes(pc) == worker' = [worker EXCEPT !.pc = pc]
Sleeps == worker' = Asleep

\* scheduled_for, compared with the active track when that may have changed
KeptForever(t) == IF timing.scheduled = NoTrack THEN NoTrack ELSE t
Kept(t) == IF timing.scheduled = t THEN t ELSE NoTrack

Hard(t, u) == t \in HardClean \/ u \in HardClean

\* The rest of timing_thread_main: what the poll found decides what is next.
\* scheduled_for stops it for a track whose hand-off is already under way.
Decide ==
  LET f == worker.from
      t == worker.ftok
      kept == Kept(t)
  IN /\ worker.pc = "polled" /\ ~Busy("timing")
     /\ timing' = [timing EXCEPT !.scheduled = kept]
     /\ \/ /\ kept = t \/ voice[f][t] = "none"
           /\ Sleeps /\ asked' = asked
        \/ /\ kept # t /\ voice[f][t] # "none"
           /\ \E usable \in IF worker.usable THEN PrebufferReady(Other(f), worker.ttok)
                           ELSE {FALSE},
                 due \in BOOLEAN :
                   /\ asked' = (asked \/ (~usable /\ (worker.terminal \/ due)))
                   /\ IF usable /\ worker.terminal THEN Goes("recheck")
                      ELSE IF usable /\ due THEN Goes(IF Hard(t, worker.ttok) THEN "prime" ELSE "fade")
                      ELSE Sleeps
     /\ UNCHANGED <<deck, eng, analysis, voice, output, client, todo, bounds>>

\* start_terminal_recovery first looks for a reservation, under output->lock,
Recheck ==
  /\ worker.pc = "recheck"
  /\ IF hand.pending /\ hand.from = worker.from /\ hand.ftok = worker.ftok
     THEN Sleeps ELSE Goes("recover")
  /\ UNCHANGED <<control, analysis, voice, output, client, todo, asked, bounds>>

StillCurrent == LET w == worker IN
  /\ eng.running /\ ~eng.paused /\ ~eng.transitioning /\ eng.active = w.from
  /\ Holds(w.from, w.ftok) /\ Holds(Other(w.from), w.ttok)

\* and then moves to the other deck, under state->lock.
Recover ==
  LET f == worker.from
      d == Other(f)
      recovers == /\ StillCurrent /\ deck[f].terminal
                  /\ ~(deck[d].consumed \/ deck[d].terminal \/ deck[d].started)
  IN /\ worker.pc = "recover" /\ Sleeps
     /\ IF recovers
        THEN /\ deck' = [x \in Deck |-> IF x = d THEN Started(deck[x])
                                       ELSE Released(deck[x])]
             /\ eng' = Aired(d)
             /\ timing' = [timing EXCEPT !.scheduled = worker.ftok]
             /\ Later("timing", <<Call("stopOut", f, worker.ftok),
                                 Call("activate", d, worker.ttok),
                                 Call("startVoice", d, worker.ttok)>>)
        ELSE UNCHANGED <<control, todo>>
     /\ UNCHANGED <<analysis, voice, output, client, asked, bounds>>

\* arm_hard_handoff: prime, reserve, and only then remember it is scheduled.
WorkerPrime ==
  LET d == Other(worker.from)
  IN /\ worker.pc = "prime"
     /\ \/ PrimeVoice(d, worker.ttok) /\ Goes("arm")
        \/ PrimeFails(d, worker.ttok) /\ Sleeps
     /\ UNCHANGED <<control, analysis, output, client, todo, asked, bounds>>

WorkerArm ==
  LET d == Other(worker.from)
  IN /\ worker.pc = "arm"
     /\ IF Armable(worker.from, worker.ftok, d, worker.ttok)
        THEN Arm(worker.from, worker.ftok, d, worker.ttok) /\ Goes("store")
        ELSE UNCHANGED output /\ Sleeps
     /\ UNCHANGED <<control, analysis, voice, client, todo, asked, bounds>>

WorkerStore ==
  /\ worker.pc = "store" /\ Sleeps
  /\ timing' = [timing EXCEPT !.scheduled = worker.ftok]
  /\ UNCHANGED <<deck, eng, analysis, voice, output, client, todo, asked, bounds>>

\* start_native_transition
WorkerFade ==
  LET f == worker.from
      d == Other(f)
  IN /\ worker.pc = "fade" /\ Sleeps
     /\ IF StillCurrent
        THEN /\ eng' = [eng EXCEPT !.active = d, !.transitioning = TRUE]
             /\ deck' = [deck EXCEPT ![d] = Started(@)]
             /\ timing' = [scheduled |-> worker.ftok, completion |-> TRUE, entry |-> FALSE,
                           from |-> f, to |-> d,
                           ftok |-> worker.ftok, ttok |-> worker.ttok]
             /\ Later("timing", <<CallFrom("fadeStart", d, NoTrack, f, NoTrack),
                                 Call("activate", d, worker.ttok),
                                 Call("startVoice", d, worker.ttok)>>)
        ELSE UNCHANGED <<control, todo>>
     /\ UNCHANGED <<analysis, voice, output, client, asked, bounds>>

TimingWorker ==
  \/ Poll \/ EnterScript \/ FinishTransition \/ Decide \/ Recheck \/ Recover
  \/ WorkerPrime \/ WorkerArm \/ WorkerStore \/ WorkerFade

-----------------------------------------------------------------------------
(* The mixer, the decoders and the analysis workers *)

\* finalize_hard_handoff works on a copy of the reservation.
SwitchCalls(h) ==
  <<CallFrom("finalize", h.to, h.ttok, h.from, h.ftok), Call("commit", h.to, NoTrack),
    Call("stopVoice", h.from, h.ftok), Call("stopOut", h.from, h.ftok)>>

\* mix_tick_locked at the boundary: it switches only if it can read the target.
MixSwitch ==
  /\ ~Busy("mixer") /\ out.running /\ ~out.paused
  /\ hand.pending /\ hand.primed /\ slot[hand.to] # NoTrack
  /\ out' = [out EXCEPT !.primary = hand.to]
  /\ hand' = [hand EXCEPT !.pending = FALSE, !.primed = FALSE]
  /\ Later("mixer", SwitchCalls(hand))
  /\ UNCHANGED <<control, analysis, voice, slot, worker, client, asked, bounds>>

\* mix_tick_locked when the crossfade is over
MixFadeDone ==
  /\ ~Busy("mixer") /\ out.running /\ ~out.paused /\ out.fading
  /\ out' = [out EXCEPT !.fading = FALSE, !.primary = out.to]
  /\ UNCHANGED <<control, analysis, voice, slot, hand, worker, client, todo, asked, bounds>>

\* icecast_output_thread_main starts its pipeline again with empty FIFOs.
RestartPipeline ==
  /\ Restarts /\ ~Busy("mixer") /\ out.running /\ hand.primed
  /\ hand' = [hand EXCEPT !.primed = FALSE]
  /\ UNCHANGED <<control, analysis, voice, out, slot, worker, client, todo, asked, bounds>>

\* mark_prebuffer_ready.  A file is not opened and decoded in the instant between
\* finalize_hard_handoff's two critical sections, where nothing blocks.
DecoderReady(d, t) ==
  /\ voice[d][t] = "cued" /\ ~Doing("mixer", "commit")
  /\ voice' = [voice EXCEPT ![d] = [u \in Track |-> IF u = t THEN "ready" ELSE @[u]]]
  /\ UNCHANGED <<control, analysis, output, worker, client, todo, asked, bounds>>

\* run_decode fails before its first PCM: the ring is as empty as after the end.
DecoderFail(d, t) ==
  /\ voice[d][t] = "cued"
  /\ voice' = [voice EXCEPT ![d] = [u \in Track |-> IF u = t THEN "over" ELSE @[u]]]
  /\ UNCHANGED <<control, analysis, output, worker, client, todo, asked, bounds>>

\* A primed voice has a playback clock that starts at the boundary, and the arm
\* follows the prime at once: in between it consumes nothing either.
Primed(d, t) ==
  \/ worker.pc = "arm" /\ Other(worker.from) = d /\ worker.ttok = t
  \/ \E c \in Client : client[c].pc = "arm" /\ client[c].deck = d /\ client[c].tok = t

\* run_decode reaches the end, or fails, with its ring drained.  It consumes
\* nothing while paused, nor while the mixer has not switched to it.
DecoderEof(d, t) ==
  /\ voice[d][t] = "playing" /\ ~Busy(d) /\ ~eng.paused
  /\ Frozen(d, t) \/ Primed(d, t) => t \in Stub
  /\ voice' = [voice EXCEPT ![d] = [u \in Track |-> IF u = t THEN "over" ELSE @[u]]]
  /\ deck' = IF Holds(d, t) THEN [deck EXCEPT ![d].terminal = TRUE] ELSE deck
  /\ \E eof \in {"earlyEof", "naturalEof"} : Later(d, <<Call(eof, d, t)>>)
  /\ UNCHANGED <<eng, timing, analysis, output, worker, client, asked, bounds>>

\* analysis_worker_main takes the latest request; a later one, or another load,
\* supersedes the one it serves.
AnalysisTake(d) ==
  /\ analysis[d].phase = "idle" /\ analysis[d].wanted # NoTrack
  /\ analysis' = [analysis EXCEPT ![d] = [wanted |-> NoTrack, tok |-> @.wanted,
                                         phase |-> "decoding"]]
  /\ UNCHANGED <<control, voice, output, worker, client, todo, asked, bounds>>

StillWanted(d) == analysis[d].wanted = NoTrack /\ Holds(d, analysis[d].tok)
Answers(d) == analysis' = [analysis EXCEPT ![d].tok = NoTrack, ![d].phase = "idle"]

\* After the decode: still current, so cue the candidate (the lock is released
\* between the two);
AnalysisCheck(d) ==
  /\ analysis[d].phase = "decoding"
  /\ IF StillWanted(d) THEN analysis' = [analysis EXCEPT ![d].phase = "checked"]
     ELSE Answers(d)
  /\ UNCHANGED <<control, voice, output, worker, client, todo, asked, bounds>>

AnalysisPrepare(d) ==
  /\ analysis[d].phase = "checked"
  /\ Prepare(d, analysis[d].tok)
  /\ analysis' = [analysis EXCEPT ![d].phase = "prepared"]
  /\ UNCHANGED <<control, output, worker, client, todo, asked, bounds>>

\* then still current, so overwrite the descriptor with the worker's own copy.
AnalysisPublish(d) ==
  /\ analysis[d].phase = "prepared"
  /\ Answers(d)
  /\ deck' = IF StillWanted(d)
             THEN [deck EXCEPT ![d] = [EmptyDeck EXCEPT !.tok = deck[d].tok, !.ready = TRUE]]
             ELSE deck
  /\ UNCHANGED <<eng, timing, voice, output, worker, client, todo, asked, bounds>>

\* An undecodable file is published as rejected and never cued.
AnalysisReject(d) ==
  /\ analysis[d].phase = "decoding"
  /\ Answers(d)
  /\ deck' = IF StillWanted(d)
             THEN [deck EXCEPT ![d] = [tok |-> @.tok, ready |-> TRUE, started |-> FALSE,
                                       consumed |-> TRUE, terminal |-> TRUE]]
             ELSE deck
  /\ UNCHANGED <<eng, timing, voice, output, worker, client, todo, asked, bounds>>

Request(c) ==
  \/ \E d \in Deck, t \in Track :
       \/ \E guarded \in BOOLEAN : Load(c, d, t, guarded)
       \/ SyncFinished(c, d, t) \/ SyncEnded(c, d, t)
  \/ \E d \in Deck : \/ SelectDeck(c, d) \/ TransitionDeck(c, d)
                     \/ InterruptDeck(c, d) \/ HandoffDeck(c, d)
  \/ StartEngine(c) \/ StopEngine(c) \/ SetPaused(c) \/ SyncSeeked(c)

Handler(c) ==
  \/ Refuse(c) \/ Superseded(c) \/ CommitSelect(c) \/ CommitTransition(c)
  \/ CommitInterrupt(c) \/ HandoffPrime(c) \/ HandoffArm(c)

Analysis(d) == \/ AnalysisTake(d) \/ AnalysisCheck(d) \/ AnalysisPrepare(d)
               \/ AnalysisPublish(d) \/ AnalysisReject(d)

Next ==
  \/ \E c \in Client : Request(c) \/ Handler(c)
  \/ \E th \in Thread : Do(th)
  \/ TimingWorker
  \/ MixSwitch \/ MixFadeDone \/ RestartPipeline
  \/ \E d \in Deck, t \in Track : DecoderReady(d, t) \/ DecoderFail(d, t) \/ DecoderEof(d, t)
  \/ \E d \in Deck : Analysis(d)

\* Every thread loops and holds no lock across a wait, so what it can do it does.
\* An entry or a completion that is due is looked at in every round of its loop.
\* Nothing obliges a client to send, a track to end or a pipeline to restart.
Fairness ==
  /\ \A c \in Client : WF_vars(Handler(c))
  /\ \A th \in Thread : WF_vars(Do(th))
  /\ WF_vars(TimingWorker) /\ SF_vars(EnterScript) /\ SF_vars(FinishTransition)
  /\ WF_vars(MixSwitch) /\ WF_vars(MixFadeDone)
  /\ \A d \in Deck : WF_vars(Analysis(d)) /\ \A t \in Track : WF_vars(DecoderReady(d, t))

\* The station as it is once it plays: deck A has t on the air, deck B is empty.
OnAir(t) ==
  /\ deck = [d \in Deck |-> IF d = "A" THEN Started([EmptyDeck EXCEPT !.tok = t, !.ready = TRUE])
                            ELSE EmptyDeck]
  /\ eng = [running |-> TRUE, paused |-> FALSE, accepting |-> TRUE,
            transitioning |-> FALSE, active |-> "A"]
  /\ timing = NoTransition
  /\ analysis = [d \in Deck |-> NoAnalysis]
  /\ voice = [d \in Deck |-> [u \in Track |-> IF d = "A" /\ u = t THEN "playing" ELSE "none"]]
  /\ out = [running |-> TRUE, paused |-> FALSE, primary |-> "A",
            fading |-> FALSE, from |-> NoDeck, to |-> NoDeck]
  /\ slot = [d \in Deck |-> IF d = "A" THEN t ELSE NoTrack]
  /\ hand = NoHand
  /\ worker = Asleep
  /\ client = [c \in Client |-> NoCommand]
  /\ todo = [th \in Thread |-> <<>>]
  /\ asked = FALSE
  /\ home = [u \in Track |-> IF u = t THEN "A" ELSE NoDeck]
  /\ left = MaxCommands

Spec == Init /\ [][Next]_vars
FairSpec == Spec /\ Fairness

-----------------------------------------------------------------------------
(* Properties *)

\* A reserved destination keeps the token the reservation was made for: no load,
\* analysis or event may put another descriptor under PCM that is already primed
\* for the switch (handle_load against wb_icecast_output_schedule_hard_handoff).
ReservationOwnsTarget == hand.pending => Holds(hand.to, hand.ttok)

\* The engine implements the hand-off promise: while a destination is reserved its
\* descriptor stays and the mixer stays on its deck, whatever the threads do; a
\* change of deck for another reason gives the reservation up in the same step.
Reservation == INSTANCE HandoffReservation WITH
  token    <- [d \in Deck |-> deck[d].tok],
  onair    <- out.primary,
  reserved <- IF hand.pending THEN hand.to ELSE NoDeck,
  promised <- IF hand.pending THEN hand.ttok ELSE NoTrack
HandoffPromise == Reservation!HandoffSpec

\* The switch is always to a voice whose decoder is alive: nothing between the
\* prime and the boundary, a quarter of a minute later, may have drained or
\* stopped the target that mix_tick_locked is about to make audible.
Switches == /\ hand.pending /\ ~hand'.pending
            /\ hand'.to = hand.to /\ out'.primary = hand.to
SwitchIsAlive == [][Switches => voice[hand.to][hand.ttok] = "playing"]_vars

\* Once every thread has made its calls, and no transition is in progress, the
\* deck the engine calls active is the deck the mixer plays.
Quiet == \A th \in Thread : ~Busy(th)
AudibleIsActive ==
  Quiet /\ eng.running /\ out.running /\ ~timing.entry => out.primary = eng.active

\* A deck that was started stays started until another token replaces it; only
\* the abort of a scripted entry takes it back (analysis_worker_main overwrites
\* the whole descriptor with a copy made before the deck was started).
StartedUntilReplaced ==
  [][\A d \in Deck : deck[d].started /\ deck'[d].tok = deck[d].tok
       => deck'[d].started \/ (timing.entry /\ timing.to = d)]_vars

\* A transition that began ends, whatever was sent meanwhile: while transitioning
\* is set the timing worker asks for nothing and hands nothing over.
TransitionEnds == eng.transitioning ~> ~eng.transitioning

\* A reservation is used or given up, unless the mixer is paused: it may not hold
\* its deck against every load for ever (icecast_output_thread_main).
ReservationResolves == hand.pending ~> ~hand.pending \/ out.paused

\* When the track on the air has ended, the engine moves to the other deck or
\* asks for a track to put there.
Starving == eng.running /\ ~eng.paused /\ deck[eng.active].terminal /\ ~asked
EndedTrackIsFollowed == Starving ~> ~Starving
=============================================================================
