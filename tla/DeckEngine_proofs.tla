------------------------- MODULE DeckEngine_proofs -------------------------
(***************************************************************************)
(* Theorems about DeckEngine, for any tracks, clients and bounds: its      *)
(* types, the ownership of a reserved destination, the implementation of   *)
(* the promise HandoffReservation states, that a started deck stays        *)
(* started, that the audible deck is the active one, and that a switch is  *)
(* to a living voice.  The first part shows, action by action, that the    *)
(* types are kept; the second what each action does to the six pieces of   *)
(* state the promise is about; the third follows a token through its       *)
(* analysis; the fourth follows the calls each thread still makes while    *)
(* the station plays on; the fifth what was heard of each token.           *)
(***************************************************************************)
EXTENDS DeckEngine, SequenceTheorems, TLAPS

(* The parts of TypeOK, one for each variable the actions change. *)

DeckType == deck \in [Deck -> DeckState]
EngType == eng \in [running : BOOLEAN, paused : BOOLEAN, accepting : BOOLEAN,
                    transitioning : BOOLEAN, active : Deck]
TimingType ==
  /\ timing \in [scheduled : Token, completion : BOOLEAN, entry : BOOLEAN,
                 from : DeckOr, to : DeckOr, ftok : Token, ttok : Token]
  /\ timing.completion \/ timing.entry => timing.from \in Deck /\ timing.to \in Deck
AnalysisType ==
  analysis \in [Deck -> [wanted : Token, tok : Token,
                         phase : {"idle", "decoding", "checked", "prepared"}]]
VoiceType == voice \in [Deck -> [Track -> Status]]
OutType == out \in [running : BOOLEAN, paused : BOOLEAN, primary : DeckOr,
                    fading : BOOLEAN, from : DeckOr, to : DeckOr]
SlotType == slot \in [Deck -> Token]
HandType ==
  /\ hand \in [pending : BOOLEAN, from : DeckOr, to : DeckOr,
               ftok : Token, ttok : Token, primed : BOOLEAN]
  /\ hand.pending => hand.from \in Deck /\ hand.to \in Deck
WorkerType ==
  worker \in [pc : {"idle", "polled", "recheck", "recover", "prime", "arm", "store", "fade"},
              from : Deck, ftok : Token, ttok : Token, terminal : BOOLEAN, usable : BOOLEAN]
ClientType ==
  client \in [Client -> [pc : {"idle", "wait", "prime", "arm"},
                         op : {"none", "select", "handoff", "transition", "interrupt"},
                         deck : Deck, tok : Token, usable : Verdict,
                         from : Deck, ftok : Token, fusable : Verdict]]
TodoType == todo \in [Thread -> Seq(Effect)]
RestType == asked \in BOOLEAN /\ home \in [Track -> DeckOr] /\ left \in 0..MaxCommands

LEMMA TypeParts ==
  TypeOK <=> /\ DeckType /\ EngType /\ TimingType /\ AnalysisType /\ VoiceType /\ OutType
             /\ SlotType /\ HandType /\ WorkerType /\ ClientType /\ TodoType /\ RestType
BY DEF TypeOK, DeckType, EngType, TimingType, AnalysisType, VoiceType,
   OutType, SlotType, HandType, WorkerType, ClientType, TodoType, RestType

LEMMA TypePartsNext ==
  TypeOK' <=> /\ DeckType' /\ EngType' /\ TimingType' /\ AnalysisType' /\ VoiceType' /\ OutType'
              /\ SlotType' /\ HandType' /\ WorkerType' /\ ClientType' /\ TodoType' /\ RestType'
BY DEF TypeOK, DeckType, EngType, TimingType, AnalysisType, VoiceType,
   OutType, SlotType, HandType, WorkerType, ClientType, TodoType, RestType

-----------------------------------------------------------------------------
(* Records, calls and their queues *)

LEMMA EmptyTypes == /\ EmptyDeck \in DeckState
                    /\ \A s \in DeckState : Started(s) \in DeckState /\ Released(s) \in DeckState
                    /\ \A s \in DeckState : Started(s).tok = s.tok /\ Released(s).tok = s.tok
BY DEF EmptyDeck, DeckState, Token, Started, Released

LEMMA OtherDeck == \A d \in Deck : Other(d) \in Deck /\ Other(d) # d
BY DEF Deck, Other

LEMMA CallType ==
  ASSUME NEW op \in Op, NEW d \in Deck, NEW t \in Token
  PROVE  Call(op, d, t) \in Effect
BY DEF Call, Effect, DeckOr, Token

LEMMA CallFromType ==
  ASSUME NEW op \in Op, NEW d \in Deck, NEW t \in Token, NEW f \in DeckOr, NEW ft \in Token
  PROVE  CallFrom(op, d, t, f, ft) \in Effect
BY DEF CallFrom, Effect, DeckOr, Token

LEMMA BareType == \A op \in EngineWide : Bare(op) \in Effect
BY DEF Bare, Call, Effect, EngineWide, Op, DeckOr, Token

\* The call at the head of a thread's queue, and the queue without it.
LEMMA HeadTail ==
  ASSUME TodoType, NEW th \in Thread, todo[th] # <<>>
  PROVE  Head(todo[th]) \in Effect /\ Tail(todo[th]) \in Seq(Effect)
BY HeadTailProperties DEF TodoType

LEMMA DoneType ==
  ASSUME TodoType, NEW th \in Thread, todo[th] # <<>>, Done(th)
  PROVE  TodoType'
BY HeadTail DEF TodoType, Done

LEMMA ThenFirstType ==
  ASSUME TodoType, NEW th \in Thread, todo[th] # <<>>, NEW e \in Effect, ThenFirst(th, e)
  PROVE  TodoType'
<1>1. <<e>> \o Tail(todo[th]) \in Seq(Effect)
  BY HeadTail, ConcatProperties
<1> QED
  BY <1>1 DEF TodoType, ThenFirst

LEMMA LaterType ==
  ASSUME TodoType, NEW th \in Thread, NEW es \in Seq(Effect), Later(th, es)
  PROVE  TodoType'
BY DEF TodoType, Later

-----------------------------------------------------------------------------
(* Candidates and voices *)

LEMMA SeatType ==
  ASSUME VoiceType, NEW d, NEW t, NEW s \in Status, Seat(d, t, s)
  PROVE  VoiceType'
BY DEF VoiceType, Seat, Status

LEMMA PrepareType == ASSUME VoiceType, NEW d, NEW t, Prepare(d, t) PROVE VoiceType'
<1>1. "cued" \in Status
  BY DEF Status
<1> QED
  BY <1>1, SeatType DEF Prepare, VoiceType

LEMMA PromoteType ==
  ASSUME VoiceType, NEW d, NEW t, NEW s \in Status, Promote(d, t, s)
  PROVE  VoiceType'
<1>1. PICK retired :
        voice' = [voice EXCEPT ![d] = [u \in Track |-> IF u = t THEN s
                                     ELSE IF u \in retired THEN "none" ELSE @[u]]]
  BY DEF Promote
<1> QED
  BY <1>1 DEF VoiceType, Status

LEMMA ActivateType == ASSUME VoiceType, NEW d, NEW t, Activate(d, t) PROVE VoiceType'
<1>1. "playing" \in Status /\ "hollow" \in Status
  BY DEF Status
<1>2. CASE voice[d][t] = "none"
  BY <1>1, <1>2, SeatType DEF Activate
<1>3. CASE voice[d][t] \in {"cued", "ready", "over"}
  BY <1>1, <1>3, PromoteType DEF Activate
<1>4. CASE voice[d][t] = "stopped"
  <2>1. PICK s \in {"playing", "hollow"} : Promote(d, t, s)
    BY <1>4 DEF Activate
  <2> QED
    BY <1>1, <2>1, PromoteType
<1>5. CASE voice[d][t] \notin {"none", "cued", "ready", "over", "stopped"}
  BY <1>5 DEF Activate, VoiceType
<1> QED
  BY <1>2, <1>3, <1>4, <1>5

LEMMA PrimeType == ASSUME VoiceType, NEW d, NEW t, PrimeVoice(d, t) PROVE VoiceType'
BY PromoteType DEF PrimeVoice, Status

LEMMA ArmType ==
  ASSUME OutType, SlotType, NEW f \in Deck, NEW d \in Deck,
         NEW ft \in Token, NEW t \in Token, Arm(f, ft, d, t)
  PROVE  OutType' /\ SlotType' /\ HandType'
<1>1. OutType' /\ SlotType'
  BY DEF Arm, OutType, SlotType, DeckOr
<1>2. HandType'
  BY DEF Arm, HandType, DeckOr, Token
<1> QED
  BY <1>1, <1>2

LEMMA NoHandType == hand' = NoHand => HandType'
BY DEF NoHand, HandType, DeckOr, Token

LEMMA UnreserveType == ASSUME HandType, NEW d, NEW t, Unreserve(d, t) PROVE HandType'
BY NoHandType DEF Unreserve, HandType

LEMMA VerdictType == \A s : VerdictOf(s) \in Verdict
BY DEF VerdictOf, Verdict

-----------------------------------------------------------------------------
(* Each action keeps the types *)

LEMMA PrepareVoiceType ==
  ASSUME TypeOK, NEW th \in Thread, PrepareVoice(th) PROVE TypeOK'
<1>1. Head(todo[th]) \in Effect
  BY HeadTail, TypeParts DEF PrepareVoice, Doing
<1>2. TodoType'
  BY DoneType, TypeParts DEF PrepareVoice, Doing
<1>3. VoiceType'
  BY PrepareType, TypeParts DEF PrepareVoice
<1>4. UNCHANGED <<deck, eng, timing, analysis, out, slot, hand, worker, client, asked, home,
     left>>
  BY DEF PrepareVoice, control, output, bounds
<1> QED
  BY <1>1, <1>2, <1>3, <1>4, TypeParts, TypePartsNext DEF DeckType, EngType, TimingType,
     AnalysisType, OutType, SlotType, HandType, WorkerType, ClientType, RestType

LEMMA ScheduleAnalysisType ==
  ASSUME TypeOK, NEW th \in Thread, ScheduleAnalysis(th) PROVE TypeOK'
<1>1. Head(todo[th]) \in Effect
  BY HeadTail, TypeParts DEF ScheduleAnalysis, Doing
<1>2. TodoType'
  BY DoneType, TypeParts DEF ScheduleAnalysis, Doing
<1>3. AnalysisType'
  BY <1>1, TypeParts DEF ScheduleAnalysis, AnalysisType, Effect, Op, EngineWide, DeckOr, Token
<1>4. UNCHANGED <<deck, eng, timing, voice, out, slot, hand, worker, client, asked, home, left>>
  BY DEF ScheduleAnalysis, control, output, bounds
<1> QED
  BY <1>1, <1>2, <1>3, <1>4, TypeParts, TypePartsNext DEF DeckType, EngType, TimingType,
     VoiceType, OutType, SlotType, HandType, WorkerType, ClientType, RestType

LEMMA ActivateTrackType ==
  ASSUME TypeOK, NEW th \in Thread, ActivateTrack(th) PROVE TypeOK'
<1>1. Head(todo[th]) \in Effect
  BY HeadTail, TypeParts DEF ActivateTrack, Doing
<1>2. TodoType'
  BY DoneType, TypeParts DEF ActivateTrack, Doing
<1>3. OutType'
  BY <1>1, TypeParts DEF ActivateTrack, OutType, Effect, Op, EngineWide, DeckOr, Token
<1>4. SlotType'
  BY <1>1, TypeParts DEF ActivateTrack, SlotType, Effect, Op, EngineWide, DeckOr, Token
<1>5. HandType'
  BY NoHandType DEF ActivateTrack
<1>6. UNCHANGED <<deck, eng, timing, analysis, voice, worker, client, asked, home, left>>
  BY DEF ActivateTrack, control, output, bounds
<1> QED
  BY <1>1, <1>2, <1>3, <1>4, <1>5, <1>6, TypeParts, TypePartsNext DEF DeckType, EngType,
     TimingType, AnalysisType, VoiceType, WorkerType, ClientType, RestType

LEMMA StartVoiceType ==
  ASSUME TypeOK, NEW th \in Thread, StartVoice(th) PROVE TypeOK'
<1>1. Head(todo[th]) \in Effect
  BY HeadTail, TypeParts DEF StartVoice, Doing
<1>2. TodoType'
  BY DoneType, TypeParts DEF StartVoice, Doing
<1>3. VoiceType'
  BY ActivateType, TypeParts DEF StartVoice
<1>4. UNCHANGED <<deck, eng, timing, analysis, out, slot, hand, worker, client, asked, home,
     left>>
  BY DEF StartVoice, control, output, bounds
<1> QED
  BY <1>1, <1>2, <1>3, <1>4, TypeParts, TypePartsNext DEF DeckType, EngType, TimingType,
     AnalysisType, OutType, SlotType, HandType, WorkerType, ClientType, RestType

LEMMA StopVoiceType ==
  ASSUME TypeOK, NEW th \in Thread, StopVoice(th) PROVE TypeOK'
<1>1. Head(todo[th]) \in Effect
  BY HeadTail, TypeParts DEF StopVoice, Doing
<1>2. TodoType'
  BY DoneType, TypeParts DEF StopVoice, Doing
<1>3. VoiceType'
  BY TypeParts DEF StopVoice, VoiceType, Stopped, Status
<1>4. UNCHANGED <<deck, eng, timing, analysis, out, slot, hand, worker, client, asked, home,
     left>>
  BY DEF StopVoice, control, output, bounds
<1> QED
  BY <1>1, <1>2, <1>3, <1>4, TypeParts, TypePartsNext DEF DeckType, EngType, TimingType,
     AnalysisType, OutType, SlotType, HandType, WorkerType, ClientType, RestType

LEMMA StopVoicesType ==
  ASSUME TypeOK, NEW th \in Thread, StopVoices(th) PROVE TypeOK'
<1>1. Head(todo[th]) \in Effect
  BY HeadTail, TypeParts DEF StopVoices, Doing
<1>2. TodoType'
  BY DoneType, TypeParts DEF StopVoices, Doing
<1>3. VoiceType'
  BY DEF StopVoices, VoiceType, Status
<1>4. UNCHANGED <<deck, eng, timing, analysis, out, slot, hand, worker, client, asked, home,
     left>>
  BY DEF StopVoices, control, output, bounds
<1> QED
  BY <1>1, <1>2, <1>3, <1>4, TypeParts, TypePartsNext DEF DeckType, EngType, TimingType,
     AnalysisType, OutType, SlotType, HandType, WorkerType, ClientType, RestType

LEMMA TransitionStartedType ==
  ASSUME TypeOK, NEW th \in Thread, TransitionStarted(th) PROVE TypeOK'
<1>1. Head(todo[th]) \in Effect
  BY HeadTail, TypeParts DEF TransitionStarted, Doing
<1>2. TodoType'
  BY DoneType, TypeParts DEF TransitionStarted, Doing
<1>3. OutType'
  BY <1>1, TypeParts DEF TransitionStarted, OutType, Effect, Op, EngineWide, DeckOr, Token
<1>4. HandType'
  BY NoHandType DEF TransitionStarted
<1>5. UNCHANGED <<deck, eng, timing, analysis, voice, slot, worker, client, asked, home, left>>
  BY DEF TransitionStarted, control, output, bounds
<1> QED
  BY <1>1, <1>2, <1>3, <1>4, <1>5, TypeParts, TypePartsNext DEF DeckType, EngType, TimingType,
     AnalysisType, VoiceType, SlotType, WorkerType, ClientType, RestType

LEMMA TransitionFinishedType ==
  ASSUME TypeOK, NEW th \in Thread, TransitionFinished(th) PROVE TypeOK'
<1>1. Head(todo[th]) \in Effect
  BY HeadTail, TypeParts DEF TransitionFinished, Doing
<1>2. TodoType'
  BY DoneType, TypeParts DEF TransitionFinished, Doing
<1>3. OutType'
  BY <1>1, TypeParts DEF TransitionFinished, OutType, Effect, Op, EngineWide, DeckOr, Token
<1>4. HandType'
  BY NoHandType DEF TransitionFinished
<1>5. UNCHANGED <<deck, eng, timing, analysis, voice, slot, worker, client, asked, home, left>>
  BY DEF TransitionFinished, control, output, bounds
<1> QED
  BY <1>1, <1>2, <1>3, <1>4, <1>5, TypeParts, TypePartsNext DEF DeckType, EngType, TimingType,
     AnalysisType, VoiceType, SlotType, WorkerType, ClientType, RestType

LEMMA PrepareDelayedEntryType ==
  ASSUME TypeOK, NEW th \in Thread, PrepareDelayedEntry(th) PROVE TypeOK'
<1>1. Head(todo[th]) \in Effect
  BY HeadTail, TypeParts DEF PrepareDelayedEntry, Doing
<1>2. TodoType'
  BY DoneType, TypeParts DEF PrepareDelayedEntry, Doing
<1>3. SlotType'
  BY <1>1, TypeParts DEF PrepareDelayedEntry, SlotType, Effect, Op, EngineWide, DeckOr, Token
<1>4. HandType'
  BY TypeParts DEF PrepareDelayedEntry, HandType
<1>5. UNCHANGED <<deck, eng, timing, analysis, voice, out, worker, client, asked, home, left>>
  BY DEF PrepareDelayedEntry, control, output, bounds
<1> QED
  BY <1>1, <1>2, <1>3, <1>4, <1>5, TypeParts, TypePartsNext DEF DeckType, EngType, TimingType,
     AnalysisType, VoiceType, OutType, WorkerType, ClientType, RestType

LEMMA StopTrackType ==
  ASSUME TypeOK, NEW th \in Thread, StopTrack(th) PROVE TypeOK'
<1>1. Head(todo[th]) \in Effect
  BY HeadTail, TypeParts DEF StopTrack, Doing
<1>2. TodoType'
  BY DoneType, TypeParts DEF StopTrack, Doing
<1>3. SlotType'
  BY <1>1, TypeParts DEF StopTrack, SlotType, Effect, Op, EngineWide, DeckOr, Token
<1>4. HandType'
  BY UnreserveType, TypeParts DEF StopTrack
<1>5. UNCHANGED <<deck, eng, timing, analysis, voice, out, worker, client, asked, home, left>>
  BY DEF StopTrack, control, output, bounds
<1> QED
  BY <1>1, <1>2, <1>3, <1>4, <1>5, TypeParts, TypePartsNext DEF DeckType, EngType, TimingType,
     AnalysisType, VoiceType, OutType, WorkerType, ClientType, RestType

LEMMA OutputStartType ==
  ASSUME TypeOK, NEW th \in Thread, OutputStart(th) PROVE TypeOK'
<1>1. Head(todo[th]) \in Effect
  BY HeadTail, TypeParts DEF OutputStart, Doing
<1>2. TodoType'
  BY DoneType, TypeParts DEF OutputStart, Doing
<1>3. OutType'
  BY <1>1, TypeParts DEF OutputStart, OutType, Effect, Op, EngineWide, DeckOr, Token
<1>4. UNCHANGED <<deck, eng, timing, analysis, voice, slot, hand, worker, client, asked, home,
     left>>
  BY DEF OutputStart, control, output, bounds
<1> QED
  BY <1>1, <1>2, <1>3, <1>4, TypeParts, TypePartsNext DEF DeckType, EngType, TimingType,
     AnalysisType, VoiceType, SlotType, HandType, WorkerType, ClientType, RestType

LEMMA OutputStopType ==
  ASSUME TypeOK, NEW th \in Thread, OutputStop(th) PROVE TypeOK'
<1>1. Head(todo[th]) \in Effect
  BY HeadTail, TypeParts DEF OutputStop, Doing
<1>2. TodoType'
  BY DoneType, TypeParts DEF OutputStop, Doing
<1>3. OutType'
  BY <1>1, TypeParts DEF OutputStop, OutType, Effect, Op, EngineWide, DeckOr, Token
<1>4. SlotType'
  BY <1>1, TypeParts DEF OutputStop, SlotType, Effect, Op, EngineWide, DeckOr, Token
<1>5. HandType'
  BY NoHandType DEF OutputStop
<1>6. UNCHANGED <<deck, eng, timing, analysis, voice, worker, client, asked, home, left>>
  BY DEF OutputStop, control, output, bounds
<1> QED
  BY <1>1, <1>2, <1>3, <1>4, <1>5, <1>6, TypeParts, TypePartsNext DEF DeckType, EngType,
     TimingType, AnalysisType, VoiceType, WorkerType, ClientType, RestType

LEMMA ResetTimingType ==
  ASSUME TypeOK, NEW th \in Thread, ResetTiming(th) PROVE TypeOK'
<1>1. Head(todo[th]) \in Effect
  BY HeadTail, TypeParts DEF ResetTiming, Doing
<1>2. TodoType'
  BY DoneType, TypeParts DEF ResetTiming, Doing
<1>3. TimingType'
  BY <1>1, TypeParts DEF ResetTiming, TimingType, Effect, Op, EngineWide, DeckOr, Token
<1>4. UNCHANGED <<deck, eng, analysis, voice, out, slot, hand, worker, client, asked, home,
     left>>
  BY DEF ResetTiming, control, output, bounds
<1> QED
  BY <1>1, <1>2, <1>3, <1>4, TypeParts, TypePartsNext DEF DeckType, EngType, AnalysisType,
     VoiceType, OutType, SlotType, HandType, WorkerType, ClientType, RestType

LEMMA OutputPauseType ==
  ASSUME TypeOK, NEW th \in Thread, OutputPause(th) PROVE TypeOK'
<1>1. Head(todo[th]) \in Effect
  BY HeadTail, TypeParts DEF OutputPause, Doing
<1>2. TodoType'
  BY DoneType, TypeParts DEF OutputPause, Doing
<1>3. OutType'
  BY TypeParts DEF OutputPause, Doing, OutType
<1>4. UNCHANGED <<deck, eng, timing, analysis, voice, slot, hand, worker, client, asked, home,
     left>>
  BY DEF OutputPause, control, output, bounds
<1> QED
  BY <1>1, <1>2, <1>3, <1>4, TypeParts, TypePartsNext DEF DeckType, EngType, TimingType,
     AnalysisType, VoiceType, SlotType, HandType, WorkerType, ClientType, RestType

LEMMA SeekVoiceType ==
  ASSUME TypeOK, NEW th \in Thread, SeekVoice(th) PROVE TypeOK'
<1>1. Head(todo[th]) \in Effect
  BY HeadTail, TypeParts DEF SeekVoice, Doing
<1>2. VoiceType'
  BY TypeParts DEF SeekVoice, VoiceType, Status
<1>3. TodoType'
  <2>1. CASE Done(th)
    BY <2>1, DoneType, TypeParts DEF SeekVoice, Doing
  <2>2. CASE ThenFirst(th, Call("seekOut", Head(todo[th]).deck, Head(todo[th]).tok))
    <3>1. Call("seekOut", Head(todo[th]).deck, Head(todo[th]).tok) \in Effect
      BY <1>1, CallType DEF SeekVoice, Doing, Effect, Op, EngineWide
    <3> QED
      BY <2>2, <3>1, ThenFirstType, TypeParts DEF SeekVoice, Doing
  <2> QED
    BY <2>1, <2>2 DEF SeekVoice
<1>4. UNCHANGED <<deck, eng, timing, analysis, out, slot, hand, worker, client, asked, home,
     left>>
  BY DEF SeekVoice, control, output, bounds
<1> QED
  BY <1>1, <1>2, <1>3, <1>4, TypeParts, TypePartsNext DEF DeckType, EngType, TimingType,
     AnalysisType, OutType, SlotType, HandType, WorkerType, ClientType, RestType

LEMMA SeekOutputType ==
  ASSUME TypeOK, NEW th \in Thread, SeekOutput(th) PROVE TypeOK'
<1>1. Head(todo[th]) \in Effect
  BY HeadTail, TypeParts DEF SeekOutput, Doing
<1>2. TodoType'
  BY DoneType, TypeParts DEF SeekOutput, Doing
<1>3. OutType'
  BY <1>1, TypeParts DEF SeekOutput, OutType, Effect, Op, EngineWide, DeckOr, Token
<1>4. SlotType'
  BY <1>1, TypeParts DEF SeekOutput, SlotType, Effect, Op, EngineWide, DeckOr, Token
<1>5. HandType'
  BY NoHandType DEF SeekOutput
<1>6. UNCHANGED <<deck, eng, timing, analysis, voice, worker, client, asked, home, left>>
  BY DEF SeekOutput, control, output, bounds
<1> QED
  BY <1>1, <1>2, <1>3, <1>4, <1>5, <1>6, TypeParts, TypePartsNext DEF DeckType, EngType,
     TimingType, AnalysisType, VoiceType, WorkerType, ClientType, RestType

LEMMA HandleEofType ==
  ASSUME TypeOK, NEW th \in Thread, HandleEof(th) PROVE TypeOK'
<1>1. Head(todo[th]) \in Effect
  BY HeadTail, TypeParts DEF HandleEof, Doing
<1>2. SlotType'
  BY <1>1, TypeParts DEF HandleEof, SlotType, Token
<1>3. HandType'
  BY UnreserveType, TypeParts DEF HandleEof, HandType
<1>4. TodoType'
  <2>1. CASE Done(th)
    BY <2>1, DoneType, TypeParts DEF HandleEof, Doing
  <2>2. CASE /\ Doing(th, "naturalEof")
             /\ ThenFirst(th, Call("stopOut", Head(todo[th]).deck, Head(todo[th]).tok))
    <3>1. Call("stopOut", Head(todo[th]).deck, Head(todo[th]).tok) \in Effect
      BY <1>1, <2>2, CallType DEF Doing, Effect, Op, EngineWide
    <3> QED
      BY <2>2, <3>1, ThenFirstType, TypeParts DEF Doing
  <2> QED
    BY <2>1, <2>2 DEF HandleEof
<1>5. UNCHANGED <<deck, eng, timing, analysis, voice, out, worker, client, asked, home, left>>
  BY DEF HandleEof, control, output, bounds
<1> QED
  BY <1>1, <1>2, <1>3, <1>4, <1>5, TypeParts, TypePartsNext DEF DeckType, EngType, TimingType,
     AnalysisType, VoiceType, OutType, WorkerType, ClientType, RestType

LEMMA FinalizeHandoffType ==
  ASSUME TypeOK, NEW th \in Thread, FinalizeHandoff(th) PROVE TypeOK'
<1>1. Head(todo[th]) \in Effect
  BY HeadTail, TypeParts DEF FinalizeHandoff, Doing
<1>2. TodoType'
  BY DoneType, TypeParts DEF FinalizeHandoff, Doing
<1>3. DeckType'
  BY EmptyTypes, TypeParts DEF FinalizeHandoff, DeckType
<1>4. EngType'
  <2>1. Head(todo[th]).deck \in Deck
    BY <1>1 DEF FinalizeHandoff, Doing, Effect, EngineWide
  <2> QED
    BY <2>1, TypeParts DEF FinalizeHandoff, EngType, Aired
<1>5. UNCHANGED <<timing, analysis, voice, out, slot, hand, worker, client, asked, home, left>>
  BY DEF FinalizeHandoff, control, output, bounds
<1> QED
  BY <1>1, <1>2, <1>3, <1>4, <1>5, TypeParts, TypePartsNext DEF TimingType, AnalysisType,
     VoiceType, OutType, SlotType, HandType, WorkerType, ClientType, RestType

LEMMA CommitMetadataType ==
  ASSUME TypeOK, NEW th \in Thread, CommitMetadata(th) PROVE TypeOK'
<1>1. Head(todo[th]) \in Effect
  BY HeadTail, TypeParts DEF CommitMetadata, Doing
<1>2. TodoType'
  BY DoneType, TypeParts DEF CommitMetadata, Doing
<1>3. OutType'
  BY <1>1, TypeParts DEF CommitMetadata, OutType, Effect, Op, EngineWide, DeckOr, Token
<1>4. HandType'
  BY NoHandType DEF CommitMetadata
<1>5. UNCHANGED <<deck, eng, timing, analysis, voice, slot, worker, client, asked, home, left>>
  BY DEF CommitMetadata, control, output, bounds
<1> QED
  BY <1>1, <1>2, <1>3, <1>4, <1>5, TypeParts, TypePartsNext DEF DeckType, EngType, TimingType,
     AnalysisType, VoiceType, SlotType, WorkerType, ClientType, RestType

LEMMA DoType == ASSUME TypeOK, NEW th \in Thread, Do(th) PROVE TypeOK'
BY PrepareVoiceType, ScheduleAnalysisType, ActivateTrackType, StartVoiceType, StopVoiceType,
   StopVoicesType, TransitionStartedType, TransitionFinishedType, PrepareDelayedEntryType,
   StopTrackType, OutputStartType, OutputStopType, ResetTimingType, OutputPauseType,
   SeekVoiceType, SeekOutputType, HandleEofType, FinalizeHandoffType, CommitMetadataType
   DEF Do

LEMMA ReceiveType ==
  ASSUME RestType, NEW c, NEW kind, Receive(c, kind)
  PROVE  left' \in 0..MaxCommands
BY ConstantsAssumption DEF ConstantsAssumption, RestType, Receive

LEMMA ClientThread == Client \subseteq Thread /\ "timing" \in Thread /\ "mixer" \in Thread /\ Deck \subseteq Thread
BY DEF Thread

LEMMA LoadType ==
  ASSUME TypeOK, NEW c \in Client, NEW d \in Deck, NEW t \in Track, NEW guarded \in BOOLEAN,
       Load(c, d, t, guarded) PROVE TypeOK'
<1>1. DeckType'
  <2>1. \A b \in BOOLEAN : [EmptyDeck EXCEPT !.tok = t, !.ready = b] \in DeckState
    BY DEF EmptyDeck, DeckState, Token
  <2>2. (t \notin Analysed) \in BOOLEAN
    OBVIOUS
  <2>3. [EmptyDeck EXCEPT !.tok = t, !.ready = t \notin Analysed] \in DeckState
    BY <2>1, <2>2
  <2> QED
    BY <2>3, TypeParts DEF Load, DeckType
<1>2. TodoType'
  <2>1. CASE todo' = todo
    BY <2>1, TypeParts DEF TodoType
  <2>2. CASE Later(c, <<Call(IF t \in Analysed THEN "analyse" ELSE "prepare", d, t)>>)
    <3>1. Call(IF t \in Analysed THEN "analyse" ELSE "prepare", d, t) \in Effect
      BY CallType DEF Op, Token
    <3>2. <<Call(IF t \in Analysed THEN "analyse" ELSE "prepare", d, t)>> \in Seq(Effect)
      BY <3>1
    <3> QED
      BY <2>2, <3>2, LaterType, ClientThread, TypeParts
  <2> QED
    BY <2>1, <2>2 DEF Load
<1>3. RestType'
  <2>1. left' \in 0..MaxCommands
    BY ReceiveType, TypeParts DEF Load
  <2> QED
    BY <2>1, TypeParts DEF Load, RestType, DeckOr
<1>4. UNCHANGED <<eng, timing, analysis, voice, out, slot, hand, worker, client>>
  BY DEF Load, control, output, bounds
<1> QED
  BY <1>1, <1>2, <1>3, <1>4, TypeParts, TypePartsNext DEF EngType, TimingType, AnalysisType,
     VoiceType, OutType, SlotType, HandType, WorkerType, ClientType

LEMMA SnapshotType ==
  ASSUME TypeOK, NEW c \in Client, NEW kind \in {"select", "handoff", "transition",
       "interrupt"}, NEW d \in Deck, Snapshot(c, kind, d) PROVE TypeOK'
<1>1. ClientType'
  <2>1. deck[d].tok \in Token /\ deck[eng.active].tok \in Token /\ eng.active \in Deck
    BY TypeParts DEF DeckType, EngType, DeckState
  <2>2. VerdictOf(deck[d]) \in Verdict
        /\ (IF kind = "handoff" THEN VerdictOf(deck[eng.active]) ELSE "yes") \in Verdict
    BY VerdictType DEF Verdict
  <2> QED
    BY <2>1, <2>2, TypeParts DEF Snapshot, ClientType
<1>2. RestType'
  BY ReceiveType, TypeParts DEF Snapshot, RestType
<1>3. UNCHANGED <<deck, eng, timing, analysis, voice, out, slot, hand, worker, todo>>
  BY DEF Snapshot, control, output, bounds
<1> QED
  BY <1>1, <1>2, <1>3, TypeParts, TypePartsNext DEF DeckType, EngType, TimingType,
     AnalysisType, VoiceType, OutType, SlotType, HandType, WorkerType, TodoType

LEMMA RefuseType ==
  ASSUME TypeOK, NEW c \in Client, Refuse(c) PROVE TypeOK'
<1>1. ClientType'
  BY TypeParts DEF Refuse, Answered, ClientType, NoCommand, Deck, Token, Verdict
<1>2. UNCHANGED <<deck, eng, timing, analysis, voice, out, slot, hand, worker, todo, asked,
     home, left>>
  BY DEF Refuse, control, output, bounds
<1> QED
  BY <1>1, <1>2, TypeParts, TypePartsNext DEF DeckType, EngType, TimingType, AnalysisType,
     VoiceType, OutType, SlotType, HandType, WorkerType, TodoType, RestType

LEMMA SupersededType ==
  ASSUME TypeOK, NEW c \in Client, Superseded(c) PROVE TypeOK'
<1>1. ClientType'
  BY TypeParts DEF Superseded, Answered, ClientType, NoCommand, Deck, Token, Verdict
<1>2. UNCHANGED <<deck, eng, timing, analysis, voice, out, slot, hand, worker, todo, asked,
     home, left>>
  BY DEF Superseded, control, output, bounds
<1> QED
  BY <1>1, <1>2, TypeParts, TypePartsNext DEF DeckType, EngType, TimingType, AnalysisType,
     VoiceType, OutType, SlotType, HandType, WorkerType, TodoType, RestType

LEMMA HandlerFields ==
  ASSUME ClientType, NEW c \in Client
  PROVE  /\ client[c].deck \in Deck /\ client[c].tok \in Token
         /\ client[c].from \in Deck /\ client[c].ftok \in Token
BY DEF ClientType

LEMMA CommitSelectType ==
  ASSUME TypeOK, NEW c \in Client, CommitSelect(c) PROVE TypeOK'
<1>1. ClientType'
  BY TypeParts DEF CommitSelect, Answered, ClientType, NoCommand, Deck, Token, Verdict
<1>2. DeckType'
  BY EmptyTypes, TypeParts DEF CommitSelect, DeckType
<1>3. EngType'
  BY HandlerFields, TypeParts DEF CommitSelect, EngType, Aired
<1>4. TodoType'
  <2> DEFINE d == client[c].deck
              t == client[c].tok
              r == IF eng.transitioning THEN Other(d) ELSE eng.active
              s == <<Call("activate", d, t), Call("startVoice", d, t), Call("fadeDone", d,
                   NoTrack)>>
              u == <<Call("stopVoice", r, deck[r].tok), Call("stopOut", r, deck[r].tok)>>
  <2>1. d \in Deck /\ t \in Token /\ r \in Deck /\ NoTrack \in Token
    BY HandlerFields, OtherDeck, TypeParts DEF EngType, Token
  <2>2. deck[r].tok \in Token
    BY <2>1, TypeParts DEF DeckType, DeckState
  <2>3. s \in Seq(Effect) /\ u \in Seq(Effect) /\ << >> \in Seq(Effect)
    BY <2>1, <2>2, CallType DEF Op
  <2>4. s \o u \in Seq(Effect) /\ s \o << >> \in Seq(Effect)
    BY <2>3, ConcatProperties
  <2>5. Later(c, s \o u) \/ Later(c, s \o << >>)
    BY DEF CommitSelect
  <2> QED
    BY <2>4, <2>5, LaterType, ClientThread, TypeParts
<1>5. UNCHANGED <<timing, analysis, voice, out, slot, hand, worker, asked, home, left>>
  BY DEF CommitSelect, control, output, bounds
<1> QED
  BY <1>1, <1>2, <1>3, <1>4, <1>5, TypeParts, TypePartsNext DEF TimingType, AnalysisType,
     VoiceType, OutType, SlotType, HandType, WorkerType, RestType

LEMMA CommitTransitionType ==
  ASSUME TypeOK, NEW c \in Client, CommitTransition(c) PROVE TypeOK'
<1>1. ClientType'
  BY TypeParts DEF CommitTransition, Answered, ClientType, NoCommand, Deck, Token, Verdict
<1>2. DeckType'
  BY HandlerFields, EmptyTypes, TypeParts DEF CommitTransition, DeckType
<1>3. EngType'
  BY HandlerFields, TypeParts DEF CommitTransition, EngType
<1>4. TodoType'
  <2> DEFINE d == client[c].deck
              s == <<CallFrom("fadeStart", d, NoTrack, client[c].from, NoTrack),
                     Call("activate", d, client[c].tok), Call("startVoice", d, client[c].tok)>>
  <2>1. d \in Deck /\ client[c].tok \in Token /\ client[c].from \in DeckOr /\ NoTrack \in Token
    BY HandlerFields, TypeParts DEF Token, DeckOr
  <2>2. s[1] \in Effect /\ s[2] \in Effect /\ s[3] \in Effect
    BY <2>1, CallType, CallFromType DEF Op
  <2>3. s \in Seq(Effect)
    BY <2>2
  <2> QED
    BY <2>3, LaterType, ClientThread, TypeParts DEF CommitTransition
<1>5. UNCHANGED <<timing, analysis, voice, out, slot, hand, worker, asked, home, left>>
  BY DEF CommitTransition, control, output, bounds
<1> QED
  BY <1>1, <1>2, <1>3, <1>4, <1>5, TypeParts, TypePartsNext DEF TimingType, AnalysisType,
     VoiceType, OutType, SlotType, HandType, WorkerType, RestType

LEMMA CommitInterruptType ==
  ASSUME TypeOK, NEW c \in Client, CommitInterrupt(c) PROVE TypeOK'
<1>1. ClientType'
  BY TypeParts DEF CommitInterrupt, Answered, ClientType, NoCommand, Deck, Token, Verdict
<1>2. DeckType'
  <2>1. CASE deck' = [deck EXCEPT ![client[c].deck] = Started(@)]
    BY <2>1, HandlerFields, EmptyTypes, TypeParts DEF DeckType
  <2>2. CASE deck' = deck
    BY <2>2, TypeParts DEF DeckType
  <2> QED
    BY <2>1, <2>2 DEF CommitInterrupt, control
<1>3. EngType'
  BY TypeParts DEF CommitInterrupt, EngType, control
<1>4. TimingType'
  <2>1. eng.active \in Deck /\ deck[eng.active].tok \in Token /\ deck[client[c].deck].tok \in Token
    BY HandlerFields, TypeParts DEF EngType, DeckType, DeckState
  <2>2. CASE InterruptEligible(client[c].deck)
    <3>1. timing' = [scheduled |-> deck[eng.active].tok, completion |-> TRUE, entry |-> TRUE,
                     from |-> eng.active, to |-> client[c].deck,
                     ftok |-> deck[eng.active].tok, ttok |-> deck[client[c].deck].tok]
      BY <2>2 DEF CommitInterrupt
    <3> QED
      BY <2>1, <3>1, HandlerFields, TypeParts DEF TimingType, DeckOr
  <2>3. CASE ~InterruptEligible(client[c].deck)
    BY <2>3, TypeParts DEF CommitInterrupt, TimingType, control
  <2> QED
    BY <2>2, <2>3
<1>5. TodoType'
  <2> DEFINE d == client[c].deck
              s == <<Call("delayEntry", d, NoTrack),
                     CallFrom("fadeStart", d, NoTrack, eng.active, NoTrack)>>
  <2>1. d \in Deck /\ eng.active \in DeckOr /\ NoTrack \in Token
    BY HandlerFields, TypeParts DEF Token, DeckOr, EngType
  <2>2. s[1] \in Effect /\ s[2] \in Effect
    BY <2>1, CallType, CallFromType DEF Op
  <2>3. s \in Seq(Effect)
    BY <2>2
  <2> QED
    BY <2>3, LaterType, ClientThread, TypeParts DEF CommitInterrupt, TodoType
<1>6. UNCHANGED <<analysis, voice, out, slot, hand, worker, asked, home, left>>
  BY DEF CommitInterrupt, control, output, bounds, control
<1> QED
  BY <1>1, <1>2, <1>3, <1>4, <1>5, <1>6, TypeParts, TypePartsNext DEF AnalysisType, VoiceType,
     OutType, SlotType, HandType, WorkerType, RestType

LEMMA HandoffPrimeType ==
  ASSUME TypeOK, NEW c \in Client, HandoffPrime(c) PROVE TypeOK'
<1>1. ClientType'
  BY TypeParts DEF HandoffPrime, Answered, ClientType, NoCommand, Deck, Token, Verdict
<1>2. VoiceType'
  <2>1. voice' = voice \/ PrimeVoice(client[c].deck, client[c].tok)
    BY DEF HandoffPrime, PrimeFails
  <2> QED
    BY <2>1, PrimeType, TypeParts DEF VoiceType
<1>3. UNCHANGED <<deck, eng, timing, analysis, out, slot, hand, worker, todo, asked, home,
     left>>
  BY DEF HandoffPrime, control, output, bounds
<1> QED
  BY <1>1, <1>2, <1>3, TypeParts, TypePartsNext DEF DeckType, EngType, TimingType,
     AnalysisType, OutType, SlotType, HandType, WorkerType, TodoType, RestType

LEMMA HandoffArmType ==
  ASSUME TypeOK, NEW c \in Client, HandoffArm(c) PROVE TypeOK'
<1>1. OutType'
  BY HandlerFields, ArmType, TypeParts DEF HandoffArm, OutType, output
<1>2. SlotType'
  BY HandlerFields, ArmType, TypeParts DEF HandoffArm, SlotType, output
<1>3. HandType'
  BY HandlerFields, ArmType, TypeParts DEF HandoffArm, HandType, output
<1>4. ClientType'
  BY TypeParts DEF HandoffArm, Answered, ClientType, NoCommand, Deck, Token, Verdict
<1>5. TodoType'
  <2>1. <<Call("stopVoice", client[c].deck, client[c].tok)>> \in Seq(Effect)
    BY HandlerFields, CallType, TypeParts DEF Op
  <2> QED
    BY <2>1, LaterType, ClientThread, TypeParts DEF HandoffArm, TodoType
<1>6. UNCHANGED <<deck, eng, timing, analysis, voice, worker, asked, home, left>>
  BY DEF HandoffArm, control, output, bounds
<1> QED
  BY <1>1, <1>2, <1>3, <1>4, <1>5, <1>6, TypeParts, TypePartsNext DEF DeckType, EngType,
     TimingType, AnalysisType, VoiceType, WorkerType, RestType

LEMMA StartEngineType ==
  ASSUME TypeOK, NEW c \in Client, StartEngine(c) PROVE TypeOK'
<1>1. EngType'
  BY TypeParts DEF StartEngine, EngType
<1>2. TodoType'
  <2>1. <<Bare("outStart"), Bare("resetTiming")>> \in Seq(Effect)
    BY BareType DEF EngineWide
  <2> QED
    BY <2>1, LaterType, ClientThread, TypeParts DEF StartEngine
<1>3. RestType'
  BY ReceiveType, TypeParts DEF StartEngine, RestType
<1>4. UNCHANGED <<deck, timing, analysis, voice, out, slot, hand, worker, client>>
  BY DEF StartEngine, control, output, bounds
<1> QED
  BY <1>1, <1>2, <1>3, <1>4, TypeParts, TypePartsNext DEF DeckType, TimingType, AnalysisType,
     VoiceType, OutType, SlotType, HandType, WorkerType, ClientType

LEMMA StopEngineType ==
  ASSUME TypeOK, NEW c \in Client, StopEngine(c) PROVE TypeOK'
<1>1. EngType'
  BY TypeParts DEF StopEngine, EngType
<1>2. TodoType'
  <2>1. <<Bare("resetTiming"), Bare("stopVoices"), Bare("outStop")>> \in Seq(Effect)
    BY BareType DEF EngineWide
  <2> QED
    BY <2>1, LaterType, ClientThread, TypeParts DEF StopEngine
<1>3. RestType'
  BY ReceiveType, TypeParts DEF StopEngine, RestType
<1>4. UNCHANGED <<deck, timing, analysis, voice, out, slot, hand, worker, client>>
  BY DEF StopEngine, control, output, bounds
<1> QED
  BY <1>1, <1>2, <1>3, <1>4, TypeParts, TypePartsNext DEF DeckType, TimingType, AnalysisType,
     VoiceType, OutType, SlotType, HandType, WorkerType, ClientType

LEMMA SetPausedType ==
  ASSUME TypeOK, NEW c \in Client, SetPaused(c) PROVE TypeOK'
<1>1. EngType'
  BY TypeParts DEF SetPaused, EngType
<1>2. TodoType'
  <2>1. <<Bare(IF eng.paused THEN "resume" ELSE "pause")>> \in Seq(Effect)
    BY BareType DEF EngineWide
  <2> QED
    BY <2>1, LaterType, ClientThread, TypeParts DEF SetPaused
<1>3. RestType'
  BY ReceiveType, TypeParts DEF SetPaused, RestType
<1>4. UNCHANGED <<deck, timing, analysis, voice, out, slot, hand, worker, client>>
  BY DEF SetPaused, control, output, bounds
<1> QED
  BY <1>1, <1>2, <1>3, <1>4, TypeParts, TypePartsNext DEF DeckType, TimingType, AnalysisType,
     VoiceType, OutType, SlotType, HandType, WorkerType, ClientType

LEMMA SyncSeekedType ==
  ASSUME TypeOK, NEW c \in Client, SyncSeeked(c) PROVE TypeOK'
<1>1. EngType'
  BY TypeParts DEF SyncSeeked, EngType, Settled
<1>2. TodoType'
  <2>1. <<Call("seek", eng.active, deck[eng.active].tok)>> \in Seq(Effect)
    BY CallType, TypeParts DEF Op, EngType, DeckType, DeckState
  <2> QED
    BY <2>1, LaterType, ClientThread, TypeParts DEF SyncSeeked
<1>3. RestType'
  BY ReceiveType, TypeParts DEF SyncSeeked, RestType
<1>4. UNCHANGED <<deck, timing, analysis, voice, out, slot, hand, worker, client>>
  BY DEF SyncSeeked, control, output, bounds
<1> QED
  BY <1>1, <1>2, <1>3, <1>4, TypeParts, TypePartsNext DEF DeckType, TimingType, AnalysisType,
     VoiceType, OutType, SlotType, HandType, WorkerType, ClientType

LEMMA SyncFinishedType ==
  ASSUME TypeOK, NEW c \in Client, NEW d \in Deck, NEW t \in Track, SyncFinished(c, d,
       t) PROVE TypeOK'
<1>1. DeckType'
  BY TypeParts DEF SyncFinished, DeckType, DeckState, EmptyDeck, Token
<1>2. EngType'
  BY TypeParts DEF SyncFinished, EngType, Aired
<1>3. TodoType'
  <2>1. <<Call("fadeDone", d, NoTrack)>> \in Seq(Effect)
    BY CallType DEF Op, Token
  <2> QED
    BY <2>1, LaterType, ClientThread, TypeParts DEF SyncFinished
<1>4. RestType'
  BY ReceiveType, TypeParts DEF SyncFinished, RestType
<1>5. UNCHANGED <<timing, analysis, voice, out, slot, hand, worker, client>>
  BY DEF SyncFinished, control, output, bounds
<1> QED
  BY <1>1, <1>2, <1>3, <1>4, <1>5, TypeParts, TypePartsNext DEF TimingType, AnalysisType,
     VoiceType, OutType, SlotType, HandType, WorkerType, ClientType

LEMMA SyncEndedType ==
  ASSUME TypeOK, NEW c \in Client, NEW d \in Deck, NEW t \in Track, SyncEnded(c, d,
       t) PROVE TypeOK'
<1>1. TodoType'
  <2>1. <<Call("stopVoice", d, t), Call("stopOut", d, t)>> \in Seq(Effect)
    BY CallType DEF Op, Token
  <2> QED
    BY <2>1, LaterType, ClientThread, TypeParts DEF SyncEnded
<1>2. RestType'
  BY ReceiveType, TypeParts DEF SyncEnded, RestType
<1>3. UNCHANGED <<deck, eng, timing, analysis, voice, out, slot, hand, worker, client>>
  BY DEF SyncEnded, control, output, bounds
<1> QED
  BY <1>1, <1>2, <1>3, TypeParts, TypePartsNext DEF DeckType, EngType, TimingType,
     AnalysisType, VoiceType, OutType, SlotType, HandType, WorkerType, ClientType

LEMMA RequestType == ASSUME TypeOK, NEW c \in Client, Request(c) PROVE TypeOK'
<1>1. CASE \E d \in Deck : \/ SelectDeck(c, d) \/ TransitionDeck(c, d)
                           \/ InterruptDeck(c, d) \/ HandoffDeck(c, d)
  BY <1>1, SnapshotType DEF SelectDeck, TransitionDeck, InterruptDeck, HandoffDeck
<1> QED
  BY <1>1, LoadType, SyncFinishedType, SyncEndedType, StartEngineType, StopEngineType,
     SetPausedType, SyncSeekedType DEF Request

LEMMA HandlerType == ASSUME TypeOK, NEW c \in Client, Handler(c) PROVE TypeOK'
BY RefuseType, SupersededType, CommitSelectType, CommitTransitionType, CommitInterruptType,
   HandoffPrimeType, HandoffArmType DEF Handler

-----------------------------------------------------------------------------
(* The timing worker, the mixer, the decoders and the analysis workers *)

LEMMA WorkerFields ==
  ASSUME WorkerType
  PROVE  /\ worker.from \in Deck /\ Other(worker.from) \in Deck
         /\ worker.ftok \in Token /\ worker.ttok \in Token
BY OtherDeck DEF WorkerType

LEMMA TimingFields ==
  ASSUME TimingType
  PROVE  /\ timing.ftok \in Token /\ timing.ttok \in Token
         /\ timing.completion \/ timing.entry => timing.from \in Deck /\ timing.to \in Deck
BY DEF TimingType

LEMMA GoesType ==
  ASSUME WorkerType,
         NEW pc \in {"idle", "polled", "recheck", "recover", "prime", "arm", "store", "fade"},
         Goes(pc)
  PROVE  WorkerType'
BY DEF WorkerType, Goes

LEMMA SleepsType == Sleeps => WorkerType'
BY DEF Sleeps, Asleep, WorkerType, Deck, Token

LEMMA PollType ==
  ASSUME TypeOK, Poll PROVE TypeOK'
<1>1. WorkerType'
  <2>1. eng.active \in Deck /\ deck[eng.active] \in DeckState /\ deck[Other(eng.active)] \in DeckState
    BY OtherDeck, TypeParts DEF EngType, DeckType
  <2>2. worker' = [pc |-> "polled", from |-> eng.active, ftok |-> deck[eng.active].tok,
                     ttok |-> deck[Other(eng.active)].tok,
                          terminal |-> deck[eng.active].terminal,
                     usable |-> worker'.usable]
        /\ worker'.usable \in BOOLEAN
    BY DEF Poll
  <2> QED
    BY <2>1, <2>2 DEF WorkerType, DeckState
<1>2. UNCHANGED <<deck, eng, timing, analysis, voice, out, slot, hand, client, todo, asked,
     home, left>>
  BY DEF Poll, control, output, bounds
<1> QED
  BY <1>1, <1>2, TypeParts, TypePartsNext DEF DeckType, EngType, TimingType, AnalysisType,
     VoiceType, OutType, SlotType, HandType, ClientType, TodoType, RestType

LEMMA EnterScriptType ==
  ASSUME TypeOK, EnterScript PROVE TypeOK'
<1>1. DeckType'
  <2>1. timing.to \in Deck
    BY TimingFields, TypeParts DEF EnterScript
  <2>2. deck' = deck \/ \E v \in DeckState : deck' = [deck EXCEPT ![timing.to] = v]
    <3>1. Started(deck[timing.to]) \in DeckState /\ [deck[timing.to] EXCEPT !.started = FALSE] \in DeckState
      BY <2>1, EmptyTypes, TypeParts DEF DeckType, DeckState
    <3> QED
      BY <2>1, <3>1 DEF EnterScript
  <2> QED
    BY <2>1, <2>2, TypeParts DEF DeckType
<1>2. EngType'
  <2>1. timing.to \in Deck
    BY TimingFields, TypeParts DEF EnterScript
  <2> QED
    BY <2>1, TypeParts DEF EnterScript, EngType, Settled
<1>3. TimingType'
  BY TypeParts DEF EnterScript, TimingType
<1>4. TodoType'
  <2> DEFINE s == <<Call("activate", timing.to, timing.ttok), Call("startVoice", timing.to,
       timing.ttok)>>
              u == <<Call("fadeDone", timing.from, NoTrack)>>
  <2>1. timing.to \in Deck /\ timing.from \in Deck /\ timing.ttok \in Token /\ NoTrack \in Token
    BY TimingFields, TypeParts DEF EnterScript, Token
  <2>2. s[1] \in Effect /\ s[2] \in Effect /\ u[1] \in Effect
    BY <2>1, CallType DEF Op
  <2>3. s \in Seq(Effect) /\ u \in Seq(Effect)
    BY <2>2
  <2>4. Later("timing", s) \/ Later("timing", u) \/ todo' = todo
    BY DEF EnterScript
  <2> QED
    BY <2>3, <2>4, LaterType, ClientThread, TypeParts DEF TodoType
<1>5. UNCHANGED <<analysis, voice, out, slot, hand, worker, client, asked, home, left>>
  BY DEF EnterScript, control, output, bounds
<1> QED
  BY <1>1, <1>2, <1>3, <1>4, <1>5, TypeParts, TypePartsNext DEF AnalysisType, VoiceType,
     OutType, SlotType, HandType, WorkerType, ClientType, RestType

LEMMA FinishTransitionType ==
  ASSUME TypeOK, FinishTransition PROVE TypeOK'
<1>1. DeckType'
  <2>1. timing.from \in Deck
    BY TimingFields, TypeParts DEF FinishTransition
  <2> QED
    BY <2>1, EmptyTypes, TypeParts DEF FinishTransition, DeckType
<1>2. EngType'
  BY TypeParts DEF FinishTransition, EngType, Settled
<1>3. TimingType'
  BY TypeParts DEF FinishTransition, TimingType
<1>4. TodoType'
  <2> DEFINE s == <<Call("fadeDone", timing.to, NoTrack), Call("stopVoice", timing.from,
       timing.ftok),
                   Call("stopOut", timing.from, timing.ftok)>>
  <2>1. timing.to \in Deck /\ timing.from \in Deck /\ timing.ftok \in Token /\ NoTrack \in Token
    BY TimingFields, TypeParts DEF FinishTransition, Token
  <2>2. s[1] \in Effect /\ s[2] \in Effect /\ s[3] \in Effect
    BY <2>1, CallType, CallFromType DEF Op
  <2>3. s \in Seq(Effect)
    BY <2>2
  <2> QED
    BY <2>3, LaterType, ClientThread, TypeParts DEF FinishTransition
<1>5. UNCHANGED <<analysis, voice, out, slot, hand, worker, client, asked, home, left>>
  BY DEF FinishTransition, control, output, bounds
<1> QED
  BY <1>1, <1>2, <1>3, <1>4, <1>5, TypeParts, TypePartsNext DEF AnalysisType, VoiceType,
     OutType, SlotType, HandType, WorkerType, ClientType, RestType

LEMMA DecideType ==
  ASSUME TypeOK, Decide PROVE TypeOK'
<1>1. TimingType'
  <2>1. Kept(worker.ftok) \in Token
    BY WorkerFields, TypeParts DEF Kept, Token
  <2> QED
    BY <2>1, TypeParts DEF Decide, TimingType
<1>2. WorkerType'
  <2>1. Sleeps \/ \E pc \in {"recheck", "prime", "fade"} : Goes(pc)
    BY DEF Decide
  <2> QED
    BY <2>1, GoesType, SleepsType, TypeParts
<1>3. RestType'
  <2>1. asked' \in BOOLEAN
    BY TypeParts DEF Decide, RestType
  <2> QED
    BY <2>1, TypeParts DEF Decide, RestType, bounds
<1>4. UNCHANGED <<deck, eng, analysis, voice, out, slot, hand, client, todo>>
  BY DEF Decide, control, output, bounds
<1> QED
  BY <1>1, <1>2, <1>3, <1>4, TypeParts, TypePartsNext DEF DeckType, EngType, AnalysisType,
     VoiceType, OutType, SlotType, HandType, ClientType, TodoType

LEMMA RecheckType ==
  ASSUME TypeOK, Recheck PROVE TypeOK'
<1>1. WorkerType'
  BY GoesType, SleepsType, TypeParts DEF Recheck
<1>2. UNCHANGED <<deck, eng, timing, analysis, voice, out, slot, hand, client, todo, asked,
     home, left>>
  BY DEF Recheck, control, output, bounds
<1> QED
  BY <1>1, <1>2, TypeParts, TypePartsNext DEF DeckType, EngType, TimingType, AnalysisType,
     VoiceType, OutType, SlotType, HandType, ClientType, TodoType, RestType

LEMMA RecoverType ==
  ASSUME TypeOK, Recover PROVE TypeOK'
<1>1. DeckType'
  <2>1. \/ deck' = deck
        \/ deck' = [x \in Deck |-> IF x = Other(worker.from) THEN Started(deck[x]) ELSE Released(deck[x])]
    BY DEF Recover, control
  <2> QED
    BY <2>1, EmptyTypes, TypeParts DEF DeckType
<1>2. EngType'
  <2>1. eng' = Aired(Other(worker.from)) \/ eng' = eng
    BY DEF Recover, control
  <2> QED
    BY <2>1, WorkerFields, TypeParts DEF EngType, Aired
<1>3. TimingType'
  <2>1. timing' = [timing EXCEPT !.scheduled = worker.ftok] \/ timing' = timing
    BY DEF Recover, control
  <2> QED
    BY <2>1, WorkerFields, TypeParts DEF TimingType
<1>4. WorkerType'
  BY SleepsType DEF Recover
<1>5. TodoType'
  <2> DEFINE d == Other(worker.from)
              s == <<Call("stopOut", worker.from, worker.ftok), Call("activate", d,
                   worker.ttok),
                     Call("startVoice", d, worker.ttok)>>
  <2>1. d \in Deck /\ worker.from \in Deck /\ worker.ftok \in Token /\ worker.ttok \in Token
    BY WorkerFields, TypeParts
  <2>2. s[1] \in Effect /\ s[2] \in Effect /\ s[3] \in Effect
    BY <2>1, CallType, CallFromType DEF Op
  <2>3. s \in Seq(Effect)
    BY <2>2
  <2>4. Later("timing", s) \/ todo' = todo
    BY DEF Recover
  <2> QED
    BY <2>3, <2>4, LaterType, ClientThread, TypeParts DEF TodoType
<1>6. UNCHANGED <<analysis, voice, out, slot, hand, client, asked, home, left>>
  BY DEF Recover, control, output, bounds
<1> QED
  BY <1>1, <1>2, <1>3, <1>4, <1>5, <1>6, TypeParts, TypePartsNext DEF AnalysisType, VoiceType,
     OutType, SlotType, HandType, ClientType, RestType

LEMMA WorkerPrimeType ==
  ASSUME TypeOK, WorkerPrime PROVE TypeOK'
<1>1. VoiceType'
  <2>1. voice' = voice \/ PrimeVoice(Other(worker.from), worker.ttok)
    BY DEF WorkerPrime, PrimeFails
  <2> QED
    BY <2>1, PrimeType, TypeParts DEF VoiceType
<1>2. WorkerType'
  BY GoesType, SleepsType, TypeParts DEF WorkerPrime
<1>3. UNCHANGED <<deck, eng, timing, analysis, out, slot, hand, client, todo, asked, home,
     left>>
  BY DEF WorkerPrime, control, output, bounds
<1> QED
  BY <1>1, <1>2, <1>3, TypeParts, TypePartsNext DEF DeckType, EngType, TimingType,
     AnalysisType, OutType, SlotType, HandType, ClientType, TodoType, RestType

LEMMA WorkerArmType ==
  ASSUME TypeOK, WorkerArm PROVE TypeOK'
<1>1. OutType'
  BY WorkerFields, ArmType, TypeParts DEF WorkerArm, OutType, output
<1>2. SlotType'
  BY WorkerFields, ArmType, TypeParts DEF WorkerArm, SlotType, output
<1>3. HandType'
  BY WorkerFields, ArmType, TypeParts DEF WorkerArm, HandType, output
<1>4. WorkerType'
  BY GoesType, SleepsType, TypeParts DEF WorkerArm
<1>5. UNCHANGED <<deck, eng, timing, analysis, voice, client, todo, asked, home, left>>
  BY DEF WorkerArm, control, output, bounds
<1> QED
  BY <1>1, <1>2, <1>3, <1>4, <1>5, TypeParts, TypePartsNext DEF DeckType, EngType, TimingType,
     AnalysisType, VoiceType, ClientType, TodoType, RestType

LEMMA WorkerStoreType ==
  ASSUME TypeOK, WorkerStore PROVE TypeOK'
<1>1. TimingType'
  BY WorkerFields, TypeParts DEF WorkerStore, TimingType
<1>2. WorkerType'
  BY SleepsType DEF WorkerStore
<1>3. UNCHANGED <<deck, eng, analysis, voice, out, slot, hand, client, todo, asked, home, left>>
  BY DEF WorkerStore, control, output, bounds
<1> QED
  BY <1>1, <1>2, <1>3, TypeParts, TypePartsNext DEF DeckType, EngType, AnalysisType, VoiceType,
     OutType, SlotType, HandType, ClientType, TodoType, RestType

LEMMA WorkerFadeType ==
  ASSUME TypeOK, WorkerFade PROVE TypeOK'
<1>1. DeckType'
  <2>1. deck' = [deck EXCEPT ![Other(worker.from)] = Started(@)] \/ deck' = deck
    BY DEF WorkerFade, control
  <2> QED
    BY <2>1, WorkerFields, EmptyTypes, TypeParts DEF DeckType
<1>2. EngType'
  <2>1. eng' = [eng EXCEPT !.active = Other(worker.from), !.transitioning = TRUE] \/ eng' = eng
    BY DEF WorkerFade, control
  <2> QED
    BY <2>1, WorkerFields, TypeParts DEF EngType
<1>3. TimingType'
  <2>1. \/ timing' = [scheduled |-> worker.ftok, completion |-> TRUE, entry |-> FALSE,
                     from |-> worker.from, to |-> Other(worker.from),
                     ftok |-> worker.ftok, ttok |-> worker.ttok]
        \/ timing' = timing
    BY DEF WorkerFade, control
  <2>2. CASE timing' = timing
    BY <2>2, TypeParts DEF TimingType
  <2>3. CASE timing' # timing
    <3>1. worker.from \in Deck /\ Other(worker.from) \in Deck /\ Deck \subseteq DeckOr
      BY WorkerFields, TypeParts DEF DeckOr
    <3>2. timing' = [scheduled |-> worker.ftok, completion |-> TRUE, entry |-> FALSE,
                     from |-> worker.from, to |-> Other(worker.from),
                     ftok |-> worker.ftok, ttok |-> worker.ttok]
      BY <2>1, <2>3
    <3> QED
      BY <3>1, <3>2, WorkerFields, TypeParts DEF TimingType
  <2> QED
    BY <2>2, <2>3
<1>4. WorkerType'
  BY SleepsType DEF WorkerFade
<1>5. TodoType'
  <2> DEFINE d == Other(worker.from)
              s == <<CallFrom("fadeStart", d, NoTrack, worker.from, NoTrack),
                     Call("activate", d, worker.ttok), Call("startVoice", d, worker.ttok)>>
  <2>1. d \in Deck /\ worker.from \in DeckOr /\ worker.ttok \in Token /\ NoTrack \in Token
    BY WorkerFields, TypeParts DEF DeckOr, Token
  <2>2. s[1] \in Effect /\ s[2] \in Effect /\ s[3] \in Effect
    BY <2>1, CallType, CallFromType DEF Op
  <2>3. s \in Seq(Effect)
    BY <2>2
  <2>4. Later("timing", s) \/ todo' = todo
    BY DEF WorkerFade
  <2> QED
    BY <2>3, <2>4, LaterType, ClientThread, TypeParts DEF TodoType
<1>6. UNCHANGED <<analysis, voice, out, slot, hand, client, asked, home, left>>
  BY DEF WorkerFade, control, output, bounds
<1> QED
  BY <1>1, <1>2, <1>3, <1>4, <1>5, <1>6, TypeParts, TypePartsNext DEF AnalysisType, VoiceType,
     OutType, SlotType, HandType, ClientType, RestType

LEMMA TimingWorkerType == ASSUME TypeOK, TimingWorker PROVE TypeOK'
BY PollType, EnterScriptType, FinishTransitionType, DecideType, RecheckType, RecoverType,
   WorkerPrimeType, WorkerArmType, WorkerStoreType, WorkerFadeType DEF TimingWorker

LEMMA MixSwitchType ==
  ASSUME TypeOK, MixSwitch PROVE TypeOK'
<1>1. OutType'
  BY TypeParts DEF MixSwitch, OutType, HandType
<1>2. HandType'
  BY TypeParts DEF MixSwitch, HandType
<1>3. TodoType'
  <2> DEFINE s == <<CallFrom("finalize", hand.to, hand.ttok, hand.from, hand.ftok),
                     Call("commit", hand.to, NoTrack), Call("stopVoice", hand.from, hand.ftok),
                     Call("stopOut", hand.from, hand.ftok)>>
  <2>1. hand.from \in Deck /\ hand.to \in Deck /\ hand.ftok \in Token /\ hand.ttok \in Token /\ NoTrack \in Token /\ hand.from \in DeckOr
    BY TypeParts DEF MixSwitch, HandType, Token, DeckOr
  <2>2. s[1] \in Effect /\ s[2] \in Effect /\ s[3] \in Effect /\ s[4] \in Effect
    BY <2>1, CallType, CallFromType DEF Op
  <2>3. s \in Seq(Effect)
    BY <2>2
  <2> QED
    BY <2>3, LaterType, ClientThread, TypeParts DEF MixSwitch, SwitchCalls
<1>4. UNCHANGED <<deck, eng, timing, analysis, voice, slot, worker, client, asked, home, left>>
  BY DEF MixSwitch, control, output, bounds
<1> QED
  BY <1>1, <1>2, <1>3, <1>4, TypeParts, TypePartsNext DEF DeckType, EngType, TimingType,
     AnalysisType, VoiceType, SlotType, WorkerType, ClientType, RestType

LEMMA MixFadeDoneType ==
  ASSUME TypeOK, MixFadeDone PROVE TypeOK'
<1>1. OutType'
  BY TypeParts DEF MixFadeDone, OutType
<1>2. UNCHANGED <<deck, eng, timing, analysis, voice, slot, hand, worker, client, todo, asked,
     home, left>>
  BY DEF MixFadeDone, control, output, bounds
<1> QED
  BY <1>1, <1>2, TypeParts, TypePartsNext DEF DeckType, EngType, TimingType, AnalysisType,
     VoiceType, SlotType, HandType, WorkerType, ClientType, TodoType, RestType

LEMMA RestartPipelineType ==
  ASSUME TypeOK, RestartPipeline PROVE TypeOK'
<1>1. HandType'
  BY TypeParts DEF RestartPipeline, HandType
<1>2. UNCHANGED <<deck, eng, timing, analysis, voice, out, slot, worker, client, todo, asked,
     home, left>>
  BY DEF RestartPipeline, control, output, bounds
<1> QED
  BY <1>1, <1>2, TypeParts, TypePartsNext DEF DeckType, EngType, TimingType, AnalysisType,
     VoiceType, OutType, SlotType, WorkerType, ClientType, TodoType, RestType

LEMMA DecoderReadyType ==
  ASSUME TypeOK, NEW d \in Deck, NEW t \in Track, DecoderReady(d, t) PROVE TypeOK'
<1>1. VoiceType'
  BY TypeParts DEF DecoderReady, VoiceType, Status
<1>2. UNCHANGED <<deck, eng, timing, analysis, out, slot, hand, worker, client, todo, asked,
     home, left>>
  BY DEF DecoderReady, control, output, bounds
<1> QED
  BY <1>1, <1>2, TypeParts, TypePartsNext DEF DeckType, EngType, TimingType, AnalysisType,
     OutType, SlotType, HandType, WorkerType, ClientType, TodoType, RestType

LEMMA DecoderFailType ==
  ASSUME TypeOK, NEW d \in Deck, NEW t \in Track, DecoderFail(d, t) PROVE TypeOK'
<1>1. VoiceType'
  BY TypeParts DEF DecoderFail, VoiceType, Status
<1>2. UNCHANGED <<deck, eng, timing, analysis, out, slot, hand, worker, client, todo, asked,
     home, left>>
  BY DEF DecoderFail, control, output, bounds
<1> QED
  BY <1>1, <1>2, TypeParts, TypePartsNext DEF DeckType, EngType, TimingType, AnalysisType,
     OutType, SlotType, HandType, WorkerType, ClientType, TodoType, RestType

LEMMA DecoderEofType ==
  ASSUME TypeOK, NEW d \in Deck, NEW t \in Track, DecoderEof(d, t) PROVE TypeOK'
<1>1. VoiceType'
  BY TypeParts DEF DecoderEof, VoiceType, Status
<1>2. DeckType'
  BY TypeParts DEF DecoderEof, DeckType, DeckState
<1>3. TodoType'
  <2>1. PICK eof \in {"earlyEof", "naturalEof"} : Later(d, <<Call(eof, d, t)>>)
    BY DEF DecoderEof
  <2>2. Call(eof, d, t) \in Effect
    BY CallType DEF Op, Token
  <2>3. <<Call(eof, d, t)>> \in Seq(Effect)
    BY <2>2
  <2> QED
    BY <2>1, <2>3, LaterType, ClientThread, TypeParts
<1>4. UNCHANGED <<eng, timing, analysis, out, slot, hand, worker, client, asked, home, left>>
  BY DEF DecoderEof, control, output, bounds
<1> QED
  BY <1>1, <1>2, <1>3, <1>4, TypeParts, TypePartsNext DEF EngType, TimingType, AnalysisType,
     OutType, SlotType, HandType, WorkerType, ClientType, RestType

LEMMA AnalysisTakeType ==
  ASSUME TypeOK, NEW d \in Deck, AnalysisTake(d) PROVE TypeOK'
<1>1. AnalysisType'
  BY TypeParts DEF AnalysisTake, Answers, AnalysisType, Token
<1>2. UNCHANGED <<deck, eng, timing, voice, out, slot, hand, worker, client, todo, asked, home,
     left>>
  BY DEF AnalysisTake, control, output, bounds
<1> QED
  BY <1>1, <1>2, TypeParts, TypePartsNext DEF DeckType, EngType, TimingType, VoiceType,
     OutType, SlotType, HandType, WorkerType, ClientType, TodoType, RestType

LEMMA AnalysisCheckType ==
  ASSUME TypeOK, NEW d \in Deck, AnalysisCheck(d) PROVE TypeOK'
<1>1. AnalysisType'
  BY TypeParts DEF AnalysisCheck, Answers, AnalysisType, Token
<1>2. UNCHANGED <<deck, eng, timing, voice, out, slot, hand, worker, client, todo, asked, home,
     left>>
  BY DEF AnalysisCheck, control, output, bounds
<1> QED
  BY <1>1, <1>2, TypeParts, TypePartsNext DEF DeckType, EngType, TimingType, VoiceType,
     OutType, SlotType, HandType, WorkerType, ClientType, TodoType, RestType

LEMMA AnalysisPrepareType ==
  ASSUME TypeOK, NEW d \in Deck, AnalysisPrepare(d) PROVE TypeOK'
<1>1. AnalysisType'
  BY TypeParts DEF AnalysisPrepare, Answers, AnalysisType, Token
<1>2. VoiceType'
  BY PrepareType, TypeParts DEF AnalysisPrepare
<1>3. UNCHANGED <<deck, eng, timing, out, slot, hand, worker, client, todo, asked, home, left>>
  BY DEF AnalysisPrepare, control, output, bounds
<1> QED
  BY <1>1, <1>2, <1>3, TypeParts, TypePartsNext DEF DeckType, EngType, TimingType, OutType,
     SlotType, HandType, WorkerType, ClientType, TodoType, RestType

LEMMA AnalysisPublishType ==
  ASSUME TypeOK, NEW d \in Deck, AnalysisPublish(d) PROVE TypeOK'
<1>1. AnalysisType'
  BY TypeParts DEF AnalysisPublish, Answers, AnalysisType, Token
<1>2. DeckType'
  BY TypeParts DEF AnalysisPublish, DeckType, DeckState, EmptyDeck
<1>3. UNCHANGED <<eng, timing, voice, out, slot, hand, worker, client, todo, asked, home, left>>
  BY DEF AnalysisPublish, control, output, bounds
<1> QED
  BY <1>1, <1>2, <1>3, TypeParts, TypePartsNext DEF EngType, TimingType, VoiceType, OutType,
     SlotType, HandType, WorkerType, ClientType, TodoType, RestType

LEMMA AnalysisRejectType ==
  ASSUME TypeOK, NEW d \in Deck, AnalysisReject(d) PROVE TypeOK'
<1>1. AnalysisType'
  BY TypeParts DEF AnalysisReject, Answers, AnalysisType, Token
<1>2. DeckType'
  BY TypeParts DEF AnalysisReject, DeckType, DeckState
<1>3. UNCHANGED <<eng, timing, voice, out, slot, hand, worker, client, todo, asked, home, left>>
  BY DEF AnalysisReject, control, output, bounds
<1> QED
  BY <1>1, <1>2, <1>3, TypeParts, TypePartsNext DEF EngType, TimingType, VoiceType, OutType,
     SlotType, HandType, WorkerType, ClientType, TodoType, RestType

\* A step of any thread keeps the types.
LEMMA TypeNext == ASSUME TypeOK, [Next]_vars PROVE TypeOK'
<1>1. CASE \E c \in Client : Request(c) \/ Handler(c)
  BY <1>1, RequestType, HandlerType
<1>2. CASE \E th \in Thread : Do(th)
  BY <1>2, DoType
<1>3. CASE TimingWorker
  BY <1>3, TimingWorkerType
<1>4. CASE MixSwitch \/ MixFadeDone \/ RestartPipeline
  BY <1>4, MixSwitchType, MixFadeDoneType, RestartPipelineType
<1>5. CASE \E d \in Deck, t \in Track : DecoderReady(d, t) \/ DecoderFail(d,
     t) \/ DecoderEof(d, t)
  BY <1>5, DecoderReadyType, DecoderFailType, DecoderEofType
<1>6. CASE \E d \in Deck : Analysis(d)
  BY <1>6, AnalysisTakeType, AnalysisCheckType, AnalysisPrepareType, AnalysisPublishType,
     AnalysisRejectType DEF Analysis
<1>7. CASE UNCHANGED vars
  BY <1>7 DEF vars, TypeOK
<1> QED
  BY <1>1, <1>2, <1>3, <1>4, <1>5, <1>6, <1>7 DEF Next

\* Init, and the station already on the air.
Beginning == Init \/ \E t \in Track : OnAir(t)

LEMMA TypeBeginning == ASSUME Beginning PROVE TypeOK
<1>1. /\ NoTrack \in Token /\ Track \subseteq Token /\ NoDeck \in DeckOr
      /\ "A" \in Deck /\ Deck \subseteq DeckOr
  BY DEF Token, DeckOr, Deck
<1>2. EmptyDeck \in DeckState /\ MaxCommands \in 0..MaxCommands
  BY EmptyTypes, ConstantsAssumption DEF ConstantsAssumption
<1>3. CASE Init
  <2>1. TimingType /\ HandType /\ WorkerType /\ ClientType /\ AnalysisType
    BY <1>1, <1>3 DEF Init, TimingType, HandType, WorkerType, ClientType, AnalysisType,
       NoTransition, NoHand, Asleep, NoCommand, NoAnalysis, Verdict
  <2>2. DeckType /\ EngType /\ VoiceType /\ OutType /\ SlotType /\ TodoType /\ RestType
    <3>1. DeckType /\ EngType /\ OutType
      BY <1>1, <1>2, <1>3 DEF Init, DeckType, EngType, OutType
    <3>2. VoiceType /\ SlotType
      BY <1>1, <1>3 DEF Init, VoiceType, SlotType, Status
    <3>3. TodoType /\ RestType
      <4>1. << >> \in Seq(Effect)
        OBVIOUS
      <4>2. TodoType
        BY <4>1, <1>3 DEF Init, TodoType
      <4>3. home \in [Track -> DeckOr] /\ asked \in BOOLEAN
        BY <1>1, <1>3 DEF Init
      <4> QED
        BY <1>2, <4>2, <4>3, <1>3 DEF Init, RestType
    <3> QED
      BY <3>1, <3>2, <3>3
  <2> QED
    BY <2>1, <2>2, TypeParts
<1>4. ASSUME NEW t \in Track, OnAir(t) PROVE TypeOK
  <2>1. TimingType /\ HandType /\ WorkerType /\ ClientType /\ AnalysisType
    BY <1>1, <1>4 DEF OnAir, TimingType, HandType, WorkerType, ClientType, AnalysisType,
       NoTransition, NoHand, Asleep, NoCommand, NoAnalysis, Verdict
  <2>2. Started([EmptyDeck EXCEPT !.tok = t, !.ready = TRUE]) \in DeckState
    BY <1>1 DEF EmptyDeck, DeckState, Started
  <2>3. DeckType
    BY <1>2, <1>4, <2>2 DEF OnAir, DeckType
  <2>4. EngType /\ VoiceType /\ OutType /\ SlotType /\ TodoType /\ RestType
    <3>1. EngType /\ OutType
      BY <1>1, <1>4 DEF OnAir, EngType, OutType
    <3>2. VoiceType /\ SlotType
      BY <1>1, <1>4 DEF OnAir, VoiceType, SlotType, Status
    <3>3. TodoType /\ RestType
      <4>1. << >> \in Seq(Effect)
        OBVIOUS
      <4>2. TodoType
        BY <4>1, <1>4 DEF OnAir, TodoType
      <4>3. home \in [Track -> DeckOr] /\ asked \in BOOLEAN
        BY <1>1, <1>4 DEF OnAir
      <4> QED
        BY <1>2, <4>2, <4>3, <1>4 DEF OnAir, RestType
    <3> QED
      BY <3>1, <3>2, <3>3
  <2> QED
    BY <2>1, <2>3, <2>4, TypeParts
<1> QED
  BY <1>3, <1>4 DEF Beginning

\* The variables keep their types, from an idle station and from one on the air:
\* in particular no thread is left with a call for a deck that does not exist,
\* and a pending transition or reservation names its two decks.
THEOREM TypeCorrect == Beginning /\ [][Next]_vars => []TypeOK
BY TypeBeginning, TypeNext, PTL

-----------------------------------------------------------------------------
(* What a step may do to the hand-off.  A descriptor is seen by its token, *)
(* the reservation by its deck and token, the mixer by the deck it plays.  *)

Tokens == [d \in Deck |-> deck[d].tok]
SameHand == /\ hand'.pending = hand.pending
            /\ hand'.to = hand.to /\ hand'.ttok = hand.ttok

Steady == /\ Tokens' = Tokens /\ SameHand
          /\ out'.primary = out.primary /\ (out'.fading => out.fading)
GivesUp == Tokens' = Tokens /\ ~hand'.pending
Replaces == \E d \in Deck, t \in Track :
              /\ Tokens' = [Tokens EXCEPT ![d] = t] /\ SameHand /\ out' = out
              /\ hand.pending /\ hand.to = d => hand.ttok = t
Reserves == \E d \in Deck :
              /\ Tokens' = Tokens /\ d # out.primary /\ deck[d].tok # NoTrack
              /\ hand'.pending /\ hand'.to = d /\ hand'.ttok = deck[d].tok
              /\ out'.primary = out.primary /\ ~out'.fading
Moves == Steady \/ GivesUp \/ Replaces \/ Reserves \/ (MixSwitch /\ Tokens' = Tokens)

\* The crossfade of two decks and the reservation of one exclude each other.
FadeEndsHand == out.fading => ~hand.pending

LEMMA Untouched == ASSUME UNCHANGED <<deck, out, hand>> PROVE Moves
BY DEF Moves, Steady, SameHand, Tokens

\* A deck is started or released with the token it holds.
LEMMA OnlyDeck ==
  ASSUME DeckType, DeckType', UNCHANGED <<out, hand>>,
         \A d \in Deck : deck'[d].tok = deck[d].tok
  PROVE  Moves
BY DEF Moves, Steady, SameHand, Tokens

LEMMA NoReservation == ASSUME deck' = deck, ~hand'.pending PROVE Moves
BY DEF Moves, GivesUp, Tokens

LEMMA ArmMoves ==
  ASSUME NEW f, NEW ft, NEW d \in Deck, NEW t, deck' = deck,
         Armable(f, ft, d, t), Arm(f, ft, d, t), OutType
  PROVE  Moves
<1>1. out.primary # d /\ deck[d].tok = t /\ t # NoTrack
  BY DEF Armable, Holds
<1>2. out'.primary = out.primary /\ ~out'.fading
  BY DEF Arm, OutType
<1>3. hand'.pending /\ hand'.to = d /\ hand'.ttok = t
  BY DEF Arm
<1> QED
  BY <1>1, <1>2, <1>3 DEF Moves, Reserves, Tokens

LEMMA DoMoves == ASSUME TypeOK, TypeOK', NEW th \in Thread, Do(th) PROVE Moves
<1>1. CASE PrepareVoice(th) \/ ScheduleAnalysis(th) \/ StartVoice(th) \/ StopVoice(th)
           \/ StopVoices(th) \/ ResetTiming(th) \/ SeekVoice(th)
  BY <1>1, Untouched DEF PrepareVoice, ScheduleAnalysis, StartVoice, StopVoice, StopVoices,
     ResetTiming, SeekVoice, control, output
<1>2. CASE ActivateTrack(th) \/ TransitionStarted(th) \/ TransitionFinished(th) \/ OutputStop(th)
           \/ SeekOutput(th) \/ CommitMetadata(th)
  BY <1>2, NoReservation DEF ActivateTrack, TransitionStarted, TransitionFinished, OutputStop,
     SeekOutput, CommitMetadata, NoHand, control
<1>3. CASE PrepareDelayedEntry(th)
  BY <1>3, TypeParts DEF PrepareDelayedEntry, HandType, control, Moves, Steady, SameHand, Tokens
<1>4. CASE StopTrack(th) \/ HandleEof(th)
  <2>1. deck' = deck /\ out' = out /\ (hand' = NoHand \/ hand' = hand)
    BY <1>4 DEF StopTrack, HandleEof, Unreserve, control
  <2> QED
    BY <2>1, Untouched, NoReservation DEF NoHand
<1>5. CASE OutputStart(th) \/ OutputPause(th)
  BY <1>5, TypeParts DEF OutputStart, OutputPause, OutType, control, Moves, Steady, SameHand,
     Tokens
<1>6. CASE FinalizeHandoff(th)
  <2>1. \A d \in Deck : deck'[d].tok = deck[d].tok
    BY <1>6, EmptyTypes, TypeParts DEF FinalizeHandoff, DeckType
  <2> QED
    BY <1>6, <2>1, OnlyDeck, TypeParts, TypePartsNext DEF FinalizeHandoff, output
<1> QED
  BY <1>1, <1>2, <1>3, <1>4, <1>5, <1>6 DEF Do

LEMMA RequestMoves ==
  ASSUME TypeOK, TypeOK', NEW c \in Client, Request(c), "late_finished" \notin Command
  PROVE  Moves
<1>1. ASSUME NEW d \in Deck, NEW t \in Track, NEW guarded \in BOOLEAN, Load(c, d, t, guarded)
      PROVE  Moves
  <2>1. UNCHANGED <<out, hand>>
    BY <1>1 DEF Load, output
  <2>2. CASE deck' = deck
    BY <2>1, <2>2, Untouched
  <2>3. CASE deck' # deck
    <3>1. ~Reserved(d, t)
      BY <1>1, <2>3 DEF Load, LoadRejected
    <3>2. deck' = [deck EXCEPT ![d] = [EmptyDeck EXCEPT !.tok = t, !.ready = t \notin Analysed]]
      BY <1>1, <2>3 DEF Load
    <3>3. Tokens' = [Tokens EXCEPT ![d] = t]
      BY <3>2, TypeParts DEF Tokens, DeckType, EmptyDeck
    <3> QED
      BY <2>1, <3>1, <3>3 DEF Moves, Replaces, SameHand, Reserved
  <2> QED
    BY <2>2, <2>3
<1>2. ASSUME NEW d \in Deck, NEW t \in Track, SyncFinished(c, d, t) PROVE Moves
  BY <1>2, Untouched DEF SyncFinished, Receive, output
<1>3. CASE \/ \E d \in Deck, t \in Track : SyncEnded(c, d, t)
           \/ \E d \in Deck : \/ SelectDeck(c, d) \/ TransitionDeck(c, d)
                              \/ InterruptDeck(c, d) \/ HandoffDeck(c, d)
           \/ StartEngine(c) \/ StopEngine(c) \/ SetPaused(c) \/ SyncSeeked(c)
  BY <1>3, Untouched DEF SyncEnded, SelectDeck, TransitionDeck, InterruptDeck, HandoffDeck,
     Snapshot, StartEngine, StopEngine, SetPaused, SyncSeeked, control, output
<1> QED
  BY <1>1, <1>2, <1>3 DEF Request

LEMMA HandlerMoves == ASSUME TypeOK, TypeOK', NEW c \in Client, Handler(c) PROVE Moves
<1> DEFINE h == client[c]
<1>1. h.deck \in Deck /\ DeckType /\ DeckType' /\ OutType
  BY HandlerFields, TypeParts, TypePartsNext
<1>2. CASE Refuse(c) \/ Superseded(c) \/ HandoffPrime(c)
  BY <1>2, Untouched DEF Refuse, Superseded, HandoffPrime, control, output
<1>3. CASE CommitSelect(c)
  <2>1. \A d \in Deck : deck'[d].tok = deck[d].tok
    BY <1>3, EmptyTypes, TypeParts DEF CommitSelect, DeckType
  <2> QED
    BY <1>1, <1>3, <2>1, OnlyDeck DEF CommitSelect, output
<1>4. CASE CommitTransition(c)
  <2>1. \A d \in Deck : deck'[d].tok = deck[d].tok
    BY <1>1, <1>4, EmptyTypes DEF CommitTransition, DeckType
  <2> QED
    BY <1>1, <1>4, <2>1, OnlyDeck DEF CommitTransition, output
<1>5. CASE CommitInterrupt(c)
  <2>1. deck' = deck \/ deck' = [deck EXCEPT ![h.deck] = Started(@)]
    BY <1>5 DEF CommitInterrupt, control
  <2>2. \A d \in Deck : deck'[d].tok = deck[d].tok
    BY <1>1, <2>1, EmptyTypes DEF DeckType
  <2> QED
    BY <1>1, <1>5, <2>2, OnlyDeck DEF CommitInterrupt, output
<1>6. CASE HandoffArm(c)
  <2>1. deck' = deck
    BY <1>6 DEF HandoffArm, control
  <2>2. CASE Armable(h.from, h.ftok, h.deck, h.tok)
    BY <1>1, <1>6, <2>1, <2>2, ArmMoves DEF HandoffArm
  <2>3. CASE ~Armable(h.from, h.ftok, h.deck, h.tok)
    BY <1>6, <2>1, <2>3, Untouched DEF HandoffArm, output
  <2> QED
    BY <2>2, <2>3
<1> QED
  BY <1>2, <1>3, <1>4, <1>5, <1>6 DEF Handler

LEMMA TimingMoves == ASSUME TypeOK, TypeOK', TimingWorker PROVE Moves
<1> DEFINE d == Other(worker.from)
<1>1. d \in Deck /\ DeckType /\ DeckType' /\ OutType
  BY WorkerFields, TypeParts, TypePartsNext
<1>2. CASE Poll \/ Decide \/ Recheck \/ WorkerPrime \/ WorkerStore
  BY <1>2, Untouched DEF Poll, Decide, Recheck, WorkerPrime, WorkerStore, control, output
<1>3. CASE EnterScript
  <2>1. \/ deck' = deck \/ deck' = [deck EXCEPT ![timing.to] = Started(@)]
        \/ deck' = [deck EXCEPT ![timing.to].started = FALSE]
    BY <1>3 DEF EnterScript
  <2>2. timing.to \in Deck
    BY <1>3, TimingFields, TypeParts DEF EnterScript
  <2>3. \A x \in Deck : deck'[x].tok = deck[x].tok
    <3>1. CASE deck' = [deck EXCEPT ![timing.to] = Started(@)]
      BY <1>1, <2>2, <3>1, EmptyTypes DEF DeckType
    <3>2. CASE deck' = [deck EXCEPT ![timing.to].started = FALSE]
      BY <1>1, <2>2, <3>2 DEF DeckType, DeckState
    <3> QED
      BY <2>1, <3>1, <3>2
  <2> QED
    BY <1>1, <1>3, <2>3, OnlyDeck DEF EnterScript, output
<1>4. CASE FinishTransition
  <2>1. deck' = deck \/ deck' = [deck EXCEPT ![timing.from] = Released(@)]
    BY <1>4 DEF FinishTransition
  <2>2. \A x \in Deck : deck'[x].tok = deck[x].tok
    BY <1>1, <2>1, EmptyTypes DEF DeckType
  <2> QED
    BY <1>1, <1>4, <2>2, OnlyDeck DEF FinishTransition, output
<1>5. CASE Recover
  <2>1. \/ deck' = deck
        \/ deck' = [x \in Deck |-> IF x = d THEN Started(deck[x]) ELSE Released(deck[x])]
    BY <1>5 DEF Recover, control
  <2>2. \A x \in Deck : deck'[x].tok = deck[x].tok
    BY <1>1, <2>1, EmptyTypes DEF DeckType
  <2> QED
    BY <1>1, <1>5, <2>2, OnlyDeck DEF Recover, output
<1>6. CASE WorkerFade
  <2>1. deck' = deck \/ deck' = [deck EXCEPT ![d] = Started(@)]
    BY <1>6 DEF WorkerFade, control
  <2>2. \A x \in Deck : deck'[x].tok = deck[x].tok
    BY <1>1, <2>1, EmptyTypes DEF DeckType
  <2> QED
    BY <1>1, <1>6, <2>2, OnlyDeck DEF WorkerFade, output
<1>7. CASE WorkerArm
  <2>1. deck' = deck
    BY <1>7 DEF WorkerArm, control
  <2>2. CASE Armable(worker.from, worker.ftok, d, worker.ttok)
    BY <1>1, <1>7, <2>1, <2>2, ArmMoves DEF WorkerArm
  <2>3. CASE ~Armable(worker.from, worker.ftok, d, worker.ttok)
    BY <1>7, <2>1, <2>3, Untouched DEF WorkerArm, output
  <2> QED
    BY <2>2, <2>3
<1> QED
  BY <1>2, <1>3, <1>4, <1>5, <1>6, <1>7 DEF TimingWorker

LEMMA DecoderMoves ==
  ASSUME TypeOK, TypeOK', NEW d \in Deck, NEW t \in Track,
         DecoderReady(d, t) \/ DecoderFail(d, t) \/ DecoderEof(d, t)
  PROVE  Moves
<1>1. CASE DecoderReady(d, t) \/ DecoderFail(d, t)
  BY <1>1, Untouched DEF DecoderReady, DecoderFail, control, output
<1>2. CASE DecoderEof(d, t)
  <2>1. \A x \in Deck : deck'[x].tok = deck[x].tok
    BY <1>2, TypeParts DEF DecoderEof, DeckType, DeckState
  <2> QED
    BY <1>2, <2>1, OnlyDeck, TypeParts, TypePartsNext DEF DecoderEof, output
<1> QED
  BY <1>1, <1>2

LEMMA AnalysisMoves == ASSUME TypeOK, TypeOK', NEW d \in Deck, Analysis(d) PROVE Moves
<1>1. CASE AnalysisTake(d) \/ AnalysisCheck(d) \/ AnalysisPrepare(d)
  BY <1>1, Untouched DEF AnalysisTake, AnalysisCheck, AnalysisPrepare, control, output
<1>2. CASE AnalysisPublish(d) \/ AnalysisReject(d)
  <2>1. \A x \in Deck : deck'[x].tok = deck[x].tok
    <3>1. CASE AnalysisPublish(d)
      BY <3>1, TypeParts DEF AnalysisPublish, DeckType, DeckState, EmptyDeck
    <3>2. CASE AnalysisReject(d)
      BY <3>2, TypeParts DEF AnalysisReject, DeckType, DeckState
    <3> QED
      BY <1>2, <3>1, <3>2
  <2> QED
    BY <1>2, <2>1, OnlyDeck, TypeParts, TypePartsNext DEF AnalysisPublish, AnalysisReject,
       output
<1> QED
  BY <1>1, <1>2 DEF Analysis

LEMMA NextMoves ==
  ASSUME TypeOK, TypeOK', FadeEndsHand, [Next]_vars, "late_finished" \notin Command
  PROVE  Moves
<1>1. CASE \E c \in Client : Request(c) \/ Handler(c)
  BY <1>1, RequestMoves, HandlerMoves
<1>2. CASE \E th \in Thread : Do(th)
  BY <1>2, DoMoves
<1>3. CASE TimingWorker
  BY <1>3, TimingMoves
<1>4. CASE MixSwitch
  BY <1>4 DEF MixSwitch, Moves, Tokens, control
<1>5. CASE MixFadeDone
  BY <1>5, NoReservation DEF MixFadeDone, FadeEndsHand, control
<1>6. CASE RestartPipeline
  BY <1>6, TypeParts DEF RestartPipeline, HandType, control, Moves, Steady, SameHand, Tokens
<1>7. CASE \E d \in Deck, t \in Track : DecoderReady(d, t) \/ DecoderFail(d,
     t) \/ DecoderEof(d, t)
  BY <1>7, DecoderMoves
<1>8. CASE \E d \in Deck : Analysis(d)
  BY <1>8, AnalysisMoves
<1>9. CASE UNCHANGED vars
  BY <1>9, Untouched DEF vars
<1> QED
  BY <1>1, <1>2, <1>3, <1>4, <1>5, <1>6, <1>7, <1>8, <1>9 DEF Next

-----------------------------------------------------------------------------
(* The reserved destination *)

HandInv == TypeOK /\ FadeEndsHand /\ ReservationOwnsTarget

LEMMA NoHandYet == ASSUME Beginning PROVE ~hand.pending
<1>1. hand = NoHand
  BY DEF Beginning, Init, OnAir
<1> QED
  BY <1>1 DEF NoHand

LEMMA HandBeginning == ASSUME Beginning PROVE HandInv
<1>1. ~hand.pending
  BY NoHandYet
<1> QED
  BY <1>1, TypeBeginning DEF HandInv, FadeEndsHand, ReservationOwnsTarget

LEMMA HandNext ==
  ASSUME HandInv, [Next]_vars, "late_finished" \notin Command
  PROVE  HandInv' /\ Moves
<1>1. TypeOK' /\ Moves
  BY TypeNext, NextMoves DEF HandInv
<1>2. \A d \in Deck : Tokens[d] = deck[d].tok /\ Tokens'[d] = deck'[d].tok
  BY DEF Tokens
<1>3. hand.pending => hand.to \in Deck /\ deck[hand.to].tok = hand.ttok /\ hand.ttok # NoTrack
  BY TypeParts DEF HandInv, ReservationOwnsTarget, Holds, HandType
<1>4. CASE Steady
  BY <1>1, <1>2, <1>3, <1>4 DEF HandInv, Steady, SameHand, FadeEndsHand, ReservationOwnsTarget,
     Holds
<1>5. CASE GivesUp
  BY <1>1, <1>5 DEF HandInv, GivesUp, FadeEndsHand, ReservationOwnsTarget
<1>6. CASE Replaces
  <2>1. PICK d \in Deck, t \in Track :
          /\ Tokens' = [Tokens EXCEPT ![d] = t] /\ SameHand /\ out' = out
          /\ hand.pending /\ hand.to = d => hand.ttok = t
    BY <1>6 DEF Replaces
  <2>2. \A x \in Deck : Tokens'[x] = IF x = d THEN t ELSE Tokens[x]
    BY <2>1 DEF Tokens
  <2>3. hand'.pending => Tokens'[hand'.to] = hand'.ttok /\ hand'.ttok # NoTrack
    BY <1>2, <1>3, <2>1, <2>2 DEF SameHand
  <2>4. ReservationOwnsTarget'
    BY <1>2, <1>3, <2>1, <2>3 DEF SameHand, ReservationOwnsTarget, Holds
  <2> QED
    BY <1>1, <2>1, <2>4 DEF HandInv, FadeEndsHand, SameHand
<1>7. CASE Reserves
  BY <1>1, <1>2, <1>7 DEF HandInv, Reserves, FadeEndsHand, ReservationOwnsTarget, Holds
<1>8. CASE MixSwitch
  <2>1. ~hand'.pending
    BY <1>8, TypeParts DEF MixSwitch, HandType, HandInv
  <2> QED
    BY <1>1, <2>1 DEF HandInv, FadeEndsHand, ReservationOwnsTarget
<1> QED
  BY <1>1, <1>4, <1>5, <1>6, <1>7, <1>8 DEF Moves

\* A reserved destination keeps the token it was reserved for, for every schedule
\* of handlers, workers, decoders and mixer.  The one command excluded is a
\* transition_finished that comes after its deck was loaded again.
THEOREM ReservedTargetIsOwned ==
  ASSUME "late_finished" \notin Command
  PROVE  Beginning /\ [][Next]_vars => []ReservationOwnsTarget
<1>1. HandInv /\ [Next]_vars => HandInv'
  BY HandNext
<1>2. HandInv => ReservationOwnsTarget
  BY DEF HandInv
<1> QED
  BY HandBeginning, <1>1, <1>2, PTL

LEMMA PromiseNext ==
  ASSUME HandInv, HandInv', Moves
  PROVE  [Reservation!HandoffNext]_(Reservation!hvars)
<1> DEFINE reserved == IF hand.pending THEN hand.to ELSE NoDeck
           promised == IF hand.pending THEN hand.ttok ELSE NoTrack
<1>1. Deck \cap {NoDeck} = {}
  BY ConstantsAssumption DEF ConstantsAssumption
<1>2. out'.primary \in Deck \cup {NoDeck}
  BY TypePartsNext DEF HandInv, OutType, DeckOr
<1>3. hand.pending => hand.to \in Deck /\ Tokens[hand.to] = hand.ttok
  BY TypeParts DEF HandInv, ReservationOwnsTarget, Holds, HandType, Tokens
<1>4. CASE Steady
  <2>1. Tokens' = Tokens /\ out'.primary = out.primary /\ reserved' = reserved /\ promised' = promised
    BY <1>4 DEF Steady, SameHand
  <2> QED
    BY <2>1 DEF Reservation!hvars, Tokens
<1>5. CASE GivesUp
  <2>1. Reservation!Cut(out'.primary)
    BY <1>5 DEF GivesUp, Reservation!Cut, Tokens
  <2> QED
    BY <1>2, <2>1 DEF Reservation!HandoffNext
<1>6. CASE Replaces
  <2>1. PICK d \in Deck, t \in Track :
          /\ Tokens' = [Tokens EXCEPT ![d] = t] /\ SameHand /\ out' = out
          /\ hand.pending /\ hand.to = d => hand.ttok = t
    BY <1>6 DEF Replaces
  <2>2. CASE reserved # d
    <3>1. Reservation!Replace(d, t)
      BY <2>1, <2>2 DEF Reservation!Replace, SameHand, Tokens
    <3> QED
      BY <3>1 DEF Reservation!HandoffNext
  <2>3. CASE reserved = d
    <3>1. hand.pending /\ hand.to = d /\ Tokens[d] = t
      BY <1>1, <1>3, <2>1, <2>3
    <3>2. Tokens' = Tokens
      BY <2>1, <3>1 DEF Tokens
    <3> QED
      BY <2>1, <3>2 DEF Reservation!hvars, SameHand, Tokens
  <2> QED
    BY <2>2, <2>3
<1>7. CASE Reserves
  <2>1. PICK d \in Deck :
          /\ Tokens' = Tokens /\ d # out.primary /\ deck[d].tok # NoTrack
          /\ hand'.pending /\ hand'.to = d /\ hand'.ttok = deck[d].tok
          /\ out'.primary = out.primary
    BY <1>7 DEF Reserves
  <2>2. Reservation!Reserve(d)
    BY <2>1 DEF Reservation!Reserve, Tokens
  <2> QED
    BY <2>2 DEF Reservation!HandoffNext
<1>8. CASE MixSwitch /\ Tokens' = Tokens
  <2>1. hand.pending /\ ~hand'.pending /\ out'.primary = hand.to
    BY <1>8, TypeParts DEF MixSwitch, HandType, OutType, HandInv
  <2>2. Reservation!Switch
    BY <1>3, <1>8, <2>1 DEF Reservation!Switch, Tokens
  <2> QED
    BY <2>2 DEF Reservation!HandoffNext
<1> QED
  BY <1>4, <1>5, <1>6, <1>7, <1>8 DEF Moves

\* The engine, with every thread it has, implements the abstract promise of a
\* hand-off: a reserved deck keeps its descriptor and the mixer stays where it is
\* until the switch to it, or until the reservation is given up.
THEOREM EngineKeepsPromise ==
  ASSUME "late_finished" \notin Command
  PROVE  Beginning /\ [][Next]_vars => HandoffPromise
<1>1. Beginning => Reservation!HandoffInit
  <2> SUFFICES ASSUME Beginning PROVE Reservation!HandoffInit
    OBVIOUS
  <2>1. ~hand.pending /\ DeckType /\ OutType
    BY TypeBeginning, TypeParts, NoHandYet
  <2> QED
    BY <2>1 DEF Reservation!HandoffInit, DeckType, DeckState, OutType, DeckOr, Token
<1>2. HandInv /\ [Next]_vars => HandInv' /\ [Reservation!HandoffNext]_(Reservation!hvars)
  BY HandNext, PromiseNext
<1> QED
  BY HandBeginning, <1>1, <1>2, PTL DEF HandoffPromise, Reservation!HandoffSpec

-----------------------------------------------------------------------------
(* The started decks: analysis_worker_main publishes a copy of the descriptor  *)
(* made at the load, so nothing may start a deck before its analysis is over.  *)

\* The token whose analysis thread th is about to request.
AskOf(th) == IF Doing(th, "analyse") THEN Head(todo[th]).tok ELSE NoTrack

\* An analysis of t is still to be requested, taken or published.
Waits(t) == \/ \E d \in Deck : analysis[d].wanted = t \/ analysis[d].tok = t
            \/ \E th \in Thread : AskOf(th) = t
\* t was loaded, and nothing will be published under it any more.
Cleared(t) == t \in Track => home[t] # NoDeck /\ ~Waits(t)

\* The calls that come first in what a thread still has to do.
FirstOps == {"analyse", "finalize"}
HeadOnly == \A th \in Thread : \A i \in 2..Len(todo[th]) : todo[th][i].op \notin FirstOps

\* A token is in one place only on its way through the analysis of its deck.
OneRequest ==
  /\ \A th \in Thread : Doing(th, "analyse") =>
       /\ AskOf(th) \in Analysed /\ home[AskOf(th)] = Head(todo[th]).deck
       /\ \A d \in Deck : analysis[d].wanted # AskOf(th) /\ analysis[d].tok # AskOf(th)
  /\ \A th, other \in Thread : AskOf(th) = AskOf(other) /\ AskOf(th) # NoTrack => th = other
  /\ \A d \in Deck :
       /\ analysis[d].wanted # NoTrack =>
            /\ analysis[d].wanted \in Analysed /\ home[analysis[d].wanted] = d
            /\ analysis[d].tok # analysis[d].wanted
       /\ analysis[d].tok # NoTrack => analysis[d].tok \in Analysed /\ home[analysis[d].tok] = d

\* What is ready, started, reserved or found usable is cleared.
DeckCleared ==
  \A d \in Deck : /\ Loaded(d) => home[deck[d].tok] # NoDeck
                  /\ deck[d].ready \/ deck[d].started => Cleared(deck[d].tok)
HandCleared ==
  /\ hand.pending => Cleared(hand.ttok)
  /\ \A th \in Thread : Doing(th, "finalize") => Cleared(Head(todo[th]).tok)
WorkerCleared ==
  (worker.pc = "polled" /\ worker.usable) \/ worker.pc \notin {"idle", "polled"}
    => Cleared(worker.ttok)
ClientCleared ==
  \A c \in Client : client[c].pc = "arm" \/ (client[c].pc = "wait" /\ client[c].usable = "yes")
    => Cleared(client[c].tok)
EntryCleared == timing.entry => Cleared(timing.ttok)
StartInv == /\ TypeOK /\ HeadOnly /\ OneRequest /\ DeckCleared /\ HandCleared
            /\ WorkerCleared /\ ClientCleared /\ EntryCleared

\* Every step leaves a thread's calls alone, or leaves plain ones.
Plain(es) == \A i \in 1..Len(es) : es[i].op \notin FirstOps
TodoPlain == \A th \in Thread : todo'[th] = todo[th] \/ Plain(todo'[th])

LEMMA DonePlain ==
  ASSUME TodoType, HeadOnly, NEW th \in Thread, todo[th] # <<>>, Done(th)
  PROVE  TodoPlain
<1>1. todo' = [todo EXCEPT ![th] = Tail(todo[th])]
  BY DEF Done
<1>2. todo[th] \in Seq(Effect)
  BY DEF TodoType
<1>3. Plain(Tail(todo[th]))
  BY <1>2 DEF Plain, HeadOnly
<1> QED
  BY <1>1, <1>3 DEF TodoPlain, TodoType

LEMMA ThenFirstPlain ==
  ASSUME TodoType, HeadOnly, NEW th \in Thread, todo[th] # <<>>,
         NEW e, e.op \notin FirstOps, ThenFirst(th, e)
  PROVE  TodoPlain
<1>1. todo' = [todo EXCEPT ![th] = <<e>> \o Tail(todo[th])]
  BY DEF ThenFirst
<1>2. todo[th] \in Seq(Effect)
  BY DEF TodoType
<1>3. Plain(<<e>> \o Tail(todo[th]))
  BY <1>2 DEF Plain, HeadOnly
<1> QED
  BY <1>1, <1>3 DEF TodoPlain, TodoType

LEMMA LaterPlain ==
  ASSUME TodoType, NEW th \in Thread, NEW es, Plain(es), Later(th, es)
  PROVE  TodoPlain
BY DEF TodoPlain, TodoType, Later

LEMMA SameTodo == todo' = todo => TodoPlain
BY DEF TodoPlain

LEMMA PlainCalls ==
  /\ Plain(<<>>)
  /\ \A a : a.op \notin FirstOps => Plain(<<a>>)
  /\ \A a, b : a.op \notin FirstOps /\ b.op \notin FirstOps => Plain(<<a, b>>)
  /\ \A a, b, c : a.op \notin FirstOps /\ b.op \notin FirstOps /\ c.op \notin FirstOps
       => Plain(<<a, b, c>>)
BY DEF Plain

LEMMA ConcatPlain ==
  ASSUME NEW a, NEW b, NEW c, NEW es \in Seq(Effect), Plain(<<a, b, c>>), Plain(es),
         a \in Effect, b \in Effect, c \in Effect
  PROVE  Plain(<<a, b, c>> \o es)
<1>1. <<a, b, c>> \in Seq(Effect) /\ Len(<<a, b, c>>) = 3
  OBVIOUS
<1> QED
  BY <1>1, ConcatProperties DEF Plain

LEMMA CallOps ==
  /\ \A op, d, t : Call(op, d, t).op = op /\ Call(op, d, t).tok = t /\ Call(op, d, t).deck = d
  /\ \A op, d, t, f, ft : /\ CallFrom(op, d, t, f, ft).op = op
                          /\ CallFrom(op, d, t, f, ft).tok = t
  /\ \A op : Bare(op).op = op
BY DEF Call, CallFrom, Bare

\* What the heads of the queues are after such a step.
LEMMA HeadsKept ==
  ASSUME TodoType, TodoType', HeadOnly, TodoPlain
  PROVE  /\ HeadOnly'
         /\ \A th \in Thread : AskOf(th)' = AskOf(th) \/ AskOf(th)' = NoTrack
         /\ \A th \in Thread, op \in FirstOps :
              Doing(th, op)' => Doing(th, op) /\ Head(todo'[th]) = Head(todo[th])
<1>1. \A th \in Thread, op \in FirstOps :
              Doing(th, op)' => Doing(th, op) /\ todo'[th] = todo[th]
  <2> SUFFICES ASSUME NEW th \in Thread, NEW op \in FirstOps, Doing(th, op)'
               PROVE  todo'[th] = todo[th]
    BY DEF Doing
  <2>1. todo'[th] \in Seq(Effect) /\ todo'[th] # <<>>
    BY DEF Doing, TodoType
  <2>2. 1 \in 1..Len(todo'[th]) /\ Head(todo'[th]) = todo'[th][1]
    BY <2>1
  <2>3. ~Plain(todo'[th])
    BY <2>2 DEF Plain, Doing
  <2> QED
    BY <2>3 DEF TodoPlain
<1>2. HeadOnly'
  <2> SUFFICES ASSUME NEW th \in Thread
               PROVE  \A i \in 2..Len(todo'[th]) : todo'[th][i].op \notin FirstOps
    BY DEF HeadOnly
  <2>1. CASE todo'[th] = todo[th]
    BY <2>1 DEF HeadOnly
  <2>2. CASE Plain(todo'[th])
    <3>1. Len(todo'[th]) \in Nat
      BY DEF TodoType
    <3> QED
      BY <2>2, <3>1 DEF Plain
  <2> QED
    BY <2>1, <2>2 DEF TodoPlain
<1>3. \A th \in Thread : AskOf(th)' = AskOf(th) \/ AskOf(th)' = NoTrack
  BY <1>1 DEF AskOf, FirstOps
<1> QED
  BY <1>1, <1>2, <1>3

-----------------------------------------------------------------------------
(* The requests for an analysis *)

Requests == TypeOK /\ HeadOnly /\ OneRequest
StayCleared == \A t : Cleared(t) => Cleared(t)'
StayHome == \A t \in Track : home[t] # NoDeck => home'[t] # NoDeck
KeepsRequests == OneRequest' /\ HeadOnly' /\ StayCleared /\ StayHome

LEMMA AskedTrack ==
  ASSUME Requests, NEW th \in Thread, AskOf(th) # NoTrack
  PROVE  Doing(th, "analyse") /\ AskOf(th) \in Track /\ home[AskOf(th)] # NoDeck
<1>1. Doing(th, "analyse") /\ AskOf(th) \in Analysed /\ home[AskOf(th)] = Head(todo[th]).deck
  BY DEF Requests, OneRequest, AskOf
<1>2. Head(todo[th]) \in Effect /\ Head(todo[th]).op = "analyse"
  BY <1>1, HeadTail, TypeParts DEF Requests, Doing
<1>3. Head(todo[th]).deck \in Deck
  BY <1>2 DEF Effect, EngineWide
<1> QED
  BY <1>1, <1>3, ConstantsAssumption DEF ConstantsAssumption

LEMMA PlainRequests ==
  ASSUME Requests, TypeOK', TodoPlain, analysis' = analysis, home' = home
  PROVE  KeepsRequests
<1>1. /\ HeadOnly'
      /\ \A th \in Thread : AskOf(th)' = AskOf(th) \/ AskOf(th)' = NoTrack
      /\ \A th \in Thread : Doing(th, "analyse")' =>
           /\ Doing(th, "analyse") /\ Head(todo'[th]) = Head(todo[th])
           /\ AskOf(th)' = AskOf(th)
  BY HeadsKept, TypeParts, TypePartsNext DEF Requests, FirstOps, AskOf
<1>2. OneRequest'
  BY <1>1 DEF Requests, OneRequest
<1>3. StayCleared
  <2>1. \A t \in Track : Waits(t)' => Waits(t)
    BY <1>1, ConstantsAssumption DEF Waits, ConstantsAssumption
  <2> QED
    BY <2>1 DEF StayCleared, Cleared
<1> QED
  BY <1>1, <1>2, <1>3 DEF KeepsRequests, StayHome

\* The request goes to the worker of its deck.
LEMMA ScheduleRequests ==
  ASSUME Requests, TypeOK', NEW th \in Thread, ScheduleAnalysis(th)
  PROVE  KeepsRequests
<1> DEFINE e == Head(todo[th])
<1>1. /\ Doing(th, "analyse") /\ AskOf(th) = e.tok /\ Done(th) /\ home' = home
      /\ analysis' = [analysis EXCEPT ![e.deck].wanted = e.tok]
  BY DEF ScheduleAnalysis, AskOf, bounds
<1>2. todo[th] # <<>> /\ todo' = [todo EXCEPT ![th] = Tail(todo[th])]
  BY <1>1 DEF Doing, Done
<1>3. TodoPlain
  BY <1>1, <1>2, DonePlain, TypeParts DEF Requests
<1>4. /\ HeadOnly'
      /\ \A x \in Thread : Doing(x, "analyse")' =>
           /\ Doing(x, "analyse") /\ Head(todo'[x]) = Head(todo[x])
           /\ AskOf(x)' = AskOf(x)
  BY <1>3, HeadsKept, TypeParts, TypePartsNext DEF Requests, FirstOps, AskOf
<1>5. ~Doing(th, "analyse")'
  <2>1. todo[th] \in Seq(Effect) /\ todo'[th] = Tail(todo[th])
    BY <1>2, TypeParts DEF Requests, TodoType
  <2>2. todo'[th] # <<>> => Head(todo'[th]) = todo[th][2] /\ 2 \in 2..Len(todo[th])
    BY <2>1
  <2> QED
    BY <2>2 DEF Doing, HeadOnly, Requests, FirstOps
<1>6. e \in Effect /\ e.deck \in Deck /\ e.tok \in Analysed /\ home[e.tok] = e.deck /\ e.tok # NoTrack
  <2>1. e \in Effect /\ e.op = "analyse"
    BY <1>1, <1>2, HeadTail, TypeParts DEF Requests, Doing
  <2>2. e.deck \in Deck
    BY <2>1 DEF Effect, EngineWide
  <2> QED
    BY <1>1, <2>1, <2>2, ConstantsAssumption DEF Requests, OneRequest, ConstantsAssumption
<1>7. \A d \in Deck : /\ analysis'[d].wanted = IF d = e.deck THEN e.tok ELSE analysis[d].wanted
                      /\ analysis'[d].tok = analysis[d].tok
  BY <1>1, <1>6, TypeParts DEF Requests, AnalysisType
<1>8. \A x \in Thread : AskOf(x)' = IF Doing(x, "analyse")' THEN AskOf(x) ELSE NoTrack
  BY <1>4 DEF AskOf
<1>9. \A x \in Thread : Doing(x, "analyse")' =>
        AskOf(x) \in Analysed /\ AskOf(x) # NoTrack /\ x # th /\ AskOf(x) # e.tok
  BY <1>1, <1>4, <1>5, ConstantsAssumption DEF Requests, OneRequest, ConstantsAssumption
<1>10. OneRequest'
  <2>1. \A x \in Thread : Doing(x, "analyse")' =>
          /\ AskOf(x)' \in Analysed /\ home'[AskOf(x)'] = Head(todo'[x]).deck
          /\ \A d \in Deck : analysis'[d].wanted # AskOf(x)' /\ analysis'[d].tok # AskOf(x)'
    BY <1>1, <1>4, <1>7, <1>9 DEF Requests, OneRequest
  <2>2. \A x, y \in Thread : AskOf(x)' = AskOf(y)' /\ AskOf(x)' # NoTrack => x = y
    BY <1>8 DEF Requests, OneRequest
  <2>3. \A d \in Deck :
          /\ analysis'[d].wanted # NoTrack =>
               /\ analysis'[d].wanted \in Analysed /\ home'[analysis'[d].wanted] = d
               /\ analysis'[d].tok # analysis'[d].wanted
          /\ analysis'[d].tok # NoTrack =>
               analysis'[d].tok \in Analysed /\ home'[analysis'[d].tok] = d
    BY <1>1, <1>6, <1>7 DEF Requests, OneRequest
  <2> QED
    BY <2>1, <2>2, <2>3 DEF OneRequest
<1>11. StayCleared
  <2>1. \A t \in Track : Waits(t)' => Waits(t)
    BY <1>1, <1>7, <1>8, ConstantsAssumption DEF Waits, ConstantsAssumption
  <2> QED
    BY <1>1, <2>1 DEF StayCleared, Cleared
<1> QED
  BY <1>1, <1>4, <1>10, <1>11 DEF KeepsRequests, StayHome

\* The worker of a deck moves on: it takes its request, works on it, or is done.
LEMMA AnalysisRequests ==
  ASSUME Requests, TypeOK', NEW d \in Deck, todo' = todo, home' = home,
         analysis'[d].tok \in {analysis[d].tok, analysis[d].wanted, NoTrack},
         analysis'[d].wanted \in {analysis[d].wanted, NoTrack},
         analysis'[d].wanted # NoTrack => analysis'[d].tok # analysis'[d].wanted,
         \A x \in Deck : x # d => analysis'[x] = analysis[x]
  PROVE  KeepsRequests
<1>1. /\ HeadOnly'
      /\ \A th \in Thread : /\ AskOf(th)' = AskOf(th)
                            /\ Doing(th, "analyse")' = Doing(th, "analyse")
  BY DEF Requests, HeadOnly, AskOf, Doing
<1>2. OneRequest'
  <2>1. \A th \in Thread : Doing(th, "analyse") =>
          /\ AskOf(th) \in Analysed /\ home[AskOf(th)] = Head(todo[th]).deck
          /\ \A x \in Deck : analysis'[x].wanted # AskOf(th) /\ analysis'[x].tok # AskOf(th)
    BY ConstantsAssumption DEF Requests, OneRequest, ConstantsAssumption
  <2>2. \A x \in Deck :
          /\ analysis'[x].wanted # NoTrack =>
               /\ analysis'[x].wanted \in Analysed /\ home[analysis'[x].wanted] = x
               /\ analysis'[x].tok # analysis'[x].wanted
          /\ analysis'[x].tok # NoTrack =>
               analysis'[x].tok \in Analysed /\ home[analysis'[x].tok] = x
    BY DEF Requests, OneRequest
  <2> QED
    BY <1>1, <2>1, <2>2 DEF Requests, OneRequest
<1>3. StayCleared
  <2>1. \A t \in Track : Waits(t)' => Waits(t)
    BY <1>1, ConstantsAssumption DEF Waits, ConstantsAssumption
  <2> QED
    BY <2>1 DEF StayCleared, Cleared
<1> QED
  BY <1>1, <1>2, <1>3 DEF KeepsRequests, StayHome

\* A load asks for the analysis of a token no deck has held.
LEMMA LoadRequests ==
  ASSUME Requests, TypeOK', NEW c \in Client, NEW d \in Deck, NEW t \in Track,
         NEW guarded \in BOOLEAN, Load(c, d, t, guarded)
  PROVE  KeepsRequests
<1>1. analysis' = analysis /\ home[t] = NoDeck /\ c \in Thread
  BY ClientThread DEF Load
<1>2. CASE LoadRejected(d, t, guarded)
  BY <1>1, <1>2, SameTodo, PlainRequests DEF Load
<1>3. CASE ~LoadRejected(d, t, guarded) /\ t \notin Analysed
  <2>1. Plain(<<Call("prepare", d, t)>>)
    BY PlainCalls, CallOps DEF FirstOps
  <2>2. TodoPlain /\ home' = [home EXCEPT ![t] = d]
    BY <1>1, <1>3, <2>1, LaterPlain, TypeParts DEF Load, Requests
  <2>3. /\ HeadOnly'
        /\ \A th \in Thread : AskOf(th)' = AskOf(th) \/ AskOf(th)' = NoTrack
        /\ \A th \in Thread : Doing(th, "analyse")' =>
             /\ Doing(th, "analyse") /\ Head(todo'[th]) = Head(todo[th])
             /\ AskOf(th)' = AskOf(th)
    BY <2>2, HeadsKept, TypeParts, TypePartsNext DEF Requests, FirstOps, AskOf
  <2>4. \A u \in Track : home'[u] = IF u = t THEN d ELSE home[u]
    BY <2>2, TypeParts DEF Requests, RestType
  <2>5. NoDeck \notin Deck /\ Analysed \subseteq Track /\ NoTrack \notin Track
    BY ConstantsAssumption DEF ConstantsAssumption
  <2>6. OneRequest'
    BY <1>1, <1>3, <2>3, <2>4, <2>5 DEF Requests, OneRequest
  <2>7. \A u \in Track : Waits(u)' => Waits(u)
    BY <1>1, <2>3, <2>5 DEF Waits
  <2> QED
    BY <2>3, <2>4, <2>5, <2>6, <2>7 DEF KeepsRequests, StayCleared, StayHome, Cleared
<1>4. CASE ~LoadRejected(d, t, guarded) /\ t \in Analysed
  <2>1. todo' = [todo EXCEPT ![c] = <<Call("analyse", d, t)>>] /\ home' = [home EXCEPT ![t] = d]
    BY <1>4 DEF Load, Later
  <2>2. \A th \in Thread : todo'[th] = IF th = c THEN <<Call("analyse", d, t)>> ELSE todo[th]
    BY <1>1, <2>1, TypeParts DEF Requests, TodoType
  <2>3. \A u \in Track : home'[u] = IF u = t THEN d ELSE home[u]
    BY <2>1, TypeParts DEF Requests, RestType
  <2>4. /\ NoDeck \notin Deck /\ Analysed \subseteq Track /\ NoTrack \notin Track
        /\ todo[c] = <<>>
    BY ConstantsAssumption DEF ConstantsAssumption, Load, Receive, Busy
  <2>5. HeadOnly'
    BY <2>2 DEF HeadOnly, Requests
  <2>6. /\ \A th \in Thread : th # c =>
             /\ Doing(th, "analyse")' = Doing(th, "analyse")
             /\ Head(todo'[th]) = Head(todo[th])
             /\ AskOf(th)' = AskOf(th)
        /\ Doing(c, "analyse")' /\ AskOf(c)' = t /\ Head(todo'[c]).deck = d
        /\ AskOf(c) = NoTrack
    BY <1>1, <2>2, <2>4, CallOps DEF Doing, AskOf
  <2>7. \A th \in Thread : AskOf(th) # t /\ (AskOf(th) # NoTrack => AskOf(th) \in Track)
    BY <1>1, <2>4, AskedTrack DEF Requests, OneRequest
  <2>8. \A x \in Deck : analysis[x].wanted # t /\ analysis[x].tok # t
    BY <1>1, <2>4 DEF Requests, OneRequest
  <2>9. OneRequest'
    <3>1. \A th \in Thread : Doing(th, "analyse")' =>
            /\ AskOf(th)' \in Analysed /\ home'[AskOf(th)'] = Head(todo'[th]).deck
            /\ \A x \in Deck : analysis'[x].wanted # AskOf(th)' /\ analysis'[x].tok # AskOf(th)'
      <4> SUFFICES ASSUME NEW th \in Thread, Doing(th, "analyse")'
                   PROVE  /\ AskOf(th)' \in Analysed
                          /\ home'[AskOf(th)'] = Head(todo'[th]).deck
                          /\ \A x \in Deck : /\ analysis'[x].wanted # AskOf(th)'
                                             /\ analysis'[x].tok # AskOf(th)'
        OBVIOUS
      <4>1. CASE th = c
        BY <1>1, <1>4, <2>3, <2>6, <2>8, <4>1
      <4>2. CASE th # c
        <5>1. /\ AskOf(th) \in Analysed /\ home[AskOf(th)] = Head(todo[th]).deck
              /\ \A x \in Deck : analysis[x].wanted # AskOf(th) /\ analysis[x].tok # AskOf(th)
          BY <2>6, <4>2 DEF Requests, OneRequest
        <5> QED
          BY <1>1, <2>3, <2>4, <2>6, <2>7, <4>2, <5>1
      <4> QED
        BY <4>1, <4>2
    <3>2. \A x, y \in Thread : AskOf(x)' = AskOf(y)' /\ AskOf(x)' # NoTrack => x = y
      BY <2>6, <2>7 DEF Requests, OneRequest
    <3>3. \A x \in Deck :
            /\ analysis'[x].wanted # NoTrack =>
                 /\ analysis'[x].wanted \in Analysed /\ home'[analysis'[x].wanted] = x
                 /\ analysis'[x].tok # analysis'[x].wanted
            /\ analysis'[x].tok # NoTrack =>
                 analysis'[x].tok \in Analysed /\ home'[analysis'[x].tok] = x
      BY <1>1, <2>3, <2>4, <2>8 DEF Requests, OneRequest
    <3> QED
      BY <3>1, <3>2, <3>3 DEF OneRequest
  <2>10. \A u \in Track : u # t /\ Waits(u)' => Waits(u)
    BY <1>1, <2>6 DEF Waits
  <2> QED
    BY <1>1, <2>3, <2>4, <2>5, <2>9, <2>10 DEF KeepsRequests, StayCleared, StayHome, Cleared
<1> QED
  BY <1>2, <1>3, <1>4

\* A hand-off starts with the call that finalizes it.
LEMMA SwitchRequests == ASSUME Requests, TypeOK', MixSwitch PROVE KeepsRequests
<1>1. "mixer" \in Thread /\ todo["mixer"] = <<>> /\ analysis' = analysis /\ home' = home
  BY ClientThread DEF MixSwitch, Busy, bounds
<1>2. \A th \in Thread : todo'[th] = IF th = "mixer" THEN SwitchCalls(hand) ELSE todo[th]
  BY <1>1, TypeParts DEF MixSwitch, Later, Requests, TodoType
<1>3. /\ Len(SwitchCalls(hand)) = 4 /\ SwitchCalls(hand) # <<>>
      /\ Head(SwitchCalls(hand)).op = "finalize"
      /\ \A i \in 2..4 : SwitchCalls(hand)[i].op \notin FirstOps
  BY CallOps DEF SwitchCalls, FirstOps
<1>4. HeadOnly'
  BY <1>2, <1>3 DEF HeadOnly, Requests
<1>5. \A th \in Thread :
        /\ Doing(th, "analyse")' = Doing(th, "analyse")
        /\ Doing(th, "analyse")' => Head(todo'[th]) = Head(todo[th])
        /\ AskOf(th)' = AskOf(th)
  BY <1>1, <1>2, <1>3 DEF Doing, AskOf
<1>6. OneRequest'
  BY <1>1, <1>5 DEF Requests, OneRequest
<1>7. \A t \in Track : Waits(t)' => Waits(t)
  BY <1>1, <1>5 DEF Waits
<1> QED
  BY <1>1, <1>4, <1>6, <1>7 DEF KeepsRequests, StayCleared, StayHome, Cleared

LEMMA DoPlain ==
  ASSUME Requests, NEW th \in Thread, Do(th), ~ScheduleAnalysis(th)
  PROVE  TodoPlain /\ analysis' = analysis /\ home' = home
<1>1. analysis' = analysis /\ home' = home /\ todo[th] # <<>>
  BY DEF Do, PrepareVoice, ActivateTrack, StartVoice, StopVoice, StopVoices,
     TransitionStarted, TransitionFinished, PrepareDelayedEntry, StopTrack, OutputStart,
     OutputStop, ResetTiming, OutputPause, SeekVoice, SeekOutput, HandleEof, FinalizeHandoff,
     CommitMetadata, Doing, bounds
<1>2. Done(th) \/ \E op \in {"seekOut", "stopOut"} : \E d, t : ThenFirst(th, Call(op, d, t))
  BY DEF Do, PrepareVoice, ActivateTrack, StartVoice, StopVoice, StopVoices,
     TransitionStarted, TransitionFinished, PrepareDelayedEntry, StopTrack, OutputStart,
     OutputStop, ResetTiming, OutputPause, SeekVoice, SeekOutput, HandleEof, FinalizeHandoff,
     CommitMetadata
<1>3. CASE Done(th)
  BY <1>1, <1>3, DonePlain, TypeParts DEF Requests
<1>4. ASSUME NEW op \in {"seekOut", "stopOut"}, NEW d, NEW t, ThenFirst(th, Call(op, d, t))
      PROVE  TodoPlain
  <2>1. Call(op, d, t).op \notin FirstOps
    BY CallOps DEF FirstOps
  <2> QED
    BY <1>1, <1>4, <2>1, ThenFirstPlain, TypeParts DEF Requests
<1> QED
  BY <1>1, <1>2, <1>3, <1>4

\* Every other request, handler, worker and decoder makes plain calls.
LEMMA RequestPlain ==
  ASSUME Requests, NEW c \in Client, Request(c),
         ~\E d \in Deck, t \in Track, guarded \in BOOLEAN : Load(c, d, t, guarded)
  PROVE  TodoPlain /\ analysis' = analysis /\ home' = home
<1>1. c \in Thread /\ TodoType
  BY ClientThread, TypeParts DEF Requests
<1>2. ASSUME NEW d \in Deck, NEW t \in Track, SyncFinished(c, d, t) \/ SyncEnded(c, d, t)
      PROVE  TodoPlain /\ analysis' = analysis /\ home' = home
  <2>1. /\ Plain(<<Call("fadeDone", d, NoTrack)>>)
        /\ Plain(<<Call("stopVoice", d, t), Call("stopOut", d, t)>>)
    BY PlainCalls, CallOps DEF FirstOps
  <2> QED
    BY <1>1, <1>2, <2>1, LaterPlain DEF SyncFinished, SyncEnded
<1>3. ASSUME NEW d \in Deck, \/ SelectDeck(c, d) \/ TransitionDeck(c, d)
                            \/ InterruptDeck(c, d) \/ HandoffDeck(c, d)
      PROVE  TodoPlain /\ analysis' = analysis /\ home' = home
  BY <1>3, SameTodo DEF SelectDeck, TransitionDeck, InterruptDeck, HandoffDeck, Snapshot
<1>4. CASE StartEngine(c) \/ StopEngine(c)
  <2>1. /\ Plain(<<Bare("outStart"), Bare("resetTiming")>>)
        /\ Plain(<<Bare("resetTiming"), Bare("stopVoices"), Bare("outStop")>>)
    BY PlainCalls, CallOps DEF FirstOps
  <2> QED
    BY <1>1, <1>4, <2>1, LaterPlain DEF StartEngine, StopEngine
<1>5. CASE SetPaused(c) \/ SyncSeeked(c)
  <2>1. /\ Plain(<<Bare(IF eng.paused THEN "resume" ELSE "pause")>>)
        /\ Plain(<<Call("seek", eng.active, deck[eng.active].tok)>>)
    BY PlainCalls, CallOps DEF FirstOps
  <2> QED
    BY <1>1, <1>5, <2>1, LaterPlain DEF SetPaused, SyncSeeked
<1> QED
  BY <1>2, <1>3, <1>4, <1>5 DEF Request

LEMMA HandlerPlain ==
  ASSUME Requests, NEW c \in Client, Handler(c)
  PROVE  TodoPlain /\ analysis' = analysis /\ home' = home
<1> DEFINE h == client[c]
<1>1. c \in Thread /\ TodoType
  BY ClientThread, TypeParts DEF Requests
<1>2. CASE Refuse(c) \/ Superseded(c) \/ HandoffPrime(c)
  BY <1>2, SameTodo DEF Refuse, Superseded, HandoffPrime, bounds
<1>3. CASE CommitSelect(c)
  <2> DEFINE r == IF eng.transitioning THEN Other(h.deck) ELSE eng.active
             released == r # h.deck /\ Loaded(r)
             first == <<Call("activate", h.deck, h.tok), Call("startVoice", h.deck, h.tok),
                        Call("fadeDone", h.deck, NoTrack)>>
             rest == IF released THEN <<Call("stopVoice", r, deck[r].tok),
                                        Call("stopOut", r, deck[r].tok)>> ELSE <<>>
  <2>1. h.deck \in Deck /\ h.tok \in Token /\ r \in Deck /\ deck[r].tok \in Token
    BY HandlerFields, OtherDeck, TypeParts DEF Requests, EngType, DeckType, DeckState
  <2>2. /\ Call("activate", h.deck, h.tok) \in Effect /\ Call("startVoice", h.deck, h.tok) \in Effect
        /\ Call("fadeDone", h.deck, NoTrack) \in Effect /\ rest \in Seq(Effect)
    BY <2>1, CallType DEF Op, Token
  <2>3. Plain(first) /\ Plain(rest)
    BY PlainCalls, CallOps DEF FirstOps
  <2>4. Plain(first \o rest)
    BY <2>2, <2>3, ConcatPlain
  <2> QED
    BY <1>1, <1>3, <2>4, LaterPlain DEF CommitSelect, bounds
<1>4. CASE CommitTransition(c)
  <2>1. Plain(<<CallFrom("fadeStart", h.deck, NoTrack, h.from, NoTrack),
                Call("activate", h.deck, h.tok), Call("startVoice", h.deck, h.tok)>>)
    BY PlainCalls, CallOps DEF FirstOps
  <2> QED
    BY <1>1, <1>4, <2>1, LaterPlain DEF CommitTransition, bounds
<1>5. CASE CommitInterrupt(c)
  <2>1. Plain(<<Call("delayEntry", h.deck, NoTrack),
                CallFrom("fadeStart", h.deck, NoTrack, eng.active, NoTrack)>>)
    BY PlainCalls, CallOps DEF FirstOps
  <2> QED
    BY <1>1, <1>5, <2>1, LaterPlain, SameTodo DEF CommitInterrupt, bounds
<1>6. CASE HandoffArm(c)
  <2>1. Plain(<<Call("stopVoice", h.deck, h.tok)>>)
    BY PlainCalls, CallOps DEF FirstOps
  <2> QED
    BY <1>1, <1>6, <2>1, LaterPlain, SameTodo DEF HandoffArm, bounds
<1> QED
  BY <1>2, <1>3, <1>4, <1>5, <1>6 DEF Handler

LEMMA TimingPlain ==
  ASSUME Requests, TimingWorker
  PROVE  TodoPlain /\ analysis' = analysis /\ home' = home
<1> DEFINE f == worker.from
           d == Other(f)
<1>1. "timing" \in Thread /\ TodoType
  BY ClientThread, TypeParts DEF Requests
<1>2. analysis' = analysis /\ home' = home
  BY DEF TimingWorker, Poll, EnterScript, FinishTransition, Decide, Recheck, Recover,
     WorkerPrime, WorkerArm, WorkerStore, WorkerFade, bounds
<1>3. CASE Poll \/ Decide \/ Recheck \/ WorkerPrime \/ WorkerArm \/ WorkerStore
  BY <1>2, <1>3, SameTodo DEF Poll, Decide, Recheck, WorkerPrime, WorkerArm, WorkerStore
<1>4. CASE EnterScript
  <2>1. /\ Plain(<<Call("activate", timing.to, timing.ttok),
                   Call("startVoice", timing.to, timing.ttok)>>)
        /\ Plain(<<Call("fadeDone", timing.from, NoTrack)>>)
    BY PlainCalls, CallOps DEF FirstOps
  <2> QED
    BY <1>1, <1>2, <1>4, <2>1, LaterPlain, SameTodo DEF EnterScript
<1>5. CASE FinishTransition
  <2>1. Plain(<<Call("fadeDone", timing.to, NoTrack),
                Call("stopVoice", timing.from, timing.ftok),
                Call("stopOut", timing.from, timing.ftok)>>)
    BY PlainCalls, CallOps DEF FirstOps
  <2> QED
    BY <1>1, <1>2, <1>5, <2>1, LaterPlain DEF FinishTransition
<1>6. CASE Recover
  <2>1. Plain(<<Call("stopOut", f, worker.ftok), Call("activate", d, worker.ttok),
                Call("startVoice", d, worker.ttok)>>)
    BY PlainCalls, CallOps DEF FirstOps
  <2> QED
    BY <1>1, <1>2, <1>6, <2>1, LaterPlain, SameTodo DEF Recover
<1>7. CASE WorkerFade
  <2>1. Plain(<<CallFrom("fadeStart", d, NoTrack, f, NoTrack),
                Call("activate", d, worker.ttok), Call("startVoice", d, worker.ttok)>>)
    BY PlainCalls, CallOps DEF FirstOps
  <2> QED
    BY <1>1, <1>2, <1>7, <2>1, LaterPlain, SameTodo DEF WorkerFade
<1> QED
  BY <1>2, <1>3, <1>4, <1>5, <1>6, <1>7 DEF TimingWorker

LEMMA DecoderPlain ==
  ASSUME Requests, NEW d \in Deck, NEW t \in Track,
         DecoderReady(d, t) \/ DecoderFail(d, t) \/ DecoderEof(d, t)
  PROVE  TodoPlain /\ analysis' = analysis /\ home' = home
<1>1. d \in Thread /\ TodoType
  BY ClientThread, TypeParts DEF Requests
<1>2. CASE DecoderReady(d, t) \/ DecoderFail(d, t)
  BY <1>2, SameTodo DEF DecoderReady, DecoderFail, bounds
<1>3. CASE DecoderEof(d, t)
  <2>1. PICK eof \in {"earlyEof", "naturalEof"} : Later(d, <<Call(eof, d, t)>>)
    BY <1>3 DEF DecoderEof
  <2>2. Plain(<<Call(eof, d, t)>>)
    BY PlainCalls, CallOps DEF FirstOps
  <2> QED
    BY <1>1, <1>3, <2>1, <2>2, LaterPlain DEF DecoderEof, bounds
<1> QED
  BY <1>2, <1>3

LEMMA AnalysisKeeps == ASSUME Requests, TypeOK', NEW d \in Deck, Analysis(d) PROVE KeepsRequests
<1>1. AnalysisType /\ todo' = todo /\ home' = home
  BY TypeParts DEF Requests, Analysis, AnalysisTake, AnalysisCheck, AnalysisPrepare,
     AnalysisPublish, AnalysisReject, bounds
<1>2. \A x \in Deck : x # d => analysis'[x] = analysis[x]
  BY <1>1 DEF Analysis, AnalysisTake, AnalysisCheck, AnalysisPrepare,
     AnalysisPublish, AnalysisReject, Answers, AnalysisType
<1>3. CASE AnalysisTake(d)
  <2>1. analysis'[d].tok = analysis[d].wanted /\ analysis'[d].wanted = NoTrack
    BY <1>1, <1>3 DEF AnalysisTake, AnalysisType
  <2> QED
    BY <1>1, <1>2, <2>1, AnalysisRequests
<1>4. CASE ~AnalysisTake(d)
  <2>1. /\ analysis'[d].wanted = analysis[d].wanted
        /\ analysis'[d].tok = analysis[d].tok \/ analysis'[d].tok = NoTrack
    BY <1>1, <1>4 DEF Analysis, AnalysisCheck, AnalysisPrepare,
       AnalysisPublish, AnalysisReject, Answers, AnalysisType
  <2> QED
    BY <1>1, <1>2, <2>1, AnalysisRequests DEF Requests, OneRequest
<1> QED
  BY <1>3, <1>4

LEMMA RequestsNext == ASSUME Requests, [Next]_vars PROVE TypeOK' /\ KeepsRequests
<1>1. TypeOK'
  BY TypeNext DEF Requests
<1>2. CASE \E c \in Client : Request(c) \/ Handler(c)
  <2>1. PICK c \in Client : Request(c) \/ Handler(c)
    BY <1>2
  <2>2. CASE \E d \in Deck, t \in Track, guarded \in BOOLEAN : Load(c, d, t, guarded)
    BY <1>1, <2>2, LoadRequests
  <2>3. CASE ~\E d \in Deck, t \in Track, guarded \in BOOLEAN : Load(c, d, t, guarded)
    BY <1>1, <2>1, <2>3, RequestPlain, HandlerPlain, PlainRequests
  <2> QED
    BY <2>2, <2>3
<1>3. CASE \E th \in Thread : Do(th)
  BY <1>1, <1>3, DoPlain, ScheduleRequests, PlainRequests
<1>4. CASE TimingWorker
  BY <1>1, <1>4, TimingPlain, PlainRequests
<1>5. CASE MixSwitch
  BY <1>1, <1>5, SwitchRequests
<1>6. CASE MixFadeDone \/ RestartPipeline \/ UNCHANGED vars
  BY <1>1, <1>6, SameTodo, PlainRequests DEF MixFadeDone, RestartPipeline, vars, bounds
<1>7. CASE \E d \in Deck, t \in Track : DecoderReady(d, t) \/ DecoderFail(d, t) \/ DecoderEof(d, t)
  BY <1>1, <1>7, DecoderPlain, PlainRequests
<1>8. CASE \E d \in Deck : Analysis(d)
  BY <1>1, <1>8, AnalysisKeeps
<1> QED
  BY <1>1, <1>2, <1>3, <1>4, <1>5, <1>6, <1>7, <1>8 DEF Next

-----------------------------------------------------------------------------
(* What is started, reserved or about to be is cleared: its analysis is over *)

LEMMA StartedFields ==
  \A s \in DeckState :
    /\ Started(s).ready = s.ready /\ Started(s).started /\ Started(s).tok = s.tok
    /\ Released(s).ready = s.ready /\ Released(s).started = s.started /\ Released(s).tok = s.tok
BY DEF DeckState, Started, Released

LEMMA NotAnalysed ==
  ASSUME OneRequest, NEW t \in Track, t \notin Analysed, home[t] # NoDeck
  PROVE  Cleared(t)
BY ConstantsAssumption DEF OneRequest, Cleared, Waits, AskOf, ConstantsAssumption

LEMMA NotAnalysedNext ==
  ASSUME OneRequest', NEW t \in Track, t \notin Analysed, home'[t] # NoDeck
  PROVE  Cleared(t)'
BY ConstantsAssumption DEF OneRequest, Cleared, Waits, AskOf, ConstantsAssumption

\* A verdict of "yes" is given to cleared tokens only, and so is the wait for one.
LEMMA UsableCleared ==
  ASSUME StartInv, NEW d \in Deck, VerdictOf(deck[d]) = "yes"
  PROVE  Cleared(deck[d].tok)
<1>1. deck[d].ready \/ deck[d].tok \notin Analysed
  BY DEF VerdictOf, Unanalysed
<1>2. CASE deck[d].ready
  BY <1>2 DEF StartInv, DeckCleared
<1>3. CASE deck[d].tok \in Track /\ deck[d].tok \notin Analysed
  <2>1. home[deck[d].tok] # NoDeck
    BY <1>3, ConstantsAssumption DEF StartInv, DeckCleared, Loaded, ConstantsAssumption
  <2> QED
    BY <1>3, <2>1, NotAnalysed DEF StartInv
<1>4. CASE deck[d].tok \notin Track
  BY <1>4 DEF Cleared
<1> QED
  BY <1>1, <1>2, <1>3, <1>4

LEMMA WaitedCleared ==
  ASSUME StartInv, NEW c \in Client, client[c].pc = "wait", WaitOver(c)
  PROVE  Cleared(client[c].tok)
<1>1. CASE client[c].usable = "yes"
  BY <1>1 DEF StartInv, ClientCleared
<1>2. CASE ReadyNow(client[c].deck, client[c].tok)
  <2>1. client[c].deck \in Deck
    BY HandlerFields, TypeParts DEF StartInv
  <2> QED
    BY <1>2, <2>1, UsableCleared DEF ReadyNow, Holds
<1> QED
  BY <1>1, <1>2 DEF WaitOver, Waited

KeepsDeck(d) ==
  /\ deck'[d].tok = deck[d].tok /\ deck'[d].ready = deck[d].ready
  /\ deck'[d].started => deck[d].started \/ Cleared(deck[d].tok)
  /\ deck[d].started => deck'[d].started \/ (timing.entry /\ timing.to = d)
NewToken(d) ==
  /\ deck'[d].tok \in Track /\ deck'[d].tok # deck[d].tok /\ ~deck'[d].started
  /\ home'[deck'[d].tok] # NoDeck
  /\ deck'[d].ready => Cleared(deck[d].tok)'
Published(d) ==
  /\ deck'[d].tok = deck[d].tok /\ ~deck[d].started /\ Cleared(deck[d].tok)'
DeckMoves == \A d \in Deck : KeepsDeck(d) \/ NewToken(d) \/ Published(d)

LEMMA SameDeck == deck' = deck => DeckMoves
BY DEF DeckMoves, KeepsDeck

\* A deck that becomes started, beside one that may be released.
LEMMA StartMoves ==
  ASSUME DeckType, NEW d \in Deck, Cleared(deck[d].tok),
         \A x \in Deck : \/ x = d /\ deck'[x] = Started(deck[x])
                         \/ deck'[x] = Released(deck[x])
                         \/ deck'[x] = deck[x]
  PROVE  DeckMoves
<1> SUFFICES ASSUME NEW x \in Deck PROVE KeepsDeck(x)
  BY DEF DeckMoves
<1>1. deck[x] \in DeckState
  BY DEF DeckType
<1> QED
  BY <1>1, StartedFields DEF KeepsDeck

LEMMA ReleaseMoves ==
  ASSUME DeckType, \A x \in Deck : deck'[x] = Released(deck[x]) \/ deck'[x] = deck[x]
  PROVE  DeckMoves
<1> SUFFICES ASSUME NEW x \in Deck PROVE KeepsDeck(x)
  BY DEF DeckMoves
<1>1. deck[x] \in DeckState
  BY DEF DeckType
<1> QED
  BY <1>1, StartedFields DEF KeepsDeck

\* A load, or a late event, puts another token in place of the descriptor.
LEMMA NewTokenMoves ==
  ASSUME DeckType, NEW d \in Deck, NEW t \in Track, NEW s,
         s.tok = t, ~s.started, deck' = [deck EXCEPT ![d] = s],
         deck[d].tok # t, home'[t] # NoDeck, s.ready => Cleared(t)'
  PROVE  DeckMoves
<1>1. \A x \in Deck : x # d => deck'[x] = deck[x]
  BY DEF DeckType
<1>2. deck'[d].tok = t /\ ~deck'[d].started /\ deck'[d].ready = s.ready
  BY DEF DeckType
<1>3. NewToken(d)
  BY <1>2 DEF NewToken, Cleared, Waits
<1> QED
  BY <1>1, <1>3 DEF DeckMoves, KeepsDeck

LEMMA RequestDecks ==
  ASSUME StartInv, TypeOK', OneRequest', NEW c \in Client, Request(c)
  PROVE  DeckMoves
<1>1. DeckType /\ OneRequest /\ RestType /\ DeckCleared
  BY TypeParts DEF StartInv
<1>2. ASSUME NEW d \in Deck, NEW t \in Track, NEW guarded \in BOOLEAN, Load(c, d, t, guarded)
      PROVE  DeckMoves
  <2>1. CASE LoadRejected(d, t, guarded)
    BY <1>2, <2>1, SameDeck DEF Load
  <2>2. CASE ~LoadRejected(d, t, guarded)
    <3> DEFINE s == [EmptyDeck EXCEPT !.tok = t, !.ready = t \notin Analysed]
    <3>1. /\ deck' = [deck EXCEPT ![d] = s] /\ s.tok = t /\ ~s.started /\ (s.ready => t \notin Analysed)
          /\ home[t] = NoDeck /\ home' = [home EXCEPT ![t] = d]
      BY <1>2, <2>2 DEF Load, EmptyDeck
    <3>2. home'[t] = d /\ d # NoDeck
      BY <1>1, <3>1, ConstantsAssumption DEF RestType, ConstantsAssumption
    <3>3. deck[d].tok # t
      BY <1>1, <3>1, ConstantsAssumption DEF DeckCleared, Loaded, ConstantsAssumption
    <3>4. t \notin Analysed => Cleared(t)'
      BY <3>2, NotAnalysedNext
    <3> QED
      BY <1>1, <3>1, <3>2, <3>3, <3>4, NewTokenMoves
  <2> QED
    BY <2>1, <2>2
<1>3. ASSUME NEW d \in Deck, NEW t \in Track, SyncFinished(c, d, t) PROVE DeckMoves
  <2>1. CASE Holds(d, t)
    BY <1>3, <2>1, SameDeck DEF SyncFinished
  <2>2. CASE ~Holds(d, t)
    <3> DEFINE s == [EmptyDeck EXCEPT !.tok = t]
    <3>1. /\ deck' = [deck EXCEPT ![d] = s] /\ s.tok = t /\ ~s.started /\ ~s.ready
          /\ home[t] = d /\ home' = home
      BY <1>3, <2>2 DEF SyncFinished, EmptyDeck
    <3>2. d # NoDeck /\ deck[d].tok # t
      BY <2>2, ConstantsAssumption DEF Holds, ConstantsAssumption
    <3> QED
      BY <1>1, <3>1, <3>2, NewTokenMoves
  <2> QED
    BY <2>1, <2>2
<1>4. CASE \/ \E d \in Deck, t \in Track : SyncEnded(c, d, t)
           \/ \E d \in Deck : \/ SelectDeck(c, d) \/ TransitionDeck(c, d)
                              \/ InterruptDeck(c, d) \/ HandoffDeck(c, d)
           \/ StartEngine(c) \/ StopEngine(c) \/ SetPaused(c) \/ SyncSeeked(c)
  BY <1>4, SameDeck DEF SyncEnded, SelectDeck, TransitionDeck, InterruptDeck, HandoffDeck,
     Snapshot, StartEngine, StopEngine, SetPaused, SyncSeeked, control
<1> QED
  BY <1>2, <1>3, <1>4 DEF Request

LEMMA HandlerDecks == ASSUME StartInv, NEW c \in Client, Handler(c) PROVE DeckMoves
<1> DEFINE h == client[c]
<1>1. DeckType /\ h.deck \in Deck
  BY HandlerFields, TypeParts DEF StartInv
<1>2. CASE Refuse(c) \/ Superseded(c) \/ HandoffPrime(c) \/ HandoffArm(c)
  BY <1>2, SameDeck DEF Refuse, Superseded, HandoffPrime, HandoffArm, control
<1>3. CASE CommitSelect(c) \/ CommitTransition(c) \/ CommitInterrupt(c)
  <2>1. Cleared(h.tok) /\ deck[h.deck].tok = h.tok
    BY <1>3, WaitedCleared DEF CommitSelect, CommitTransition, CommitInterrupt, Waiting, Holds
  <2>2. \A x \in Deck : \/ x = h.deck /\ deck'[x] = Started(deck[x])
                        \/ deck'[x] = Released(deck[x])
                        \/ deck'[x] = deck[x]
    <3>1. CASE CommitSelect(c)
      BY <3>1 DEF CommitSelect
    <3>2. CASE CommitTransition(c)
      BY <1>1, <3>2 DEF CommitTransition, DeckType
    <3>3. CASE CommitInterrupt(c)
      BY <1>1, <3>3 DEF CommitInterrupt, DeckType, control
    <3> QED
      BY <1>3, <3>1, <3>2, <3>3
  <2> QED
    BY <1>1, <2>1, <2>2, StartMoves
<1> QED
  BY <1>2, <1>3 DEF Handler

LEMMA TimingDecks == ASSUME StartInv, TimingWorker PROVE DeckMoves
<1> DEFINE d == Other(worker.from)
<1>1. DeckType /\ TimingType /\ d \in Deck
  BY WorkerFields, TypeParts DEF StartInv
<1>2. CASE Poll \/ Decide \/ Recheck \/ WorkerPrime \/ WorkerArm \/ WorkerStore
  BY <1>2, SameDeck DEF Poll, Decide, Recheck, WorkerPrime, WorkerArm, WorkerStore, control
<1>3. CASE EnterScript
  <2>1. timing.entry /\ timing.to \in Deck /\ Cleared(timing.ttok)
    BY <1>1, <1>3 DEF EnterScript, TimingType, StartInv, EntryCleared
  <2>2. CASE Holds(timing.to, timing.ttok) /\ deck' = [deck EXCEPT ![timing.to] = Started(@)]
    BY <1>1, <2>1, <2>2, StartMoves DEF DeckType, Holds
  <2>3. CASE deck' = [deck EXCEPT ![timing.to].started = FALSE]
    <3> SUFFICES ASSUME NEW x \in Deck PROVE KeepsDeck(x)
      BY DEF DeckMoves
    <3>1. CASE x = timing.to
      BY <1>1, <2>1, <2>3, <3>1 DEF DeckType, DeckState, KeepsDeck
    <3>2. CASE x # timing.to
      BY <1>1, <2>3, <3>2 DEF DeckType, KeepsDeck
    <3> QED
      BY <3>1, <3>2
  <2>4. CASE deck' = deck
    BY <2>4, SameDeck
  <2> QED
    BY <1>3, <2>2, <2>3, <2>4 DEF EnterScript
<1>4. CASE FinishTransition
  BY <1>1, <1>4, ReleaseMoves DEF FinishTransition, DeckType
<1>5. CASE Recover \/ WorkerFade
  <2>1. Cleared(worker.ttok)
    BY <1>5 DEF Recover, WorkerFade, StartInv, WorkerCleared
  <2>2. CASE Recover
    <3>1. CASE deck' = deck
      BY <3>1, SameDeck
    <3>2. CASE /\ StillCurrent
               /\ deck' = [x \in Deck |-> IF x = d THEN Started(deck[x]) ELSE Released(deck[x])]
      BY <1>1, <2>1, <3>2, StartMoves DEF StillCurrent, Holds
    <3> QED
      BY <2>2, <3>1, <3>2 DEF Recover, control
  <2>3. CASE WorkerFade
    <3>1. CASE deck' = deck
      BY <3>1, SameDeck
    <3>2. CASE StillCurrent /\ deck' = [deck EXCEPT ![d] = Started(@)]
      BY <1>1, <2>1, <3>2, StartMoves DEF StillCurrent, Holds, DeckType
    <3> QED
      BY <2>3, <3>1, <3>2 DEF WorkerFade, control
  <2> QED
    BY <1>5, <2>2, <2>3
<1> QED
  BY <1>2, <1>3, <1>4, <1>5 DEF TimingWorker

\* The analysis publishes under the token it was asked for, which nothing started.
LEMMA PublishDecks ==
  ASSUME StartInv, NEW d \in Deck, AnalysisPublish(d) \/ AnalysisReject(d)
  PROVE  DeckMoves
<1>1. DeckType /\ AnalysisType /\ OneRequest /\ DeckCleared /\ Requests
  BY TypeParts DEF StartInv, Requests
<1>2. /\ \A x \in Deck : x # d => deck'[x] = deck[x]
      /\ deck' = deck \/ (StillWanted(d) /\ deck'[d].tok = deck[d].tok)
  <2>1. CASE AnalysisPublish(d)
    BY <1>1, <2>1 DEF AnalysisPublish, DeckType, EmptyDeck
  <2>2. CASE AnalysisReject(d)
    BY <1>1, <2>2 DEF AnalysisReject, DeckType
  <2> QED
    BY <2>1, <2>2
<1>3. CASE StillWanted(d) /\ deck'[d].tok = deck[d].tok
  <2> DEFINE t == deck[d].tok
  <2>1. analysis[d].wanted = NoTrack /\ t = analysis[d].tok /\ t # NoTrack /\ t \in Track
    BY <1>1, <1>3 DEF StillWanted, Holds, DeckType, DeckState, Token
  <2>2. ~deck[d].started
    BY <1>1, <2>1 DEF DeckCleared, Cleared, Waits
  <2>3. home[t] = d /\ \A x \in Deck : x # d => analysis[x].wanted # t /\ analysis[x].tok # t
    BY <1>1, <2>1 DEF OneRequest
  <2>4. \A th \in Thread : AskOf(th) # t
    BY <1>1, <2>1, AskedTrack DEF OneRequest
  <2>5. todo' = todo /\ home' = home
    BY DEF AnalysisPublish, AnalysisReject, bounds
  <2>6. \A x \in Deck : IF x = d THEN analysis'[x].tok = NoTrack /\ analysis'[x].wanted = NoTrack
                        ELSE analysis'[x] = analysis[x]
    BY <1>1, <2>1 DEF AnalysisPublish, AnalysisReject, Answers, AnalysisType
  <2>7. \A th \in Thread : AskOf(th)' # t
    BY <2>4, <2>5 DEF AskOf, Doing
  <2>8. deck'[d].tok = t /\ home'[t] # NoDeck
    BY <1>3, <2>3, <2>5, ConstantsAssumption DEF ConstantsAssumption
  <2>9. Cleared(deck[d].tok)'
    BY <2>1, <2>3, <2>6, <2>7, <2>8 DEF Cleared, Waits
  <2> QED
    BY <1>2, <1>3, <2>2, <2>9 DEF DeckMoves, Published, KeepsDeck
<1> QED
  BY <1>2, <1>3, SameDeck

LEMMA DecksNext ==
  ASSUME StartInv, TypeOK', OneRequest', [Next]_vars
  PROVE  DeckMoves
<1>1. DeckType
  BY TypeParts DEF StartInv
<1>2. ASSUME NEW th \in Thread, Do(th) PROVE DeckMoves
  <2>1. CASE FinalizeHandoff(th)
    <3> DEFINE e == Head(todo[th])
    <3>1. Cleared(e.tok) /\ e.deck \in Deck
      <4>1. Doing(th, "finalize") /\ e \in Effect /\ e.op = "finalize"
        BY <2>1, HeadTail, TypeParts DEF FinalizeHandoff, Doing, StartInv
      <4> QED
        BY <4>1 DEF StartInv, HandCleared, Effect, EngineWide
    <3>2. CASE Holds(e.deck, e.tok)
      <4>1. \A x \in Deck : \/ x = e.deck /\ deck'[x] = Started(deck[x])
                            \/ deck'[x] = Released(deck[x])
                            \/ deck'[x] = deck[x]
        BY <2>1 DEF FinalizeHandoff
      <4> QED
        BY <1>1, <3>1, <3>2, <4>1, StartMoves DEF Holds
    <3>3. CASE ~Holds(e.deck, e.tok)
      <4>1. \A x \in Deck : deck'[x] = Released(deck[x]) \/ deck'[x] = deck[x]
        BY <2>1, <3>3 DEF FinalizeHandoff
      <4> QED
        BY <1>1, <4>1, ReleaseMoves
    <3> QED
      BY <3>2, <3>3
  <2>2. CASE ~FinalizeHandoff(th)
    BY <1>2, <2>2, SameDeck DEF Do, PrepareVoice, ScheduleAnalysis, ActivateTrack, StartVoice,
       StopVoice, StopVoices, TransitionStarted, TransitionFinished, PrepareDelayedEntry,
       StopTrack, OutputStart, OutputStop, ResetTiming, OutputPause, SeekVoice, SeekOutput,
       HandleEof, CommitMetadata, control
  <2> QED
    BY <2>1, <2>2
<1>3. CASE MixSwitch \/ MixFadeDone \/ RestartPipeline \/ UNCHANGED vars
  BY <1>3, SameDeck DEF MixSwitch, MixFadeDone, RestartPipeline, vars, control
<1>4. ASSUME NEW d \in Deck, NEW t \in Track,
             DecoderReady(d, t) \/ DecoderFail(d, t) \/ DecoderEof(d, t)
      PROVE  DeckMoves
  <2>1. CASE deck' = deck
    BY <2>1, SameDeck
  <2>2. CASE deck' = [deck EXCEPT ![d].terminal = TRUE]
    BY <1>1, <2>2 DEF DeckMoves, KeepsDeck, DeckType, DeckState
  <2> QED
    BY <1>4, <2>1, <2>2 DEF DecoderReady, DecoderFail, DecoderEof, control
<1>5. ASSUME NEW d \in Deck, Analysis(d) PROVE DeckMoves
  <2>1. CASE AnalysisPublish(d) \/ AnalysisReject(d)
    BY <2>1, PublishDecks
  <2>2. CASE AnalysisTake(d) \/ AnalysisCheck(d) \/ AnalysisPrepare(d)
    BY <2>2, SameDeck DEF AnalysisTake, AnalysisCheck, AnalysisPrepare, control
  <2> QED
    BY <1>5, <2>1, <2>2 DEF Analysis
<1> QED
  BY <1>2, <1>3, <1>4, <1>5, RequestDecks, HandlerDecks, TimingDecks DEF Next

\* What a request or a handler leaves alone.
LEMMA RequestLeaves ==
  ASSUME NEW c \in Client, Request(c)
  PROVE  /\ timing' = timing /\ hand' = hand /\ worker' = worker
         /\ client' = client \/ \E d \in Deck : \E kind : Snapshot(c, kind, d)
<1>1. ASSUME NEW d \in Deck, NEW t \in Track, NEW guarded \in BOOLEAN, Load(c, d, t, guarded)
      PROVE  timing' = timing /\ hand' = hand /\ worker' = worker /\ client' = client
  BY <1>1 DEF Load, output
<1>2. ASSUME NEW d \in Deck, NEW t \in Track, SyncFinished(c, d, t) \/ SyncEnded(c, d, t)
      PROVE  timing' = timing /\ hand' = hand /\ worker' = worker /\ client' = client
  BY <1>2 DEF SyncFinished, SyncEnded, control, output
<1>3. ASSUME NEW d \in Deck, NEW kind, Snapshot(c, kind, d)
      PROVE  timing' = timing /\ hand' = hand /\ worker' = worker
  BY <1>3 DEF Snapshot, control, output
<1>4. CASE StartEngine(c) \/ StopEngine(c) \/ SetPaused(c) \/ SyncSeeked(c)
  BY <1>4 DEF StartEngine, StopEngine, SetPaused, SyncSeeked, output
<1>5. ASSUME NEW d \in Deck, \/ SelectDeck(c, d) \/ TransitionDeck(c, d)
                            \/ InterruptDeck(c, d) \/ HandoffDeck(c, d)
      PROVE  \E kind : Snapshot(c, kind, d)
  BY <1>5 DEF SelectDeck, TransitionDeck, InterruptDeck, HandoffDeck
<1> QED
  BY <1>1, <1>2, <1>3, <1>4, <1>5 DEF Request

LEMMA HandlerLeaves ==
  ASSUME NEW c \in Client, Handler(c)
  PROVE  /\ worker' = worker
         /\ hand' = hand \/ HandoffArm(c)
         /\ timing' = timing \/ CommitInterrupt(c)
<1>1. CASE Refuse(c) \/ Superseded(c) \/ HandoffPrime(c)
  BY <1>1 DEF Refuse, Superseded, HandoffPrime, control, output
<1>2. CASE CommitSelect(c) \/ CommitTransition(c)
  BY <1>2 DEF CommitSelect, CommitTransition, output
<1>3. CASE CommitInterrupt(c)
  BY <1>3 DEF CommitInterrupt, output
<1>4. CASE HandoffArm(c)
  BY <1>4 DEF HandoffArm, control
<1> QED
  BY <1>1, <1>2, <1>3, <1>4 DEF Handler

\* A reservation names the token its maker was cleared for; a switch passes it on.
HandMoves ==
  hand'.pending => \/ hand.pending /\ hand'.ttok = hand.ttok
                   \/ \E c \in Client : client[c].pc = "arm" /\ hand'.ttok = client[c].tok
                   \/ worker.pc = "arm" /\ hand'.ttok = worker.ttok

LEMMA HandsNext == ASSUME TypeOK, [Next]_vars PROVE HandMoves
<1>1. HandType
  BY TypeParts
<1>2. CASE hand' = hand \/ hand' = NoHand
  BY <1>2 DEF HandMoves, NoHand
<1>3. CASE \E c \in Client : HandoffArm(c)
  <2>1. PICK c \in Client : HandoffArm(c)
    BY <1>3
  <2>2. client[c].pc = "arm"
    BY <2>1 DEF HandoffArm
  <2> QED
    BY <1>2, <2>1, <2>2 DEF HandoffArm, Arm, HandMoves, output
<1>4. CASE WorkerArm
  BY <1>2, <1>4 DEF WorkerArm, Arm, HandMoves, output
<1>5. CASE \E th \in Thread : Do(th)
  <2>1. PICK th \in Thread : Do(th)
    BY <1>5
  <2>2. CASE PrepareDelayedEntry(th)
    BY <1>1, <2>2 DEF PrepareDelayedEntry, HandType, HandMoves
  <2>3. CASE ~PrepareDelayedEntry(th)
    BY <1>2, <2>1, <2>3 DEF Do, PrepareVoice, ScheduleAnalysis, ActivateTrack, StartVoice,
       StopVoice, StopVoices, TransitionStarted, TransitionFinished, StopTrack, OutputStart,
       OutputStop, ResetTiming, OutputPause, SeekVoice, SeekOutput, HandleEof, FinalizeHandoff,
       CommitMetadata, Unreserve, output
  <2> QED
    BY <2>2, <2>3
<1>6. CASE MixSwitch \/ RestartPipeline
  BY <1>1, <1>6 DEF MixSwitch, RestartPipeline, HandType, HandMoves
<1>7. CASE MixFadeDone \/ UNCHANGED vars
  BY <1>2, <1>7 DEF MixFadeDone, vars
<1>8. CASE \E c \in Client : Request(c) \/ (Handler(c) /\ ~HandoffArm(c))
  BY <1>2, <1>8, RequestLeaves, HandlerLeaves
<1>9. CASE TimingWorker /\ ~WorkerArm
  BY <1>2, <1>9 DEF TimingWorker, Poll, EnterScript, FinishTransition, Decide, Recheck,
     Recover, WorkerPrime, WorkerStore, WorkerFade, output
<1>10. CASE \E d \in Deck, t \in Track : DecoderReady(d, t) \/ DecoderFail(d, t) \/ DecoderEof(d, t)
  BY <1>2, <1>10 DEF DecoderReady, DecoderFail, DecoderEof, output
<1>11. CASE \E d \in Deck : Analysis(d)
  BY <1>2, <1>11 DEF Analysis, AnalysisTake, AnalysisCheck, AnalysisPrepare,
     AnalysisPublish, AnalysisReject, output
<1> QED
  BY <1>3, <1>4, <1>5, <1>6, <1>7, <1>8, <1>9, <1>10, <1>11 DEF Next

FinalMoves ==
  \A th \in Thread : Doing(th, "finalize")' =>
    \/ Doing(th, "finalize") /\ Head(todo'[th]) = Head(todo[th])
    \/ hand.pending /\ Head(todo'[th]).tok = hand.ttok

LEMMA FinalNext == ASSUME Requests, TypeOK', [Next]_vars PROVE FinalMoves
<1>1. CASE TodoPlain
  BY <1>1, HeadsKept, TypeParts, TypePartsNext DEF Requests, FinalMoves, FirstOps
<1>2. CASE MixSwitch
  <2>1. hand.pending /\ "mixer" \in Thread
    BY <1>2, ClientThread DEF MixSwitch
  <2>2. \A th \in Thread : todo'[th] = IF th = "mixer" THEN SwitchCalls(hand) ELSE todo[th]
    BY <1>2, <2>1, TypeParts DEF MixSwitch, Later, Requests, TodoType
  <2>3. Head(SwitchCalls(hand)).tok = hand.ttok
    BY CallOps DEF SwitchCalls
  <2> QED
    BY <2>1, <2>2, <2>3 DEF FinalMoves, Doing
<1>3. ASSUME NEW c \in Client, NEW d \in Deck, NEW t \in Track, NEW guarded \in BOOLEAN,
             Load(c, d, t, guarded)
      PROVE  FinalMoves
  <2>1. CASE todo' = todo
    BY <1>1, <2>1, SameTodo
  <2>2. CASE \E op \in {"analyse", "prepare"} : Later(c, <<Call(op, d, t)>>)
    <3>1. PICK op \in {"analyse", "prepare"} : Later(c, <<Call(op, d, t)>>)
      BY <2>2
    <3>2. \A th \in Thread : todo'[th] = IF th = c THEN <<Call(op, d, t)>> ELSE todo[th]
      BY <3>1, TypeParts DEF Later, Requests, TodoType
    <3> QED
      BY <3>1, <3>2, CallOps DEF FinalMoves, Doing
  <2> QED
    BY <1>3, <2>1, <2>2 DEF Load
<1>4. CASE \E c \in Client : Request(c) \/ Handler(c)
  BY <1>1, <1>3, <1>4, RequestPlain, HandlerPlain
<1>5. CASE \E th \in Thread : Do(th)
  <2>1. PICK th \in Thread : Do(th)
    BY <1>5
  <2>2. CASE ScheduleAnalysis(th)
    <3>1. todo[th] # <<>> /\ Done(th)
      BY <2>2 DEF ScheduleAnalysis, Doing
    <3> QED
      BY <1>1, <3>1, DonePlain, TypeParts DEF Requests
  <2> QED
    BY <1>1, <2>1, <2>2, DoPlain
<1>6. CASE \/ MixFadeDone \/ RestartPipeline \/ UNCHANGED vars
           \/ \E d \in Deck : Analysis(d)
  BY <1>1, <1>6, SameTodo DEF MixFadeDone, RestartPipeline, vars, Analysis, AnalysisTake,
     AnalysisCheck, AnalysisPrepare, AnalysisPublish, AnalysisReject
<1>7. CASE \/ TimingWorker
           \/ \E d \in Deck, t \in Track : DecoderReady(d, t) \/ DecoderFail(d, t) \/ DecoderEof(d, t)
  BY <1>1, <1>7, TimingPlain, DecoderPlain
<1> QED
  BY <1>2, <1>4, <1>5, <1>6, <1>7 DEF Next

\* The timing worker goes on with a target only if the poll found it usable.
LEMMA WorkersNext ==
  ASSUME StartInv, StayCleared, [Next]_vars
  PROVE  WorkerCleared'
<1>1. WorkerType /\ WorkerCleared
  BY TypeParts DEF StartInv
<1>2. CASE worker' = worker
  BY <1>1, <1>2 DEF WorkerCleared, StayCleared
<1>3. CASE Sleeps
  BY <1>3 DEF Sleeps, Asleep, WorkerCleared
<1>4. CASE Poll
  <2> DEFINE n == deck[Other(eng.active)]
  <2>1. eng.active \in Deck
    BY TypeParts DEF StartInv, EngType
  <2>2. Other(eng.active) \in Deck
    BY <2>1, OtherDeck
  <2>3. worker'.pc = "polled" /\ worker'.ttok = n.tok /\ (worker'.usable => n.ready)
    BY <1>4 DEF Poll
  <2>4. n.ready => Cleared(n.tok)
    BY <2>2 DEF StartInv, DeckCleared
  <2> QED
    BY <2>3, <2>4 DEF WorkerCleared, StayCleared
<1>5. CASE Decide
  <2>1. Sleeps \/ (worker.usable /\ \E pc \in {"recheck", "prime", "fade"} : Goes(pc))
    BY <1>5 DEF Decide
  <2>2. ASSUME worker.usable, NEW pc, Goes(pc) PROVE WorkerCleared'
    <3>1. worker.pc = "polled" /\ worker'.ttok = worker.ttok
      BY <1>1, <1>5, <2>2 DEF Decide, Goes, WorkerType
    <3> QED
      BY <1>1, <2>2, <3>1 DEF WorkerCleared, StayCleared
  <2> QED
    BY <1>3, <2>1, <2>2
<1>6. CASE Recheck \/ WorkerPrime \/ WorkerArm
  <2>1. /\ worker.pc \in {"recheck", "prime", "arm"}
        /\ Sleeps \/ \E pc : Goes(pc)
    BY <1>6 DEF Recheck, WorkerPrime, WorkerArm
  <2>2. ASSUME NEW pc, Goes(pc) PROVE WorkerCleared'
    <3>1. worker'.ttok = worker.ttok
      BY <1>1, <2>2 DEF Goes, WorkerType
    <3> QED
      BY <1>1, <2>1, <3>1 DEF WorkerCleared, StayCleared
  <2> QED
    BY <1>3, <2>1, <2>2
<1>7. CASE Recover \/ WorkerStore \/ WorkerFade
  BY <1>3, <1>7 DEF Recover, WorkerStore, WorkerFade
<1>8. CASE EnterScript \/ FinishTransition
  BY <1>2, <1>8 DEF EnterScript, FinishTransition
<1>9. CASE \E c \in Client : Request(c) \/ Handler(c)
  BY <1>2, <1>9, RequestLeaves, HandlerLeaves
<1>10. CASE \E th \in Thread : Do(th)
  BY <1>2, <1>10 DEF Do, PrepareVoice, ScheduleAnalysis, ActivateTrack, StartVoice,
     StopVoice, StopVoices, TransitionStarted, TransitionFinished, PrepareDelayedEntry,
     StopTrack, OutputStart, OutputStop, ResetTiming, OutputPause, SeekVoice, SeekOutput,
     HandleEof, FinalizeHandoff, CommitMetadata
<1>11. CASE \/ MixSwitch \/ MixFadeDone \/ RestartPipeline \/ UNCHANGED vars
            \/ \E d \in Deck, t \in Track : DecoderReady(d, t) \/ DecoderFail(d, t) \/ DecoderEof(d, t)
            \/ \E d \in Deck : Analysis(d)
  BY <1>2, <1>11 DEF MixSwitch, MixFadeDone, RestartPipeline, vars, DecoderReady, DecoderFail,
     DecoderEof, Analysis, AnalysisTake, AnalysisCheck, AnalysisPrepare, AnalysisPublish,
     AnalysisReject
<1> QED
  BY <1>4, <1>5, <1>6, <1>7, <1>8, <1>9, <1>10, <1>11 DEF Next, TimingWorker

\* A handler goes on once its wait is over; a new one copies a verdict.
LEMMA ClientsNext ==
  ASSUME StartInv, StayCleared, [Next]_vars
  PROVE  ClientCleared'
<1>1. ClientType /\ ClientCleared
  BY TypeParts DEF StartInv
<1>2. CASE client' = client
  BY <1>1, <1>2 DEF ClientCleared, StayCleared
<1> DEFINE Fine(h) == h.pc = "arm" \/ (h.pc = "wait" /\ h.usable = "yes") => Cleared(h.tok)
<1>3. ASSUME NEW c \in Client, NEW h, client' = [client EXCEPT ![c] = h], Fine(h)
      PROVE  ClientCleared'
  <2>1. \A x \in Client : client'[x] = IF x = c THEN h ELSE client[x]
    BY <1>1, <1>3 DEF ClientType
  <2> QED
    BY <1>1, <1>3, <2>1 DEF ClientCleared, StayCleared
<1>4. ASSUME NEW c \in Client, Answered(c) PROVE ClientCleared'
  <2>1. Fine(NoCommand)
    BY DEF NoCommand
  <2> QED
    BY <1>3, <1>4, <2>1 DEF Answered
<1>5. ASSUME NEW c \in Client, NEW d \in Deck, NEW kind, Snapshot(c, kind, d)
      PROVE  ClientCleared'
  <2> DEFINE h == [pc |-> "wait", op |-> kind, deck |-> d, tok |-> deck[d].tok,
        usable |-> VerdictOf(deck[d]), from |-> eng.active,
        ftok |-> deck[eng.active].tok,
        fusable |-> IF kind = "handoff" THEN VerdictOf(deck[eng.active]) ELSE "yes"]
  <2>1. Fine(h)
    BY UsableCleared
  <2>2. client' = [client EXCEPT ![c] = h]
    BY <1>5 DEF Snapshot
  <2> QED
    BY <1>3, <2>1, <2>2
<1>6. ASSUME NEW c \in Client, HandoffPrime(c) PROVE ClientCleared'
  <2>1. CASE client' = [client EXCEPT ![c].pc = "arm"]
    <3>1. Cleared(client[c].tok)
      BY <1>6, WaitedCleared DEF HandoffPrime, Waiting
    <3>2. Fine([client[c] EXCEPT !.pc = "arm"])
      BY <1>1, <3>1 DEF ClientType
    <3> QED
      BY <1>3, <2>1, <3>2
  <2> QED
    BY <1>4, <1>6, <2>1 DEF HandoffPrime
<1>7. CASE \E c \in Client : Handler(c)
  BY <1>4, <1>6, <1>7 DEF Handler, Refuse, Superseded, CommitSelect, CommitTransition,
     CommitInterrupt, HandoffArm
<1>8. CASE \E c \in Client : Request(c)
  BY <1>2, <1>5, <1>8, RequestLeaves
<1>9. CASE TimingWorker
  BY <1>2, <1>9 DEF TimingWorker, Poll, EnterScript, FinishTransition, Decide, Recheck,
     Recover, WorkerPrime, WorkerArm, WorkerStore, WorkerFade
<1>10. CASE \E th \in Thread : Do(th)
  BY <1>2, <1>10 DEF Do, PrepareVoice, ScheduleAnalysis, ActivateTrack, StartVoice,
     StopVoice, StopVoices, TransitionStarted, TransitionFinished, PrepareDelayedEntry,
     StopTrack, OutputStart, OutputStop, ResetTiming, OutputPause, SeekVoice, SeekOutput,
     HandleEof, FinalizeHandoff, CommitMetadata
<1>11. CASE \/ MixSwitch \/ MixFadeDone \/ RestartPipeline \/ UNCHANGED vars
            \/ \E d \in Deck, t \in Track : DecoderReady(d, t) \/ DecoderFail(d, t) \/ DecoderEof(d, t)
            \/ \E d \in Deck : Analysis(d)
  BY <1>2, <1>11 DEF MixSwitch, MixFadeDone, RestartPipeline, vars, DecoderReady, DecoderFail,
     DecoderEof, Analysis, AnalysisTake, AnalysisCheck, AnalysisPrepare, AnalysisPublish,
     AnalysisReject
<1> QED
  BY <1>7, <1>8, <1>9, <1>10, <1>11 DEF Next

\* Only an interrupt of a ready deck leaves an entry to be made.
LEMMA EntriesNext ==
  ASSUME StartInv, StayCleared, [Next]_vars
  PROVE  EntryCleared'
<1>1. TimingType /\ EntryCleared
  BY TypeParts DEF StartInv
<1>2. CASE timing'.entry => timing.entry /\ timing'.ttok = timing.ttok
  BY <1>1, <1>2 DEF EntryCleared, StayCleared
<1>3. ASSUME NEW c \in Client, CommitInterrupt(c) PROVE EntryCleared'
  <2> DEFINE d == client[c].deck
  <2>1. d \in Deck
    BY HandlerFields, TypeParts DEF StartInv
  <2>2. CASE InterruptEligible(d)
    <3>1. timing'.ttok = deck[d].tok /\ deck[d].ready
      BY <1>3, <2>2 DEF CommitInterrupt, InterruptEligible
    <3> QED
      BY <2>1, <3>1 DEF StartInv, DeckCleared, EntryCleared, StayCleared
  <2>3. CASE ~InterruptEligible(d)
    BY <1>2, <1>3, <2>3 DEF CommitInterrupt, control
  <2> QED
    BY <2>2, <2>3
<1>4. CASE \E c \in Client : Request(c) \/ Handler(c)
  BY <1>2, <1>3, <1>4, RequestLeaves, HandlerLeaves
<1>5. CASE TimingWorker
  <2>1. CASE EnterScript \/ FinishTransition \/ WorkerStore
    BY <1>1, <1>2, <2>1 DEF EnterScript, FinishTransition, WorkerStore, TimingType
  <2>2. CASE Decide
    BY <1>1, <1>2, <2>2 DEF Decide, TimingType
  <2>3. CASE WorkerFade
    BY <1>1, <1>2, <2>3 DEF WorkerFade, TimingType, control
  <2>4. CASE Recover
    BY <1>1, <1>2, <2>4 DEF Recover, TimingType, control
  <2>5. CASE Poll \/ Recheck \/ WorkerPrime \/ WorkerArm
    BY <1>2, <2>5 DEF Poll, Recheck, WorkerPrime, WorkerArm, control
  <2> QED
    BY <1>5, <2>1, <2>2, <2>3, <2>4, <2>5 DEF TimingWorker
<1>6. CASE \E th \in Thread : Do(th)
  <2>1. PICK th \in Thread : Do(th)
    BY <1>6
  <2>2. CASE ResetTiming(th)
    BY <1>1, <1>2, <2>2 DEF ResetTiming, TimingType
  <2>3. CASE ~ResetTiming(th)
    BY <1>2, <2>1, <2>3 DEF Do, PrepareVoice, ScheduleAnalysis, ActivateTrack, StartVoice,
       StopVoice, StopVoices, TransitionStarted, TransitionFinished, PrepareDelayedEntry,
       StopTrack, OutputStart, OutputStop, OutputPause, SeekVoice, SeekOutput,
       HandleEof, FinalizeHandoff, CommitMetadata, control
  <2> QED
    BY <2>2, <2>3
<1>7. CASE \/ MixSwitch \/ MixFadeDone \/ RestartPipeline \/ UNCHANGED vars
           \/ \E d \in Deck, t \in Track : DecoderReady(d, t) \/ DecoderFail(d, t) \/ DecoderEof(d, t)
           \/ \E d \in Deck : Analysis(d)
  BY <1>2, <1>7 DEF MixSwitch, MixFadeDone, RestartPipeline, vars, DecoderReady, DecoderFail,
     DecoderEof, Analysis, AnalysisTake, AnalysisCheck, AnalysisPrepare, AnalysisPublish,
     AnalysisReject, control
<1> QED
  BY <1>4, <1>5, <1>6, <1>7 DEF Next

LEMMA StartBeginning == ASSUME Beginning PROVE StartInv
<1>1. TypeOK
  BY TypeBeginning
<1>2. /\ todo = [th \in Thread |-> <<>>] /\ hand = NoHand /\ worker = Asleep
      /\ timing = NoTransition /\ client = [c \in Client |-> NoCommand]
      /\ analysis = [d \in Deck |-> NoAnalysis]
  BY DEF Beginning, Init, OnAir
<1>3. \A th \in Thread : AskOf(th) = NoTrack /\ \A op : ~Doing(th, op)
  BY <1>2 DEF AskOf, Doing
<1>4. HeadOnly /\ OneRequest
  BY <1>2, <1>3 DEF HeadOnly, OneRequest, NoAnalysis
<1>5. \A t \in Track : ~Waits(t)
  BY <1>2, <1>3, ConstantsAssumption DEF Waits, NoAnalysis, ConstantsAssumption
<1>6. HandCleared /\ WorkerCleared /\ ClientCleared /\ EntryCleared
  BY <1>2, <1>3 DEF HandCleared, WorkerCleared, ClientCleared, EntryCleared, NoHand, Asleep,
     NoCommand, NoTransition
<1>7. DeckCleared
  <2>1. CASE Init
    BY <2>1 DEF Init, DeckCleared, EmptyDeck, Loaded
  <2>2. CASE \E t \in Track : OnAir(t)
    <3>1. PICK t \in Track : OnAir(t)
      BY <2>2
    <3>2. home[t] = "A" /\ "A" # NoDeck
      BY <3>1, ConstantsAssumption DEF OnAir, ConstantsAssumption, Deck
    <3>3. Cleared(t)
      BY <1>5, <3>2 DEF Cleared
    <3>4. \A d \in Deck : deck[d].tok = t \/ deck[d] = EmptyDeck
      BY <3>1 DEF OnAir, Started, EmptyDeck
    <3> QED
      BY <3>2, <3>3, <3>4 DEF DeckCleared, EmptyDeck, Loaded
  <2> QED
    BY <2>1, <2>2 DEF Beginning
<1> QED
  BY <1>1, <1>4, <1>6, <1>7 DEF StartInv

LEMMA StartNext ==
  ASSUME StartInv, [Next]_vars
  PROVE  StartInv' /\ DeckMoves
<1>1. Requests
  BY DEF StartInv, Requests
<1>2. TypeOK' /\ OneRequest' /\ HeadOnly' /\ StayCleared /\ StayHome
  BY <1>1, RequestsNext DEF KeepsRequests
<1>3. DeckMoves /\ HandMoves /\ FinalMoves
  BY <1>1, <1>2, DecksNext, HandsNext, FinalNext DEF StartInv
<1>4. DeckCleared'
  <2> SUFFICES ASSUME NEW d \in Deck
               PROVE  /\ Loaded(d)' => home'[deck'[d].tok] # NoDeck
                      /\ deck'[d].ready \/ deck'[d].started => Cleared(deck[d].tok)'
    BY DEF DeckCleared
  <2>1. deck[d].tok \in Token /\ DeckCleared
    BY TypeParts DEF StartInv, DeckType, DeckState
  <2>2. CASE KeepsDeck(d)
    <3>1. Loaded(d)' => deck[d].tok \in Track /\ home[deck[d].tok] # NoDeck
      BY <2>1, <2>2 DEF KeepsDeck, Loaded, Token, DeckCleared
    <3>2. Loaded(d)' => home'[deck'[d].tok] # NoDeck
      BY <1>2, <2>2, <3>1 DEF KeepsDeck, StayHome
    <3>3. deck'[d].ready \/ deck'[d].started => Cleared(deck[d].tok)
      BY <2>1, <2>2 DEF KeepsDeck, DeckCleared
    <3>4. Cleared(deck[d].tok) => Cleared(deck[d].tok)'
      <4>1. ASSUME NEW t, t = deck[d].tok, Cleared(t) PROVE Cleared(deck[d].tok)'
        BY <1>2, <2>2, <4>1 DEF StayCleared, KeepsDeck, Cleared, Waits
      <4> QED
        BY <4>1
    <3> QED
      BY <3>2, <3>3, <3>4
  <2>3. CASE NewToken(d)
    BY <2>3 DEF NewToken
  <2>4. CASE Published(d)
    <3>1. deck'[d].tok = deck[d].tok /\ Cleared(deck[d].tok)'
      BY <2>4 DEF Published
    <3>2. Loaded(d)' => deck[d].tok \in Track
      BY <2>1, <3>1 DEF Loaded, Token
    <3> QED
      BY <3>1, <3>2 DEF Cleared
  <2> QED
    BY <1>3, <2>2, <2>3, <2>4 DEF DeckMoves
<1>5. HandCleared'
  <2>1. hand'.pending => \E t : Cleared(t) /\ hand'.ttok = t
    BY <1>3 DEF HandMoves, StartInv, HandCleared, ClientCleared, WorkerCleared
  <2>2. \A th \in Thread : Doing(th, "finalize")' => \E t : Cleared(t) /\ Head(todo'[th]).tok = t
    BY <1>3 DEF FinalMoves, StartInv, HandCleared
  <2>3. \A t : Cleared(t) => Cleared(t)'
    BY <1>2 DEF StayCleared
  <2>4. hand'.pending => Cleared(hand.ttok)'
    BY <2>1, <2>3 DEF Cleared, Waits
  <2>5. \A th \in Thread : Doing(th, "finalize")' => Cleared(Head(todo[th]).tok)'
    BY <2>2, <2>3 DEF Cleared, Waits
  <2> QED
    BY <2>4, <2>5 DEF HandCleared
<1>6. WorkerCleared' /\ ClientCleared' /\ EntryCleared'
  BY <1>2, WorkersNext, ClientsNext, EntriesNext
<1> QED
  BY <1>2, <1>3, <1>4, <1>5, <1>6 DEF StartInv

\* No started deck loses that flag while it keeps its token, for any number of
\* clients, tracks and commands: an analysis that is still to be published is of a
\* token that no path has found usable, so none has started it.
THEOREM StartedStaysStarted == Beginning /\ [][Next]_vars => StartedUntilReplaced
<1>1. StartInv /\ [Next]_vars => StartInv'
  BY StartNext
<1>2. StartInv /\ [Next]_vars =>
        [\A d \in Deck : deck[d].started /\ deck'[d].tok = deck[d].tok
           => deck'[d].started \/ (timing.entry /\ timing.to = d)]_vars
  <2> SUFFICES ASSUME StartInv, [Next]_vars, NEW d \in Deck,
                      deck[d].started, deck'[d].tok = deck[d].tok
               PROVE  deck'[d].started \/ (timing.entry /\ timing.to = d)
    OBVIOUS
  <2>1. KeepsDeck(d) \/ NewToken(d) \/ Published(d)
    BY StartNext DEF DeckMoves
  <2> QED
    BY <2>1 DEF KeepsDeck, NewToken, Published
<1> QED
  BY StartBeginning, <1>1, <1>2, PTL DEF StartedUntilReplaced

-----------------------------------------------------------------------------
(* The deck the engine calls active is the one the mixer plays, while the     *)
(* station plays on.                                                          *)

\* The commands a station sends while it only plays on: no operator, no restart.
PlaysOn == Command \subseteq {"load", "pause", "ended"}

\* The calls that move the mixer to a deck, and the calls each thread makes.
DeckOps == {"activate", "fadeStart", "fadeDone"}
TimingOps == {"stopOut", "stopVoice", "startVoice"} \cup DeckOps
MixerOps == {"finalize", "commit", "stopVoice", "stopOut"}
AsideOps == {"prepare", "analyse", "pause", "resume", "stopVoice", "stopOut",
             "earlyEof", "naturalEof"}
Owes(th, op) == \E i \in 1..Len(todo[th]) : todo[th][i].op = op
OwesDeck == \E op \in DeckOps : Owes("timing", op)
Finalizing == Doing("mixer", "finalize")
Committing == Doing("mixer", "commit")

\* A hand-off from its reservation until the engine follows the mixer.
From == IF Finalizing THEN Head(todo["mixer"]).from ELSE hand.from
FromTok == IF Finalizing THEN Head(todo["mixer"]).ftok ELSE hand.ftok
To == IF Finalizing THEN Head(todo["mixer"]).deck ELSE hand.to
InHand == hand.pending \/ Finalizing

\* A thread moves the mixer only to the deck that is active when it does.
AsideCalls ==
  \A th \in Client \cup Deck : \A i \in 1..Len(todo[th]) : todo[th][i].op \in AsideOps
TimingCalls ==
  \A i \in 1..Len(todo["timing"]) :
    /\ todo["timing"][i].op \in TimingOps
    /\ todo["timing"][i].op \in DeckOps => todo["timing"][i].deck = eng.active
MixerCalls ==
  \A i \in 1..Len(todo["mixer"]) :
    /\ todo["mixer"][i].op \in MixerOps
    /\ todo["mixer"][i].op = "commit" =>
         /\ i = 1 \/ (i = 2 /\ Finalizing)
         /\ todo["mixer"][i].deck = IF Finalizing THEN To ELSE eng.active
NoHandler == \A c \in Client : client[c].pc = "idle"

\* A voice is of a token that was loaded, a descriptor of one loaded on its deck.
VoicesLoaded ==
  /\ \A d \in Deck, t \in Track : voice[d][t] # "none" => home[t] # NoDeck
  /\ \A th \in Thread : \A i \in 1..Len(todo[th]) :
       todo[th][i].op \in {"prepare", "startVoice"} /\ todo[th][i].tok \in Track
         => home[todo[th][i].tok] # NoDeck
Homes == \A d \in Deck : Loaded(d) => home[deck[d].tok] = d

\* A crossfade is the timing worker's own, which polls for nothing until its end.
Transition ==
  /\ eng.running /\ ~timing.entry
  /\ worker.pc # "idle" => ~Busy("timing") /\ ~timing.completion
  /\ timing.completion => eng.transitioning /\ timing.to = eng.active
  /\ Owes("timing", "fadeStart") => timing.completion
  /\ out.fading => /\ out.to = eng.active
                   /\ timing.completion \/ Owes("timing", "fadeDone")

\* What the worker has polled is either still on the air, or scheduled_for stops it.
Polled ==
  /\ worker.pc \notin {"idle", "polled", "store"} => worker.from = eng.active
  /\ worker.pc = "polled" => /\ worker.ftok \in Track /\ home[worker.ftok] = worker.from
                             /\ worker.usable => worker.ttok # NoTrack
  /\ worker.pc = "polled" /\ worker.from # eng.active => worker.ftok = timing.scheduled
  /\ worker.pc \notin {"idle", "store"} /\ worker.from = eng.active
       => Holds(worker.from, worker.ftok) /\ deck[worker.from].started

\* A hand-off is from the deck on the air, and scheduled_for is of its track.
UnderWay ==
  InHand =>
    /\ From = eng.active /\ To = Other(eng.active)
    /\ Holds(From, FromTok) /\ deck[From].started
    /\ worker.pc \in {"idle", "polled", "store"}
    /\ IF worker.pc = "store" THEN worker.ftok = FromTok ELSE timing.scheduled = FromTok
    /\ ~Busy("timing") /\ ~timing.completion
OneSwitch == Finalizing \/ Committing => ~hand.pending

\* Between the two halves of finalize_hard_handoff no worker finds a target ready.
LoudIn(v, d, t) == t \in Track /\ v[d][t] \in {"ready", "playing"}
Loud(d, t) == LoudIn(voice, d, t)
Committed ==
  Committing =>
    LET d == Other(eng.active)
    IN /\ worker.pc \in {"idle", "polled", "store"}
       /\ worker.pc = "polled" /\ worker.from = eng.active /\ worker.usable
            => ~Loud(d, worker.ttok)
       /\ deck[d].started \/ ~Loud(d, deck[d].tok)
       /\ ~Busy("timing") /\ ~timing.completion

Agree ==
  /\ Finalizing => out.primary = To
  /\ ~Finalizing /\ ~OwesDeck => out.primary = eng.active

AirInv == /\ StartInv /\ AsideCalls /\ TimingCalls /\ MixerCalls /\ NoHandler
          /\ VoicesLoaded /\ Homes /\ Transition /\ Polled /\ UnderWay /\ OneSwitch
          /\ Committed /\ Agree

LEMMA AirTypes ==
  ASSUME StartInv
  PROVE  /\ DeckType /\ EngType /\ TimingType /\ AnalysisType /\ VoiceType /\ OutType
         /\ HandType /\ WorkerType /\ TodoType /\ RestType
         /\ eng.active \in Deck /\ Other(eng.active) \in Deck /\ Other(eng.active) # eng.active
BY TypeParts, OtherDeck DEF StartInv, EngType

LEMMA AirThreads ==
  /\ "timing" \in Thread /\ "mixer" \in Thread /\ "timing" # "mixer"
  /\ \A th \in Client \cup Deck : th \in Thread /\ th # "timing" /\ th # "mixer"
  /\ \A th \in Thread : th \in Client \cup Deck \/ th = "timing" \/ th = "mixer"
BY ConstantsAssumption DEF ConstantsAssumption, Thread, Deck

\* A call that was made leaves the others, each one place earlier.
LEMMA Popped ==
  ASSUME TodoType, NEW th \in Thread, todo[th] # <<>>, Done(th)
  PROVE  /\ \A x \in Thread : x # th => todo'[x] = todo[x]
         /\ \A i \in 1..Len(todo'[th]) : /\ i + 1 \in 1..Len(todo[th])
                                         /\ todo'[th][i] = todo[th][i + 1]
         /\ todo'[th] # <<>> => Head(todo'[th]) = todo[th][2] /\ 2 \in 1..Len(todo[th])
         /\ \A op : Owes(th, op)' => Owes(th, op)
         /\ \A op : Owes(th, op) /\ Head(todo[th]).op # op => Owes(th, op)'
<1>1. todo[th] \in Seq(Effect) /\ todo'[th] = Tail(todo[th])
  BY DEF TodoType, Done
<1>2. \A x \in Thread : x # th => todo'[x] = todo[x]
  BY DEF TodoType, Done
<1>3. Len(todo'[th]) = Len(todo[th]) - 1 /\ Len(todo[th]) \in Nat \ {0}
  BY <1>1
<1>4. \A i \in 1..Len(todo'[th]) : /\ i + 1 \in 1..Len(todo[th])
                                   /\ todo'[th][i] = todo[th][i + 1]
  BY <1>1, <1>3
<1>5. todo'[th] # <<>> => Head(todo'[th]) = todo[th][2] /\ 2 \in 1..Len(todo[th])
  BY <1>1, <1>3
<1>6. \A op : Owes(th, op)' => Owes(th, op)
  BY <1>4 DEF Owes
<1>7. ASSUME NEW op, Owes(th, op), Head(todo[th]).op # op PROVE Owes(th, op)'
  <2>1. PICK i \in 1..Len(todo[th]) : todo[th][i].op = op
    BY <1>7 DEF Owes
  <2>2. i # 1
    BY <1>1, <1>7, <2>1
  <2>3. i - 1 \in 1..Len(todo'[th])
    BY <1>3, <2>1, <2>2
  <2>4. todo'[th][i - 1] = todo[th][i]
    BY <1>4, <2>1, <2>3
  <2> QED
    BY <2>1, <2>3, <2>4 DEF Owes
<1> QED
  BY <1>2, <1>4, <1>5, <1>6, <1>7

LEMMA HeadCall ==
  ASSUME TodoType, NEW th \in Thread, todo[th] # <<>>
  PROVE  1 \in 1..Len(todo[th]) /\ Head(todo[th]) = todo[th][1] /\ Head(todo[th]) \in Effect
BY HeadTail DEF TodoType

\* What each thread does of the calls the engine has.
LEMMA AsideDoes ==
  ASSUME StartInv, AsideCalls, NEW th \in Client \cup Deck, Do(th)
  PROVE  \/ PrepareVoice(th) \/ ScheduleAnalysis(th) \/ StopVoice(th) \/ StopTrack(th)
         \/ OutputPause(th) \/ HandleEof(th)
<1>1. th \in Thread /\ TodoType
  BY AirThreads, AirTypes
<1>2. \A op : Doing(th, op) => op \in AsideOps
  BY <1>1, HeadCall DEF Doing, AsideCalls
<1> QED
  BY <1>2 DEF AsideOps, Do, ActivateTrack, StartVoice, StopVoices,
     TransitionStarted, TransitionFinished, PrepareDelayedEntry, OutputStart,
     OutputStop, ResetTiming, SeekVoice, SeekOutput, FinalizeHandoff, CommitMetadata

LEMMA TimingDoes ==
  ASSUME StartInv, TimingCalls, Do("timing")
  PROVE  \/ StopTrack("timing") \/ StopVoice("timing") \/ StartVoice("timing")
         \/ /\ ActivateTrack("timing") \/ TransitionStarted("timing") \/ TransitionFinished("timing")
            /\ Head(todo["timing"]).deck = eng.active
<1>1. "timing" \in Thread /\ TodoType
  BY AirThreads, AirTypes
<1>2. \A op : Doing("timing", op) =>
        op \in TimingOps /\ (op \in DeckOps => Head(todo["timing"]).deck = eng.active)
  BY <1>1, HeadCall DEF Doing, TimingCalls
<1> QED
  BY <1>2 DEF TimingOps, DeckOps, Do, PrepareVoice, ScheduleAnalysis, ActivateTrack, StopVoices,
     TransitionStarted, TransitionFinished, PrepareDelayedEntry, OutputStart,
     OutputStop, ResetTiming, OutputPause, SeekVoice, SeekOutput, HandleEof, FinalizeHandoff,
     CommitMetadata

LEMMA MixerDoes ==
  ASSUME StartInv, MixerCalls, Do("mixer")
  PROVE  \/ StopTrack("mixer") \/ StopVoice("mixer")
         \/ FinalizeHandoff("mixer") \/ CommitMetadata("mixer")
<1>1. "mixer" \in Thread /\ TodoType
  BY AirThreads, AirTypes
<1>2. \A op : Doing("mixer", op) => op \in MixerOps
  BY <1>1, HeadCall DEF Doing, MixerCalls
<1> QED
  BY <1>2 DEF MixerOps, Do, PrepareVoice, ScheduleAnalysis, ActivateTrack, StartVoice, StopVoices,
     TransitionStarted, TransitionFinished, PrepareDelayedEntry, OutputStart,
     OutputStop, ResetTiming, OutputPause, SeekVoice, SeekOutput, HandleEof

LEMMA RequestDoes ==
  ASSUME PlaysOn, NEW c \in Client, Request(c)
  PROVE  \/ \E d \in Deck, t \in Track : Load(c, d, t, TRUE) \/ SyncEnded(c, d, t)
         \/ SetPaused(c)
BY DEF PlaysOn, Request, Load, SyncFinished, SelectDeck, TransitionDeck, InterruptDeck, HandoffDeck,
   Snapshot, StartEngine, StopEngine, SyncSeeked, Receive

LEMMA NoHandlerActs == ASSUME NoHandler, NEW c \in Client PROVE ~Handler(c)
BY DEF NoHandler, Handler, Refuse, Superseded, CommitSelect, CommitTransition, CommitInterrupt,
   HandoffPrime, HandoffArm, Waiting

-----------------------------------------------------------------------------
(* A step beside the hand-off: it changes neither who is on the air nor what   *)
(* the timing worker and the mixer are about to do.                            *)

AirCore == Transition /\ Polled /\ UnderWay /\ OneSwitch /\ Committed /\ Agree

SameControl ==
  /\ eng'.running = eng.running /\ eng'.active = eng.active
  /\ eng'.transitioning = eng.transitioning /\ timing' = timing /\ worker' = worker
  /\ \A t \in Track : home[t] # NoDeck => home'[t] = home[t]
Beside ==
  SameControl /\ todo'["timing"] = todo["timing"] /\ todo'["mixer"] = todo["mixer"]
Near ==
  /\ SameControl
  /\ \/ todo'["timing"] = todo["timing"]
     \/ Busy("timing") /\ \A op \in DeckOps : Owes("timing", op)' <=> Owes("timing", op)
  /\ \/ todo'["mixer"] = todo["mixer"]
     \/ ~(Finalizing \/ Committing \/ Finalizing' \/ Committing')
ActiveStays ==
  deck[eng.active].started /\ Loaded(eng.active)
    => deck'[eng.active].tok = deck[eng.active].tok /\ deck'[eng.active].started
HandStays ==
  hand'.pending => /\ hand.pending /\ hand'.from = hand.from
                   /\ hand'.to = hand.to /\ hand'.ftok = hand.ftok
MixerStays ==
  /\ out'.fading => out.fading /\ out'.to = out.to
  /\ out'.primary = out.primary \/ (out'.primary = eng.active /\ ~Busy("mixer"))
NothingLouder ==
  LET d == Other(eng.active)
  IN Committing => /\ \A x \in Deck, t \in Track : LoudIn(voice', x, t) => LoudIn(voice, x, t)
                   /\ \/ deck'[d].tok = deck[d].tok /\ (deck[d].started => deck'[d].started)
                      \/ ~LoudIn(voice', d, deck'[d].tok)

LEMMA SameMixer ==
  ASSUME todo'["mixer"] = todo["mixer"]
  PROVE  /\ Finalizing' = Finalizing /\ Committing' = Committing
         /\ Finalizing => From' = From /\ FromTok' = FromTok /\ To' = To
         /\ ~Finalizing => From' = hand'.from /\ FromTok' = hand'.ftok /\ To' = hand'.to
BY DEF Finalizing, Committing, Doing, From, FromTok, To

LEMMA SameTiming ==
  ASSUME todo'["timing"] = todo["timing"]
  PROVE  /\ \A op : Owes("timing", op)' = Owes("timing", op)
         /\ OwesDeck' = OwesDeck /\ Busy("timing")' = Busy("timing")
BY DEF Owes, OwesDeck, Busy

LEMMA NearKeeps ==
  ASSUME StartInv, AirCore, Near, ActiveStays, HandStays, MixerStays, NothingLouder
  PROVE  AirCore'
<1> DEFINE a == eng.active
<1>1. /\ Finalizing' <=> Finalizing
      /\ Committing' <=> Committing
      /\ Finalizing => From' = From /\ FromTok' = FromTok /\ To' = To
      /\ hand'.pending /\ ~Finalizing => From' = From /\ FromTok' = FromTok /\ To' = To
      /\ \A op \in DeckOps : Owes("timing", op)' <=> Owes("timing", op)
      /\ OwesDeck' <=> OwesDeck
      /\ Busy("timing")' => Busy("timing")
  <2>1. ~Finalizing => From = hand.from /\ FromTok = hand.ftok /\ To = hand.to
    BY DEF From, FromTok, To
  <2>2. ~Finalizing' => From' = hand'.from /\ FromTok' = hand'.ftok /\ To' = hand'.to
    BY DEF From, FromTok, To
  <2>3. /\ Finalizing' <=> Finalizing
        /\ Committing' <=> Committing
        /\ Finalizing => From' = From /\ FromTok' = FromTok /\ To' = To
    BY SameMixer DEF Near
  <2>4. /\ \A op \in DeckOps : Owes("timing", op)' <=> Owes("timing", op)
        /\ Busy("timing")' => Busy("timing")
    BY SameTiming DEF Near
  <2>5. OwesDeck' <=> OwesDeck
    BY <2>4 DEF OwesDeck
  <2> QED
    BY <2>1, <2>2, <2>3, <2>4, <2>5 DEF HandStays
<1>2. eng'.active = a /\ timing' = timing /\ worker' = worker /\ a \in Deck
  BY AirTypes DEF Near, SameControl
<1>3. InHand' => InHand /\ From' = From /\ FromTok' = FromTok /\ To' = To
  BY <1>1 DEF InHand, HandStays
<1>4. deck[a].started /\ Loaded(a) => deck'[a].tok = deck[a].tok /\ deck'[a].started
  BY DEF ActiveStays
<1>5. \A t : Holds(a, t) /\ deck[a].started => deck'[a].tok = t /\ deck'[a].started
  BY <1>4 DEF Holds, Loaded
<1>6. Transition'
  BY <1>1, <1>2 DEF AirCore, Transition, Near, SameControl, MixerStays, DeckOps
<1>7. Polled'
  <2>1. /\ worker'.pc \notin {"idle", "polled", "store"} => worker'.from = eng'.active
        /\ worker'.pc = "polled" /\ worker'.from # eng'.active => worker'.ftok = timing'.scheduled
    BY <1>2 DEF AirCore, Polled
  <2>2. worker'.pc = "polled" => /\ worker'.ftok \in Track /\ home'[worker'.ftok] = worker'.from
                                 /\ worker'.usable => worker'.ttok # NoTrack
    <3>1. worker.pc = "polled" => home[worker.ftok] # NoDeck
      BY ConstantsAssumption, AirTypes DEF AirCore, Polled, ConstantsAssumption, WorkerType
    <3> QED
      BY <1>2, <3>1 DEF AirCore, Polled, Near, SameControl
  <2>3. worker'.pc \notin {"idle", "store"} /\ worker'.from = eng'.active
          => Holds(worker.from, worker.ftok)' /\ deck'[worker'.from].started
    BY <1>2, <1>5 DEF AirCore, Polled, Holds
  <2> QED
    BY <2>1, <2>2, <2>3 DEF Polled
<1>8. UnderWay'
  <2> SUFFICES ASSUME InHand'
               PROVE  /\ From' = eng'.active /\ To' = Other(eng'.active)
                      /\ Holds(From, FromTok)' /\ deck'[From'].started
                      /\ worker'.pc \in {"idle", "polled", "store"}
                      /\ IF worker'.pc = "store" THEN worker'.ftok = FromTok'
                         ELSE timing'.scheduled = FromTok'
                      /\ ~Busy("timing")' /\ ~timing'.completion
    BY DEF UnderWay
  <2>1. /\ From = a /\ To = Other(a) /\ Holds(From, FromTok) /\ deck[From].started
        /\ worker.pc \in {"idle", "polled", "store"}
        /\ IF worker.pc = "store" THEN worker.ftok = FromTok ELSE timing.scheduled = FromTok
        /\ ~Busy("timing") /\ ~timing.completion
    BY <1>3 DEF AirCore, UnderWay
  <2>2. deck'[a].tok = FromTok /\ deck'[a].started /\ FromTok # NoTrack
    BY <1>5, <2>1 DEF Holds
  <2> QED
    BY <1>1, <1>2, <1>3, <2>1, <2>2 DEF Holds
<1>9. OneSwitch'
  BY <1>1 DEF AirCore, OneSwitch, HandStays
<1>10. Committed'
  <2> SUFFICES ASSUME Committing
               PROVE  /\ worker'.pc \in {"idle", "polled", "store"}
                      /\ worker'.pc = "polled" /\ worker'.from = eng'.active /\ worker'.usable
                           => ~LoudIn(voice', Other(eng'.active), worker'.ttok)
                      /\ deck'[Other(eng'.active)].started
                           \/ ~LoudIn(voice', Other(eng'.active), deck'[Other(eng'.active)].tok)
                      /\ ~Busy("timing")' /\ ~timing'.completion
    BY <1>1 DEF Committed, Loud
  <2> DEFINE d == Other(a)
  <2>1. /\ worker.pc \in {"idle", "polled", "store"}
        /\ worker.pc = "polled" /\ worker.from = a /\ worker.usable => ~Loud(d, worker.ttok)
        /\ deck[d].started \/ ~Loud(d, deck[d].tok)
        /\ ~Busy("timing") /\ ~timing.completion
    BY DEF AirCore, Committed
  <2>2. d \in Deck /\ \A t : LoudIn(voice', d, t) => LoudIn(voice, d, t)
    BY <1>2, OtherDeck DEF NothingLouder, LoudIn
  <2>3. deck'[d].started \/ ~LoudIn(voice', d, deck'[d].tok)
    BY <2>1, <2>2 DEF NothingLouder, Loud
  <2> QED
    BY <1>1, <1>2, <2>1, <2>2, <2>3 DEF Loud
<1>11. Agree'
  <2>1. Finalizing' => out'.primary = To'
    <3>1. Finalizing => Busy("mixer")
      BY DEF Finalizing, Doing, Busy
    <3> QED
      BY <1>1, <3>1 DEF AirCore, Agree, MixerStays
  <2>2. ~Finalizing' /\ ~OwesDeck' => out'.primary = eng'.active
    BY <1>1, <1>2 DEF AirCore, Agree, MixerStays
  <2> QED
    BY <2>1, <2>2 DEF Agree
<1> QED
  BY <1>6, <1>7, <1>8, <1>9, <1>10, <1>11 DEF AirCore

\* The calls a thread is left with are some it had, or plain calls of its own.
PlainOps == {"pause", "resume", "stopVoice", "stopOut", "earlyEof", "naturalEof"}
OldCalls ==
  \A th \in Thread : \A i \in 1..Len(todo'[th]) :
    \/ \E j \in 1..Len(todo[th]) : todo'[th][i] = todo[th][j]
    \/ todo'[th][i].op \in PlainOps

LEMMA SameCalls == todo' = todo => OldCalls
BY DEF OldCalls

LEMMA PoppedCalls ==
  ASSUME TodoType, NEW th \in Thread, todo[th] # <<>>, Done(th)
  PROVE  OldCalls
<1>1. \A x \in Thread : x # th => todo'[x] = todo[x]
  BY Popped
<1>2. \A i \in 1..Len(todo'[th]) : \E j \in 1..Len(todo[th]) : todo'[th][i] = todo[th][j]
  <2> SUFFICES ASSUME NEW i \in 1..Len(todo'[th])
               PROVE  \E j \in 1..Len(todo[th]) : todo'[th][i] = todo[th][j]
    OBVIOUS
  <2>1. i + 1 \in 1..Len(todo[th]) /\ todo'[th][i] = todo[th][i + 1]
    BY Popped
  <2> QED
    BY <2>1
<1> QED
  BY <1>1, <1>2 DEF OldCalls

LEMMA FirstCalls ==
  ASSUME TodoType, NEW th \in Thread, todo[th] # <<>>, NEW e, e.op \in PlainOps, ThenFirst(th, e)
  PROVE  OldCalls
<1> DEFINE es == <<e>> \o Tail(todo[th])
<1>1. todo[th] \in Seq(Effect) /\ todo' = [todo EXCEPT ![th] = es]
  BY DEF TodoType, ThenFirst
<1>2. \A x \in Thread : x # th => todo'[x] = todo[x]
  BY <1>1 DEF TodoType
<1>3. todo'[th] = es
  BY <1>1 DEF TodoType
<1>4. \A i \in 1..Len(es) : es[i].op \in PlainOps \/ \E j \in 1..Len(todo[th]) : es[i] = todo[th][j]
  <2> SUFFICES ASSUME NEW i \in 1..Len(es), i # 1
               PROVE  \E j \in 1..Len(todo[th]) : es[i] = todo[th][j]
    BY <1>1
  <2>1. i \in 1..Len(todo[th]) /\ es[i] = todo[th][i]
    BY <1>1
  <2> QED
    BY <2>1
<1> QED
  BY <1>2, <1>3, <1>4 DEF OldCalls

LEMMA LaterCalls ==
  ASSUME TodoType, NEW th \in Thread, NEW es, Later(th, es),
         \A i \in 1..Len(es) : es[i].op \in PlainOps
  PROVE  OldCalls
<1>1. \A x \in Thread : todo'[x] = IF x = th THEN es ELSE todo[x]
  BY DEF TodoType, Later
<1> QED
  BY <1>1 DEF OldCalls

\* What a step may do to the voices.
Softer == \A d \in Deck, t \in Track : LoudIn(voice', d, t) => LoudIn(voice, d, t)
Seats(u) == \A d \in Deck, t \in Track :
              voice'[d][t] # "none" => voice[d][t] # "none" \/ t = u

LEMMA SeatSeats ==
  ASSUME VoiceType, NEW d \in Deck, NEW t, NEW s, Seat(d, t, s)
  PROVE  Seats(t) /\ (s = "cued" => Softer)
<1>1. CASE voice' = voice
  BY <1>1 DEF Seats, Softer
<1>2. CASE \E v \in Vacated(d) :
             voice' = [voice EXCEPT ![d] = [u \in Track |-> IF u = t THEN s
                                                 ELSE IF u = v THEN "none" ELSE @[u]]]
  BY <1>2 DEF Seats, Softer, LoudIn, VoiceType
<1> QED
  BY <1>1, <1>2 DEF Seat

LEMMA PromoteSeats ==
  ASSUME VoiceType, NEW d \in Deck, NEW t, NEW s, Promote(d, t, s)
  PROVE  Seats(t)
<1>1. PICK retired \in SUBSET (Seated(d) \ (Activated(d) \cup {t})) :
        voice' = [voice EXCEPT ![d] = [u \in Track |-> IF u = t THEN s
                                     ELSE IF u \in retired THEN "none" ELSE @[u]]]
  BY DEF Promote
<1> QED
  BY <1>1 DEF Seats, VoiceType

LEMMA PrepareSeats ==
  ASSUME VoiceType, NEW d \in Deck, NEW t, Prepare(d, t)
  PROVE  Seats(t) /\ Softer
<1>1. CASE voice' = voice
  BY <1>1 DEF Seats, Softer
<1> QED
  BY <1>1, SeatSeats DEF Prepare

LEMMA ActivateSeats ==
  ASSUME VoiceType, NEW d \in Deck, NEW t, Activate(d, t)
  PROVE  Seats(t)
<1>1. CASE voice' = voice
  BY <1>1 DEF Seats
<1> QED
  BY <1>1, SeatSeats, PromoteSeats DEF Activate

LEMMA PrimeSeats ==
  ASSUME VoiceType, NEW d \in Deck, NEW t \in Track, PrimeVoice(d, t)
  PROVE  Seats(t) /\ voice[d][t] # "none"
BY PromoteSeats DEF PrimeVoice

LEMMA StopSoftens ==
  ASSUME VoiceType, NEW th, StopVoice(th)
  PROVE  Softer /\ Seats(NoTrack)
<1> DEFINE e == Head(todo[th])
<1>1. voice' = [voice EXCEPT ![e.deck] = [u \in Track |-> IF u = e.tok THEN Stopped(@[u]) ELSE @[u]]]
  BY DEF StopVoice
<1>2. \A s : s = "none" => Stopped(s) = "none"
  BY DEF Stopped
<1>3. \A s : Stopped(s) \notin {"ready", "playing"}
  BY DEF Stopped
<1> QED
  BY <1>1, <1>2, <1>3 DEF Softer, Seats, LoudIn, VoiceType

SameTokens == \A d \in Deck : deck'[d].tok = deck[d].tok

LEMMA StartedStays ==
  ASSUME StartInv, [Next]_vars, Transition, SameTokens
  PROVE  \A d \in Deck : deck[d].started => deck'[d].started
<1> SUFFICES ASSUME NEW d \in Deck, deck[d].started PROVE deck'[d].started
  OBVIOUS
<1>1. KeepsDeck(d) \/ NewToken(d) \/ Published(d)
  BY StartNext DEF DeckMoves
<1> QED
  BY <1>1 DEF KeepsDeck, NewToken, Published, Transition, SameTokens

LEMMA SameHomes ==
  ASSUME StartInv, Homes, SameTokens, home' = home
  PROVE  Homes'
BY DEF Homes, SameTokens, Loaded

LEMMA OldVoices ==
  ASSUME VoicesLoaded, OldCalls, home' = home, NEW u, Seats(u), u \in Track => home[u] # NoDeck
  PROVE  VoicesLoaded'
<1>1. \A d \in Deck, t \in Track : voice'[d][t] # "none" => home'[t] # NoDeck
  BY DEF VoicesLoaded, Seats
<1>2. ASSUME NEW th \in Thread, NEW i \in 1..Len(todo'[th]),
             todo'[th][i].op \in {"prepare", "startVoice"}, todo'[th][i].tok \in Track
      PROVE  home'[todo'[th][i].tok] # NoDeck
  <2>1. PICK j \in 1..Len(todo[th]) : todo'[th][i] = todo[th][j]
    BY <1>2 DEF OldCalls, PlainOps
  <2> QED
    BY <1>2, <2>1 DEF VoicesLoaded
<1> QED
  BY <1>1, <1>2 DEF VoicesLoaded

LEMMA OldAside ==
  ASSUME AsideCalls, OldCalls
  PROVE  AsideCalls'
<1> SUFFICES ASSUME NEW th \in Client \cup Deck, NEW i \in 1..Len(todo'[th])
             PROVE  todo'[th][i].op \in AsideOps
  BY DEF AsideCalls
<1>1. th \in Thread
  BY AirThreads
<1>2. CASE todo'[th][i].op \in PlainOps
  BY <1>2 DEF PlainOps, AsideOps
<1>3. CASE \E j \in 1..Len(todo[th]) : todo'[th][i] = todo[th][j]
  BY <1>3 DEF AsideCalls
<1> QED
  BY <1>1, <1>2, <1>3 DEF OldCalls

LEMMA BesideNear == Beside => Near
BY DEF Beside, Near

LEMMA BesideCalls ==
  ASSUME TimingCalls, MixerCalls, Beside
  PROVE  TimingCalls' /\ MixerCalls'
<1>1. /\ Finalizing' = Finalizing
      /\ Finalizing => To' = To
  BY SameMixer DEF Beside
<1>2. TimingCalls'
  BY DEF TimingCalls, Beside, SameControl
<1>3. MixerCalls'
  BY <1>1 DEF MixerCalls, Beside, SameControl
<1> QED
  BY <1>2, <1>3

\* A step that loads nothing and does not take part in the hand-off.
LEMMA NearStep ==
  ASSUME AirInv, [Next]_vars, Near, TimingCalls', MixerCalls', SameTokens, home' = home,
         client' = client, HandStays, MixerStays, OldCalls, Committing => Softer,
         \E u : Seats(u) /\ (u \in Track => home[u] # NoDeck)
  PROVE  AirInv'
<1>1. StartInv /\ StartInv' /\ eng.active \in Deck /\ Other(eng.active) \in Deck
  BY StartNext, AirTypes DEF AirInv
<1>2. \A d \in Deck : deck[d].started => deck'[d].started
  BY StartedStays DEF AirInv
<1>3. ActiveStays /\ NothingLouder
  BY <1>1, <1>2 DEF ActiveStays, NothingLouder, SameTokens, Softer
<1>4. AirCore'
  BY <1>1, <1>3, NearKeeps DEF AirInv, AirCore
<1>5. AsideCalls' /\ NoHandler'
  BY OldAside DEF AirInv, NoHandler
<1>6. VoicesLoaded' /\ Homes'
  BY <1>1, OldVoices, SameHomes DEF AirInv
<1> QED
  BY <1>1, <1>4, <1>5, <1>6 DEF AirInv, AirCore

LEMMA BesideStep ==
  ASSUME AirInv, [Next]_vars, Beside, SameTokens, home' = home, client' = client,
         HandStays, MixerStays, OldCalls, Committing => Softer,
         \E u : Seats(u) /\ (u \in Track => home[u] # NoDeck)
  PROVE  AirInv'
BY NearStep, BesideNear, BesideCalls DEF AirInv

LEMMA LoadAir ==
  ASSUME AirInv, [Next]_vars, NEW c \in Client, NEW d \in Deck, NEW t \in Track, Load(c, d, t, TRUE)
  PROVE  AirInv'
<1> DEFINE a == eng.active
<1>1. /\ StartInv /\ StartInv' /\ a \in Deck /\ Other(a) \in Deck /\ Other(a) # a
      /\ TodoType /\ DeckType /\ RestType /\ c \in Thread /\ c # "timing" /\ c # "mixer"
  BY StartNext, AirTypes, AirThreads DEF AirInv
<1>2. /\ UNCHANGED <<eng, timing, voice, out, hand, worker, client>> /\ home[t] = NoDeck
  BY DEF Load, output
<1>3. HandStays /\ MixerStays /\ Softer /\ Seats(NoTrack)
  BY <1>2 DEF HandStays, MixerStays, Softer, Seats
<1>4. CASE LoadRejected(d, t, TRUE)
  <2>1. deck' = deck /\ todo' = todo /\ home' = home
    BY <1>4 DEF Load
  <2>2. Beside /\ SameTokens /\ OldCalls
    BY <1>2, <2>1, SameCalls DEF Beside, SameControl, SameTokens
  <2>3. NoTrack \in Track => home[NoTrack] # NoDeck
    BY ConstantsAssumption DEF ConstantsAssumption
  <2> QED
    BY <1>2, <1>3, <2>1, <2>2, <2>3, BesideStep
<1>5. CASE ~LoadRejected(d, t, TRUE)
  <2> DEFINE op == IF t \in Analysed THEN "analyse" ELSE "prepare"
  <2>1. /\ \A x \in Deck : deck'[x] = IF x = d THEN [EmptyDeck EXCEPT !.tok = t, !.ready = t \notin Analysed]
                                      ELSE deck[x]
        /\ \A th \in Thread : todo'[th] = IF th = c THEN <<Call(op, d, t)>> ELSE todo[th]
        /\ \A u \in Track : home'[u] = IF u = t THEN d ELSE home[u]
    BY <1>1, <1>5 DEF Load, Later, TodoType, DeckType, RestType
  <2>2. Beside
    BY <1>1, <1>2, <2>1, AirThreads DEF Beside, SameControl
  <2>3. deck'[d].tok = t
    BY <2>1 DEF EmptyDeck
  <2>4. ActiveStays
    <3>1. eng.running
      BY DEF AirInv, Transition
    <3>2. deck[a].started /\ Loaded(a) => d # a
      BY <1>5, <3>1 DEF LoadRejected
    <3> QED
      BY <1>1, <2>1, <3>2 DEF ActiveStays
  <2>5. \A x \in Deck : ~LoudIn(voice', x, t)
    BY <1>2 DEF AirInv, VoicesLoaded, LoudIn
  <2>6. NothingLouder
    <3> DEFINE o == Other(a)
    <3>1. o = d => ~LoudIn(voice', o, deck'[o].tok)
      BY <2>3, <2>5
    <3>2. o # d => deck'[o] = deck[o]
      BY <1>1, <2>1
    <3> HIDE DEF o
    <3>3. \/ deck'[o].tok = deck[o].tok /\ (deck[o].started => deck'[o].started)
          \/ ~LoudIn(voice', o, deck'[o].tok)
      BY <3>1, <3>2
    <3> QED
      BY <1>3, <3>3 DEF NothingLouder, Softer, o
  <2>7. AirCore'
    BY <1>1, <1>3, <2>2, <2>4, <2>6, BesideNear, NearKeeps DEF AirInv, AirCore
  <2>8. d # NoDeck /\ NoDeck \notin Deck /\ NoTrack \notin Track
    BY ConstantsAssumption DEF ConstantsAssumption
  <2>9. Homes'
    <3> SUFFICES ASSUME NEW x \in Deck, Loaded(x)' PROVE home'[deck'[x].tok] = x
      BY DEF Homes
    <3>1. CASE x = d
      BY <2>1, <2>3, <3>1
    <3>2. CASE x # d
      <4>1. deck'[x] = deck[x] /\ Loaded(x) /\ deck[x].tok \in Track
        BY <1>1, <2>1, <3>2 DEF Loaded, DeckType, DeckState, Token
      <4>2. home[deck[x].tok] = x
        BY <4>1 DEF AirInv, Homes
      <4> QED
        BY <1>2, <2>1, <2>8, <4>1, <4>2
    <3> QED
      BY <3>1, <3>2
  <2>10. Len(<<Call(op, d, t)>>) = 1 /\ <<Call(op, d, t)>>[1].op = op /\ <<Call(op, d, t)>>[1].tok = t
    BY CallOps
  <2>11. AsideCalls'
    <3> SUFFICES ASSUME NEW th \in Client \cup Deck, NEW i \in 1..Len(todo'[th])
                 PROVE  todo'[th][i].op \in AsideOps
      BY DEF AsideCalls
    <3>1. CASE th = c
      BY <1>1, <2>1, <2>10, <3>1 DEF AsideOps
    <3>2. CASE th # c
      BY <2>1, <3>2, AirThreads DEF AirInv, AsideCalls
    <3> QED
      BY <3>1, <3>2
  <2>12. VoicesLoaded'
    <3>1. \A x \in Deck, u \in Track : voice'[x][u] # "none" => home'[u] # NoDeck
      BY <1>2, <2>1, <2>8 DEF AirInv, VoicesLoaded
    <3>2. ASSUME NEW th \in Thread, NEW i \in 1..Len(todo'[th]),
                 todo'[th][i].op \in {"prepare", "startVoice"}, todo'[th][i].tok \in Track
          PROVE  home'[todo'[th][i].tok] # NoDeck
      <4>1. CASE th = c
        BY <1>1, <2>1, <2>8, <2>10, <3>2, <4>1
      <4>2. CASE th # c
        BY <2>1, <2>8, <3>2, <4>2 DEF AirInv, VoicesLoaded
      <4> QED
        BY <4>1, <4>2
    <3> QED
      BY <3>1, <3>2 DEF VoicesLoaded
  <2>13. TimingCalls' /\ MixerCalls' /\ NoHandler'
    BY <1>2, <2>2, BesideCalls DEF AirInv, NoHandler
  <2> QED
    BY <1>1, <2>7, <2>9, <2>11, <2>12, <2>13 DEF AirInv, AirCore
<1> QED
  BY <1>4, <1>5

LEMMA SameVoices ==
  voice' = voice => Softer /\ \E u : Seats(u) /\ (u \in Track => home[u] # NoDeck)
<1>1. NoTrack \notin Track
  BY ConstantsAssumption DEF ConstantsAssumption
<1>2. voice' = voice => Softer /\ Seats(NoTrack)
  BY DEF Softer, Seats
<1> QED
  BY <1>1, <1>2

LEMMA HandGone == hand' = hand \/ hand' = NoHand => HandStays
BY DEF HandStays, NoHand

LEMMA SameOut == out' = out => MixerStays
BY DEF MixerStays

LEMMA AsideTodo ==
  ASSUME TodoType, NEW th \in Client \cup Deck,
         Done(th) \/ (\E e : ThenFirst(th, e)) \/ (\E es : Later(th, es))
  PROVE  todo'["timing"] = todo["timing"] /\ todo'["mixer"] = todo["mixer"]
BY AirThreads DEF TodoType, Done, ThenFirst, Later

LEMMA RequestAir ==
  ASSUME AirInv, [Next]_vars, PlaysOn, NEW c \in Client, Request(c)
  PROVE  AirInv'
<1>1. TodoType /\ EngType /\ c \in Thread /\ c \in Client \cup Deck
  BY AirTypes, AirThreads DEF AirInv
<1>2. CASE \E d \in Deck, t \in Track : Load(c, d, t, TRUE)
  BY <1>2, LoadAir
<1>3. CASE SetPaused(c) \/ \E d \in Deck, t \in Track : SyncEnded(c, d, t)
  <2>1. /\ UNCHANGED <<deck, timing, voice, out, hand, worker, client, home>>
        /\ eng'.running = eng.running /\ eng'.active = eng.active
        /\ eng'.transitioning = eng.transitioning
    BY <1>1, <1>3 DEF SetPaused, SyncEnded, control, output, EngType
  <2>2. \E es : Later(c, es) /\ \A i \in 1..Len(es) : es[i].op \in PlainOps
    <3>1. CASE SetPaused(c)
      <4> DEFINE es == <<Bare(IF eng.paused THEN "resume" ELSE "pause")>>
      <4>1. Later(c, es) /\ Len(es) = 1 /\ es[1].op \in PlainOps
        BY <3>1, CallOps DEF SetPaused, PlainOps
      <4> QED
        BY <4>1
    <3>2. CASE \E d \in Deck, t \in Track : SyncEnded(c, d, t)
      <4>1. PICK d \in Deck, t \in Track : SyncEnded(c, d, t)
        BY <3>2
      <4> DEFINE es == <<Call("stopVoice", d, t), Call("stopOut", d, t)>>
      <4>2. Later(c, es) /\ Len(es) = 2 /\ es[1].op \in PlainOps /\ es[2].op \in PlainOps
        BY <4>1, CallOps DEF SyncEnded, PlainOps
      <4> QED
        BY <4>2
    <3> QED
      BY <1>3, <3>1, <3>2
  <2>3. OldCalls /\ todo'["timing"] = todo["timing"] /\ todo'["mixer"] = todo["mixer"]
    BY <1>1, <2>2, LaterCalls, AsideTodo
  <2>4. Beside /\ SameTokens /\ HandStays /\ MixerStays
    BY <2>1, <2>3, HandGone, SameOut DEF Beside, SameControl, SameTokens
  <2> QED
    BY <2>1, <2>3, <2>4, SameVoices, BesideStep
<1> QED
  BY <1>2, <1>3, RequestDoes

LEMMA AsideAir ==
  ASSUME AirInv, [Next]_vars, NEW th \in Client \cup Deck, Do(th)
  PROVE  AirInv'
<1>1. StartInv /\ TodoType /\ VoiceType /\ OutType /\ th \in Thread /\ OneRequest /\ VoicesLoaded
  BY AirTypes, AirThreads DEF AirInv, StartInv
<1>2. \/ PrepareVoice(th) \/ ScheduleAnalysis(th) \/ StopVoice(th) \/ StopTrack(th)
      \/ OutputPause(th) \/ HandleEof(th)
  BY AsideDoes DEF AirInv
<1>3. UNCHANGED <<deck, eng, timing, worker, client, home>> /\ todo[th] # <<>>
  BY <1>2 DEF PrepareVoice, ScheduleAnalysis, StopVoice, StopTrack, OutputPause, HandleEof,
     Doing, control, bounds
<1>4. Done(th) \/ \E d, t : ThenFirst(th, Call("stopOut", d, t))
  BY <1>2 DEF PrepareVoice, ScheduleAnalysis, StopVoice, StopTrack, OutputPause, HandleEof
<1>5. OldCalls /\ todo'["timing"] = todo["timing"] /\ todo'["mixer"] = todo["mixer"]
  <2>1. ASSUME NEW d, NEW t, ThenFirst(th, Call("stopOut", d, t)) PROVE OldCalls
    <3>1. Call("stopOut", d, t).op \in PlainOps
      BY CallOps DEF PlainOps
    <3> QED
      BY <1>1, <1>3, <2>1, <3>1, FirstCalls
  <2>2. todo'["timing"] = todo["timing"] /\ todo'["mixer"] = todo["mixer"]
    BY <1>1, <1>4, AsideTodo
  <2> QED
    BY <1>1, <1>3, <1>4, <2>1, <2>2, PoppedCalls
<1>6. Beside /\ SameTokens
  BY <1>3, <1>5 DEF Beside, SameControl, SameTokens
<1>7. HandStays
  BY <1>2, HandGone DEF PrepareVoice, ScheduleAnalysis, StopVoice, StopTrack, OutputPause,
     HandleEof, Unreserve, output
<1>8. MixerStays
  <2>1. CASE OutputPause(th)
    BY <1>1, <2>1 DEF OutputPause, OutType, MixerStays
  <2> QED
    BY <1>2, <2>1, SameOut DEF PrepareVoice, ScheduleAnalysis, StopVoice, StopTrack,
       HandleEof, output
<1>9. Softer /\ \E u : Seats(u) /\ (u \in Track => home[u] # NoDeck)
  <2>1. CASE PrepareVoice(th)
    <3> DEFINE e == Head(todo[th])
    <3>1. e \in Effect /\ e.op = "prepare" /\ Prepare(e.deck, e.tok) /\ e.deck \in Deck
      <4>1. e \in Effect /\ e.op = "prepare" /\ Prepare(e.deck, e.tok)
        BY <1>1, <1>3, <2>1, HeadCall DEF PrepareVoice, Doing
      <4> QED
        BY <4>1 DEF Effect, EngineWide
    <3>2. e.tok \in Track => home[e.tok] # NoDeck
      BY <1>1, <1>3, <3>1, HeadCall DEF VoicesLoaded
    <3> QED
      BY <1>1, <3>1, <3>2, PrepareSeats
  <2>2. CASE StopVoice(th)
    BY <1>1, <2>2, StopSoftens, ConstantsAssumption DEF ConstantsAssumption
  <2> QED
    BY <1>2, <2>1, <2>2, SameVoices DEF ScheduleAnalysis, StopTrack, OutputPause, HandleEof
<1> QED
  BY <1>3, <1>5, <1>6, <1>7, <1>8, <1>9, BesideStep

LEMMA MixerAsideAir ==
  ASSUME AirInv, [Next]_vars, MixFadeDone \/ RestartPipeline \/ UNCHANGED vars
  PROVE  AirInv'
<1>1. UNCHANGED <<deck, eng, timing, voice, worker, client, home, todo>>
  BY DEF MixFadeDone, RestartPipeline, vars, control, bounds
<1>2. Beside /\ SameTokens /\ OldCalls
  BY <1>1, SameCalls DEF Beside, SameControl, SameTokens
<1>3. HandType /\ OutType
  BY AirTypes DEF AirInv
<1>4. HandStays /\ MixerStays
  <2>1. CASE RestartPipeline
    BY <1>3, <2>1, SameOut DEF RestartPipeline, HandType, HandStays
  <2>2. CASE MixFadeDone
    BY <1>3, <2>2, HandGone DEF MixFadeDone, OutType, MixerStays, AirInv, Transition
  <2>3. CASE UNCHANGED vars
    BY <2>3, HandGone, SameOut DEF vars
  <2> QED
    BY <2>1, <2>2, <2>3
<1> QED
  BY <1>1, <1>2, <1>4, SameVoices, BesideStep

LEMMA DecoderAir ==
  ASSUME AirInv, [Next]_vars, NEW d \in Deck, NEW t \in Track,
         DecoderReady(d, t) \/ DecoderFail(d, t) \/ DecoderEof(d, t)
  PROVE  AirInv'
<1>1. TodoType /\ VoiceType /\ DeckType /\ d \in Thread /\ d \in Client \cup Deck
  BY AirTypes, AirThreads DEF AirInv
<1>2. UNCHANGED <<eng, timing, out, hand, worker, client, home>>
  BY DEF DecoderReady, DecoderFail, DecoderEof, control, output, bounds
<1>3. OldCalls /\ todo'["timing"] = todo["timing"] /\ todo'["mixer"] = todo["mixer"]
  <2>1. CASE todo' = todo
    BY <2>1, SameCalls
  <2>2. ASSUME NEW eof \in {"earlyEof", "naturalEof"}, Later(d, <<Call(eof, d, t)>>)
        PROVE  OldCalls /\ todo'["timing"] = todo["timing"] /\ todo'["mixer"] = todo["mixer"]
    <3>1. Len(<<Call(eof, d, t)>>) = 1 /\ <<Call(eof, d, t)>>[1].op \in PlainOps
      BY CallOps DEF PlainOps
    <3> QED
      BY <1>1, <2>2, <3>1, LaterCalls, AsideTodo
  <2> QED
    BY <2>1, <2>2 DEF DecoderReady, DecoderFail, DecoderEof
<1>4. SameTokens
  <2>1. CASE deck' = deck
    BY <2>1 DEF SameTokens
  <2>2. CASE deck' = [deck EXCEPT ![d].terminal = TRUE]
    BY <1>1, <2>2 DEF DeckType, DeckState, SameTokens
  <2> QED
    BY <2>1, <2>2 DEF DecoderReady, DecoderFail, DecoderEof, control
<1>5. Beside /\ HandStays /\ MixerStays
  BY <1>2, <1>3, HandGone, SameOut DEF Beside, SameControl
<1>6. voice[d][t] # "none" /\ home[t] # NoDeck
  BY DEF DecoderReady, DecoderFail, DecoderEof, AirInv, VoicesLoaded
<1>7. Seats(t) /\ (Committing => Softer)
  <2>1. CASE DecoderReady(d, t)
    BY <1>1, <2>1 DEF DecoderReady, Seats, Committing, VoiceType
  <2>2. CASE DecoderFail(d, t) \/ DecoderEof(d, t)
    BY <1>1, <2>2 DEF DecoderFail, DecoderEof, Seats, Softer, LoudIn, VoiceType
  <2> QED
    BY <2>1, <2>2
<1> QED
  BY <1>2, <1>3, <1>4, <1>5, <1>6, <1>7, BesideStep

LEMMA AnalysisAir ==
  ASSUME AirInv, [Next]_vars, NEW d \in Deck, Analysis(d)
  PROVE  AirInv'
<1>1. VoiceType /\ DeckType /\ AnalysisType /\ OneRequest
  BY AirTypes DEF AirInv, StartInv
<1>2. UNCHANGED <<eng, timing, out, hand, worker, client, home, todo>>
  BY DEF Analysis, AnalysisTake, AnalysisCheck, AnalysisPrepare, AnalysisPublish,
     AnalysisReject, control, output, bounds
<1>3. Beside /\ HandStays /\ MixerStays /\ OldCalls
  BY <1>2, HandGone, SameOut, SameCalls DEF Beside, SameControl
<1>4. SameTokens
  <2>1. CASE deck' = deck
    BY <2>1 DEF SameTokens
  <2>2. CASE AnalysisPublish(d) \/ AnalysisReject(d)
    <3>1. \A x \in Deck : x # d => deck'[x] = deck[x]
      BY <1>1, <2>2 DEF AnalysisPublish, AnalysisReject, DeckType
    <3>2. deck'[d].tok = deck[d].tok
      <4>1. CASE AnalysisPublish(d)
        BY <1>1, <4>1 DEF AnalysisPublish, DeckType, EmptyDeck
      <4>2. CASE AnalysisReject(d)
        BY <1>1, <4>2 DEF AnalysisReject, DeckType
      <4> QED
        BY <2>2, <4>1, <4>2
    <3> QED
      BY <3>1, <3>2 DEF SameTokens
  <2> QED
    BY <2>1, <2>2 DEF Analysis, AnalysisTake, AnalysisCheck, AnalysisPrepare, control
<1>5. Softer /\ \E u : Seats(u) /\ (u \in Track => home[u] # NoDeck)
  <2>1. CASE AnalysisPrepare(d)
    <3> DEFINE t == analysis[d].tok
    <3>1. Seats(t) /\ Softer
      BY <1>1, <2>1, PrepareSeats DEF AnalysisPrepare
    <3>2. t \in Track => home[t] # NoDeck
      BY <1>1, ConstantsAssumption DEF OneRequest, ConstantsAssumption
    <3> QED
      BY <3>1, <3>2
  <2>2. CASE ~AnalysisPrepare(d)
    BY <2>2, SameVoices DEF Analysis, AnalysisTake, AnalysisCheck, AnalysisPublish,
       AnalysisReject
  <2> QED
    BY <2>1, <2>2
<1> QED
  BY <1>2, <1>3, <1>4, <1>5, BesideStep

-----------------------------------------------------------------------------
(* The calls of the timing worker and of the mixer *)

LEMMA StopNear ==
  ASSUME AirInv, [Next]_vars, NEW th \in {"timing", "mixer"}, StopTrack(th) \/ StopVoice(th)
  PROVE  /\ UNCHANGED <<deck, eng, timing, out, worker, client, home>>
         /\ SameControl /\ SameTokens /\ OldCalls /\ HandStays /\ MixerStays
         /\ Softer /\ \E u : Seats(u) /\ (u \in Track => home[u] # NoDeck)
         /\ todo[th] # <<>> /\ Done(th) /\ Head(todo[th]).op \in {"stopOut", "stopVoice"}
<1>1. TodoType /\ VoiceType /\ th \in Thread
  BY AirTypes, AirThreads DEF AirInv
<1>2. /\ UNCHANGED <<deck, eng, timing, out, worker, client, home>>
      /\ todo[th] # <<>> /\ Done(th) /\ Head(todo[th]).op \in {"stopOut", "stopVoice"}
  BY DEF StopTrack, StopVoice, Doing, control, output, bounds
<1>3. SameControl /\ SameTokens /\ MixerStays /\ OldCalls
  BY <1>1, <1>2, SameOut, PoppedCalls DEF SameControl, SameTokens
<1>4. HandStays
  BY HandGone DEF StopTrack, StopVoice, Unreserve, output
<1>5. Softer /\ \E u : Seats(u) /\ (u \in Track => home[u] # NoDeck)
  <2>1. CASE StopVoice(th)
    BY <1>1, <2>1, StopSoftens, ConstantsAssumption DEF ConstantsAssumption
  <2>2. CASE StopTrack(th)
    BY <2>2, SameVoices DEF StopTrack
  <2> QED
    BY <2>1, <2>2
<1> QED
  BY <1>2, <1>3, <1>4, <1>5

\* What the mixer has left once it made a call: no commit, unless it just finalized.
LEMMA MixerPopped ==
  ASSUME AirInv, [Next]_vars, todo["mixer"] # <<>>, Done("mixer")
  PROVE  /\ ~Finalizing'
         /\ Committing' => Finalizing
         /\ \A i \in 1..Len(todo'["mixer"]) :
              /\ todo'["mixer"][i].op \in MixerOps
              /\ todo'["mixer"][i].op = "commit" =>
                   i = 1 /\ Finalizing /\ todo'["mixer"][i].deck = To
         /\ todo'["timing"] = todo["timing"]
<1>1. TodoType /\ "mixer" \in Thread /\ "timing" \in Thread /\ "mixer" # "timing" /\ HeadOnly
  BY AirTypes, AirThreads DEF AirInv, StartInv
<1>2. /\ \A x \in Thread : x # "mixer" => todo'[x] = todo[x]
      /\ \A i \in 1..Len(todo'["mixer"]) : /\ i + 1 \in 1..Len(todo["mixer"])
                                           /\ todo'["mixer"][i] = todo["mixer"][i + 1]
      /\ todo'["mixer"] # <<>> =>
           Head(todo'["mixer"]) = todo["mixer"][2] /\ 2 \in 1..Len(todo["mixer"])
  BY <1>1, Popped
<1>3. 2 \in 1..Len(todo["mixer"]) =>
        /\ todo["mixer"][2].op # "finalize"
        /\ todo["mixer"][2].op = "commit" => Finalizing
  <2>1. Len(todo["mixer"]) \in Nat
    BY <1>1 DEF TodoType
  <2> QED
    BY <1>1, <2>1 DEF HeadOnly, FirstOps, AirInv, MixerCalls
<1>4. ~Finalizing' /\ (Committing' => Finalizing)
  BY <1>2, <1>3 DEF Finalizing, Committing, Doing
<1>5. \A i \in 1..Len(todo'["mixer"]) :
        /\ todo'["mixer"][i].op \in MixerOps
        /\ todo'["mixer"][i].op = "commit" =>
             i = 1 /\ Finalizing /\ todo'["mixer"][i].deck = To
  BY <1>2 DEF AirInv, MixerCalls
<1> QED
  BY <1>1, <1>2, <1>4, <1>5

LEMMA MixerStopAir ==
  ASSUME AirInv, [Next]_vars, StopTrack("mixer") \/ StopVoice("mixer")
  PROVE  AirInv'
<1>1. /\ UNCHANGED <<deck, eng, timing, out, worker, client, home>>
      /\ SameControl /\ SameTokens /\ OldCalls /\ HandStays /\ MixerStays
      /\ Softer /\ \E u : Seats(u) /\ (u \in Track => home[u] # NoDeck)
      /\ todo["mixer"] # <<>> /\ Done("mixer")
      /\ Head(todo["mixer"]).op \in {"stopOut", "stopVoice"}
  BY StopNear
<1>2. ~Finalizing /\ ~Committing
  BY <1>1 DEF Finalizing, Committing, Doing
<1>3. /\ ~Finalizing' /\ ~Committing' /\ todo'["timing"] = todo["timing"]
      /\ \A i \in 1..Len(todo'["mixer"]) :
           todo'["mixer"][i].op \in MixerOps /\ todo'["mixer"][i].op # "commit"
  BY <1>1, <1>2, MixerPopped
<1>4. Near
  BY <1>1, <1>2, <1>3 DEF Near
<1>5. TimingCalls' /\ MixerCalls'
  BY <1>1, <1>3 DEF TimingCalls, MixerCalls, AirInv
<1> QED
  BY <1>1, <1>4, <1>5, NearStep

\* finalize_hard_handoff: the engine follows the mixer to the destination.
LEMMA FinalizeAir ==
  ASSUME AirInv, [Next]_vars, FinalizeHandoff("mixer")
  PROVE  AirInv'
<1> DEFINE a == eng.active
           e == Head(todo["mixer"])
<1>1. /\ StartInv /\ StartInv' /\ TodoType /\ DeckType /\ EngType /\ WorkerType
      /\ a \in Deck /\ Other(a) \in Deck /\ Other(a) # a /\ "mixer" \in Thread
  BY StartNext, AirTypes, AirThreads DEF AirInv
<1>2. /\ UNCHANGED <<timing, voice, out, hand, worker, client, home>>
      /\ Finalizing /\ todo["mixer"] # <<>> /\ Done("mixer")
  BY DEF FinalizeHandoff, Finalizing, Doing, output, bounds
<1>3. From = e.from /\ FromTok = e.ftok /\ To = e.deck
  BY <1>2 DEF From, FromTok, To
<1>4. /\ e.from = a /\ e.deck = Other(a) /\ Holds(a, e.ftok) /\ deck[a].started
      /\ worker.pc \in {"idle", "polled", "store"}
      /\ IF worker.pc = "store" THEN worker.ftok = e.ftok ELSE timing.scheduled = e.ftok
      /\ ~Busy("timing") /\ ~timing.completion /\ ~hand.pending /\ out.primary = Other(a)
  BY <1>2, <1>3 DEF AirInv, UnderWay, InHand, OneSwitch, Agree
<1>5. eng'.active = Other(a) /\ eng'.running = eng.running
  BY <1>1, <1>4 DEF FinalizeHandoff, Aired, EngType
<1>6. Other(Other(a)) = a
  BY <1>1 DEF Other, Deck
<1>7. SameTokens
  <2>1. \A s \in DeckState : Started(s).tok = s.tok /\ Released(s).tok = s.tok
    BY EmptyTypes
  <2> QED
    BY <1>1, <2>1 DEF FinalizeHandoff, SameTokens, DeckType
<1>8. \A d \in Deck : deck[d].started => deck'[d].started
  BY <1>1, <1>7, StartedStays DEF AirInv
<1>9. /\ ~Finalizing' /\ todo'["timing"] = todo["timing"]
      /\ \A i \in 1..Len(todo'["mixer"]) :
           /\ todo'["mixer"][i].op \in MixerOps
           /\ todo'["mixer"][i].op = "commit" => i = 1 /\ todo'["mixer"][i].deck = To
  BY <1>2, MixerPopped
<1>10. Busy("timing")' = Busy("timing") /\ OwesDeck' = OwesDeck
       /\ \A op : Owes("timing", op)' = Owes("timing", op)
  BY <1>9, SameTiming
<1>11. ~\E op : Owes("timing", op)
  <2>1. todo["timing"] = <<>>
    BY <1>4 DEF Busy
  <2> QED
    BY <2>1 DEF Owes
<1>12. TimingCalls' /\ MixerCalls' /\ NoHandler'
  <2>1. TimingCalls'
    <3>1. todo'["timing"] = <<>>
      BY <1>4, <1>9 DEF Busy
    <3> QED
      BY <3>1 DEF TimingCalls
  <2>2. MixerCalls'
    BY <1>3, <1>4, <1>5, <1>9 DEF MixerCalls
  <2> QED
    BY <1>2, <2>1, <2>2 DEF AirInv, NoHandler
<1>13. OldCalls
  BY <1>1, <1>2, PoppedCalls
<1>14. AsideCalls' /\ VoicesLoaded' /\ Homes'
  BY <1>1, <1>2, <1>7, <1>13, OldAside, OldVoices, SameHomes, SameVoices DEF AirInv
<1>15. Transition'
  BY <1>2, <1>4, <1>5, <1>9, <1>10, <1>11 DEF AirInv, Transition
<1>16. worker.pc = "polled" => worker.ftok = e.ftok /\ worker.from = a
  <2> SUFFICES ASSUME worker.pc = "polled" PROVE worker.ftok = e.ftok /\ worker.from = a
    OBVIOUS
  <2>1. CASE worker.from = a
    BY <1>4, <2>1 DEF AirInv, Polled, Holds
  <2>2. CASE worker.from # a
    <3>1. worker.ftok = e.ftok /\ home[worker.ftok] = worker.from
      BY <1>4, <2>2 DEF AirInv, Polled
    <3>2. home[e.ftok] = a
      BY <1>1, <1>4 DEF AirInv, Homes, Holds, Loaded
    <3> QED
      BY <2>2, <3>1, <3>2
  <2> QED
    BY <2>1, <2>2
<1>17. Polled'
  BY <1>1, <1>2, <1>4, <1>5, <1>16 DEF AirInv, Polled
<1>18. UnderWay' /\ OneSwitch'
  BY <1>2, <1>4, <1>9 DEF UnderWay, InHand, OneSwitch
<1>19. Committed'
  <2>1. deck'[a].started
    BY <1>1, <1>4, <1>8
  <2> QED
    BY <1>1, <1>2, <1>4, <1>5, <1>6, <1>10, <1>16, <2>1 DEF Committed
<1>20. Agree'
  BY <1>2, <1>4, <1>5, <1>9 DEF Agree
<1> QED
  BY <1>1, <1>12, <1>14, <1>15, <1>17, <1>18, <1>19, <1>20 DEF AirInv

\* commit_hard_handoff_metadata
LEMMA CommitAir ==
  ASSUME AirInv, [Next]_vars, CommitMetadata("mixer")
  PROVE  AirInv'
<1>1. /\ UNCHANGED <<deck, eng, timing, voice, worker, client, home>>
      /\ Committing /\ todo["mixer"] # <<>> /\ Done("mixer") /\ hand' = NoHand
      /\ out' = [out EXCEPT !.primary = Head(todo["mixer"]).deck]
  BY DEF CommitMetadata, Committing, Doing, control, bounds
<1>2. TodoType /\ OutType /\ "mixer" \in Thread /\ StartInv /\ StartInv'
  BY StartNext, AirTypes, AirThreads DEF AirInv
<1>3. ~Finalizing /\ Head(todo["mixer"]).deck = eng.active
  BY <1>1, <1>2, HeadCall DEF Committing, Finalizing, Doing, AirInv, MixerCalls
<1>4. /\ ~Finalizing' /\ ~Committing' /\ todo'["timing"] = todo["timing"]
      /\ \A i \in 1..Len(todo'["mixer"]) :
           todo'["mixer"][i].op \in MixerOps /\ todo'["mixer"][i].op # "commit"
  BY <1>1, <1>3, MixerPopped
<1>5. out'.primary = eng'.active /\ out'.fading = out.fading /\ out'.to = out.to
  BY <1>1, <1>2, <1>3 DEF OutType
<1>6. SameTokens /\ OldCalls
  BY <1>1, <1>2, PoppedCalls DEF SameTokens
<1>7. AsideCalls' /\ VoicesLoaded' /\ Homes'
  BY <1>1, <1>2, <1>6, OldAside, OldVoices, SameHomes, SameVoices DEF AirInv
<1>8. TimingCalls' /\ MixerCalls' /\ NoHandler'
  BY <1>1, <1>4 DEF TimingCalls, MixerCalls, NoHandler, AirInv
<1>9. /\ Busy("timing")' = Busy("timing") /\ \A op : Owes("timing", op)' = Owes("timing", op)
  BY <1>4, SameTiming
<1>10. Transition' /\ Polled'
  BY <1>1, <1>5, <1>9 DEF AirInv, Transition, Polled, Holds
<1>11. UnderWay' /\ OneSwitch' /\ Committed' /\ Agree'
  BY <1>1, <1>4, <1>5 DEF UnderWay, InHand, OneSwitch, Committed, Agree, NoHand
<1> QED
  BY <1>2, <1>7, <1>8, <1>10, <1>11 DEF AirInv

\* mix_tick_locked at the boundary: the reservation becomes a hand-off.
LEMMA SwitchAir ==
  ASSUME AirInv, [Next]_vars, MixSwitch
  PROVE  AirInv'
<1> DEFINE es == SwitchCalls(hand)
<1>1. /\ UNCHANGED <<deck, eng, timing, voice, worker, client, home>>
      /\ todo["mixer"] = <<>> /\ hand.pending /\ out' = [out EXCEPT !.primary = hand.to]
      /\ hand' = [hand EXCEPT !.pending = FALSE, !.primed = FALSE]
      /\ Later("mixer", es)
  BY DEF MixSwitch, control, bounds, Busy
<1>2. /\ TodoType /\ OutType /\ HandType /\ "mixer" \in Thread /\ "timing" \in Thread
      /\ "timing" # "mixer" /\ StartInv /\ StartInv'
  BY StartNext, AirTypes, AirThreads DEF AirInv
<1>3. ~Finalizing /\ ~Committing
  BY <1>1 DEF Finalizing, Committing, Doing
<1>4. \A th \in Thread : todo'[th] = IF th = "mixer" THEN es ELSE todo[th]
  BY <1>1, <1>2 DEF Later, TodoType
<1>5. /\ Len(es) = 4 /\ es # <<>> /\ Head(es) = es[1]
      /\ es[1].op = "finalize" /\ es[1].deck = hand.to /\ es[1].from = hand.from
      /\ es[1].ftok = hand.ftok
      /\ es[2].op = "commit" /\ es[2].deck = hand.to
      /\ es[3].op = "stopVoice" /\ es[4].op = "stopOut"
  BY DEF SwitchCalls, Call, CallFrom
<1>6. /\ Finalizing' /\ ~Committing' /\ ~hand'.pending
      /\ From' = hand.from /\ FromTok' = hand.ftok /\ To' = hand.to
  BY <1>1, <1>2, <1>4, <1>5 DEF Finalizing, Committing, Doing, From, FromTok, To, HandType
<1>7. From = hand.from /\ FromTok = hand.ftok /\ To = hand.to /\ InHand
  BY <1>1, <1>3 DEF From, FromTok, To, InHand
<1>8. out'.primary = hand.to /\ out'.fading = out.fading /\ out'.to = out.to
  BY <1>1, <1>2 DEF OutType
<1>9. /\ todo'["timing"] = todo["timing"]
      /\ Busy("timing")' = Busy("timing") /\ \A op : Owes("timing", op)' = Owes("timing", op)
  BY <1>2, <1>4, SameTiming
<1>10. MixerCalls'
  <2> SUFFICES ASSUME NEW i \in 1..Len(es)
               PROVE  /\ es[i].op \in MixerOps
                      /\ es[i].op = "commit" => i = 2 /\ es[i].deck = hand.to
    BY <1>2, <1>4, <1>6 DEF MixerCalls
  <2>1. i \in {1, 2, 3, 4}
    BY <1>5
  <2> QED
    BY <1>5, <2>1 DEF MixerOps
<1>11. AsideCalls' /\ TimingCalls' /\ NoHandler'
  BY <1>1, <1>4, <1>9, AirThreads DEF AirInv, AsideCalls, TimingCalls, NoHandler
<1>12. VoicesLoaded' /\ Homes'
  <2>1. \A i \in 1..Len(es) : es[i].op \notin {"prepare", "startVoice"}
    <3> SUFFICES ASSUME NEW i \in 1..Len(es) PROVE es[i].op \notin {"prepare", "startVoice"}
      OBVIOUS
    <3>1. i \in {1, 2, 3, 4}
      BY <1>5
    <3> QED
      BY <1>5, <3>1
  <2>2. VoicesLoaded'
    BY <1>1, <1>4, <2>1 DEF AirInv, VoicesLoaded
  <2> QED
    BY <1>1, <2>2 DEF AirInv, Homes, Loaded
<1>13. Transition' /\ Polled'
  BY <1>1, <1>8, <1>9 DEF AirInv, Transition, Polled, Holds
<1>14. UnderWay'
  BY <1>1, <1>6, <1>7, <1>9 DEF AirInv, UnderWay, Holds
<1>15. OneSwitch' /\ Committed' /\ Agree'
  BY <1>6, <1>8 DEF OneSwitch, Committed, Agree
<1> QED
  BY <1>2, <1>10, <1>11, <1>12, <1>13, <1>14, <1>15 DEF AirInv

LEMMA MixerAir ==
  ASSUME AirInv, [Next]_vars, Do("mixer")
  PROVE  AirInv'
BY MixerDoes, MixerStopAir, FinalizeAir, CommitAir DEF AirInv

\* While the timing worker has calls to make it polls nothing, and no hand-off is
\* under way; the calls it has left are those it had.
LEMMA TimingPopped ==
  ASSUME AirInv, [Next]_vars, todo["timing"] # <<>>, Done("timing"), eng' = eng
  PROVE  /\ OldCalls /\ todo'["mixer"] = todo["mixer"] /\ TimingCalls' /\ MixerCalls'
         /\ AsideCalls' /\ StartInv'
         /\ worker.pc = "idle" /\ ~InHand /\ ~Committing
         /\ \A op : Owes("timing", op)' => Owes("timing", op)
         /\ \A op : Owes("timing", op) /\ Head(todo["timing"]).op # op => Owes("timing", op)'
<1>1. /\ TodoType /\ "mixer" \in Thread /\ "timing" \in Thread /\ "mixer" # "timing"
      /\ StartInv' /\ Busy("timing")
  BY StartNext, AirTypes, AirThreads DEF AirInv, Busy
<1>2. /\ \A x \in Thread : x # "timing" => todo'[x] = todo[x]
      /\ \A i \in 1..Len(todo'["timing"]) : /\ i + 1 \in 1..Len(todo["timing"])
                                            /\ todo'["timing"][i] = todo["timing"][i + 1]
      /\ \A op : Owes("timing", op)' => Owes("timing", op)
      /\ \A op : Owes("timing", op) /\ Head(todo["timing"]).op # op => Owes("timing", op)'
  BY <1>1, Popped
<1>3. OldCalls /\ AsideCalls'
  BY <1>1, PoppedCalls, OldAside DEF AirInv
<1>4. TimingCalls'
  BY <1>2 DEF AirInv, TimingCalls
<1>5. todo'["mixer"] = todo["mixer"] /\ MixerCalls'
  <2>1. todo'["mixer"] = todo["mixer"]
    BY <1>1, <1>2
  <2>2. Finalizing' = Finalizing /\ (Finalizing => To' = To)
    BY <2>1, SameMixer
  <2> QED
    BY <2>1, <2>2 DEF AirInv, MixerCalls
<1>6. worker.pc = "idle" /\ ~InHand /\ ~Committing
  BY <1>1 DEF AirInv, Transition, UnderWay, Committed, WorkerType
<1> QED
  BY <1>1, <1>2, <1>3, <1>4, <1>5, <1>6

LEMMA TimingNearAir ==
  ASSUME AirInv, [Next]_vars, StopTrack("timing") \/ StopVoice("timing") \/ StartVoice("timing")
  PROVE  AirInv'
<1>1. /\ UNCHANGED <<deck, eng, timing, out, worker, client, home>>
      /\ todo["timing"] # <<>> /\ Done("timing")
      /\ Head(todo["timing"]).op \in {"stopOut", "stopVoice", "startVoice"}
  BY DEF StopTrack, StopVoice, StartVoice, Doing, control, output, bounds
<1>2. /\ OldCalls /\ todo'["mixer"] = todo["mixer"] /\ TimingCalls' /\ MixerCalls'
      /\ ~Committing /\ Busy("timing")
      /\ \A op \in DeckOps : Owes("timing", op)' <=> Owes("timing", op)
  BY <1>1, TimingPopped DEF DeckOps, Busy
<1>3. SameControl /\ SameTokens /\ MixerStays
  BY <1>1, SameOut DEF SameControl, SameTokens
<1>4. Near
  BY <1>2, <1>3 DEF Near
<1>5. HandStays
  BY HandGone DEF StopTrack, StopVoice, StartVoice, Unreserve, output
<1>6. \E u : Seats(u) /\ (u \in Track => home[u] # NoDeck)
  <2>1. CASE StartVoice("timing")
    <3> DEFINE e == Head(todo["timing"])
    <3>1. TodoType /\ VoiceType /\ "timing" \in Thread
      BY AirTypes, AirThreads DEF AirInv
    <3>2. e \in Effect /\ e.op = "startVoice" /\ Activate(e.deck, e.tok) /\ e = todo["timing"][1]
          /\ 1 \in 1..Len(todo["timing"])
      BY <1>1, <2>1, <3>1, HeadCall DEF StartVoice, Doing
    <3>3. e.deck \in Deck
      BY <3>2 DEF Effect, EngineWide
    <3>4. e.tok \in Track => home[e.tok] # NoDeck
      BY <3>1, <3>2 DEF AirInv, VoicesLoaded
    <3> QED
      BY <3>1, <3>2, <3>3, <3>4, ActivateSeats
  <2>2. CASE StopTrack("timing") \/ StopVoice("timing")
    BY <2>2, StopNear
  <2> QED
    BY <2>1, <2>2
<1> QED
  BY <1>1, <1>2, <1>3, <1>4, <1>5, <1>6, NearStep

\* The calls that move the mixer move it to the active deck.
LEMMA TimingDeckAir ==
  ASSUME AirInv, [Next]_vars, Head(todo["timing"]).deck = eng.active,
         ActivateTrack("timing") \/ TransitionStarted("timing") \/ TransitionFinished("timing")
  PROVE  AirInv'
<1> DEFINE a == eng.active
<1>1. /\ UNCHANGED <<deck, eng, timing, voice, worker, client, home>>
      /\ todo["timing"] # <<>> /\ Done("timing") /\ hand' = NoHand
  BY DEF ActivateTrack, TransitionStarted, TransitionFinished, Doing, control, bounds
<1>2. /\ OldCalls /\ todo'["mixer"] = todo["mixer"] /\ TimingCalls' /\ MixerCalls'
      /\ AsideCalls' /\ StartInv' /\ worker.pc = "idle" /\ ~InHand /\ ~Committing
      /\ \A op : Owes("timing", op)' => Owes("timing", op)
      /\ \A op : Owes("timing", op) /\ Head(todo["timing"]).op # op => Owes("timing", op)'
  BY <1>1, TimingPopped
<1>3. StartInv /\ OutType /\ TodoType /\ "timing" \in Thread
  BY AirTypes, AirThreads DEF AirInv
<1>4. SameTokens
  BY <1>1 DEF SameTokens
<1>5. VoicesLoaded' /\ Homes' /\ NoHandler'
  BY <1>1, <1>2, <1>3, <1>4, OldVoices, SameHomes, SameVoices DEF AirInv, NoHandler
<1>6. /\ ~Finalizing' /\ ~Committing' /\ ~hand'.pending
  BY <1>1, <1>2, SameMixer DEF InHand, NoHand
<1>7. out'.primary = eng'.active
  BY <1>1, <1>3 DEF ActivateTrack, TransitionStarted, TransitionFinished, OutType
<1>8. out'.fading => /\ out'.to = eng'.active
                     /\ timing'.completion \/ Owes("timing", "fadeDone")'
  <2>1. CASE ActivateTrack("timing")
    <3>1. out'.fading = out.fading /\ out'.to = out.to /\ Head(todo["timing"]).op = "activate"
      BY <1>3, <2>1 DEF ActivateTrack, OutType, Doing
    <3> QED
      BY <1>1, <1>2, <3>1 DEF AirInv, Transition
  <2>2. CASE TransitionStarted("timing")
    <3>1. out'.to = a /\ Owes("timing", "fadeStart")
      BY <1>3, <2>2, HeadCall DEF TransitionStarted, OutType, Doing, Owes
    <3> QED
      BY <1>1, <3>1 DEF AirInv, Transition
  <2>3. CASE TransitionFinished("timing")
    BY <1>3, <2>3 DEF TransitionFinished, OutType
  <2> QED
    BY <2>1, <2>2, <2>3
<1>9. Transition'
  BY <1>1, <1>2, <1>8 DEF AirInv, Transition
<1>10. Polled'
  BY <1>1, <1>2 DEF AirInv, Polled
<1>11. UnderWay' /\ OneSwitch' /\ Committed' /\ Agree'
  BY <1>6, <1>7 DEF UnderWay, InHand, OneSwitch, Committed, Agree
<1> QED
  BY <1>2, <1>5, <1>9, <1>10, <1>11 DEF AirInv

LEMMA TimingAir ==
  ASSUME AirInv, [Next]_vars, Do("timing")
  PROVE  AirInv'
BY TimingDoes, TimingNearAir, TimingDeckAir DEF AirInv

-----------------------------------------------------------------------------
(* The timing worker *)

\* A step of the worker that only reads, and remembers what it has scheduled.
Reads ==
  /\ UNCHANGED <<deck, eng, voice, out, hand, client, home, todo>>
  /\ timing'.completion = timing.completion /\ timing'.entry = timing.entry
  /\ timing'.to = timing.to
  /\ worker'.pc # "idle" => ~Busy("timing") /\ ~timing.completion

LEMMA ReadsAir ==
  ASSUME AirInv, [Next]_vars, Reads, Polled',
         InHand => /\ worker'.pc \in {"idle", "polled", "store"}
                   /\ IF worker'.pc = "store" THEN worker'.ftok = FromTok
                      ELSE timing'.scheduled = FromTok,
         Committing => /\ worker'.pc \in {"idle", "polled", "store"}
                       /\ worker'.pc = "polled" /\ worker'.from = eng.active /\ worker'.usable
                            => ~Loud(Other(eng.active), worker'.ttok)
  PROVE  AirInv'
<1>1. StartInv'
  BY StartNext DEF AirInv
<1>2. /\ Finalizing' = Finalizing /\ Committing' = Committing /\ InHand' = InHand
      /\ From' = From /\ FromTok' = FromTok /\ To' = To
      /\ Busy("timing")' = Busy("timing") /\ OwesDeck' = OwesDeck
      /\ \A op : Owes("timing", op)' = Owes("timing", op)
  BY DEF Reads, Finalizing, Committing, Doing, InHand, From, FromTok, To, Busy, OwesDeck, Owes
<1>3. AsideCalls' /\ TimingCalls' /\ MixerCalls' /\ NoHandler'
  BY <1>2 DEF Reads, AirInv, AsideCalls, TimingCalls, MixerCalls, NoHandler
<1>4. VoicesLoaded' /\ Homes'
  BY DEF Reads, AirInv, VoicesLoaded, Homes, Loaded
<1>5. Transition'
  BY <1>2 DEF Reads, AirInv, Transition
<1>6. UnderWay'
  BY <1>2 DEF Reads, AirInv, UnderWay, Holds
<1>7. OneSwitch' /\ Agree'
  BY <1>2 DEF Reads, AirInv, OneSwitch, Agree
<1>8. Committed'
  BY <1>2 DEF Reads, AirInv, Committed, Loud
<1> QED
  BY <1>1, <1>3, <1>4, <1>5, <1>6, <1>7, <1>8 DEF AirInv

LEMMA PollAir ==
  ASSUME AirInv, [Next]_vars, Poll
  PROVE  AirInv'
<1> DEFINE a == eng.active
           n == deck[Other(a)]
<1>1. /\ a \in Deck /\ DeckType /\ worker.pc = "idle" /\ ~Busy("timing") /\ ~eng.transitioning
      /\ Loaded(a) /\ deck[a].started
      /\ UNCHANGED <<deck, eng, timing, voice, out, hand, client, home, todo>>
  BY AirTypes DEF AirInv, Poll, control, output, bounds
<1>2. /\ worker'.pc = "polled" /\ worker'.from = a /\ worker'.ftok = deck[a].tok
      /\ worker'.ttok = n.tok /\ (worker'.usable => n.tok # NoTrack /\ ~n.started)
  BY DEF Poll
<1>3. ~timing.completion
  BY <1>1 DEF AirInv, Transition
<1>4. Reads
  BY <1>1, <1>3 DEF Reads
<1>5. Polled'
  <2>1. deck[a].tok \in Track /\ home[deck[a].tok] = a
    BY <1>1 DEF AirInv, Homes, DeckType, DeckState, Token, Loaded
  <2> QED
    BY <1>1, <1>2, <2>1 DEF Polled, Holds, Loaded
<1>6. InHand => timing'.scheduled = FromTok
  BY <1>1 DEF AirInv, UnderWay
<1>7. Committing /\ worker'.usable => ~Loud(Other(a), worker'.ttok)
  BY <1>2 DEF AirInv, Committed
<1> QED
  BY <1>2, <1>4, <1>5, <1>6, <1>7, ReadsAir

\* A hand-off is under way for the track the worker polled: scheduled_for stops it.
LEMMA PolledInHand ==
  ASSUME AirInv, worker.pc = "polled"
  PROVE  /\ InHand => worker.ftok = FromTok /\ timing.scheduled = FromTok
         /\ worker.from # eng.active => worker.ftok = timing.scheduled
<1>1. worker.from # eng.active => worker.ftok = timing.scheduled
  BY DEF AirInv, Polled
<1>2. InHand => timing.scheduled = FromTok /\ From = eng.active /\ Holds(From, FromTok)
  BY DEF AirInv, UnderWay
<1>3. worker.from = eng.active => Holds(worker.from, worker.ftok)
  BY DEF AirInv, Polled
<1> QED
  BY <1>1, <1>2, <1>3 DEF Holds

LEMMA DecideAir ==
  ASSUME AirInv, [Next]_vars, Decide
  PROVE  AirInv'
<1> DEFINE a == eng.active
           t == worker.ftok
           kept == Kept(t)
<1>1. /\ UNCHANGED <<deck, eng, voice, out, hand, client, home, todo>>
      /\ worker.pc = "polled" /\ ~Busy("timing") /\ WorkerType /\ TimingType
      /\ timing' = [timing EXCEPT !.scheduled = kept]
  BY AirTypes DEF AirInv, Decide, output, bounds
<1>2. ~timing.completion /\ timing'.scheduled = kept /\ timing'.to = timing.to
      /\ timing'.completion = timing.completion /\ timing'.entry = timing.entry
  BY <1>1 DEF AirInv, Transition, TimingType
<1>3. Reads
  BY <1>1, <1>2 DEF Reads
<1>4. InHand => kept = t /\ kept = FromTok
  BY <1>1, PolledInHand DEF Kept
<1>5. CASE Sleeps
  <2>1. worker'.pc = "idle"
    BY <1>5 DEF Sleeps, Asleep
  <2> QED
    BY <1>2, <1>3, <1>4, <2>1, ReadsAir DEF Polled
<1>6. CASE /\ kept # t /\ \E pc \in {"recheck", "prime", "fade"} : Goes(pc)
           /\ worker.usable /\ TRUE \in PrebufferReady(Other(worker.from), worker.ttok)
  <2>1. ~InHand /\ worker.from = a
    BY <1>1, <1>4, <1>6, PolledInHand DEF Kept
  <2>2. ~Committing
    <3>1. Committing => ~Loud(Other(a), worker.ttok)
      BY <1>1, <1>6, <2>1 DEF AirInv, Committed
    <3>2. worker.ttok \in Track
      BY <1>1, <1>6 DEF AirInv, Polled, WorkerType, Token
    <3>3. Loud(Other(a), worker.ttok)
      BY <1>6, <2>1, <3>2 DEF PrebufferReady, Loud, LoudIn
    <3> QED
      BY <3>1, <3>3
  <2>3. worker'.pc \in {"recheck", "prime", "fade"} /\ worker'.from = a /\ worker'.ftok = t
    BY <1>1, <1>6, <2>1 DEF Goes, WorkerType
  <2>4. Polled'
    BY <1>1, <2>1, <2>3 DEF AirInv, Polled, Holds
  <2> QED
    BY <1>3, <2>1, <2>2, <2>4, ReadsAir
<1>7. Sleeps \/ /\ kept # t /\ \E pc \in {"recheck", "prime", "fade"} : Goes(pc)
                /\ worker.usable /\ TRUE \in PrebufferReady(Other(worker.from), worker.ttok)
  BY DEF Decide
<1> QED
  BY <1>5, <1>6, <1>7

\* Past the poll no hand-off is under way, and the mixer is on the active deck.
Ahead == {"recheck", "recover", "prime", "arm", "fade"}
LEMMA WorkerAhead ==
  ASSUME AirInv, worker.pc \in Ahead
  PROVE  /\ ~InHand /\ ~Finalizing /\ ~Committing /\ ~hand.pending
         /\ worker.from = eng.active /\ Holds(eng.active, worker.ftok) /\ deck[eng.active].started
         /\ todo["timing"] = <<>> /\ ~timing.completion /\ ~out.fading
         /\ out.primary = eng.active
         /\ \A i \in 1..Len(todo["mixer"]) : todo["mixer"][i].op # "commit"
<1>1. ~InHand /\ ~Finalizing /\ ~Committing /\ ~hand.pending
  BY DEF AirInv, UnderWay, Committed, InHand, Ahead
<1>2. worker.from = eng.active /\ Holds(eng.active, worker.ftok) /\ deck[eng.active].started
  BY DEF AirInv, Polled, Ahead
<1>3. todo["timing"] = <<>> /\ ~timing.completion
  BY DEF AirInv, Transition, Ahead, Busy
<1>4. \A op : ~Owes("timing", op)
  BY <1>3 DEF Owes
<1>5. ~out.fading /\ out.primary = eng.active
  BY <1>1, <1>3, <1>4 DEF AirInv, Transition, Agree, OwesDeck
<1>6. \A i \in 1..Len(todo["mixer"]) : todo["mixer"][i].op # "commit"
  <2> SUFFICES ASSUME NEW i \in 1..Len(todo["mixer"]), todo["mixer"][i].op = "commit" PROVE FALSE
    OBVIOUS
  <2>1. i = 1
    BY <1>1 DEF AirInv, MixerCalls
  <2>2. TodoType /\ "mixer" \in Thread
    BY AirTypes, AirThreads DEF AirInv
  <2>3. todo["mixer"] # <<>> /\ Head(todo["mixer"]) = todo["mixer"][1]
    BY <2>1, <2>2 DEF TodoType
  <2> QED
    BY <1>1, <2>1, <2>3 DEF Committing, Doing
<1> QED
  BY <1>1, <1>2, <1>3, <1>5, <1>6

LEMMA RecheckAir ==
  ASSUME AirInv, [Next]_vars, Recheck \/ (Recover /\ UNCHANGED deck /\ UNCHANGED <<control, todo>>)
                              \/ (WorkerFade /\ UNCHANGED <<control, todo>>)
  PROVE  AirInv'
<1>1. /\ UNCHANGED <<deck, eng, timing, voice, out, hand, client, home, todo>>
      /\ worker.pc \in Ahead
      /\ Sleeps \/ Goes("recover")
  BY DEF Recheck, Recover, WorkerFade, control, output, bounds, Ahead
<1>2. /\ ~InHand /\ ~Committing /\ worker.from = eng.active /\ Holds(eng.active, worker.ftok)
      /\ deck[eng.active].started /\ todo["timing"] = <<>> /\ ~timing.completion
  BY <1>1, WorkerAhead
<1>3. /\ worker'.pc \in {"idle", "recover"}
      /\ worker'.pc # "idle" => worker'.from = worker.from /\ worker'.ftok = worker.ftok
  BY <1>1, AirTypes DEF Sleeps, Asleep, Goes, WorkerType, AirInv
<1>4. Reads
  BY <1>1, <1>2 DEF Reads, Busy
<1>5. Polled'
  BY <1>1, <1>2, <1>3 DEF Polled, Holds
<1> QED
  BY <1>2, <1>4, <1>5, ReadsAir

LEMMA StoreAir ==
  ASSUME AirInv, [Next]_vars, WorkerStore
  PROVE  AirInv'
<1>1. /\ UNCHANGED <<deck, eng, voice, out, hand, client, home, todo>>
      /\ worker.pc = "store" /\ worker'.pc = "idle"
      /\ timing' = [timing EXCEPT !.scheduled = worker.ftok] /\ TimingType
  BY AirTypes DEF AirInv, WorkerStore, Sleeps, Asleep, output, bounds
<1>2. Reads
  BY <1>1 DEF Reads, TimingType
<1>3. InHand => timing'.scheduled = FromTok
  BY <1>1 DEF AirInv, UnderWay, TimingType
<1>4. Polled'
  BY <1>1 DEF Polled
<1> QED
  BY <1>1, <1>2, <1>3, <1>4, ReadsAir

LEMMA PrimeAir ==
  ASSUME AirInv, [Next]_vars, WorkerPrime
  PROVE  AirInv'
<1> DEFINE d == Other(worker.from)
           t == worker.ttok
<1>1. /\ UNCHANGED <<deck, eng, timing, out, hand, client, home, todo>>
      /\ worker.pc = "prime" /\ StartInv /\ StartInv' /\ WorkerType /\ VoiceType /\ d \in Deck
  BY StartNext, AirTypes, OtherDeck DEF AirInv, WorkerPrime, control, output, bounds, WorkerType
<1>2. /\ ~InHand /\ ~Committing /\ ~Finalizing /\ worker.from = eng.active
      /\ Holds(eng.active, worker.ftok) /\ deck[eng.active].started
      /\ todo["timing"] = <<>> /\ ~timing.completion
  BY <1>1, WorkerAhead DEF Ahead
<1>3. \E u : Seats(u) /\ (u \in Track => home[u] # NoDeck)
  <2>1. CASE PrimeFails(d, t)
    BY <2>1, SameVoices DEF PrimeFails
  <2>2. CASE PrimeVoice(d, t)
    <3>1. Seats(t)
      BY <1>1, <2>2, PromoteSeats DEF PrimeVoice
    <3>2. t \in Track => home[t] # NoDeck
      BY <1>1, <2>2, PrimeSeats DEF AirInv, VoicesLoaded
    <3> QED
      BY <3>1, <3>2
  <2> QED
    BY <2>1, <2>2 DEF WorkerPrime
<1>4. /\ worker'.pc \in {"idle", "arm"}
      /\ worker'.pc # "idle" => worker'.from = worker.from /\ worker'.ftok = worker.ftok
  BY <1>1 DEF WorkerPrime, Sleeps, Asleep, Goes, WorkerType
<1>5. /\ Finalizing' = Finalizing /\ Committing' = Committing /\ InHand' = InHand
      /\ Busy("timing")' = Busy("timing") /\ OwesDeck' = OwesDeck
      /\ \A op : Owes("timing", op)' = Owes("timing", op)
  BY <1>1 DEF Finalizing, Committing, Doing, InHand, Busy, OwesDeck, Owes
<1>6. AsideCalls' /\ TimingCalls' /\ MixerCalls' /\ NoHandler' /\ Homes'
  BY <1>1, <1>2, <1>5 DEF AirInv, AsideCalls, TimingCalls, MixerCalls, NoHandler, Homes, Loaded
<1>7. VoicesLoaded'
  BY <1>1, <1>3, SameCalls, OldVoices DEF AirInv
<1>8. Transition'
  BY <1>1, <1>2, <1>5 DEF AirInv, Transition, Busy
<1>9. Polled'
  BY <1>1, <1>2, <1>4 DEF Polled, Holds
<1>10. UnderWay' /\ OneSwitch' /\ Committed' /\ Agree'
  BY <1>1, <1>2, <1>5 DEF AirInv, UnderWay, OneSwitch, Committed, Agree
<1> QED
  BY <1>1, <1>6, <1>7, <1>8, <1>9, <1>10 DEF AirInv

\* The reservation is of the two tracks, and from the deck, that are on the air.
LEMMA ArmAir ==
  ASSUME AirInv, [Next]_vars, WorkerArm
  PROVE  AirInv'
<1> DEFINE a == eng.active
           d == Other(worker.from)
<1>1. /\ UNCHANGED <<deck, eng, timing, voice, client, home, todo>>
      /\ worker.pc = "arm" /\ StartInv' /\ WorkerType /\ OutType
  BY StartNext, AirTypes DEF AirInv, WorkerArm, control, bounds
<1>2. /\ ~InHand /\ ~Committing /\ ~Finalizing /\ worker.from = a
      /\ Holds(a, worker.ftok) /\ deck[a].started /\ todo["timing"] = <<>> /\ ~timing.completion
      /\ ~out.fading /\ out.primary = a
  BY <1>1, WorkerAhead DEF Ahead
<1>3. /\ ~Finalizing' /\ ~Committing'
      /\ Busy("timing")' = Busy("timing") /\ OwesDeck' = OwesDeck
      /\ \A op : Owes("timing", op)' = Owes("timing", op)
  BY <1>1, <1>2 DEF Finalizing, Committing, Doing, Busy, OwesDeck, Owes
<1>4. CASE Armable(worker.from, worker.ftok, d, worker.ttok)
  <2>1. /\ hand'.pending /\ hand'.from = a /\ hand'.to = Other(a) /\ hand'.ftok = worker.ftok
        /\ ~out'.fading /\ out'.primary = a
    <3>1. Arm(worker.from, worker.ftok, d, worker.ttok)
      BY <1>4 DEF WorkerArm
    <3>2. hand' = [pending |-> TRUE, from |-> worker.from, to |-> d, ftok |-> worker.ftok,
                   ttok |-> worker.ttok, primed |-> TRUE]
      BY <3>1 DEF Arm
    <3>3. ~out'.fading /\ out'.primary = out.primary
      BY <1>1, <3>1 DEF Arm, OutType
    <3> QED
      BY <1>2, <3>2, <3>3
  <2>2. worker'.pc = "store" /\ worker'.from = worker.from /\ worker'.ftok = worker.ftok
    BY <1>1, <1>4 DEF WorkerArm, Goes, WorkerType
  <2>3. From' = a /\ FromTok' = worker.ftok /\ To' = Other(a)
    BY <1>3, <2>1 DEF From, FromTok, To
  <2>4. AsideCalls' /\ TimingCalls' /\ NoHandler' /\ Homes' /\ VoicesLoaded'
    BY <1>1 DEF AirInv, AsideCalls, TimingCalls, NoHandler, Homes, Loaded, VoicesLoaded
  <2>5. MixerCalls'
    BY <1>1, <1>2, <1>3 DEF AirInv, MixerCalls
  <2>6. Transition'
    BY <1>1, <1>2, <1>3, <2>1 DEF AirInv, Transition, Busy
  <2>7. Polled'
    BY <2>2 DEF Polled
  <2>8. UnderWay'
    BY <1>1, <1>2, <1>3, <2>2, <2>3 DEF UnderWay, Busy, Holds
  <2>9. OneSwitch' /\ Committed' /\ Agree'
    BY <1>1, <1>3, <2>1 DEF OneSwitch, Committed, Agree
  <2> QED
    BY <1>1, <2>4, <2>5, <2>6, <2>7, <2>8, <2>9 DEF AirInv
<1>5. CASE ~Armable(worker.from, worker.ftok, d, worker.ttok)
  <2>1. worker'.pc = "idle" /\ out' = out /\ hand' = hand
    BY <1>5 DEF WorkerArm, Sleeps, Asleep, output
  <2>2. Reads
    BY <1>1, <2>1 DEF Reads
  <2>3. Polled'
    BY <2>1 DEF Polled
  <2> QED
    BY <1>2, <2>1, <2>2, <2>3, ReadsAir
<1> QED
  BY <1>4, <1>5

\* The worker makes the other deck active, and moves the mixer there next.
LEMMA MoveAir ==
  ASSUME AirInv, [Next]_vars, worker.pc \in Ahead, Sleeps,
         NEW d, d = Other(worker.from), NEW e,
         UNCHANGED <<voice, out, hand, client, home>>,
         eng'.active = d, eng'.running = eng.running, ~timing'.entry, SameTokens,
         Holds(d, worker.ttok),
         Later("timing", <<e, Call("activate", d, worker.ttok), Call("startVoice", d, worker.ttok)>>),
         \/ e.op = "stopOut" /\ ~timing'.completion
         \/ /\ e.op = "fadeStart" /\ e.deck = d
            /\ timing'.completion /\ timing'.to = d /\ eng'.transitioning
  PROVE  AirInv'
<1> DEFINE es == <<e, Call("activate", d, worker.ttok), Call("startVoice", d, worker.ttok)>>
<1>1. /\ StartInv /\ StartInv' /\ TodoType /\ DeckType /\ d \in Deck
      /\ "mixer" \in Thread /\ "timing" \in Thread /\ "mixer" # "timing"
  BY StartNext, AirTypes, AirThreads, WorkerAhead DEF AirInv
<1>2. /\ ~InHand /\ ~Committing /\ ~Finalizing /\ ~hand.pending /\ ~out.fading
      /\ \A i \in 1..Len(todo["mixer"]) : todo["mixer"][i].op # "commit"
  BY WorkerAhead
<1>3. /\ todo'["timing"] = es
      /\ \A x \in Thread : x # "timing" => todo'[x] = todo[x]
  BY <1>1 DEF Later, TodoType
<1>4. /\ es[1] = e
      /\ es[2].op = "activate" /\ es[2].deck = d
      /\ es[3].op = "startVoice" /\ es[3].tok = worker.ttok
      /\ \A i \in 1..Len(es) : i = 1 \/ i = 2 \/ i = 3
      /\ 1 \in 1..Len(es) /\ 2 \in 1..Len(es) /\ 3 \in 1..Len(es)
  BY CallOps
<1>5. /\ ~Finalizing' /\ ~Committing'
  BY <1>1, <1>2, <1>3, SameMixer
<1>6. worker'.pc = "idle"
  BY DEF Sleeps, Asleep
<1>7. AsideCalls'
  BY <1>3, AirThreads DEF AirInv, AsideCalls
<1>8. TimingCalls'
  BY <1>3, <1>4 DEF TimingCalls, TimingOps, DeckOps
<1>9. MixerCalls'
  BY <1>1, <1>2, <1>3 DEF AirInv, MixerCalls
<1>10. NoHandler' /\ Homes'
  BY <1>1, SameHomes DEF AirInv, NoHandler
<1>11. VoicesLoaded'
  <2>1. worker.ttok \in Track => home[worker.ttok] # NoDeck
    <3>1. home[worker.ttok] = d
      BY <1>1 DEF AirInv, Homes, Holds, Loaded
    <3> QED
      BY <1>1, <3>1, ConstantsAssumption DEF ConstantsAssumption
  <2>2. ASSUME NEW i \in 1..Len(todo'["timing"]),
               todo'["timing"][i].op \in {"prepare", "startVoice"}
        PROVE  todo'["timing"][i].tok = worker.ttok
    BY <1>3, <1>4, <2>2
  <2>3. ASSUME NEW th \in Thread, NEW i \in 1..Len(todo'[th]),
               todo'[th][i].op \in {"prepare", "startVoice"}, todo'[th][i].tok \in Track
        PROVE  home[todo'[th][i].tok] # NoDeck
    <3>1. CASE th = "timing"
      BY <2>1, <2>2, <2>3, <3>1
    <3>2. CASE th # "timing"
      BY <1>3, <2>3, <3>2 DEF AirInv, VoicesLoaded
    <3> QED
      BY <3>1, <3>2
  <2> QED
    BY <2>3 DEF AirInv, VoicesLoaded
<1>12. Transition'
  <2>1. Owes("timing", "fadeStart")' => timing'.completion
    BY <1>3, <1>4 DEF Owes
  <2> QED
    BY <1>2, <1>6, <2>1 DEF AirInv, Transition
<1>13. OwesDeck'
  BY <1>3, <1>4 DEF OwesDeck, Owes, DeckOps
<1>14. Polled' /\ UnderWay' /\ OneSwitch' /\ Committed' /\ Agree'
  BY <1>2, <1>5, <1>6, <1>13 DEF Polled, UnderWay, InHand, OneSwitch, Committed, Agree
<1> QED
  BY <1>1, <1>7, <1>8, <1>9, <1>10, <1>11, <1>12, <1>14 DEF AirInv

LEMMA RecoverAir ==
  ASSUME AirInv, [Next]_vars, Recover
  PROVE  AirInv'
<1> DEFINE f == worker.from
           d == Other(f)
           recovers == /\ StillCurrent /\ deck[f].terminal
                       /\ ~(deck[d].consumed \/ deck[d].terminal \/ deck[d].started)
<1>1. CASE recovers
  <2>1. DeckType /\ EngType /\ TimingType /\ worker.pc \in Ahead
    BY AirTypes DEF AirInv, Recover, Ahead
  <2>2. /\ deck' = [x \in Deck |-> IF x = d THEN Started(deck[x]) ELSE Released(deck[x])]
        /\ eng' = Aired(d) /\ timing' = [timing EXCEPT !.scheduled = worker.ftok]
        /\ Later("timing", <<Call("stopOut", f, worker.ftok), Call("activate", d, worker.ttok),
                            Call("startVoice", d, worker.ttok)>>)
        /\ UNCHANGED <<voice, out, hand, client, home>> /\ Sleeps
    BY <1>1 DEF Recover, output, bounds
  <2>3. eng'.active = d /\ eng'.running = eng.running
    BY <2>1, <2>2 DEF Aired, EngType
  <2>4. timing'.entry = timing.entry /\ timing'.completion = timing.completion
    BY <2>1, <2>2 DEF TimingType
  <2>5. SameTokens
    BY <2>1, <2>2, EmptyTypes DEF SameTokens, DeckType
  <2>6. ~timing.entry /\ ~timing.completion /\ Holds(d, worker.ttok)
    BY <1>1, <2>1, WorkerAhead DEF AirInv, Transition, StillCurrent
  <2>7. Call("stopOut", f, worker.ftok).op = "stopOut"
    BY CallOps
  <2> HIDE DEF d, f, recovers
  <2> QED
    BY <2>1, <2>2, <2>3, <2>4, <2>5, <2>6, <2>7, MoveAir DEF d, f
<1>2. CASE ~recovers
  BY <1>2, RecheckAir DEF Recover, control
<1> QED
  BY <1>1, <1>2

LEMMA FadeAir ==
  ASSUME AirInv, [Next]_vars, WorkerFade
  PROVE  AirInv'
<1> DEFINE f == worker.from
           d == Other(f)
           e == CallFrom("fadeStart", d, NoTrack, f, NoTrack)
<1>1. CASE StillCurrent
  <2>1. DeckType /\ EngType /\ worker.pc \in Ahead
    BY AirTypes DEF AirInv, WorkerFade, Ahead
  <2>2. /\ deck' = [deck EXCEPT ![d] = Started(@)]
        /\ eng' = [eng EXCEPT !.active = d, !.transitioning = TRUE]
        /\ timing' = [scheduled |-> worker.ftok, completion |-> TRUE, entry |-> FALSE,
                      from |-> f, to |-> d, ftok |-> worker.ftok, ttok |-> worker.ttok]
        /\ Later("timing", <<e, Call("activate", d, worker.ttok),
                            Call("startVoice", d, worker.ttok)>>)
        /\ UNCHANGED <<voice, out, hand, client, home>> /\ Sleeps
    BY <1>1 DEF WorkerFade, output, bounds
  <2>3. eng'.active = d /\ eng'.running = eng.running /\ eng'.transitioning
    BY <2>1, <2>2 DEF EngType
  <2>4. ~timing'.entry /\ timing'.completion /\ timing'.to = d
    BY <2>2
  <2>5. SameTokens
    BY <2>1, <2>2, EmptyTypes DEF SameTokens, DeckType
  <2>6. Holds(d, worker.ttok)
    BY <1>1 DEF StillCurrent
  <2>7. e.op = "fadeStart" /\ e.deck = d
    BY DEF CallFrom
  <2> HIDE DEF d, f, e
  <2> QED
    BY <2>1, <2>2, <2>3, <2>4, <2>5, <2>6, <2>7, MoveAir DEF d, f
<1>2. CASE ~StillCurrent
  BY <1>2, RecheckAir DEF WorkerFade, control
<1> QED
  BY <1>1, <1>2

\* The end of a crossfade finds no hand-off under way.
LEMMA FinishAir ==
  ASSUME AirInv, [Next]_vars, FinishTransition
  PROVE  AirInv'
<1> DEFINE a == eng.active
           f == timing.from
           es == <<Call("fadeDone", timing.to, NoTrack), Call("stopVoice", f, timing.ftok),
                   Call("stopOut", f, timing.ftok)>>
<1>1. /\ StartInv /\ StartInv' /\ TodoType /\ DeckType /\ EngType /\ TimingType
      /\ "mixer" \in Thread /\ "timing" \in Thread /\ "mixer" # "timing"
  BY StartNext, AirTypes, AirThreads DEF AirInv
<1>2. /\ UNCHANGED <<voice, out, hand, worker, client, home>>
      /\ timing.completion /\ ~timing.entry /\ Later("timing", es) /\ ~Busy("timing")
  BY DEF FinishTransition, output, bounds
<1>3. /\ worker.pc = "idle" /\ ~InHand /\ ~Finalizing /\ ~hand.pending /\ ~Committing
      /\ timing.to = a
  BY <1>2 DEF AirInv, Transition, UnderWay, InHand, Committed
<1>4. eng'.active = a /\ eng'.running = eng.running
  BY <1>1 DEF FinishTransition, Settled, EngType
<1>5. ~timing'.completion /\ ~timing'.entry
  BY <1>1, <1>2 DEF FinishTransition, TimingType
<1>6. SameTokens
  BY <1>1, EmptyTypes DEF FinishTransition, SameTokens, DeckType
<1>7. /\ todo'["timing"] = es
      /\ \A x \in Thread : x # "timing" => todo'[x] = todo[x]
  BY <1>1, <1>2 DEF Later, TodoType
<1>8. /\ es[1].op = "fadeDone" /\ es[1].deck = a
      /\ es[2].op = "stopVoice" /\ es[3].op = "stopOut"
      /\ \A i \in 1..Len(es) : i = 1 \/ i = 2 \/ i = 3
      /\ 1 \in 1..Len(es)
  BY <1>3, CallOps
<1>9. ~Finalizing' /\ ~Committing' /\ Finalizing' = Finalizing
  BY <1>1, <1>3, <1>7, SameMixer
<1>10. AsideCalls'
  BY <1>7, AirThreads DEF AirInv, AsideCalls
<1>11. TimingCalls'
  BY <1>4, <1>7, <1>8 DEF TimingCalls, TimingOps, DeckOps
<1>12. MixerCalls'
  BY <1>1, <1>3, <1>4, <1>7, <1>9 DEF AirInv, MixerCalls
<1>13. NoHandler' /\ Homes'
  BY <1>1, <1>2, <1>6, SameHomes DEF AirInv, NoHandler
<1>14. VoicesLoaded'
  <2>1. \A i \in 1..Len(todo'["timing"]) : todo'["timing"][i].op \notin {"prepare", "startVoice"}
    BY <1>7, <1>8
  <2>2. ASSUME NEW th \in Thread, NEW i \in 1..Len(todo'[th]),
               todo'[th][i].op \in {"prepare", "startVoice"}, todo'[th][i].tok \in Track
        PROVE  home[todo'[th][i].tok] # NoDeck
    <3>1. th # "timing"
      BY <2>1, <2>2
    <3> QED
      BY <1>7, <2>2, <3>1 DEF AirInv, VoicesLoaded
  <2> QED
    BY <1>2, <2>2 DEF AirInv, VoicesLoaded
<1>15. Owes("timing", "fadeDone")' /\ ~Owes("timing", "fadeStart")'
  BY <1>7, <1>8 DEF Owes
<1>16. Transition'
  BY <1>2, <1>3, <1>4, <1>5, <1>15 DEF AirInv, Transition
<1>17. OwesDeck'
  BY <1>15 DEF OwesDeck, DeckOps
<1>18. Polled' /\ UnderWay' /\ OneSwitch' /\ Committed' /\ Agree'
  BY <1>2, <1>3, <1>9, <1>17 DEF Polled, UnderWay, InHand, OneSwitch, Committed, Agree
<1> QED
  BY <1>1, <1>10, <1>11, <1>12, <1>13, <1>14, <1>16, <1>18 DEF AirInv

LEMMA WorkerAir ==
  ASSUME AirInv, [Next]_vars, TimingWorker
  PROVE  AirInv'
<1>1. ~EnterScript
  BY DEF EnterScript, AirInv, Transition
<1>2. CASE Recheck
  BY <1>2, RecheckAir
<1>3. CASE Poll \/ FinishTransition \/ Decide \/ Recover \/ WorkerPrime \/ WorkerArm
           \/ WorkerStore \/ WorkerFade
  BY <1>3, PollAir, FinishAir, DecideAir, RecoverAir, PrimeAir, ArmAir, StoreAir, FadeAir
<1> QED
  BY <1>1, <1>2, <1>3 DEF TimingWorker

-----------------------------------------------------------------------------
(* From a station that is on the air *)

LEMMA AirBeginning == ASSUME NEW t \in Track, OnAir(t) PROVE AirInv
<1>1. StartInv
  BY StartBeginning DEF Beginning
<1>2. /\ todo = [th \in Thread |-> <<>>] /\ hand = NoHand /\ worker = Asleep
      /\ timing = NoTransition /\ client = [c \in Client |-> NoCommand]
      /\ eng = [running |-> TRUE, paused |-> FALSE, accepting |-> TRUE,
                transitioning |-> FALSE, active |-> "A"]
      /\ out = [running |-> TRUE, paused |-> FALSE, primary |-> "A",
                fading |-> FALSE, from |-> NoDeck, to |-> NoDeck]
  BY DEF OnAir
<1>3. /\ ~hand.pending /\ worker.pc = "idle" /\ \A c \in Client : client[c].pc = "idle"
      /\ ~timing.completion /\ ~timing.entry
  BY <1>2 DEF NoHand, Asleep, NoCommand, NoTransition
<1>4. \A th \in Thread : /\ todo[th] = <<>> /\ Len(todo[th]) = 0
                         /\ \A op : ~Doing(th, op) /\ ~Owes(th, op)
  BY <1>2 DEF Doing, Owes
<1>5. \A th \in Thread : 1..Len(todo[th]) = {}
  BY <1>4
<1>6. AsideCalls /\ TimingCalls /\ MixerCalls /\ NoHandler
  BY <1>3, <1>5, AirThreads DEF AsideCalls, TimingCalls, MixerCalls, NoHandler
<1>7. VoicesLoaded
  <2>1. \A d \in Deck, u \in Track : voice[d][u] # "none" => home[u] = "A"
    BY DEF OnAir
  <2>2. "A" # NoDeck
    BY ConstantsAssumption DEF ConstantsAssumption, Deck
  <2> QED
    BY <1>5, <2>1, <2>2 DEF VoicesLoaded
<1>8. Homes
  BY DEF OnAir, Homes, Loaded, EmptyDeck, Started
<1>9. ~Finalizing /\ ~Committing /\ ~InHand /\ \A op : ~Owes("timing", op)
  BY <1>3, <1>4, AirThreads DEF Finalizing, Committing, InHand
<1>10. Transition /\ Polled /\ UnderWay /\ OneSwitch /\ Committed /\ Agree
  BY <1>2, <1>3, <1>9 DEF Transition, Polled, UnderWay, OneSwitch, Committed, Agree
<1> QED
  BY <1>1, <1>6, <1>7, <1>8, <1>10 DEF AirInv

LEMMA AirNext == ASSUME AirInv, PlaysOn, [Next]_vars PROVE AirInv'
<1>1. CASE \E c \in Client : Request(c) \/ Handler(c)
  BY <1>1, RequestAir, NoHandlerActs DEF AirInv
<1>2. CASE \E th \in Thread : Do(th)
  BY <1>2, AirThreads, AsideAir, TimingAir, MixerAir
<1>3. CASE TimingWorker
  BY <1>3, WorkerAir
<1>4. CASE MixSwitch \/ MixFadeDone \/ RestartPipeline \/ UNCHANGED vars
  BY <1>4, SwitchAir, MixerAsideAir
<1>5. CASE \E d \in Deck, t \in Track : DecoderReady(d, t) \/ DecoderFail(d, t) \/ DecoderEof(d, t)
  BY <1>5, DecoderAir
<1>6. CASE \E d \in Deck : Analysis(d)
  BY <1>6, AnalysisAir
<1> QED
  BY <1>1, <1>2, <1>3, <1>4, <1>5, <1>6 DEF Next

LEMMA AirIsHeard == ASSUME AirInv PROVE AudibleIsActive
<1> SUFFICES ASSUME Quiet PROVE out.primary = eng.active
  BY DEF AudibleIsActive
<1>1. todo["mixer"] = <<>> /\ todo["timing"] = <<>>
  BY AirThreads DEF Quiet, Busy
<1>2. ~Finalizing /\ ~OwesDeck
  BY <1>1 DEF Finalizing, Doing, OwesDeck, Owes
<1> QED
  BY <1>2 DEF AirInv, Agree

\* From a station on the air that its clients only load, pause and report ended
\* tracks to, whatever its timing worker, mixer, decoders and analysis workers do,
\* once every thread has made its calls the mixer plays the deck the engine calls
\* active (AudibleIsActive): no automatic crossfade, hard hand-off or recovery of
\* a track that ended early leaves the output on the deck it moved from.
THEOREM AudibleDeckIsActive ==
  ASSUME PlaysOn
  PROVE  (\E t \in Track : OnAir(t)) /\ [][Next]_vars => []AudibleIsActive
<1>1. (\E t \in Track : OnAir(t)) => AirInv
  BY AirBeginning
<1>2. AirInv /\ [Next]_vars => AirInv'
  BY AirNext
<1>3. AirInv => AudibleIsActive
  BY AirIsHeard
<1> QED
  BY <1>1, <1>2, <1>3, PTL

-----------------------------------------------------------------------------
(* What the mixer switches to is alive, while the station plays on and no     *)
(* track is over before it is heard.                                          *)

\* The commands of a station that plays on and has no track called ended.
PlaysOut == Command \subseteq {"load", "pause"} /\ Stub = {}

\* A token was heard on its deck; a token was loaded and not heard yet.
Spent(d, t) == home[t] # NoDeck /\ (deck[d].tok = t => deck[d].started)
Fresh(d, t) == home[t] # NoDeck /\ (deck[d].tok = t => ~deck[d].started)

\* What is stopped, or is about to be, was heard, or is replaced.
SilentIn(v, d, t) == v[d][t] \in {"stopped", "hollow"}
SilentSpent == \A d \in Deck, t \in Track : SilentIn(voice, d, t) => Spent(d, t)
StopsSpent ==
  \A th \in Thread : \A i \in 1..Len(todo[th]) :
    LET e == todo[th][i]
    IN e.op = "stopVoice" /\ e.tok \in Track => Spent(e.deck, e.tok)
FadedSpent ==
  timing.completion /\ timing.ftok \in Track => Spent(timing.from, timing.ftok)

\* A target from its prime to its boundary, and from the moment it was found usable.
Awaited(d, t) ==
  \/ hand.pending /\ hand.to = d /\ hand.ttok = t
  \/ worker.pc = "arm" /\ Other(worker.from) = d /\ worker.ttok = t
Chosen(d, t) ==
  \/ Awaited(d, t)
  \/ /\ Other(worker.from) = d /\ worker.ttok = t
     /\ \/ worker.pc = "prime"
        \/ worker.pc = "polled" /\ worker.usable /\ worker.from = eng.active
ChosenFresh == \A d \in Deck, t \in Track : Chosen(d, t) => Fresh(d, t)
AwaitedAlive ==
  \A d \in Deck, t \in Track : Awaited(d, t) /\ Holds(d, t) => voice[d][t] = "playing"

AliveCore == SilentSpent /\ StopsSpent /\ FadedSpent /\ ChosenFresh /\ AwaitedAlive
AliveInv == AirInv /\ HandInv /\ AliveCore

\* What a step may do to a deck without ending what was chosen for it.
NewHere(d) == deck'[d].tok \in Track /\ home[deck'[d].tok] = NoDeck
Renewed(d) == deck'[d].tok = deck[d].tok \/ NewHere(d)
Calm(d) == \/ deck'[d].tok = deck[d].tok /\ (deck'[d].started => deck[d].started)
           \/ NewHere(d)
HandKept ==
  hand'.pending => hand.pending /\ hand'.to = hand.to /\ hand'.ttok = hand.ttok
\* What falls silent was heard, no target does, and what is to be stopped was heard.
SilencesSpent ==
  \A d \in Deck, t \in Track : SilentIn(voice', d, t) => SilentIn(voice, d, t) \/ Spent(d, t)
TargetsPlay ==
  \A d \in Deck, t \in Track :
    Awaited(d, t) /\ Holds(d, t) /\ voice[d][t] = "playing" => voice'[d][t] = "playing"
StopsHeard ==
  \A th \in Thread : \A i \in 1..Len(todo'[th]) :
    LET e == todo'[th][i]
    IN e.op = "stopVoice" /\ e.tok \in Track => Spent(e.deck, e.tok)
FadeHeard ==
  timing'.completion /\ timing'.ftok \in Track => Spent(timing'.from, timing'.ftok)

LEMMA PlaysOutOn == PlaysOut => PlaysOn /\ "late_finished" \notin Command
BY DEF PlaysOut, PlaysOn

\* What a step leaves true of a token: it was heard, or it was not yet.
LEMMA HeardStays ==
  ASSUME AirInv, [Next]_vars, NEW d \in Deck, Renewed(d), NEW t \in Track, Spent(d, t)
  PROVE  Spent(d, t)'
<1>1. home'[t] # NoDeck
  <2>1. Requests
    BY DEF AirInv, StartInv, Requests
  <2> QED
    BY <2>1, RequestsNext DEF KeepsRequests, StayHome, Spent
<1>2. deck'[d].tok = t => deck[d].tok = t
  BY DEF Renewed, NewHere, Spent
<1>3. KeepsDeck(d) \/ NewToken(d) \/ Published(d)
  BY StartNext DEF AirInv, DeckMoves
<1>4. ~timing.entry
  BY DEF AirInv, Transition
<1>5. deck'[d].tok = t => deck'[d].started
  BY <1>2, <1>3, <1>4 DEF KeepsDeck, NewToken, Published, Spent
<1> QED
  BY <1>1, <1>5 DEF Spent

LEMMA FreshStays ==
  ASSUME AirInv, [Next]_vars, NEW d \in Deck, Calm(d), NEW t \in Track, Fresh(d, t)
  PROVE  Fresh(d, t)'
<1>1. home'[t] # NoDeck
  <2>1. Requests
    BY DEF AirInv, StartInv, Requests
  <2> QED
    BY <2>1, RequestsNext DEF KeepsRequests, StayHome, Fresh
<1>2. deck'[d].tok = t => ~deck'[d].started
  BY DEF Calm, NewHere, Fresh
<1> QED
  BY <1>1, <1>2 DEF Fresh

\* The parts of the invariant, from what a step does to each.
LEMMA AliveStep ==
  ASSUME AliveInv, PlaysOut, [Next]_vars, \A d \in Deck : Renewed(d),
         SilencesSpent, StopsHeard, FadeHeard,
         \A d \in Deck, t \in Track :
           Chosen(d, t)' => Calm(d) /\ (Chosen(d, t) \/ Fresh(d, t)),
         \A d \in Deck, t \in Track :
           Awaited(d, t)' /\ Holds(d, t)' => voice'[d][t] = "playing"
  PROVE  AliveInv'
<1>1. AirInv /\ AirInv' /\ HandInv'
  BY PlaysOutOn, AirNext, HandNext DEF AliveInv
<1>2. TodoType' /\ TimingType'
  <2>1. TypeOK'
    BY <1>1 DEF HandInv
  <2> QED
    BY <2>1, TypePartsNext
<1>3. SilentSpent'
  <2> SUFFICES ASSUME NEW d \in Deck, NEW t \in Track, SilentIn(voice', d, t)
               PROVE  Spent(d, t)'
    BY DEF SilentSpent, SilentIn
  <2>1. Spent(d, t)
    BY DEF SilencesSpent, AliveInv, AliveCore, SilentSpent
  <2> QED
    BY <1>1, <2>1, HeardStays
<1>4. StopsSpent'
  <2> SUFFICES ASSUME NEW th \in Thread, NEW i \in 1..Len(todo'[th]),
                      todo'[th][i].op = "stopVoice", todo'[th][i].tok \in Track
               PROVE  LET e == todo'[th][i]
                      IN  /\ home'[e.tok] # NoDeck
                          /\ deck'[e.deck].tok = e.tok => deck'[e.deck].started
    BY DEF StopsSpent, Spent
  <2> DEFINE e == todo'[th][i]
  <2>1. e \in Effect
    BY <1>2 DEF TodoType
  <2>2. e.deck \in Deck
    BY <2>1 DEF Effect, EngineWide
  <2>3. Spent(e.deck, e.tok)
    BY DEF StopsHeard
  <2>4. \A d \in Deck, t \in Track : Spent(d, t) => Spent(d, t)'
    BY <1>1, HeardStays
  <2> QED
    BY <2>2, <2>3, <2>4 DEF Spent
<1>5. FadedSpent'
  <2> SUFFICES ASSUME timing'.completion, timing'.ftok \in Track
               PROVE  /\ home'[timing'.ftok] # NoDeck
                      /\ deck'[timing'.from].tok = timing'.ftok => deck'[timing'.from].started
    BY DEF FadedSpent, Spent
  <2>1. timing'.from \in Deck /\ Spent(timing'.from, timing'.ftok)
    BY <1>2 DEF TimingType, FadeHeard
  <2>2. \A d \in Deck, t \in Track : Spent(d, t) => Spent(d, t)'
    BY <1>1, HeardStays
  <2> QED
    BY <2>1, <2>2 DEF Spent
<1>6. ChosenFresh'
  <2> SUFFICES ASSUME NEW d \in Deck, NEW t \in Track, Chosen(d, t)'
               PROVE  Fresh(d, t)'
    BY DEF ChosenFresh
  <2>1. Calm(d) /\ Fresh(d, t)
    BY DEF AliveInv, AliveCore, ChosenFresh
  <2> QED
    BY <1>1, <2>1, FreshStays
<1>7. AwaitedAlive'
  BY DEF AwaitedAlive
<1> QED
  BY <1>1, <1>3, <1>4, <1>5, <1>6, <1>7 DEF AliveInv, AliveCore

\* A step that makes no deck heard and chooses nothing.
LEMMA CalmStep ==
  ASSUME AliveInv, PlaysOut, [Next]_vars, \A d \in Deck : Calm(d), HandKept,
         worker' = worker, eng'.active = eng.active,
         timing'.completion => timing.completion /\ timing'.from = timing.from
                               /\ timing'.ftok = timing.ftok,
         SilencesSpent, TargetsPlay, StopsHeard
  PROVE  AliveInv'
<1>1. \A d \in Deck, t \in Track : /\ Awaited(d, t)' => Awaited(d, t)
                                   /\ Chosen(d, t)' => Chosen(d, t)
  BY DEF Awaited, Chosen, HandKept
<1>2. ASSUME NEW d \in Deck, NEW t \in Track, Awaited(d, t)', Holds(d, t)'
      PROVE  voice'[d][t] = "playing"
  <2>1. Awaited(d, t) /\ Fresh(d, t)
    BY <1>1, <1>2 DEF Chosen, AliveInv, AliveCore, ChosenFresh
  <2>2. Calm(d)
    OBVIOUS
  <2>3. Holds(d, t)
    BY <1>2, <2>1, <2>2 DEF Calm, NewHere, Fresh, Holds
  <2> QED
    BY <2>1, <2>3 DEF TargetsPlay, AliveInv, AliveCore, AwaitedAlive
<1>3. FadeHeard
  BY DEF FadeHeard, AliveInv, AliveCore, FadedSpent
<1>4. \A d \in Deck : Renewed(d)
  BY DEF Renewed, Calm
<1> QED
  BY <1>1, <1>2, <1>3, <1>4, AliveStep

-----------------------------------------------------------------------------
(* The voices a step leaves playing, and the calls it leaves to be made *)

Gentle == \A d \in Deck, t \in Track :
            /\ SilentIn(voice', d, t) => SilentIn(voice, d, t)
            /\ voice[d][t] = "playing" => voice'[d][t] = "playing"

LEMMA GentleVoices == Gentle => SilencesSpent /\ TargetsPlay
BY DEF Gentle, SilencesSpent, TargetsPlay

LEMMA GentleSame == voice' = voice => Gentle
BY DEF Gentle, SilentIn

LEMMA SeatGentle ==
  ASSUME VoiceType, NEW d \in Deck, NEW t, voice[d][t] = "none", NEW s \in {"cued", "playing"},
         Seat(d, t, s)
  PROVE  Gentle
<1>1. CASE voice' = voice
  BY <1>1, GentleSame
<1>2. CASE voice' # voice
  <2>1. PICK v \in Vacated(d) :
          voice' = [voice EXCEPT ![d] = [u \in Track |-> IF u = t THEN s
                                              ELSE IF u = v THEN "none" ELSE @[u]]]
    BY <1>2 DEF Seat
  <2>2. v \in Track => voice[d][v] # "playing"
    BY ConstantsAssumption DEF ConstantsAssumption, Vacated, Reusable, Activated
  <2> QED
    BY <2>1, <2>2 DEF Gentle, SilentIn, VoiceType
<1> QED
  BY <1>1, <1>2

LEMMA PromoteGentle ==
  ASSUME VoiceType, NEW d \in Deck, NEW t, voice[d][t] # "playing", NEW s \in {"playing", "hollow"},
         s = "hollow" => voice[d][t] = "stopped", Promote(d, t, s)
  PROVE  Gentle
<1>1. PICK retired \in SUBSET (Seated(d) \ (Activated(d) \cup {t})) :
        voice' = [voice EXCEPT ![d] = [u \in Track |-> IF u = t THEN s
                                     ELSE IF u \in retired THEN "none" ELSE @[u]]]
  BY DEF Promote
<1>2. \A u \in retired : voice[d][u] # "playing"
  BY DEF Seated, Activated
<1> QED
  BY <1>1, <1>2 DEF Gentle, SilentIn, VoiceType

LEMMA PrepareGentle ==
  ASSUME VoiceType, NEW d \in Deck, NEW t, Prepare(d, t) PROVE Gentle
BY SeatGentle, GentleSame DEF Prepare

LEMMA ActivateGentle ==
  ASSUME VoiceType, NEW d \in Deck, NEW t, Activate(d, t) PROVE Gentle
<1>1. CASE voice[d][t] = "none"
  BY <1>1, SeatGentle DEF Activate
<1>2. CASE voice[d][t] \in {"cued", "ready", "over"}
  BY <1>2, PromoteGentle DEF Activate
<1>3. CASE voice[d][t] = "stopped"
  BY <1>3, PromoteGentle DEF Activate
<1>4. CASE voice[d][t] \notin {"none", "cued", "ready", "over", "stopped"}
  BY <1>4, GentleSame DEF Activate
<1> QED
  BY <1>1, <1>2, <1>3, <1>4

LEMMA StopsSame == ASSUME StopsSpent, todo' = todo PROVE StopsHeard
BY DEF StopsSpent, StopsHeard

LEMMA StopsPopped ==
  ASSUME TodoType, StopsSpent, NEW th \in Thread, todo[th] # <<>>,
         Done(th) \/ \E e : e.op # "stopVoice" /\ ThenFirst(th, e)
  PROVE  StopsHeard
<1>1. CASE Done(th)
  <2>1. /\ \A x \in Thread : x # th => todo'[x] = todo[x]
        /\ \A i \in 1..Len(todo'[th]) : i + 1 \in 1..Len(todo[th])
                                        /\ todo'[th][i] = todo[th][i + 1]
    BY <1>1, Popped
  <2>2. ASSUME NEW x \in Thread, NEW i \in 1..Len(todo'[x])
        PROVE  \E j \in 1..Len(todo[x]) : todo'[x][i] = todo[x][j]
    <3>1. CASE x = th
      BY <2>1, <3>1
    <3>2. CASE x # th
      BY <2>1, <3>2
    <3> QED
      BY <3>1, <3>2
  <2> QED
    BY <2>2 DEF StopsSpent, StopsHeard
<1>2. ASSUME NEW e, e.op # "stopVoice", ThenFirst(th, e) PROVE StopsHeard
  <2> DEFINE es == <<e>> \o Tail(todo[th])
  <2>1. todo[th] \in Seq(Effect) /\ todo' = [todo EXCEPT ![th] = es]
    BY <1>2 DEF TodoType, ThenFirst
  <2>2. \A x \in Thread : todo'[x] = IF x = th THEN es ELSE todo[x]
    BY <2>1 DEF TodoType
  <2>3. es[1] = e /\ \A i \in 1..Len(es) : i # 1 => i \in 1..Len(todo[th]) /\ es[i] = todo[th][i]
    BY <2>1
  <2>4. ASSUME NEW i \in 1..Len(es), es[i].op = "stopVoice", es[i].tok \in Track
        PROVE  Spent(es[i].deck, es[i].tok)
    <3>1. i # 1
      BY <1>2, <2>3, <2>4
    <3>2. i \in 1..Len(todo[th]) /\ es[i] = todo[th][i]
      BY <2>3, <3>1
    <3> QED
      BY <2>4, <3>2 DEF StopsSpent
  <2> HIDE DEF es
  <2> QED
    BY <2>2, <2>4 DEF StopsSpent, StopsHeard
<1> QED
  BY <1>1, <1>2

LEMMA StopsLater ==
  ASSUME TodoType, StopsSpent, NEW th \in Thread, NEW es, Later(th, es),
         \A i \in 1..Len(es) :
           es[i].op = "stopVoice" /\ es[i].tok \in Track => Spent(es[i].deck, es[i].tok)
  PROVE  StopsHeard
<1>1. \A x \in Thread : todo'[x] = IF x = th THEN es ELSE todo[x]
  BY DEF TodoType, Later
<1> QED
  BY <1>1 DEF StopsSpent, StopsHeard

LEMMA HandKeeps == hand' = hand \/ hand' = NoHand => HandKept
BY DEF HandKept, NoHand

LEMMA AliveTypes ==
  ASSUME AliveInv
  PROVE  /\ AirInv /\ StartInv /\ DeckType /\ EngType /\ TimingType /\ VoiceType /\ HandType
         /\ WorkerType /\ TodoType /\ RestType /\ StopsSpent
BY AirTypes DEF AliveInv, AliveCore, AirInv

\* A call that stops a voice stops no target: what it names was heard.
LEMMA StopAlive ==
  ASSUME AliveInv, NEW th \in Thread, StopVoice(th)
  PROVE  SilencesSpent /\ TargetsPlay
<1> DEFINE e == Head(todo[th])
<1>1. /\ VoiceType /\ e \in Effect /\ e.op = "stopVoice" /\ e = todo[th][1]
      /\ 1 \in 1..Len(todo[th])
  BY AliveTypes, HeadCall DEF StopVoice, Doing
<1>2. e.deck \in Deck /\ (e.tok \in Track => Spent(e.deck, e.tok))
  BY <1>1 DEF Effect, EngineWide, AliveInv, AliveCore, StopsSpent
<1>3. voice' = [voice EXCEPT ![e.deck] = [u \in Track |-> IF u = e.tok THEN Stopped(@[u]) ELSE @[u]]]
  BY DEF StopVoice
<1> HIDE DEF e
<1>4. \A d \in Deck, t \in Track : d # e.deck \/ t # e.tok => voice'[d][t] = voice[d][t]
  BY <1>1, <1>2, <1>3 DEF VoiceType
<1>5. ASSUME NEW d \in Deck, NEW t \in Track, Awaited(d, t), Holds(d, t)
      PROVE  d # e.deck \/ t # e.tok
  <2>1. Fresh(d, t)
    BY <1>5 DEF AliveInv, AliveCore, ChosenFresh, Chosen
  <2> QED
    BY <1>2, <1>5, <2>1 DEF Fresh, Spent, Holds
<1>6. SilencesSpent
  BY <1>2, <1>4 DEF SilencesSpent, SilentIn
<1>7. TargetsPlay
  BY <1>4, <1>5 DEF TargetsPlay
<1> QED
  BY <1>6, <1>7

\* The calls the threads make, but for the one that makes the target heard.
LEMMA DoAlive ==
  ASSUME AliveInv, PlaysOut, [Next]_vars, NEW th \in Thread, Do(th), ~FinalizeHandoff(th)
  PROVE  AliveInv'
<1>1. /\ AirInv /\ TodoType /\ VoiceType /\ HandType /\ StopsSpent
  BY AliveTypes
<1>2. \/ PrepareVoice(th) \/ ScheduleAnalysis(th) \/ StopVoice(th) \/ StopTrack(th)
      \/ OutputPause(th) \/ HandleEof(th) \/ StartVoice(th) \/ ActivateTrack(th)
      \/ TransitionStarted(th) \/ TransitionFinished(th) \/ CommitMetadata(th)
  BY <1>1, AirThreads, AsideDoes, TimingDoes, MixerDoes DEF AirInv
<1>3. UNCHANGED <<deck, eng, timing, worker, home>> /\ todo[th] # <<>>
  BY <1>2 DEF PrepareVoice, ScheduleAnalysis, StopVoice, StopTrack, OutputPause, HandleEof,
     StartVoice, ActivateTrack, TransitionStarted, TransitionFinished, CommitMetadata,
     Doing, control, bounds
<1>4. Done(th) \/ \E d, t : ThenFirst(th, Call("stopOut", d, t))
  BY <1>2 DEF PrepareVoice, ScheduleAnalysis, StopVoice, StopTrack, OutputPause, HandleEof,
     StartVoice, ActivateTrack, TransitionStarted, TransitionFinished, CommitMetadata
<1>5. StopsHeard
  <2>1. \A d, t : Call("stopOut", d, t).op # "stopVoice"
    BY CallOps
  <2> QED
    BY <1>1, <1>3, <1>4, <2>1, StopsPopped
<1>6. HandKept
  BY <1>2, HandKeeps DEF PrepareVoice, ScheduleAnalysis, StopVoice, StopTrack, OutputPause,
     HandleEof, StartVoice, ActivateTrack, TransitionStarted, TransitionFinished,
     CommitMetadata, Unreserve, output
<1>7. SilencesSpent /\ TargetsPlay
  <2>1. CASE PrepareVoice(th) \/ StartVoice(th)
    <3> DEFINE e == Head(todo[th])
    <3>1. e \in Effect /\ e.op \in {"prepare", "startVoice"}
          /\ (Prepare(e.deck, e.tok) \/ Activate(e.deck, e.tok))
      BY <1>1, <1>3, <2>1, HeadCall DEF PrepareVoice, StartVoice, Doing
    <3>2. e.deck \in Deck
      BY <3>1 DEF Effect, EngineWide
    <3> QED
      BY <1>1, <3>1, <3>2, PrepareGentle, ActivateGentle, GentleVoices
  <2>2. CASE StopVoice(th)
    BY <2>2, StopAlive
  <2>3. CASE voice' = voice
    BY <2>3, GentleSame, GentleVoices
  <2> QED
    BY <1>2, <2>1, <2>2, <2>3 DEF ScheduleAnalysis, StopTrack, OutputPause, HandleEof,
       ActivateTrack, TransitionStarted, TransitionFinished, CommitMetadata
<1>8. \A d \in Deck : Calm(d)
  BY <1>3 DEF Calm
<1> QED
  BY <1>3, <1>5, <1>6, <1>7, <1>8, CalmStep

\* finalize_hard_handoff: the target is heard, and nothing else was chosen.
LEMMA FinalizeAlive ==
  ASSUME AliveInv, PlaysOut, [Next]_vars, FinalizeHandoff("mixer")
  PROVE  AliveInv'
<1> DEFINE a == eng.active
           e == Head(todo["mixer"])
<1>1. /\ AirInv /\ StartInv /\ TodoType /\ DeckType /\ EngType /\ WorkerType /\ StopsSpent
      /\ "mixer" \in Thread /\ a \in Deck /\ Other(a) # a
  BY AliveTypes, AirTypes, AirThreads
<1>2. /\ UNCHANGED <<timing, voice, hand, worker, home>>
      /\ Finalizing /\ todo["mixer"] # <<>> /\ Done("mixer")
  BY DEF FinalizeHandoff, Finalizing, Doing, output, bounds
<1>3. From = e.from /\ FromTok = e.ftok /\ To = e.deck
  BY <1>2 DEF From, FromTok, To
<1>4. /\ e.deck = Other(a) /\ Holds(a, FromTok)
      /\ worker.pc \in {"idle", "polled", "store"} /\ ~hand.pending /\ InHand
  BY <1>1, <1>2, <1>3 DEF AirInv, UnderWay, InHand, OneSwitch
<1>5. eng'.active = Other(a)
  BY <1>1, <1>4 DEF FinalizeHandoff, Aired, EngType
<1>6. worker.pc = "polled" => worker.from = a
  <2> SUFFICES ASSUME worker.pc = "polled", worker.from # a PROVE FALSE
    OBVIOUS
  <2>1. worker.ftok = FromTok /\ home[worker.ftok] = worker.from
    BY <1>1, <1>4, PolledInHand DEF AirInv, Polled
  <2>2. home[FromTok] = a
    BY <1>1, <1>4 DEF AirInv, Homes, Holds, Loaded
  <2> QED
    BY <2>1, <2>2
<1>7. \A d \in Deck, t \in Track : ~Chosen(d, t)' /\ ~Awaited(d, t)'
  BY <1>1, <1>2, <1>4, <1>5, <1>6 DEF Chosen, Awaited
<1>8. \A d \in Deck : Renewed(d)
  <2>1. \A s \in DeckState : Started(s).tok = s.tok /\ Released(s).tok = s.tok
    BY EmptyTypes
  <2> QED
    BY <1>1, <2>1 DEF FinalizeHandoff, Renewed, DeckType
<1>9. StopsHeard
  BY <1>1, <1>2, StopsPopped
<1>10. SilencesSpent
  BY <1>2, GentleSame, GentleVoices
<1>11. FadeHeard
  BY <1>2 DEF FadeHeard, AliveInv, AliveCore, FadedSpent
<1> QED
  BY <1>7, <1>8, <1>9, <1>10, <1>11, AliveStep

-----------------------------------------------------------------------------
(* The steps beside the timing worker *)

LEMMA LoadAlive ==
  ASSUME AliveInv, PlaysOut, [Next]_vars, NEW c \in Client, NEW d \in Deck, NEW t \in Track,
         Load(c, d, t, TRUE)
  PROVE  AliveInv'
<1>1. DeckType /\ TodoType /\ StopsSpent /\ c \in Thread
  BY AliveTypes, AirThreads
<1>2. UNCHANGED <<eng, timing, voice, hand, worker>> /\ home[t] = NoDeck
  BY DEF Load, output
<1>3. CASE LoadRejected(d, t, TRUE)
  <2>1. deck' = deck /\ todo' = todo
    BY <1>3 DEF Load
  <2>2. (\A x \in Deck : Calm(x)) /\ StopsHeard
    BY <1>1, <2>1, StopsSame DEF Calm
  <2> QED
    BY <1>2, <2>2, GentleSame, GentleVoices, HandKeeps, CalmStep
<1>4. CASE ~LoadRejected(d, t, TRUE)
  <2> DEFINE op == IF t \in Analysed THEN "analyse" ELSE "prepare"
             es == <<Call(op, d, t)>>
  <2>1. /\ deck' = [deck EXCEPT ![d] = [EmptyDeck EXCEPT !.tok = t, !.ready = t \notin Analysed]]
        /\ Later(c, es)
    BY <1>4 DEF Load
  <2>2. \A x \in Deck : Calm(x)
    BY <1>1, <1>2, <2>1 DEF Calm, NewHere, DeckType, EmptyDeck
  <2>3. \A i \in 1..Len(es) : es[i].op # "stopVoice"
    BY CallOps
  <2>4. StopsHeard
    BY <1>1, <2>1, <2>3, StopsLater
  <2> QED
    BY <1>2, <2>2, <2>4, GentleSame, GentleVoices, HandKeeps, CalmStep
<1> QED
  BY <1>3, <1>4

LEMMA RequestAlive ==
  ASSUME AliveInv, PlaysOut, [Next]_vars, NEW c \in Client, Request(c)
  PROVE  AliveInv'
<1>1. CASE \E d \in Deck, t \in Track : Load(c, d, t, TRUE)
  BY <1>1, LoadAlive
<1>2. CASE SetPaused(c)
  <2> DEFINE es == <<Bare(IF eng.paused THEN "resume" ELSE "pause")>>
  <2>1. EngType /\ TodoType /\ StopsSpent /\ c \in Thread
    BY AliveTypes, AirThreads
  <2>2. UNCHANGED <<deck, timing, voice, hand, worker>> /\ eng'.active = eng.active /\ Later(c, es)
    BY <1>2, <2>1 DEF SetPaused, EngType, output
  <2>3. \A i \in 1..Len(es) : es[i].op # "stopVoice"
    BY CallOps
  <2>4. StopsHeard /\ \A d \in Deck : Calm(d)
    BY <2>1, <2>2, <2>3, StopsLater DEF Calm
  <2> QED
    BY <2>2, <2>4, GentleSame, GentleVoices, HandKeeps, CalmStep
<1>3. ~\E d \in Deck, t \in Track : SyncEnded(c, d, t)
  BY DEF PlaysOut, SyncEnded, Receive
<1> QED
  BY <1>1, <1>2, <1>3, PlaysOutOn, RequestDoes

\* The voice the mixer leaves is the one the hand-off was from, which is heard.
LEMMA SwitchAlive ==
  ASSUME AliveInv, PlaysOut, [Next]_vars, MixSwitch
  PROVE  AliveInv'
<1> DEFINE es == SwitchCalls(hand)
<1>1. /\ UNCHANGED <<deck, eng, timing, voice, worker, home>> /\ todo["mixer"] = <<>>
      /\ hand.pending /\ hand' = [hand EXCEPT !.pending = FALSE, !.primed = FALSE]
      /\ Later("mixer", es)
  BY DEF MixSwitch, control, bounds, Busy
<1>2. /\ AirInv /\ HandType /\ RestType /\ TodoType /\ StopsSpent /\ "mixer" \in Thread
      /\ NoDeck \notin Deck
  BY AliveTypes, AirThreads, ConstantsAssumption DEF ConstantsAssumption
<1>3. Spent(hand.from, hand.ftok)
  <2>1. ~Finalizing
    BY <1>1 DEF Finalizing, Doing
  <2>2. hand.from \in Deck /\ Holds(hand.from, hand.ftok) /\ deck[hand.from].started
    BY <1>1, <1>2, <2>1 DEF AirInv, UnderWay, InHand, From, FromTok, HandType
  <2>3. home[hand.ftok] = hand.from
    BY <1>2, <2>2 DEF AirInv, Homes, Holds, Loaded
  <2> QED
    BY <1>2, <2>2, <2>3 DEF Spent
<1>4. /\ Len(es) = 4 /\ es[1].op = "finalize" /\ es[2].op = "commit"
      /\ es[3].deck = hand.from /\ es[3].tok = hand.ftok
      /\ es[4].op = "stopOut"
  BY DEF SwitchCalls, Call, CallFrom
<1>5. StopsHeard
  <2> SUFFICES ASSUME NEW i \in 1..Len(es), es[i].op = "stopVoice"
               PROVE  Spent(es[i].deck, es[i].tok)
    BY <1>1, <1>2, StopsLater
  <2>1. i = 3
    BY <1>4
  <2> QED
    BY <1>3, <1>4, <2>1
<1>6. HandKept
  BY <1>1, <1>2 DEF HandKept, HandType
<1>7. \A d \in Deck : Calm(d)
  BY <1>1 DEF Calm
<1> QED
  BY <1>1, <1>5, <1>6, <1>7, GentleSame, GentleVoices, CalmStep

LEMMA MixerAsideAlive ==
  ASSUME AliveInv, PlaysOut, [Next]_vars, MixFadeDone \/ RestartPipeline \/ UNCHANGED vars
  PROVE  AliveInv'
<1>1. UNCHANGED <<deck, eng, timing, voice, worker, todo>>
  BY DEF MixFadeDone, RestartPipeline, vars, control
<1>2. HandKept
  BY AliveTypes DEF MixFadeDone, RestartPipeline, vars, HandKept, HandType
<1>3. StopsHeard /\ \A d \in Deck : Calm(d)
  BY <1>1, AliveTypes, StopsSame DEF Calm
<1> QED
  BY <1>1, <1>2, <1>3, GentleSame, GentleVoices, CalmStep

\* A track that is chosen and frozen does not run out before it is heard.
LEMMA DecoderAlive ==
  ASSUME AliveInv, PlaysOut, [Next]_vars, NEW d \in Deck, NEW t \in Track,
         DecoderReady(d, t) \/ DecoderFail(d, t) \/ DecoderEof(d, t)
  PROVE  AliveInv'
<1>1. VoiceType /\ DeckType /\ TodoType /\ StopsSpent /\ d \in Thread
  BY AliveTypes, AirThreads
<1>2. UNCHANGED <<eng, timing, hand, worker>>
  BY DEF DecoderReady, DecoderFail, DecoderEof, control, output
<1>3. /\ \A x \in Deck, u \in Track : x # d \/ u # t => voice'[x][u] = voice[x][u]
      /\ voice'[d][t] \in {"ready", "over"}
  BY <1>1 DEF DecoderReady, DecoderFail, DecoderEof, VoiceType
<1>4. SilencesSpent
  BY <1>3 DEF SilencesSpent, SilentIn
<1>5. TargetsPlay
  <2>1. Awaited(d, t) => voice[d][t] # "playing"
    <3>1. CASE DecoderReady(d, t) \/ DecoderFail(d, t)
      BY <3>1 DEF DecoderReady, DecoderFail
    <3>2. CASE DecoderEof(d, t)
      BY <3>2 DEF DecoderEof, Frozen, Primed, Awaited, PlaysOut
    <3> QED
      BY <3>1, <3>2
  <2> QED
    BY <1>3, <2>1 DEF TargetsPlay
<1>6. \A x \in Deck : Calm(x)
  <2>1. CASE deck' = deck
    BY <2>1 DEF Calm
  <2>2. CASE deck' = [deck EXCEPT ![d].terminal = TRUE]
    BY <1>1, <2>2 DEF DeckType, DeckState, Calm
  <2> QED
    BY <2>1, <2>2 DEF DecoderReady, DecoderFail, DecoderEof, control
<1>7. StopsHeard
  <2>1. CASE todo' = todo
    BY <1>1, <2>1, StopsSame
  <2>2. ASSUME NEW eof \in {"earlyEof", "naturalEof"}, Later(d, <<Call(eof, d, t)>>)
        PROVE  StopsHeard
    <3> DEFINE es == <<Call(eof, d, t)>>
    <3>1. \A i \in 1..Len(es) : es[i].op # "stopVoice"
      BY CallOps
    <3> QED
      BY <1>1, <2>2, <3>1, StopsLater
  <2> QED
    BY <2>1, <2>2 DEF DecoderReady, DecoderFail, DecoderEof
<1> QED
  BY <1>2, <1>4, <1>5, <1>6, <1>7, HandKeeps, CalmStep

LEMMA AnalysisAlive ==
  ASSUME AliveInv, PlaysOut, [Next]_vars, NEW d \in Deck, Analysis(d)
  PROVE  AliveInv'
<1>1. VoiceType /\ DeckType /\ StopsSpent
  BY AliveTypes
<1>2. UNCHANGED <<eng, timing, hand, worker, todo>>
  BY DEF Analysis, AnalysisTake, AnalysisCheck, AnalysisPrepare, AnalysisPublish,
     AnalysisReject, control, output
<1>3. Gentle
  BY <1>1, PrepareGentle, GentleSame DEF Analysis, AnalysisTake, AnalysisCheck, AnalysisPrepare,
     AnalysisPublish, AnalysisReject
<1>4. \A x \in Deck : Calm(x)
  <2>1. CASE deck' = deck
    BY <2>1 DEF Calm
  <2>2. CASE AnalysisPublish(d) /\ deck' # deck
    BY <1>1, <2>2 DEF AnalysisPublish, DeckType, EmptyDeck, Calm
  <2>3. CASE AnalysisReject(d) /\ deck' # deck
    BY <1>1, <2>3 DEF AnalysisReject, DeckType, Calm
  <2> QED
    BY <2>1, <2>2, <2>3 DEF Analysis, AnalysisTake, AnalysisCheck, AnalysisPrepare, control
<1> QED
  BY <1>1, <1>2, <1>3, <1>4, StopsSame, GentleVoices, HandKeeps, CalmStep

-----------------------------------------------------------------------------
(* The timing worker chooses, primes and reserves a target that was not heard *)

LEMMA NotReserved == ASSUME AirInv, worker.pc \in Ahead PROVE ~hand.pending
BY WorkerAhead

\* A step of the worker that leaves the decks, the calls and the fade as they are.
LEMMA ChoosingStep ==
  ASSUME AliveInv, PlaysOut, [Next]_vars,
         UNCHANGED <<deck, eng, todo>>,
         timing'.completion = timing.completion, timing'.from = timing.from,
         timing'.ftok = timing.ftok, SilencesSpent,
         \A d \in Deck, t \in Track : Chosen(d, t)' => Chosen(d, t) \/ Fresh(d, t),
         \A d \in Deck, t \in Track :
           Awaited(d, t)' /\ Holds(d, t)' => voice'[d][t] = "playing"
  PROVE  AliveInv'
<1>1. \A d \in Deck : Renewed(d) /\ Calm(d)
  BY DEF Renewed, Calm
<1>2. StopsHeard
  BY AliveTypes, StopsSame
<1>3. FadeHeard
  BY DEF FadeHeard, AliveInv, AliveCore, FadedSpent
<1> QED
  BY <1>1, <1>2, <1>3, AliveStep

LEMMA SameAwaited ==
  ASSUME AliveInv, UNCHANGED <<deck, voice, hand>>, worker'.pc # "arm"
  PROVE  \A d \in Deck, t \in Track : /\ Awaited(d, t)' => Awaited(d, t)
                                      /\ Awaited(d, t)' /\ Holds(d, t)' => voice'[d][t] = "playing"
<1>1. \A d \in Deck, t \in Track : Awaited(d, t)' => Awaited(d, t)
  BY DEF Awaited
<1> QED
  BY <1>1 DEF AliveInv, AliveCore, AwaitedAlive, Holds

LEMMA PollAlive ==
  ASSUME AliveInv, PlaysOut, [Next]_vars, Poll
  PROVE  AliveInv'
<1> DEFINE a == eng.active
           o == Other(a)
<1>1. /\ UNCHANGED <<deck, eng, timing, voice, hand, todo>>
      /\ worker'.pc = "polled" /\ worker'.from = a /\ worker'.ttok = deck[o].tok
      /\ worker'.usable => deck[o].tok # NoTrack /\ ~deck[o].started
  BY DEF Poll, control, output
<1>2. AirInv /\ o \in Deck /\ NoDeck \notin Deck
  BY AliveTypes, AirTypes, ConstantsAssumption DEF ConstantsAssumption
<1>3. worker'.usable => Fresh(o, worker'.ttok)
  <2> SUFFICES ASSUME worker'.usable PROVE Fresh(o, deck[o].tok)
    BY <1>1
  <2>1. home[deck[o].tok] = o
    BY <1>1, <1>2 DEF AirInv, Homes, Loaded
  <2> QED
    BY <1>1, <1>2, <2>1 DEF Fresh
<1>4. \A d \in Deck, t \in Track : Chosen(d, t)' => Chosen(d, t) \/ Fresh(d, t)
  BY <1>1, <1>3 DEF Chosen, Awaited
<1> QED
  BY <1>1, <1>4, SameAwaited, GentleSame, GentleVoices, ChoosingStep

\* Only a target that was found usable, beside the track still on the air, is primed.
LEMMA DecideAlive ==
  ASSUME AliveInv, PlaysOut, [Next]_vars, Decide
  PROVE  AliveInv'
<1>1. /\ UNCHANGED <<deck, eng, voice, hand, todo>> /\ worker.pc = "polled"
      /\ timing' = [timing EXCEPT !.scheduled = Kept(worker.ftok)]
      /\ AirInv /\ TimingType /\ WorkerType
  BY AliveTypes DEF Decide, output
<1>2. /\ timing'.completion = timing.completion /\ timing'.from = timing.from
      /\ timing'.ftok = timing.ftok
  BY <1>1 DEF TimingType
<1>3. \/ worker'.pc = "idle"
      \/ /\ Kept(worker.ftok) # worker.ftok /\ worker.usable
         /\ \E pc \in {"recheck", "prime", "fade"} : worker' = [worker EXCEPT !.pc = pc]
  <2>1. Sleeps \/ /\ Kept(worker.ftok) # worker.ftok /\ worker.usable
                  /\ \E pc \in {"recheck", "prime", "fade"} : Goes(pc)
    BY DEF Decide
  <2> QED
    BY <2>1 DEF Sleeps, Asleep, Goes
<1>4. worker'.pc # "idle" => /\ worker.usable /\ worker.from = eng.active
                             /\ worker'.from = worker.from /\ worker'.ttok = worker.ttok
                             /\ worker'.pc \in {"recheck", "prime", "fade"}
  BY <1>1, <1>3, PolledInHand DEF Kept, WorkerType
<1>5. worker'.pc \in {"idle", "recheck", "prime", "fade"}
  BY <1>4
<1>6. \A d \in Deck, t \in Track : Chosen(d, t)' => Chosen(d, t)
  BY <1>1, <1>4, <1>5 DEF Chosen, Awaited
<1> QED
  BY <1>1, <1>2, <1>5, <1>6, SameAwaited, GentleSame, GentleVoices, ChoosingStep

\* A step of the worker past its choice, which it gives up or has served.
LEMMA LeavesAlive ==
  ASSUME AliveInv, PlaysOut, [Next]_vars, UNCHANGED <<deck, eng, voice, hand, todo>>,
         timing'.completion = timing.completion, timing'.from = timing.from,
         timing'.ftok = timing.ftok, worker'.pc \in {"idle", "recover"}
  PROVE  AliveInv'
<1>1. \A d \in Deck, t \in Track : Chosen(d, t)' => Chosen(d, t)
  BY DEF Chosen, Awaited
<1> QED
  BY <1>1, SameAwaited, GentleSame, GentleVoices, ChoosingStep

\* wb_audio_probe_prime_deck makes a candidate play unless it was stopped before.
LEMMA PrimeAlive ==
  ASSUME AliveInv, PlaysOut, [Next]_vars, WorkerPrime
  PROVE  AliveInv'
<1> DEFINE d == Other(worker.from)
           t == worker.ttok
<1>1. /\ UNCHANGED <<deck, eng, timing, hand, todo>> /\ worker.pc = "prime"
      /\ AirInv /\ VoiceType /\ WorkerType /\ d \in Deck /\ ~hand.pending
  BY AliveTypes, OtherDeck, NotReserved DEF WorkerPrime, control, output, WorkerType, Ahead
<1>2. CASE PrimeFails(d, t) /\ Sleeps
  <2>1. voice' = voice /\ worker'.pc = "idle"
    BY <1>2 DEF PrimeFails, Sleeps, Asleep
  <2> QED
    BY <1>1, <2>1, LeavesAlive
<1>3. CASE PrimeVoice(d, t) /\ Goes("arm")
  <2>1. worker'.pc = "arm" /\ worker'.from = worker.from /\ worker'.ttok = t
    BY <1>1, <1>3 DEF Goes, WorkerType
  <2>2. \A x \in Deck, u \in Track : /\ Chosen(x, u)' => Chosen(x, u)
                                     /\ Awaited(x, u)' => x = d /\ u = t
    BY <1>1, <2>1 DEF Chosen, Awaited
  <2>3. Gentle
    BY <1>1, <1>3, PromoteGentle DEF PrimeVoice
  <2>4. t \in Track /\ Holds(d, t) => voice'[d][t] = "playing"
    <3> SUFFICES ASSUME t \in Track, Holds(d, t) PROVE voice'[d][t] = "playing"
      OBVIOUS
    <3>1. Fresh(d, t)
      BY <1>1 DEF Chosen, AliveInv, AliveCore, ChosenFresh
    <3>2. ~SilentIn(voice, d, t)
      BY <1>1, <3>1 DEF AliveInv, AliveCore, SilentSpent, Spent, Fresh, Holds
    <3>3. Promote(d, t, "playing")
      BY <1>3, <3>2 DEF PrimeVoice, SilentIn
    <3> QED
      BY <1>1, <3>3 DEF Promote, VoiceType
  <2> QED
    BY <1>1, <2>2, <2>3, <2>4, GentleVoices, ChoosingStep DEF Holds
<1> QED
  BY <1>2, <1>3 DEF WorkerPrime

LEMMA ArmAlive ==
  ASSUME AliveInv, PlaysOut, [Next]_vars, WorkerArm
  PROVE  AliveInv'
<1> DEFINE d == Other(worker.from)
           t == worker.ttok
<1>1. /\ UNCHANGED <<deck, eng, timing, voice, todo>> /\ worker.pc = "arm"
      /\ AirInv /\ WorkerType /\ ~hand.pending
  BY AliveTypes, NotReserved DEF WorkerArm, control, Ahead
<1>2. CASE Armable(worker.from, worker.ftok, d, t)
  <2>1. /\ hand'.to = d /\ hand'.ttok = t /\ worker'.pc = "store"
    BY <1>1, <1>2 DEF WorkerArm, Arm, Goes, WorkerType
  <2>2. \A x \in Deck, u \in Track : /\ Chosen(x, u)' => Chosen(x, u)
                                     /\ Awaited(x, u)' => Awaited(x, u)
    BY <1>1, <2>1 DEF Chosen, Awaited
  <2>3. \A x \in Deck, u \in Track :
          Awaited(x, u)' /\ Holds(x, u)' => voice'[x][u] = "playing"
    BY <1>1, <2>2 DEF AliveInv, AliveCore, AwaitedAlive, Holds
  <2> QED
    BY <1>1, <2>2, <2>3, GentleSame, GentleVoices, ChoosingStep
<1>3. CASE ~Armable(worker.from, worker.ftok, d, t)
  <2>1. hand' = hand /\ worker'.pc = "idle"
    BY <1>3 DEF WorkerArm, Sleeps, Asleep, output
  <2> QED
    BY <1>1, <2>1, LeavesAlive
<1> QED
  BY <1>2, <1>3

\* The worker makes the other deck heard; nothing is chosen any more.
LEMMA MoveAlive ==
  ASSUME AliveInv, PlaysOut, [Next]_vars, worker.pc \in Ahead, Sleeps,
         UNCHANGED <<voice, hand>>, \A d \in Deck : deck'[d].tok = deck[d].tok,
         StopsHeard, FadeHeard
  PROVE  AliveInv'
<1>1. ~hand'.pending /\ worker'.pc = "idle"
  BY NotReserved DEF Sleeps, Asleep, AliveInv
<1>2. \A d \in Deck, t \in Track : ~Chosen(d, t)' /\ ~Awaited(d, t)'
  BY <1>1 DEF Chosen, Awaited
<1>3. \A d \in Deck : Renewed(d)
  BY DEF Renewed
<1> QED
  BY <1>2, <1>3, GentleSame, GentleVoices, AliveStep

LEMMA RecoverAlive ==
  ASSUME AliveInv, PlaysOut, [Next]_vars, Recover
  PROVE  AliveInv'
<1> DEFINE f == worker.from
           d == Other(f)
           recovers == /\ StillCurrent /\ deck[f].terminal
                       /\ ~(deck[d].consumed \/ deck[d].terminal \/ deck[d].started)
           es == <<Call("stopOut", f, worker.ftok), Call("activate", d, worker.ttok),
                   Call("startVoice", d, worker.ttok)>>
<1>1. /\ worker.pc \in Ahead /\ Sleeps /\ UNCHANGED <<voice, hand>>
      /\ DeckType /\ TimingType /\ TodoType /\ StopsSpent /\ "timing" \in Thread
  BY AliveTypes, AirThreads DEF Recover, Ahead, output
<1>2. CASE recovers
  <2>1. /\ deck' = [x \in Deck |-> IF x = d THEN Started(deck[x]) ELSE Released(deck[x])]
        /\ timing' = [timing EXCEPT !.scheduled = worker.ftok] /\ Later("timing", es)
    BY <1>2 DEF Recover
  <2>2. \A x \in Deck : deck'[x].tok = deck[x].tok
    BY <1>1, <2>1, EmptyTypes DEF DeckType
  <2>3. es[1].op # "stopVoice" /\ es[2].op # "stopVoice" /\ es[3].op # "stopVoice"
    BY CallOps
  <2>4. StopsHeard
    <3>1. \A i \in 1..Len(es) : es[i].op # "stopVoice"
      BY <2>3
    <3> HIDE DEF es
    <3> QED
      BY <1>1, <2>1, <3>1, StopsLater
  <2>5. FadeHeard
    BY <1>1, <2>1 DEF FadeHeard, TimingType, AliveInv, AliveCore, FadedSpent
  <2> QED
    BY <1>1, <2>2, <2>4, <2>5, MoveAlive
<1>3. CASE ~recovers
  <2>1. UNCHANGED <<deck, eng, timing, todo>> /\ worker'.pc = "idle"
    BY <1>3 DEF Recover, control, Sleeps, Asleep
  <2> QED
    BY <1>1, <2>1, LeavesAlive
<1> QED
  BY <1>2, <1>3

\* What a crossfade is to stop at its end is the track it fades out.
LEMMA FadeAlive ==
  ASSUME AliveInv, PlaysOut, [Next]_vars, WorkerFade
  PROVE  AliveInv'
<1> DEFINE f == worker.from
           d == Other(f)
           es == <<CallFrom("fadeStart", d, NoTrack, f, NoTrack),
                   Call("activate", d, worker.ttok), Call("startVoice", d, worker.ttok)>>
<1>1. /\ worker.pc \in Ahead /\ Sleeps /\ UNCHANGED <<voice, hand>> /\ AirInv
      /\ DeckType /\ WorkerType /\ TodoType /\ StopsSpent /\ "timing" \in Thread
      /\ NoDeck \notin Deck
  BY AliveTypes, AirThreads, ConstantsAssumption DEF WorkerFade, Ahead, output,
     ConstantsAssumption
<1>2. CASE StillCurrent
  <2>1. /\ deck' = [deck EXCEPT ![d] = Started(@)] /\ Later("timing", es)
        /\ timing' = [scheduled |-> worker.ftok, completion |-> TRUE, entry |-> FALSE,
                      from |-> f, to |-> d, ftok |-> worker.ftok, ttok |-> worker.ttok]
    BY <1>2 DEF WorkerFade
  <2>2. \A x \in Deck : deck'[x].tok = deck[x].tok
    BY <1>1, <2>1, EmptyTypes DEF DeckType
  <2>3. es[1].op # "stopVoice" /\ es[2].op # "stopVoice" /\ es[3].op # "stopVoice"
    BY CallOps
  <2>4. StopsHeard
    <3>1. \A i \in 1..Len(es) : es[i].op # "stopVoice"
      BY <2>3
    <3> HIDE DEF es
    <3> QED
      BY <1>1, <2>1, <3>1, StopsLater
  <2>5. Spent(f, worker.ftok)
    <3>1. f \in Deck /\ Holds(f, worker.ftok) /\ deck[f].started
      BY <1>1, WorkerAhead DEF WorkerType
    <3>2. home[worker.ftok] = f
      BY <1>1, <3>1 DEF AirInv, Homes, Holds, Loaded
    <3> QED
      BY <1>1, <3>1, <3>2 DEF Spent
  <2>6. FadeHeard
    BY <2>1, <2>5 DEF FadeHeard
  <2> QED
    BY <1>1, <2>2, <2>4, <2>6, MoveAlive
<1>3. CASE ~StillCurrent
  <2>1. UNCHANGED <<deck, eng, timing, todo>> /\ worker'.pc = "idle"
    BY <1>3 DEF WorkerFade, control, Sleeps, Asleep
  <2> QED
    BY <1>1, <2>1, LeavesAlive
<1> QED
  BY <1>2, <1>3

LEMMA FinishAlive ==
  ASSUME AliveInv, PlaysOut, [Next]_vars, FinishTransition
  PROVE  AliveInv'
<1> DEFINE f == timing.from
           es == <<Call("fadeDone", timing.to, NoTrack), Call("stopVoice", f, timing.ftok),
                   Call("stopOut", f, timing.ftok)>>
<1>1. /\ UNCHANGED <<voice, hand, worker>> /\ timing.completion /\ Later("timing", es)
      /\ timing' = [timing EXCEPT !.completion = FALSE] /\ eng' = Settled
      /\ TimingType /\ DeckType /\ EngType /\ TodoType /\ StopsSpent /\ "timing" \in Thread
  BY AliveTypes, AirThreads DEF FinishTransition, output
<1>2. ~timing'.completion /\ eng'.active = eng.active
  BY <1>1 DEF TimingType, EngType, Settled
<1>3. \A d \in Deck : Calm(d)
  <2>1. \A s \in DeckState : Released(s).tok = s.tok /\ Released(s).started = s.started
    BY DEF Released, DeckState
  <2>2. \A d \in Deck : deck[d] \in DeckState
    BY <1>1 DEF DeckType
  <2>3. deck' = deck \/ deck' = [deck EXCEPT ![f] = Released(@)]
    BY DEF FinishTransition
  <2>4. \A d \in Deck : deck'[d] = deck[d] \/ deck'[d] = Released(deck[d])
    BY <1>1, <2>3 DEF DeckType
  <2> QED
    BY <2>1, <2>2, <2>4 DEF Calm
<1>4. /\ es[1].op = "fadeDone" /\ es[2].deck = f /\ es[2].tok = timing.ftok
      /\ es[3].op = "stopOut" /\ \A i \in 1..Len(es) : i \in {1, 2, 3}
  BY CallOps
<1>5. timing.ftok \in Track => Spent(f, timing.ftok)
  BY <1>1 DEF AliveInv, AliveCore, FadedSpent
<1>6. StopsHeard
  <2>1. ASSUME NEW i \in 1..Len(es), es[i].op = "stopVoice", es[i].tok \in Track
        PROVE  Spent(es[i].deck, es[i].tok)
    <3>1. i = 2
      BY <1>4, <2>1
    <3> QED
      BY <1>4, <1>5, <2>1, <3>1
  <2> HIDE DEF es
  <2> QED
    BY <1>1, <2>1, StopsLater
<1> QED
  BY <1>1, <1>2, <1>3, <1>6, GentleSame, GentleVoices, HandKeeps, CalmStep

LEMMA WorkerAlive ==
  ASSUME AliveInv, PlaysOut, [Next]_vars, TimingWorker
  PROVE  AliveInv'
<1>1. ~EnterScript
  BY DEF EnterScript, AliveInv, AirInv, Transition
<1>2. CASE Recheck
  <2>1. /\ UNCHANGED <<deck, eng, timing, voice, hand, todo>>
        /\ worker'.pc \in {"idle", "recover"}
    BY <1>2, AliveTypes DEF Recheck, control, output, Sleeps, Asleep, Goes, WorkerType
  <2> QED
    BY <2>1, LeavesAlive
<1>3. CASE WorkerStore
  <2>1. /\ UNCHANGED <<deck, eng, voice, hand, todo>> /\ worker'.pc = "idle"
        /\ timing' = [timing EXCEPT !.scheduled = worker.ftok] /\ TimingType
    BY <1>3, AliveTypes DEF WorkerStore, output, Sleeps, Asleep
  <2> QED
    BY <2>1, LeavesAlive DEF TimingType
<1>4. CASE Poll \/ FinishTransition \/ Decide \/ Recover \/ WorkerPrime \/ WorkerArm \/ WorkerFade
  BY <1>4, PollAlive, FinishAlive, DecideAlive, RecoverAlive, PrimeAlive, ArmAlive, FadeAlive
<1> QED
  BY <1>1, <1>2, <1>3, <1>4 DEF TimingWorker

-----------------------------------------------------------------------------
(* From a station that is on the air, to its switches *)

LEMMA AliveBeginning == ASSUME NEW t \in Track, OnAir(t) PROVE AliveInv
<1>1. AirInv /\ HandInv
  BY AirBeginning, HandBeginning DEF Beginning
<1>2. /\ todo = [th \in Thread |-> <<>>] /\ hand = NoHand /\ worker = Asleep
      /\ timing = NoTransition
      /\ voice = [d \in Deck |-> [u \in Track |-> IF d = "A" /\ u = t THEN "playing" ELSE "none"]]
  BY DEF OnAir
<1>3. ~hand.pending /\ worker.pc = "idle" /\ ~timing.completion
  BY <1>2 DEF NoHand, Asleep, NoTransition
<1>4. SilentSpent
  BY <1>2 DEF SilentSpent, SilentIn
<1>5. StopsSpent
  <2>1. \A th \in Thread : 1..Len(todo[th]) = {}
    BY <1>2
  <2> QED
    BY <2>1 DEF StopsSpent
<1>6. FadedSpent /\ ChosenFresh /\ AwaitedAlive
  BY <1>3 DEF FadedSpent, ChosenFresh, AwaitedAlive, Chosen, Awaited
<1> QED
  BY <1>1, <1>4, <1>5, <1>6 DEF AliveInv, AliveCore

LEMMA AliveNext == ASSUME AliveInv, PlaysOut, [Next]_vars PROVE AliveInv'
<1>1. CASE \E c \in Client : Request(c) \/ Handler(c)
  BY <1>1, RequestAlive, NoHandlerActs DEF AliveInv, AirInv
<1>2. CASE \E th \in Thread : Do(th)
  <2>1. PICK th \in Thread : Do(th)
    BY <1>2
  <2>2. CASE FinalizeHandoff(th)
    <3>1. AirInv /\ TodoType
      BY AliveTypes
    <3>2. th = "mixer"
      BY <2>2, <3>1, HeadCall, AirThreads DEF FinalizeHandoff, Doing, AirInv, AsideCalls,
         AsideOps, TimingCalls, TimingOps, DeckOps
    <3> QED
      BY <2>2, <3>2, FinalizeAlive
  <2> QED
    BY <2>1, <2>2, DoAlive
<1>3. CASE TimingWorker
  BY <1>3, WorkerAlive
<1>4. CASE MixSwitch \/ MixFadeDone \/ RestartPipeline \/ UNCHANGED vars
  BY <1>4, SwitchAlive, MixerAsideAlive
<1>5. CASE \E d \in Deck, t \in Track : DecoderReady(d, t) \/ DecoderFail(d, t) \/ DecoderEof(d, t)
  BY <1>5, DecoderAlive
<1>6. CASE \E d \in Deck : Analysis(d)
  BY <1>6, AnalysisAlive
<1> QED
  BY <1>1, <1>2, <1>3, <1>4, <1>5, <1>6 DEF Next

LEMMA AliveSwitches ==
  ASSUME AliveInv, hand.pending PROVE voice[hand.to][hand.ttok] = "playing"
<1>1. hand.to \in Deck /\ Holds(hand.to, hand.ttok)
  BY AliveTypes DEF AliveInv, HandInv, ReservationOwnsTarget, HandType
<1>2. hand.ttok \in Track
  BY <1>1, AliveTypes DEF Holds, DeckType, DeckState, Token
<1> QED
  BY <1>1, <1>2 DEF AliveInv, AliveCore, AwaitedAlive, Awaited

\* From a station on the air that its clients only load and pause, and none of whose
\* tracks is over within the 80 ms that are primed, the switch of a hard hand-off is
\* always to a voice whose decoder is alive (SwitchIsAlive): no end of a fade, earlier
\* hand-off, failed decoder or eviction of a candidate silences the target between the
\* prime and the boundary.
THEOREM SwitchesAreAlive ==
  ASSUME PlaysOut
  PROVE  (\E t \in Track : OnAir(t)) /\ [][Next]_vars => SwitchIsAlive
<1>1. (\E t \in Track : OnAir(t)) => AliveInv
  BY AliveBeginning
<1>2. AliveInv /\ [Next]_vars => AliveInv'
  BY AliveNext
<1>3. AliveInv => [Switches => voice[hand.to][hand.ttok] = "playing"]_vars
  BY AliveSwitches DEF Switches
<1> QED
  BY <1>1, <1>2, <1>3, PTL DEF SwitchIsAlive
=============================================================================
