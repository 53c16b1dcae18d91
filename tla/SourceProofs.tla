---------------------------- MODULE SourceProofs ----------------------------
(***************************************************************************)
(* Theorems about PriceSource, for every bound on the messages and on the  *)
(* socket's queue: the source is a caller of the engine that EngineProofs  *)
(* is about, and what it adds to that.                                     *)
(***************************************************************************)
EXTENDS PriceSource, EngineProofs

-----------------------------------------------------------------------------
\* Who holds mtx_, and nobody else, goes through the observers or adds one.
MtxHolder ==
  /\ mtx = "shared" <=> receiver = "delivering"
  /\ mtx = "unique" <=> mainAt \in {"insertTick", "insertKline"}

\* What the receiver has in its hands has parsed.
CurrentParsed ==
  IF receiver = "polling"
  THEN current = NoMessage
  ELSE current \in Messages /\ current.type # "malformed"

\* main adds one observer after the other, and sleeps when it has added both.
MainProgress ==
  /\ mainAt \in {"addKline", "insertKline", "sleeping"} => tick_oververs_
  /\ mainAt = "sleeping" => kline_observers_

\* Samples come one by one, so that no estimation is made without any.
WindowSize == IF BufSize = 0 THEN 1 ELSE BufSize

(* ExactWindows: fed by this source the windows have the configured size   *)
(* exactly, and an estimation is made from what had come when its own tick *)
(* came, nothing later: CausalPricing without the batch.                   *)
ExactWindows ==
  /\ params # "none" => Len(window) = WindowSize
  /\ est # NoEst => est.fed = est.tick /\ est.asOf <= est.tick

SourceInv ==
  /\ EngineInv
  /\ SourceTypeOK
  /\ batch = <<>>
  /\ MtxHolder
  /\ CurrentParsed
  /\ MainProgress
  /\ MessagesAccounted
  /\ ExactWindows

-----------------------------------------------------------------------------
(* A single sample makes the window at most as long as the buffer, and the *)
(* window that comes of it exactly as long.                                *)
LEMMA SingleFeed ==
  ASSUME EngineInv, SourceTypeOK, ExactWindows, NEW x \in Sample, Feed(<<x>>)
  PROVE  /\ samples' = samples + 1
         /\ params' # "none" => Len(window') = WindowSize
<1> DEFINE b == options_buffer_ \o <<x>>
<1>1. b \in Seq(Sample) /\ Len(b) = Len(options_buffer_) + 1
  BY DEF EngineInv, EngineTypeOK, EstTypeOK
<1>2. /\ Len(options_buffer_) < BufSize \/ Len(options_buffer_) = 0
      /\ Len(options_buffer_) \in Nat
  BY DEF EngineInv, Tumbling, EngineTypeOK, EstTypeOK
<1>3. samples' = samples + 1
  <2>1. Len(<<x>>) = 1
    OBVIOUS
  <2> QED
    BY <2>1 DEF Feed
<1>4. CASE Len(b) >= BufSize
  <2>1. PICK w \in SortedByTs(b) : window' = w
    BY <1>4 DEF Feed, estimate
  <2>2. Len(window') = Len(b)
    BY <1>1, <2>1, SortKeeps
  <2> HIDE DEF b
  <2> QED
    BY <1>1, <1>2, <1>3, <1>4, <2>2, EstimatorAssumption DEF WindowSize
<1>5. CASE ~(Len(b) >= BufSize)
  <2>1. UNCHANGED <<params, window>>
    BY <1>5 DEF Feed
  <2> QED
    BY <1>3, <2>1 DEF ExactWindows
<1> QED
  BY <1>4, <1>5

(* A kline goes to the engine as a vector of one.                          *)
LEMMA SingleVector == \A x \in Sample : <<x>> \in Vectors
<1> TAKE x \in Sample
<1>1. <<x>> \in [1..1 -> Sample] /\ 1 \in 0..MaxBatch
  BY EstimatorAssumption
<1> QED
  BY <1>1 DEF Vectors

(* What a message is a message of.                                         *)
LEMMA MessageContents ==
  \A m \in Messages :
    /\ m.type = "tick" => m.tick \in Tick
    /\ m.type = "kline" => m.kline \in Sample
BY DEF Messages

(* Whatever the source calls is a call of the engine, of one sample.       *)
LEMMA CallIsEngineStep ==
  ASSUME SourceInv, NEW m \in Messages, EngineCall(m)
  PROVE  /\ EngineNext
         /\ batch' = <<>>
         /\ samples' = samples + 1
         /\ params' # "none" => Len(window') = WindowSize
         /\ est' # NoEst => est'.fed = est'.tick
<1>1. CASE m.type = "tick" /\ onTick(m.tick)
  <2>1. m.tick \in Tick
    BY <1>1, MessageContents
  <2>2. SampleOf(m.tick) \in Sample /\ Feed(<<SampleOf(m.tick)>>)
    BY <1>1, <2>1 DEF onTick, EstOnTick, SampleOf, Sample, Tick
  <2>3. /\ samples' = samples + 1
        /\ params' # "none" => Len(window') = WindowSize
    BY <2>2, SingleFeed DEF SourceInv
  <2>4. batch' = <<>> /\ EngineTick(m.tick, samples', params', samples', windowEnd')
    BY <1>1 DEF onTick, Idle
  <2>5. est' # NoEst => est'.fed = est'.tick
    <3>1. CASE UNCHANGED est
      BY <3>1 DEF SourceInv, ExactWindows
    <3>2. CASE est' # est
      <4>1. PICK o \in Options, price \in PriceClasses :
              est' = [option |-> o, spot |-> spot_prices_[SpotOf[o]],
                      tick |-> samples', asOf |-> windowEnd', fed |-> samples',
                      expiry |-> expiry[o], price |-> price,
                      wire |-> onPriceEstimation(price)]
        BY <2>1, <2>4, <3>2, TickOutcome DEF SourceInv, EngineInv
      <4> QED
        BY <4>1
    <3> QED
      BY <3>1, <3>2
  <2>6. EngineNext
    BY <1>1, <2>1 DEF EngineNext
  <2> QED
    BY <2>3, <2>4, <2>5, <2>6
<1>2. CASE m.type = "kline" /\ onKlines(<<m.kline>>)
  <2>1. m.kline \in Sample /\ <<m.kline>> \in Vectors
    BY <1>2, MessageContents, SingleVector
  <2>2. Feed(<<m.kline>>) /\ batch' = <<>> /\ est' = est
    BY <1>2 DEF onKlines, EstOnKlines, engineVars, Idle
  <2>3. /\ samples' = samples + 1
        /\ params' # "none" => Len(window') = WindowSize
    BY <2>1, <2>2, SingleFeed DEF SourceInv
  <2>4. EngineNext
    BY <1>2, <2>1 DEF EngineNext
  <2> QED
    BY <2>2, <2>3, <2>4 DEF SourceInv, ExactWindows
<1> QED
  BY <1>1, <1>2 DEF EngineCall

(* After an engine's step the claims about windows and estimations hold    *)
(* again.                                                                  *)
LEMMA CallKeeps ==
  ASSUME SourceInv, NEW m \in Messages, EngineCall(m)
  PROVE  EngineInv' /\ batch' = <<>> /\ samples' = samples + 1 /\ ExactWindows'
<1>1. EngineInv'
  BY CallIsEngineStep, EngineStep DEF SourceInv
<1>2. est' # NoEst => est'.asOf <= est'.tick
  BY <1>1, CallIsEngineStep DEF EngineInv, CausalPricing
<1> QED
  BY <1>1, <1>2, CallIsEngineStep DEF ExactWindows

(* Steps of the source beside the engine.                                  *)
LEMMA Untouched ==
  ASSUME SourceInv, UNCHANGED allVars
  PROVE  EngineInv' /\ batch' = <<>> /\ samples' = samples /\ ExactWindows'
<1>1. EngineInv'
  BY EngineStep DEF SourceInv
<1> QED
  BY <1>1 DEF allVars, estVars, engineVars, SourceInv, ExactWindows

(* The clock moves no sample.                                              *)
LEMMA ClockKeeps ==
  ASSUME SourceInv, NEW o \in Options, Expire(o)
  PROVE  EngineInv' /\ batch' = <<>> /\ samples' = samples /\ ExactWindows'
<1>1. EngineInv'
  BY EngineStep DEF SourceInv, EngineNext
<1> QED
  BY <1>1 DEF Expire, estVars, SourceInv, ExactWindows

(* Before the first message nobody has the lock.                           *)
LEMMA SourceStarts == SourceInit => SourceInv
<1> SUFFICES ASSUME SourceInit PROVE SourceInv
  OBVIOUS
<1>1. EngineInv /\ batch = <<>> /\ samples = 0 /\ params = "none" /\ est = NoEst
  BY EngineStarts DEF SourceInit, EngineInit, EstInit
<1>2. SourceTypeOK
  <2>1. 0 \in 0..MaxMessages /\ <<>> \in Seq(Messages) /\ Len(<<>>) <= MaxQueue
    BY SourceAssumption
  <2> QED
    BY <1>1, <2>1 DEF SourceInit, SourceTypeOK, MtxReleased, EngineInv
<1> QED
  BY <1>1, <1>2 DEF SourceInit, SourceInv, MtxHolder, CurrentParsed, MainProgress,
                    MessagesAccounted, ExactWindows

\* The numbers of MessagesAccounted.
Counts ==
  /\ arrived \in Nat /\ discarded \in Nat /\ missed \in Nat /\ samples \in Nat
  /\ Len(queue) \in Nat /\ arrived <= MaxMessages

(* They are numbers.                                                       *)
LEMMA CountsAreNumbers == SourceInv => Counts
BY SourceAssumption, EstimatorAssumption
   DEF SourceInv, SourceTypeOK, Counts, EngineTypeOK, EstTypeOK

(* A message arrives, or is taken from the queue.                          *)
LEMMA QueueKeeps ==
  ASSUME SourceInv, (\E m \in Messages : Arrive(m)) \/ Recv
  PROVE  SourceInv'
<1>0. Counts /\ queue \in Seq(Messages) /\ Len(queue) <= MaxQueue
  BY CountsAreNumbers DEF SourceInv, SourceTypeOK
<1>1. ASSUME NEW m \in Messages, Arrive(m) PROVE SourceInv'
  <2>1. EngineInv' /\ batch' = <<>> /\ samples' = samples /\ ExactWindows'
    BY <1>1, Untouched DEF Arrive
  <2>2. /\ queue' \in Seq(Messages) /\ Len(queue') = Len(queue) + 1
        /\ Len(queue) < MaxQueue
    BY <1>0, <1>1 DEF Arrive
  <2>3. /\ arrived' = arrived + 1 /\ arrived < MaxMessages
        /\ UNCHANGED <<receiver, current, mtx, tick_oververs_, kline_observers_,
                       mainAt, discarded, missed>>
    BY <1>1 DEF Arrive
  <2>4. SourceTypeOK'
    <3>1. Len(queue') <= MaxQueue /\ arrived' \in 0..MaxMessages
      BY <1>0, <2>2, <2>3, SourceAssumption DEF Counts
    <3> QED
      BY <2>1, <2>2, <2>3, <3>1
         DEF SourceInv, SourceTypeOK, MtxReleased, EngineInv
  <2>5. MessagesAccounted'
    BY <1>0, <2>1, <2>2, <2>3 DEF SourceInv, MessagesAccounted, Counts
  <2> QED
    BY <2>1, <2>3, <2>4, <2>5
       DEF SourceInv, MtxHolder, CurrentParsed, MainProgress
<1>2. CASE Recv
  <2>1. EngineInv' /\ batch' = <<>> /\ samples' = samples /\ ExactWindows'
    BY <1>2, Untouched DEF Recv
  <2>2. /\ Head(queue) \in Messages /\ queue' \in Seq(Messages)
        /\ Len(queue') = Len(queue) - 1 /\ Len(queue) > 0
    BY <1>0, <1>2 DEF Recv
  <2>3. /\ receiver = "polling"
        /\ UNCHANGED <<mtx, tick_oververs_, kline_observers_, mainAt, arrived, missed>>
    BY <1>2 DEF Recv
  <2>4. \/ discarded' = discarded + 1 /\ UNCHANGED <<receiver, current>>
        \/ /\ Head(queue).type # "malformed"
           /\ receiver' = "locking" /\ current' = Head(queue)
           /\ UNCHANGED discarded
    BY <1>2 DEF Recv
  <2>5. MessagesAccounted'
    <3>1. arrived = Len(queue) + discarded + missed + samples
      BY <1>0, <2>3 DEF SourceInv, MessagesAccounted, Counts
    <3>2. CASE discarded' = discarded + 1 /\ UNCHANGED <<receiver, current>>
      BY <1>0, <2>1, <2>2, <2>3, <3>1, <3>2 DEF MessagesAccounted, Counts
    <3>3. CASE receiver' = "locking" /\ UNCHANGED discarded
      BY <1>0, <2>1, <2>2, <2>3, <3>1, <3>3 DEF MessagesAccounted, Counts
    <3> QED
      BY <2>4, <3>2, <3>3
  <2>6. discarded' \in 0..MaxMessages
    <3>1. arrived = Len(queue) + discarded + missed + samples
      BY <1>0, <2>3 DEF SourceInv, MessagesAccounted, Counts
    <3>2. discarded' \in {discarded, discarded + 1}
      BY <2>4
    <3> QED
      BY <1>0, <2>2, <3>1, <3>2, SourceAssumption DEF Counts
  <2>7. SourceTypeOK'
    <3>1. Len(queue') <= MaxQueue
      BY <1>0, <2>2, SourceAssumption DEF Counts
    <3> QED
      BY <2>1, <2>2, <2>3, <2>4, <2>6, <3>1
         DEF SourceInv, SourceTypeOK, MtxReleased, EngineInv
  <2>8. MtxHolder' /\ CurrentParsed' /\ MainProgress'
    BY <2>2, <2>3, <2>4 DEF SourceInv, MtxHolder, CurrentParsed, MainProgress
  <2> QED
    BY <2>1, <2>5, <2>7, <2>8 DEF SourceInv
<1> QED
  BY <1>1, <1>2

(* The turns at the lock: the receiver's, and main's.                      *)
LEMMA LockKeeps ==
  ASSUME SourceInv, LockShared \/ LockUnique \/ Insert
  PROVE  SourceInv'
<1>1. EngineInv' /\ batch' = <<>> /\ samples' = samples /\ ExactWindows'
  BY Untouched DEF LockShared, LockUnique, Insert
<1>2. UNCHANGED <<queue, current, arrived, discarded, missed>>
  BY DEF LockShared, LockUnique, Insert
<1>3. CASE LockShared
  <2>1. SourceTypeOK'
    BY <1>1, <1>2, <1>3 DEF LockShared, SourceInv, SourceTypeOK, MtxReleased, MtxHolder,
                            EngineInv
  <2> QED
    BY <1>1, <1>2, <1>3, <2>1
       DEF LockShared, SourceInv, MtxHolder, CurrentParsed, MainProgress,
           MessagesAccounted
<1>4. CASE LockUnique
  <2>1. SourceTypeOK'
    BY <1>1, <1>2, <1>4 DEF LockUnique, SourceInv, SourceTypeOK, MtxReleased, MtxHolder,
                            EngineInv
  <2> QED
    BY <1>1, <1>2, <1>4, <2>1
       DEF LockUnique, SourceInv, MtxHolder, CurrentParsed, MainProgress,
           MessagesAccounted
<1>5. CASE Insert
  <2>1. SourceTypeOK'
    BY <1>1, <1>2, <1>5 DEF Insert, SourceInv, SourceTypeOK, MtxReleased, EngineInv
  <2>2. MainProgress'
    BY <1>5 DEF Insert, SourceInv, SourceTypeOK, MainProgress
  <2>3. MtxHolder'
    BY <1>5 DEF Insert, SourceInv, MtxHolder
  <2> QED
    BY <1>1, <1>2, <1>5, <2>1, <2>2, <2>3
       DEF Insert, SourceInv, CurrentParsed, MessagesAccounted
<1> QED
  BY <1>3, <1>4, <1>5

(* A message is dealt with: a sample, or counted as lost.                  *)
LEMMA DeliverKeeps ==
  ASSUME SourceInv, Deliver
  PROVE  SourceInv'
<1>0. Counts /\ arrived = Len(queue) + 1 + discarded + missed + samples
  BY CountsAreNumbers DEF Deliver, SourceInv, MessagesAccounted
<1>1. /\ receiver = "delivering" /\ receiver' = "polling" /\ current' = NoMessage
      /\ mtx = "shared" /\ mtx' = "free"
      /\ current \in Messages
      /\ UNCHANGED <<queue, tick_oververs_, kline_observers_, mainAt, arrived>>
  BY DEF Deliver, SourceInv, MtxHolder, CurrentParsed
<1>2. /\ EngineInv' /\ batch' = <<>> /\ ExactWindows'
      /\ arrived = Len(queue) + discarded' + missed' + samples'
      /\ discarded' \in {discarded, discarded + 1} /\ missed' \in {missed, missed + 1}
  <2>1. CASE EngineCall(current) /\ UNCHANGED <<discarded, missed>>
    <3>1. EngineInv' /\ batch' = <<>> /\ samples' = samples + 1 /\ ExactWindows'
      BY <1>1, <2>1, CallKeeps
    <3> QED
      BY <1>0, <2>1, <3>1 DEF Counts
  <2>2. CASE /\ UNCHANGED allVars
             /\ \/ discarded' = discarded + 1 /\ UNCHANGED missed
                \/ missed' = missed + 1 /\ UNCHANGED discarded
    <3>1. EngineInv' /\ batch' = <<>> /\ samples' = samples /\ ExactWindows'
      BY <2>2, Untouched
    <3> QED
      BY <1>0, <2>2, <3>1 DEF Counts
  <2> QED
    BY <2>1, <2>2 DEF Deliver
<1>3. Counts'
  <2>1. samples' \in Nat
    BY <1>2, EstimatorAssumption DEF EngineInv, EngineTypeOK, EstTypeOK
  <2>2. discarded' \in Nat /\ missed' \in Nat
    BY <1>0, <1>2 DEF Counts
  <2>3. arrived' = arrived /\ queue' = queue
    BY <1>1
  <2> QED
    BY <1>0, <2>1, <2>2, <2>3 DEF Counts
<1>4. MessagesAccounted'
  <2>1. arrived = Len(queue) + discarded' + missed' + samples'
    BY <1>2
  <2>2. arrived' = arrived /\ queue' = queue /\ receiver' = "polling"
    BY <1>1
  <2>3. Counts'
    BY <1>3
  <2> QED
    BY <1>0, <2>1, <2>2, <2>3 DEF MessagesAccounted, Counts
<1>5. discarded' \in 0..MaxMessages /\ missed' \in 0..MaxMessages
  <2>1. arrived' = Len(queue') + discarded' + missed' + samples'
    BY <1>1, <1>3, <1>4 DEF MessagesAccounted, Counts
  <2> QED
    BY <1>3, <2>1, SourceAssumption DEF Counts
<1>6. MtxHolder' /\ MtxReleased'
  BY <1>1 DEF SourceInv, MtxHolder, MtxReleased
<1>7. SourceTypeOK'
  BY <1>1, <1>2, <1>5, <1>6 DEF SourceInv, SourceTypeOK, EngineInv
<1>8. CurrentParsed' /\ MainProgress'
  BY <1>1 DEF SourceInv, CurrentParsed, MainProgress
<1> QED
  BY <1>2, <1>4, <1>6, <1>7, <1>8 DEF SourceInv

(* Every step of the process keeps the invariant ...                       *)
LEMMA SourceStep == SourceInv /\ [SourceNext]_processVars => SourceInv'
<1> SUFFICES ASSUME SourceInv, [SourceNext]_processVars PROVE SourceInv'
  OBVIOUS
<1>1. CASE Clock
  <2>1. EngineInv' /\ batch' = <<>> /\ samples' = samples /\ ExactWindows'
    BY <1>1, ClockKeeps DEF Clock
  <2>2. SourceTypeOK'
    BY <1>1, <2>1 DEF Clock, sourceVars, SourceInv, SourceTypeOK, MtxReleased, EngineInv
  <2> QED
    BY <1>1, <2>1, <2>2 DEF Clock, sourceVars, SourceInv, MtxHolder, CurrentParsed,
                            MainProgress, MessagesAccounted
<1>2. CASE UNCHANGED processVars
  <2>1. EngineInv' /\ batch' = <<>> /\ samples' = samples /\ ExactWindows'
    BY <1>2, Untouched DEF processVars
  <2>2. SourceTypeOK'
    BY <1>2, <2>1 DEF processVars, sourceVars, SourceInv, SourceTypeOK, MtxReleased,
                      EngineInv
  <2> QED
    BY <1>2, <2>1, <2>2 DEF processVars, sourceVars, SourceInv, MtxHolder,
                            CurrentParsed, MainProgress, MessagesAccounted
<1> QED
  BY <1>1, <1>2, QueueKeeps, LockKeeps, DeliverKeeps DEF SourceNext, run, main

(* ... and is a call of the engine, the clock, or nothing to the engine.   *)
LEMMA SourceStepsEngine == SourceInv /\ [SourceNext]_processVars => [EngineNext]_allVars
<1> SUFFICES ASSUME SourceInv, [SourceNext]_processVars PROVE [EngineNext]_allVars
  OBVIOUS
<1>1. CASE Deliver
  <2>1. current \in Messages
    BY <1>1 DEF Deliver, SourceInv, CurrentParsed
  <2>2. CASE EngineCall(current)
    BY <2>1, <2>2, CallIsEngineStep
  <2>3. CASE UNCHANGED allVars
    BY <2>3
  <2> QED
    BY <1>1, <2>2, <2>3 DEF Deliver
<1>2. CASE Clock
  BY <1>2 DEF Clock, EngineNext
<1>3. CASE \/ \E m \in Messages : Arrive(m)
           \/ Recv \/ LockShared \/ main \/ UNCHANGED processVars
  BY <1>3 DEF Arrive, Recv, LockShared, main, LockUnique, Insert, processVars
<1> QED
  BY <1>1, <1>2, <1>3 DEF SourceNext, run

(* The source is a caller of the engine such as PricingEngine assumes: one *)
(* call at a time, of the values it has types for.                         *)
THEOREM SourceImplementsEngine == SourceSpec => ImplementsEngine
<1>1. SourceInit => EngineInit
  BY DEF SourceInit
<1> QED
  BY <1>1, SourceStarts, SourceStep, SourceStepsEngine, PTL
     DEF SourceSpec, ImplementsEngine, EngineSpec

(* What is shown of the engine and of its windows, in the process.         *)
THEOREM SourceKeepsEngine ==
  SourceSpec => [](Tumbling /\ DefaultIffTies /\ FreshParameters /\ CausalPricing)
BY SourceImplementsEngine, EngineCorrect, EngineDefaults, PTL DEF ImplementsEngine

(* In the process too nothing but the Monte Carlo branch makes a price the *)
(* sink cannot convert.                                                    *)
THEOREM SourceUndefinedIsMonteCarlo == SourceSpec => UndefinedOnlyFromGrid
BY SourceImplementsEngine, UndefinedIsMonteCarlo, PTL DEF ImplementsEngine

(* No message is lost or handed on twice between the socket and the        *)
(* estimator; no observer is added while the receiver goes through them;   *)
(* the windows of a process fed by this source have exactly the configured *)
(* size, and its estimations use nothing that came after their tick.       *)
THEOREM SourceCorrect ==
  SourceSpec =>
    [](SourceTypeOK /\ NoInsertWhileDelivering /\ MessagesAccounted /\ ExactWindows)
<1>1. SourceInv =>
        SourceTypeOK /\ NoInsertWhileDelivering /\ MessagesAccounted /\ ExactWindows
  BY DEF SourceInv, MtxHolder, NoInsertWhileDelivering
<1> QED
  BY <1>1, SourceStarts, SourceStep, PTL DEF SourceSpec

(* Once main has added both observers every tick and kline finds one.      *)
THEOREM NothingMissed == SourceSpec => MissedOnlyAtStart
<1>1. SourceInv /\ [SourceNext]_processVars => (missed' # missed => mainAt # "sleeping")
  <2> SUFFICES ASSUME SourceInv, [SourceNext]_processVars, missed' # missed
               PROVE  mainAt # "sleeping"
    OBVIOUS
  <2>1. Deliver /\ ~Observed(current) /\ current.type # "unknown"
    BY DEF SourceNext, Arrive, run, Recv, LockShared, Deliver, main, LockUnique, Insert,
           Clock, processVars, sourceVars
  <2>2. current \in Messages /\ current.type # "malformed"
    BY <2>1 DEF Deliver, SourceInv, CurrentParsed
  <2>3. current.type \in {"tick", "kline"}
    BY <2>1, <2>2 DEF Messages
  <2> QED
    BY <2>1, <2>3 DEF SourceInv, MainProgress, Observed
<1> QED
  BY <1>1, SourceStarts, SourceStep, PTL DEF SourceSpec, MissedOnlyAtStart
=============================================================================
