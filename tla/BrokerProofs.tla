---------------------------- MODULE BrokerProofs ----------------------------
(***************************************************************************)
(* Theorems about Broker, for every set of streams and every number of     *)
(* observations.                                                           *)
(***************************************************************************)
EXTENDS Broker, TLAPS

(* Every step keeps the variables in their types: channels hold at most    *)
(* one item and the fan-out only visits subscribed channels.               *)
LEMMA TypeStep == TypeOK /\ BrokerInv /\ [Next]_vars => TypeOK'
<1> SUFFICES ASSUME TypeOK, BrokerInv, [Next]_vars PROVE TypeOK'
  OBVIOUS
<1> USE BrokerAssumption DEF TypeOK, Obs, HasRoom, Selecting, brokerVars, streamVars
<1>1. CASE Publish
  BY <1>1 DEF Publish
<1>2. CASE TakeSub
  BY <1>2 DEF TakeSub
<1>3. CASE TakeUnsub
  BY <1>3 DEF TakeUnsub
<1>4. CASE TakePublish
  BY <1>4 DEF TakePublish
<1>5. CASE Stop
  BY <1>5 DEF Stop
<1>6. CASE Close
  BY <1>6 DEF Close
<1>7. CASE CancelBroker
  BY <1>7 DEF CancelBroker
<1>8. ASSUME NEW s \in Streams, Offer(s) PROVE TypeOK'
  <2>1. msg \in Obs
    <3>1. holding[s] \in 0..MaxObs /\ holding[s] < msg
      BY <1>8 DEF Offer, BrokerInv, StreamOrder
    <3> QED
      BY <3>1
  <2> QED
    BY <1>8, <2>1 DEF Offer
<1>9. ASSUME NEW s \in Streams, StreamOpen(s) PROVE TypeOK'
  BY <1>9 DEF StreamOpen
<1>10. ASSUME NEW s \in Streams, Subscribe(s) PROVE TypeOK'
  BY <1>10 DEF Subscribe
<1>11. ASSUME NEW s \in Streams, StreamDone(s) PROVE TypeOK'
  BY <1>11 DEF StreamDone
<1>12. ASSUME NEW s \in Streams, StreamTake(s) PROVE TypeOK'
  BY <1>12 DEF StreamTake
<1>13. ASSUME NEW s \in Streams, YieldOk(s) PROVE TypeOK'
  <2>1. holding[s] \in Obs
    BY <1>13 DEF YieldOk, BrokerInv, StreamPhase
  <2>2. Append(delivered[s], holding[s]) \in Seq(Obs)
    BY <2>1
  <2> QED
    BY <1>13, <2>2 DEF YieldOk
<1>14. ASSUME NEW s \in Streams, YieldFail(s) PROVE TypeOK'
  BY <1>14 DEF YieldFail
<1>15. ASSUME NEW s \in Streams, Unsubscribe(s) PROVE TypeOK'
  BY <1>15 DEF Unsubscribe
<1>16. ASSUME NEW s \in Streams, CancelStream(s) PROVE TypeOK'
  BY <1>16 DEF CancelStream
<1>17. CASE UNCHANGED vars
  BY <1>17 DEF vars
<1> QED
  BY <1>1, <1>2, <1>3, <1>4, <1>5, <1>6, <1>7, <1>8, <1>9, <1>10, <1>11,
     <1>12, <1>13, <1>14, <1>15, <1>16, <1>17
     DEF Next, BrokerLoop, StreamStep

(* The broker's part of the invariant under the steps that leave every     *)
(* stream alone.                                                           *)
LEMMA BrokerSteps ==
  ASSUME TypeOK, BrokerInv,
         Publish \/ TakeSub \/ TakeUnsub \/ TakePublish \/ Stop \/ Close \/ CancelBroker
  PROVE  BrokerInv'
<1> USE BrokerAssumption DEF TypeOK, Obs, HasRoom, Selecting, streamVars, BrokerInv
<1>1. CASE Publish
  <2>1. PublishPipeline'
    BY <1>1 DEF Publish, PublishPipeline
  <2>2. \A s \in Streams : StreamOrder(s)' /\ StreamPhase(s)'
    BY <1>1 DEF Publish, StreamOrder, StreamPhase
  <2>3. (Registered /\ FreshTargets /\ FreshStart)'
    BY <1>1 DEF Publish, Registered, FreshTargets, FreshStart
  <2> QED
    BY <2>1, <2>2, <2>3
<1>2. CASE TakeSub
  <2>1. \A s \in Streams : StreamOrder(s)' /\ StreamPhase(s)'
    BY <1>2 DEF TakeSub, StreamOrder, StreamPhase
  <2>2. (PublishPipeline /\ Registered /\ FreshTargets /\ FreshStart)'
    BY <1>2 DEF TakeSub, PublishPipeline, Registered, FreshTargets, FreshStart
  <2> QED
    BY <2>1, <2>2
<1>3. CASE TakeUnsub
  <2>1. \A s \in Streams : StreamOrder(s)' /\ StreamPhase(s)'
    BY <1>3 DEF TakeUnsub, StreamOrder, StreamPhase
  <2>2. Registered'
    \* what leaves the map was in unsubCh, so its stream is done
    BY <1>3 DEF TakeUnsub, Registered, StreamPhase
  <2>3. (PublishPipeline /\ FreshTargets /\ FreshStart)'
    BY <1>3 DEF TakeUnsub, PublishPipeline, FreshTargets, FreshStart
  <2> QED
    BY <2>1, <2>2, <2>3
<1>4. CASE TakePublish
  <2>1. publishCh = {published} /\ published = msg + 1 /\ msg' = published
    BY <1>4 DEF TakePublish, PublishPipeline
  <2>2. PublishPipeline'
    BY <1>4, <2>1 DEF TakePublish, PublishPipeline
  <2>3. \A s \in Streams : StreamOrder(s)'
    BY <1>4, <2>1 DEF TakePublish, StreamOrder
  <2>4. \A s \in Streams : StreamPhase(s)'
    BY <1>4 DEF TakePublish, StreamPhase
  <2>5. (Registered /\ FreshTargets /\ FreshStart)'
    BY <1>4, <2>1 DEF TakePublish, Registered, FreshTargets, FreshStart
  <2> QED
    BY <2>2, <2>3, <2>4, <2>5
<1>5. CASE Stop \/ Close \/ CancelBroker
  <2>1. UNCHANGED <<published, publishCh, subCh, unsubCh, subscriptions, msg,
                    targets, streamVars>>
    BY <1>5 DEF Stop, Close, CancelBroker
  <2> QED
    BY <2>1 DEF PublishPipeline, StreamOrder, StreamPhase, Registered,
                FreshTargets, FreshStart
<1> QED
  BY <1>1, <1>2, <1>3, <1>4, <1>5

(* The invariant under an offer: the observation joins the end of the      *)
(* stream's line or is dropped.                                            *)
LEMMA OfferStep ==
  ASSUME TypeOK, BrokerInv, NEW s \in Streams, Offer(s)
  PROVE  BrokerInv'
<1> USE BrokerAssumption DEF TypeOK, Obs, HasRoom, BrokerInv
<1>1. \A r \in Streams : StreamOrder(r)'
  BY DEF Offer, StreamOrder
<1>2. \A r \in Streams : StreamPhase(r)'
  BY DEF Offer, StreamPhase
<1>3. (PublishPipeline /\ Registered /\ FreshTargets)'
  BY DEF Offer, PublishPipeline, Registered, FreshTargets
<1>4. FreshStart'
  <2>1. msg >= since[s] /\ UNCHANGED <<since, holding, delivered>>
    BY DEF Offer, FreshTargets
  <2>0. \A r \in Streams : \A m \in inbox[r] : m >= since[r]
    BY DEF FreshStart
  <2>2. \A r \in Streams : \A m \in inbox'[r] : m >= since[r]
    <3>1. CASE HasRoom(inbox[s])
      <4>1. inbox' = [inbox EXCEPT ![s] = {msg}]
        BY <3>1 DEF Offer
      <4> QED
        BY <2>0, <2>1, <4>1
    <3>2. CASE ~HasRoom(inbox[s])
      BY <2>0, <3>2 DEF Offer
    <3> QED
      BY <3>1, <3>2
  <2> QED
    BY <2>1, <2>2 DEF FreshStart
<1> QED
  BY <1>1, <1>2, <1>3, <1>4

(* The invariant under the steps of a stream's goroutine and of its        *)
(* caller.                                                                 *)
LEMMA StreamSteps ==
  ASSUME TypeOK, BrokerInv, NEW s \in Streams, StreamStep(s) \/ CancelStream(s)
  PROVE  BrokerInv'
<1> USE BrokerAssumption DEF TypeOK, Obs, HasRoom, brokerVars, BrokerInv
<1>1. CASE StreamOpen(s)
  <2>1. s \notin subCh \cup subscriptions /\ inbox[s] = {} /\ delivered[s] = <<>>
        /\ holding[s] = 0 /\ s \notin targets
    BY <1>1 DEF StreamOpen, StreamPhase
  <2>2. \A r \in Streams : StreamOrder(r)' /\ StreamPhase(r)'
    BY <1>1, <2>1 DEF StreamOpen, StreamOrder, StreamPhase
  <2>3. (PublishPipeline /\ Registered)'
    BY <1>1 DEF StreamOpen, PublishPipeline, Registered
  <2>4. (FreshTargets /\ FreshStart)'
    BY <1>1, <2>1 DEF StreamOpen, FreshTargets, FreshStart
  <2> QED
    BY <2>2, <2>3, <2>4
<1>2. CASE Subscribe(s)
  BY <1>2 DEF Subscribe, PublishPipeline, StreamOrder, StreamPhase, Registered,
              FreshTargets, FreshStart
<1>3. CASE StreamDone(s)
  BY <1>3 DEF StreamDone, PublishPipeline, StreamOrder, StreamPhase, Registered,
              FreshTargets, FreshStart
<1>4. CASE StreamTake(s)
  <2>1. \A r \in Streams : StreamOrder(r)'
    BY <1>4 DEF StreamTake, StreamOrder
  <2>2. \A r \in Streams : StreamPhase(r)'
    BY <1>4 DEF StreamTake, StreamPhase, StreamOrder
  <2>3. (PublishPipeline /\ Registered /\ FreshTargets)'
    BY <1>4 DEF StreamTake, PublishPipeline, Registered, FreshTargets
  <2>4. FreshStart'
    BY <1>4 DEF StreamTake, FreshStart
  <2> QED
    BY <2>1, <2>2, <2>3, <2>4
<1>5. CASE YieldOk(s)
  <2> DEFINE d == Append(delivered[s], holding[s])
  <2>1. /\ delivered' = [delivered EXCEPT ![s] = d]
        /\ Len(d) = Len(delivered[s]) + 1
        /\ \A i \in 1..Len(delivered[s]) : d[i] = delivered[s][i]
        /\ d[Len(d)] = holding[s]
        /\ holding[s] # 0
    BY <1>5 DEF YieldOk, StreamPhase
  <2>2. \A i \in 1..Len(d) : i \in 1..Len(delivered[s]) \/ d[i] = holding[s]
    BY <2>1
  <2> HIDE DEF d
  <2>3. \A r \in Streams : StreamOrder(r)'
    BY <1>5, <2>1, <2>2 DEF YieldOk, StreamOrder
  <2>4. \A r \in Streams : StreamPhase(r)'
    BY <1>5, <2>1, <2>2 DEF YieldOk, StreamPhase
  <2>5. (PublishPipeline /\ Registered /\ FreshTargets)'
    BY <1>5 DEF YieldOk, PublishPipeline, Registered, FreshTargets
  <2>6. FreshStart'
    BY <1>5, <2>1, <2>2 DEF YieldOk, FreshStart
  <2> QED
    BY <2>3, <2>4, <2>5, <2>6
<1>6. CASE YieldFail(s)
  BY <1>6 DEF YieldFail, PublishPipeline, StreamOrder, StreamPhase, Registered,
              FreshTargets, FreshStart
<1>7. CASE Unsubscribe(s)
  BY <1>7 DEF Unsubscribe, PublishPipeline, StreamOrder, StreamPhase, Registered,
              FreshTargets, FreshStart
<1>8. CASE CancelStream(s)
  BY <1>8 DEF CancelStream, PublishPipeline, StreamOrder, StreamPhase, Registered,
              FreshTargets, FreshStart
<1> QED
  BY <1>1, <1>2, <1>3, <1>4, <1>5, <1>6, <1>7, <1>8 DEF StreamStep

LEMMA InitInv == Init => TypeOK /\ BrokerInv
<1> SUFFICES ASSUME Init PROVE TypeOK /\ BrokerInv
  OBVIOUS
<1>1. TypeOK
  <2>1. <<>> \in Seq(Obs)
    OBVIOUS
  <2>2. MaxObs \in Nat
    BY BrokerAssumption
  <2>3. inbox \in [Streams -> SUBSET Obs] /\ delivered \in [Streams -> Seq(Obs)]
    BY <2>1 DEF Init
  <2>4. /\ pc \in [Streams -> {"idle", "subscribing", "looping", "yielding",
                               "unsubscribing", "done"}]
        /\ cancelled \in [Streams -> BOOLEAN]
        /\ holding \in [Streams -> 0..MaxObs]
        /\ since \in [Streams -> 0..MaxObs]
    BY <2>2 DEF Init
  <2>5. published \in 0..MaxObs /\ msg \in 0..MaxObs
    BY <2>2 DEF Init
  <2>6. publishCh \subseteq Obs /\ subCh \subseteq Streams /\ unsubCh \subseteq Streams
        /\ subscriptions \subseteq Streams /\ targets \subseteq subscriptions
    BY DEF Init
  <2>7. stopCh \in BOOLEAN /\ brokerCtx \in BOOLEAN /\ running \in BOOLEAN
        /\ (\A s, t \in subCh : s = t) /\ (\A s, t \in unsubCh : s = t)
    BY DEF Init
  <2> QED
    BY <2>3, <2>4, <2>5, <2>6, <2>7 DEF TypeOK
<1>2. BrokerInv
  BY BrokerAssumption DEF Init, BrokerInv, PublishPipeline, StreamOrder,
     StreamPhase, Registered, FreshTargets, FreshStart
<1> QED
  BY <1>1, <1>2

LEMMA InvStep == TypeOK /\ BrokerInv /\ [Next]_vars => BrokerInv'
<1> SUFFICES ASSUME TypeOK, BrokerInv, [Next]_vars PROVE BrokerInv'
  OBVIOUS
<1>1. CASE Next
  BY <1>1, BrokerSteps, OfferStep, StreamSteps DEF Next, BrokerLoop
<1>2. CASE UNCHANGED vars
  BY <1>2 DEF vars, brokerVars, streamVars, BrokerInv, PublishPipeline,
     StreamOrder, StreamPhase, Registered, FreshTargets, FreshStart
<1> QED
  BY <1>1, <1>2

(* Types and invariant hold together of every behaviour: neither is        *)
(* inductive alone (an offered observation is not 0 because a stream in    *)
(* targets holds a smaller one).                                           *)
THEOREM BrokerCorrect == Spec => [](TypeOK /\ BrokerInv)
<1> QED
  BY InitInv, TypeStep, InvStep, PTL DEF Spec

(* Every stream's observations are as fresh as its opening allows and its  *)
(* registration is never lost, for any number of streams.                  *)
THEOREM StreamsServed == Spec => [](Registered /\ FreshStart)
<1>1. BrokerInv => Registered /\ FreshStart
  BY DEF BrokerInv
<1> QED
  BY <1>1, BrokerCorrect, PTL
-----------------------------------------------------------------------------
(* Refinement.  Only Publish and YieldOk touch what LossyFeed sees.        *)
LEMMA RefinesStep ==
  TypeOK /\ BrokerInv /\ [Next]_vars => [LF!Next]_(LF!vars)
<1> SUFFICES ASSUME TypeOK, BrokerInv, [Next]_vars
             PROVE  LF!Next \/ UNCHANGED <<published, delivered>>
  BY DEF LF!vars
<1> USE BrokerAssumption DEF TypeOK, Obs
<1>1. CASE Publish
  BY <1>1 DEF Publish, streamVars, LF!Next, LF!Publish
<1>2. ASSUME NEW s \in Streams, YieldOk(s) PROVE LF!Next
  <2>1. holding[s] \in 1..published
    <3>1. holding[s] # 0 /\ holding[s] <= msg
      BY <1>2 DEF YieldOk, BrokerInv, StreamPhase, StreamOrder
    <3>2. msg <= published
      BY DEF BrokerInv, PublishPipeline
    <3> QED
      BY <3>1, <3>2
  <2>2. \A i \in 1..Len(delivered[s]) : delivered[s][i] < holding[s]
    BY <2>1 DEF BrokerInv, StreamOrder
  <2>3. /\ delivered' = [delivered EXCEPT ![s] = Append(@, holding[s])]
        /\ UNCHANGED published
    BY <1>2 DEF YieldOk
  <2>4. LF!Deliver(s)
    BY <2>1, <2>2, <2>3 DEF LF!Deliver
  <2> QED
    BY <2>4 DEF LF!Next
<1>3. CASE TakeSub \/ TakeUnsub \/ TakePublish \/ Stop \/ Close \/ CancelBroker
  BY <1>3 DEF TakeSub, TakeUnsub, TakePublish, Stop, Close, CancelBroker, streamVars
<1>4. ASSUME NEW s \in Streams,
             \/ Offer(s) \/ StreamOpen(s) \/ Subscribe(s) \/ StreamDone(s)
             \/ StreamTake(s) \/ YieldFail(s) \/ Unsubscribe(s) \/ CancelStream(s)
      PROVE  UNCHANGED <<published, delivered>>
  BY <1>4 DEF Offer, StreamOpen, Subscribe, StreamDone, StreamTake, YieldFail,
              Unsubscribe, CancelStream
<1>5. CASE UNCHANGED vars
  BY <1>5 DEF vars, streamVars
<1> QED
  BY <1>1, <1>2, <1>3, <1>4, <1>5 DEF Next, BrokerLoop, StreamStep

(* The broker keeps the promise of LossyFeed to every consumer: in order,  *)
(* at most once, nothing that was not published.                           *)
THEOREM BrokerImplementsLossyFeed == Spec => ImplementsLossyFeed
<1>1. Init => LF!Init
  BY DEF Init, LF!Init
<1> QED
  BY <1>1, RefinesStep, BrokerCorrect, PTL DEF Spec, ImplementsLossyFeed, LF!Spec

(* A channel is leaked in no way but by the overtaking unsubscription.     *)
THEOREM LeaksNeedOvertaking == Spec => LeakNeedsOvertaking
<1>1. ASSUME TypeOK, BrokerInv, [Next]_vars, NEW s \in Streams,
             ~Leaked(s), Leaked(s)'
      PROVE  Selecting /\ s \in subCh \cap unsubCh
  <2> USE DEF Leaked, BrokerInv, StreamPhase, Registered
  <2>1. CASE TakeUnsub
    BY <1>1, <2>1 DEF TakeUnsub, streamVars
  <2>2. ASSUME NEW r \in Streams, Unsubscribe(r) PROVE FALSE
    BY <1>1, <2>2 DEF Unsubscribe, TypeOK, HasRoom
  <2>3. ASSUME NEW r \in Streams, Subscribe(r) PROVE FALSE
    BY <1>1, <2>3 DEF Subscribe, TypeOK
  <2>4. CASE Publish \/ TakeSub \/ TakePublish \/ Stop \/ Close \/ CancelBroker
    BY <1>1, <2>4 DEF Publish, TakeSub, TakePublish, Stop, Close, CancelBroker, streamVars
  <2>5. ASSUME NEW r \in Streams,
               \/ Offer(r) \/ StreamOpen(r) \/ StreamDone(r) \/ StreamTake(r)
               \/ YieldOk(r) \/ YieldFail(r) \/ CancelStream(r)
        PROVE  FALSE
    BY <1>1, <2>5 DEF Offer, StreamOpen, StreamDone, StreamTake, YieldOk,
       YieldFail, CancelStream, brokerVars, TypeOK
  <2>6. CASE UNCHANGED vars
    BY <1>1, <2>6 DEF vars, brokerVars, streamVars
  <2> QED
    BY <1>1, <2>1, <2>2, <2>3, <2>4, <2>5, <2>6 DEF Next, BrokerLoop, StreamStep
<1>2. TypeOK /\ BrokerInv /\ [Next]_vars =>
        [\A s \in Streams :
           ~Leaked(s) /\ Leaked(s)' => Selecting /\ s \in subCh \cap unsubCh]_vars
  BY <1>1
<1> QED
  BY <1>2, BrokerCorrect, PTL DEF Spec, LeakNeedsOvertaking
=============================================================================
