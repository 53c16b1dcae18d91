---------------------------- MODULE FeederProofs ----------------------------
(***************************************************************************)
(* Theorems about Feeder, for any number of streams and of frames: the     *)
(* process runs Broker, no frame is lost or counted twice between the      *)
(* socket and the broker, the first error is the one reported, and a       *)
(* client caught in Publish never gets out.                                *)
(***************************************************************************)
EXTENDS Feeder, BrokerProofs, FiniteSetTheorems

(* Who has ended the process's context, and why.  The context is done if   *)
(* and only if the group has its error; the client closes for its sake or  *)
(* for a fault; the others return no sooner.                               *)
Shutdown ==
  /\ brokerCtx <=> grpErr # "none"
  /\ ~stopCh
  /\ cpc \in {"closing", "clearing", "exited"} => brokerCtx \/ clientErr = "fault"
  /\ cpc = "exited" => brokerCtx
  /\ spc = "exited" => brokerCtx
  /\ hpc # "serving" => brokerCtx
  /\ ~running => brokerCtx
  /\ exited => cpc = "exited" /\ ~running

(* The receive goroutine and the client: the order of Close, and what each *)
(* has told the other.  A receiver that met a fault is gone for good, and  *)
(* only a socket on which Close is at work ends it otherwise.              *)
Handover ==
  /\ IF rpc = "pushing" THEN frame \in Frames ELSE frame = "none"
  /\ socketOpen <=> cpc \in {"select", "publishing", "closing"}
  /\ connected <=> cpc # "exited"
  /\ recverrs # "none" => rpc = "exited"
  /\ recverrs = "nil" => ~connected
  /\ recverrs = "closed" => ~socketOpen
  /\ clientErr \in {"none", "fault"}
  /\ clientErr = "fault" => rpc = "exited"

(* What may be the first error: neither a receive on the socket being      *)
(* closed nor a Shutdown that times out.                                   *)
CauseIsReal ==
  /\ grpErr \in {"none", "signal", "listen", "fault"}
  /\ grpErr = "signal" => signalled
  /\ recverrs = "closed" => grpErr # "none"

FeederInv == Shutdown /\ Handover /\ Conservation /\ CauseIsReal

-----------------------------------------------------------------------------
(* A channel of one holds one item or none.                                *)
LEMMA ChannelSize ==
  /\ Cardinality({}) = 0
  /\ \A f : Cardinality({f}) = 1
BY FS_EmptySet, FS_Singleton

(* The data channel is one.                                                *)
LEMMA DataSize == FeederTypeOK => Cardinality(data) \in 0..1
<1> SUFFICES ASSUME FeederTypeOK PROVE Cardinality(data) \in 0..1
  OBVIOUS
<1>1. data = {} \/ \E f : data = {f}
  BY DEF FeederTypeOK
<1> QED
  BY <1>1, ChannelSize

(* The counts are natural numbers, for the arithmetic of Conservation.     *)
LEMMA Counts ==
  FeederTypeOK =>
    {arrived, discarded, published, Cardinality(data)} \subseteq Nat
  BY DataSize, BrokerAssumption, FeederAssumption DEF FeederTypeOK, TypeOK

(* The first error of the group is the end of the broker's context.        *)
LEMMA GroupCancels ==
  ASSUME Shutdown, NEW e, GroupReturn(e), UNCHANGED brokerRest
  PROVE  [Next]_vars
<1>1. CASE grpErr = "none" /\ e # "none"
  <2>1. CancelBroker
    BY <1>1 DEF GroupReturn, CancelBroker, brokerRest, Shutdown
  <2> QED
    BY <2>1 DEF Next
<1>2. CASE ~(grpErr = "none" /\ e # "none")
  BY <1>2 DEF GroupReturn, brokerRest, vars, brokerVars, streamVars
<1> QED
  BY <1>1, <1>2

(* Every step of the process is a step of Broker or leaves its state.      *)
LEMMA FeederStep == Shutdown /\ [FeederNext]_feederVars => [Next]_vars
<1> SUFFICES ASSUME Shutdown, [FeederNext]_feederVars PROVE [Next]_vars
  OBVIOUS
<1>1. CASE Receive
  BY <1>1 DEF Receive, CheckConnected, ReceiveNothing, ReceiveFrame, ReceiveError, Push
<1>2. CASE Client
  <2>1. CASE ClientPublish
    BY <2>1 DEF ClientPublish, Next
  <2>2. CASE ClearConnected
    BY <2>2, GroupCancels DEF ClearConnected
  <2> QED
    BY <1>2, <2>1, <2>2 DEF Client, TakeReceiveErr, ClientDone, TakeData, CloseSocket
<1>3. CASE Service \/ \E s \in Streams : Stream(s)
  BY <1>3 DEF Service, Stream, Next
<1>4. CASE Signal \/ ListenFails \/ Exit
  BY <1>4 DEF Signal, ListenFails, Exit
<1>5. CASE SignalGoroutine
  BY <1>5, GroupCancels DEF SignalGoroutine
<1>6. CASE ServerStops
  <2>1. CASE UNCHANGED <<errs, grpErr, brokerCtx>>
    BY <1>6, <2>1 DEF ServerStops, brokerRest, vars, brokerVars, streamVars
  <2>2. CASE GroupReturn("listen")
    BY <1>6, <2>2, GroupCancels DEF ServerStops
  <2> QED
    BY <1>6, <2>1, <2>2 DEF ServerStops
<1>7. CASE ServerShutdown
  BY <1>7, GroupCancels DEF ServerShutdown
<1>8. CASE UNCHANGED feederVars
  BY <1>8 DEF feederVars
<1> QED
  BY <1>1, <1>2, <1>3, <1>4, <1>5, <1>6, <1>7, <1>8 DEF FeederNext

-----------------------------------------------------------------------------
(* The receive goroutine.                                                  *)
LEMMA ReceiveKeeps ==
  ASSUME FeederTypeOK, FeederInv, TypeOK', Receive
  PROVE  FeederTypeOK' /\ FeederInv'
<1> USE DEF FeederTypeOK, FeederInv, Shutdown, Handover, Conservation,
            CauseIsReal, Frames, Ends, Causes, vars, brokerVars, groupVars
<1>1. CASE CheckConnected
  BY <1>1 DEF CheckConnected
<1>2. CASE ReceiveNothing
  BY <1>2 DEF ReceiveNothing
<1>3. CASE ReceiveFrame
  <2>1. Conservation'
    BY <1>3, Counts DEF ReceiveFrame
  <2> QED
    BY <1>3, <2>1, FeederAssumption DEF ReceiveFrame
<1>4. CASE ReceiveError
  <2>1. clientErr = "none"
    BY <1>4 DEF ReceiveError
  <2>2. ~socketOpen => grpErr # "none"
    BY <2>1
  <2>3. recverrs' \in {"fault", "closed"} /\ (recverrs' = "closed" => ~socketOpen)
    BY <1>4 DEF ReceiveError
  <2> QED
    BY <1>4, <2>1, <2>2, <2>3 DEF ReceiveError
<1>5. CASE Push
  <2>1. frame \in Frames /\ data = {} /\ data' = {frame}
    BY <1>5 DEF Push, HasRoom
  <2>2. Cardinality(data) = 0 /\ Cardinality(data') = 1
    BY <2>1, ChannelSize
  <2>3. Conservation'
    BY <1>5, <2>2, Counts DEF Push
  <2> QED
    BY <1>5, <2>1, <2>3 DEF Push
<1> QED
  BY <1>1, <1>2, <1>3, <1>4, <1>5 DEF Receive

(* The client.  Only TakeData has to count: an observation moves on, or    *)
(* is discarded.                                                           *)
LEMMA ClientKeeps ==
  ASSUME FeederTypeOK, FeederInv, TypeOK', Client
  PROVE  FeederTypeOK' /\ FeederInv'
<1> USE DEF FeederTypeOK, FeederInv, Shutdown, Handover, Conservation,
            CauseIsReal, Frames, Ends, Causes, vars, brokerVars, groupVars
<1>1. CASE TakeReceiveErr
  <2>1. recverrs = "fault"
    BY <1>1 DEF TakeReceiveErr
  <2> QED
    BY <1>1, <2>1 DEF TakeReceiveErr
<1>2. CASE ClientDone
  BY <1>2 DEF ClientDone
<1>3. CASE TakeData
  <2>1. PICK f \in Frames : data = {f}
    BY <1>3 DEF TakeData
  <2>2. Cardinality(data) = 1 /\ Cardinality(data') = 0
    BY <1>3, <2>1, ChannelSize DEF TakeData
  <2>3. CASE f = "malformed"
    <3>1. discarded' = discarded + 1 /\ cpc' = cpc
      BY <1>3, <2>1, <2>3 DEF TakeData
    <3>2. Conservation'
      BY <1>3, <2>2, <3>1, Counts DEF TakeData
    <3>3. discarded' \in 0..MaxFrames
      BY <2>2, <3>1, Counts, FeederAssumption
    <3> QED
      BY <1>3, <3>1, <3>2, <3>3 DEF TakeData
  <2>4. CASE f = "observation"
    <3>1. discarded' = discarded /\ cpc' = "publishing"
      BY <1>3, <2>1, <2>4 DEF TakeData
    <3>2. Conservation'
      BY <1>3, <2>2, <3>1, Counts DEF TakeData
    <3> QED
      BY <1>3, <3>1, <3>2 DEF TakeData
  <2> QED
    BY <2>1, <2>3, <2>4
<1>4. CASE ClientPublish
  <2>1. Conservation'
    BY <1>4, Counts DEF ClientPublish, Publish
  <2> QED
    BY <1>4, <2>1 DEF ClientPublish, Publish
<1>5. CASE CloseSocket
  BY <1>5 DEF CloseSocket
<1>6. CASE ClearConnected
  <2>1. grpErr' # "none" /\ brokerCtx'
    BY <1>6 DEF ClearConnected, GroupReturn
  <2>2. grpErr' = grpErr \/ grpErr' = "fault"
    BY <1>6 DEF ClearConnected, GroupReturn
  <2> QED
    BY <1>6, <2>1, <2>2 DEF ClearConnected, brokerRest
<1> QED
  BY <1>1, <1>2, <1>3, <1>4, <1>5, <1>6 DEF Client

(* The broker's goroutine and the streams: only the broker's end matters.  *)
LEMMA ServiceKeeps ==
  ASSUME FeederTypeOK, FeederInv, TypeOK',
         Service \/ \E s \in Streams : Stream(s)
  PROVE  FeederTypeOK' /\ FeederInv'
<1> DEFINE ServiceEffect ==
             /\ UNCHANGED <<published, brokerCtx, stopCh>>
             /\ running' = running \/ (running' = FALSE /\ brokerCtx)
             /\ UNCHANGED <<clientVars, groupVars>>
<1>1. ServiceEffect
  <2>1. CASE Service
    BY <2>1 DEF Service, BrokerLoop, TakeSub, TakeUnsub, TakePublish, Stop,
                Offer, FeederInv, Shutdown
  <2>2. ASSUME NEW s \in Streams, Stream(s) PROVE  ServiceEffect
    BY <2>2 DEF Stream, StreamStep, StreamOpen, Subscribe, StreamDone,
                StreamTake, YieldOk, YieldFail, Unsubscribe, CancelStream,
                brokerVars
  <2> QED
    BY <2>1, <2>2
<1>2. FeederTypeOK'
  BY <1>1 DEF FeederTypeOK, clientVars, groupVars
<1>3. Shutdown'
  BY <1>1 DEF FeederInv, Shutdown, clientVars, groupVars
<1>4. Handover' /\ Conservation' /\ CauseIsReal'
  BY <1>1 DEF FeederInv, Handover, Conservation, CauseIsReal, clientVars, groupVars
<1> QED
  BY <1>2, <1>3, <1>4 DEF FeederInv

(* The rest of the group.  Shutdown of the server comes after the context  *)
(* is done, so that its error is never the first.                          *)
LEMMA GroupKeeps ==
  ASSUME FeederTypeOK, FeederInv, TypeOK',
         Signal \/ SignalGoroutine \/ ListenFails \/ ServerStops
         \/ ServerShutdown \/ Exit
  PROVE  FeederTypeOK' /\ FeederInv'
<1> USE DEF FeederTypeOK, FeederInv, Shutdown, Handover, Conservation,
            CauseIsReal, Ends, Causes, vars, brokerVars, clientVars
<1>1. CASE Signal
  BY <1>1 DEF Signal
<1>2. CASE SignalGoroutine
  BY <1>2 DEF SignalGoroutine, GroupReturn, brokerRest
<1>3. CASE ListenFails
  BY <1>3 DEF ListenFails
<1>4. CASE ServerStops
  BY <1>4 DEF ServerStops, GroupReturn, brokerRest
<1>5. CASE ServerShutdown
  BY <1>5 DEF ServerShutdown, GroupReturn, brokerRest
<1>6. CASE Exit
  BY <1>6 DEF Exit
<1> QED
  BY <1>1, <1>2, <1>3, <1>4, <1>5, <1>6

-----------------------------------------------------------------------------
(* At first the context is open, and nothing has arrived.                  *)
LEMMA FeederStarts == FeederInit => FeederTypeOK /\ FeederInv
<1> SUFFICES ASSUME FeederInit PROVE FeederTypeOK /\ FeederInv
  OBVIOUS
<1>1. TypeOK
  BY InitInv DEF FeederInit
<1>2. FeederTypeOK
  <2>1. 0 \in 0..MaxFrames
    BY FeederAssumption
  <2>2. {socketOpen, connected, signalled, exited} \subseteq BOOLEAN
    BY DEF FeederInit
  <2> QED
    BY <1>1, <2>1, <2>2 DEF FeederInit, FeederTypeOK, Frames, Ends, Causes
<1>3. Shutdown
  BY DEF FeederInit, Init, Shutdown
<1>4. Handover /\ CauseIsReal
  BY DEF FeederInit, Handover, CauseIsReal
<1>5. Conservation
  BY ChannelSize DEF FeederInit, Init, Conservation
<1> QED
  BY <1>2, <1>3, <1>4, <1>5 DEF FeederInv

(* The invariant is inductive together with Broker's, of which the types   *)
(* of an offered observation need a part.                                  *)
LEMMA FeederInvStep ==
  FeederTypeOK /\ FeederInv /\ BrokerInv /\ [FeederNext]_feederVars
    => (FeederTypeOK /\ FeederInv /\ BrokerInv)'
<1> SUFFICES ASSUME FeederTypeOK, FeederInv, BrokerInv, [FeederNext]_feederVars
             PROVE  (FeederTypeOK /\ FeederInv /\ BrokerInv)'
  OBVIOUS
<1>1. TypeOK' /\ BrokerInv'
  BY FeederStep, TypeStep, InvStep DEF FeederInv, FeederTypeOK
<1>2. CASE UNCHANGED feederVars
  BY <1>1, <1>2 DEF feederVars, vars, brokerVars, clientVars, groupVars,
     FeederTypeOK, FeederInv, Shutdown, Handover, Conservation, CauseIsReal
<1>3. CASE FeederNext
  BY <1>1, <1>3, ReceiveKeeps, ClientKeeps, ServiceKeeps, GroupKeeps DEF FeederNext
<1> QED
  BY <1>1, <1>2, <1>3

(* No frame is lost or counted twice between the socket and the broker.    *)
THEOREM FeederCorrect == FeederSpec => [](FeederTypeOK /\ Conservation)
<1>1. FeederInit => FeederTypeOK /\ FeederInv /\ BrokerInv
  BY FeederStarts, InitInv DEF FeederInit
<1>2. FeederInv => Conservation
  BY DEF FeederInv
<1> QED
  BY <1>1, <1>2, FeederInvStep, PTL DEF FeederSpec

-----------------------------------------------------------------------------
(* A client that has left has closed its socket and told its receiver.     *)
LEMMA ClientIsLive ==
  /\ FeederInv => (cpc # "exited" \/ socketOpen \/ connected <=> cpc # "exited")
  /\ FeederInv' => (cpc' # "exited" \/ socketOpen' \/ connected' <=> cpc' # "exited")
BY DEF FeederInv, Handover

(* A worker that returns e leaves Lifecycle's set, and the first error is  *)
(* a reason it may have.                                                   *)
LEMMA ReturnLeaves ==
  ASSUME NEW w \in LC!Workers, w \in Live, Live' = Live \ {w},
         NEW e, GroupReturn(e), grpErr # "none" \/ (e \in LC!Reasons(w) /\ e # "none"),
         ~exited, UNCHANGED <<signalled, exited>>
  PROVE  LC!LifecycleNext
<1>1. LC!Leave(w)
  BY DEF GroupReturn, LC!Leave
<1> QED
  BY <1>1 DEF LC!LifecycleNext

(* Steps that let nobody leave and give no reason.                         *)
LEMMA NobodyLeaves ==
  ASSUME FeederInv, FeederInv', UNCHANGED <<spc, running, hpc>>,
         cpc # "exited" <=> cpc' # "exited"
  PROVE  Live' = Live
BY ClientIsLive DEF Live

(* Every step of the process is one of Lifecycle or leaves its state.      *)
LEMMA LifecycleStep ==
  ASSUME FeederInv, FeederInv', [FeederNext]_feederVars
  PROVE  LC!LifecycleNext \/ UNCHANGED <<signalled, grpErr, Live, exited>>
<1> DEFINE Same == UNCHANGED <<signalled, grpErr, exited>>
           Goal == LC!LifecycleNext \/ (Same /\ Live' = Live)
<1>1. CASE Receive
  <2>1. Same /\ UNCHANGED <<spc, running, hpc, cpc>>
    BY <1>1 DEF Receive, CheckConnected, ReceiveNothing, ReceiveFrame,
                ReceiveError, Push, vars, brokerVars, groupVars
  <2> QED
    BY <2>1, NobodyLeaves
<1>2. CASE Client
  <2>1. CASE ClearConnected
    <3>1. cpc = "clearing" /\ cpc' = "exited" /\ UNCHANGED <<spc, running, hpc>>
      BY <2>1 DEF ClearConnected, brokerRest
    <3>2. Live' = Live \ {"client"} /\ "client" \in Live
      BY <3>1, ClientIsLive DEF Live
    <3>3. grpErr # "none" \/ clientErr = "fault"
      BY <3>1 DEF FeederInv, Shutdown
    <3>4. ~exited /\ UNCHANGED <<signalled, exited>> /\ GroupReturn(clientErr)
      BY <2>1, <3>1 DEF ClearConnected, FeederInv, Shutdown
    <3>5. clientErr \in LC!Reasons("client") \/ grpErr # "none"
      BY <3>3 DEF LC!Reasons
    <3> QED
      BY <3>2, <3>3, <3>4, <3>5, ReturnLeaves DEF LC!Workers
  <2>2. CASE ~ClearConnected
    <3>1. Same /\ UNCHANGED <<spc, running, hpc>> /\ cpc # "exited" /\ cpc' # "exited"
      BY <1>2, <2>2 DEF Client, TakeReceiveErr, ClientDone, TakeData, ClientPublish,
         Publish, CloseSocket, vars, brokerVars, groupVars
    <3> QED
      BY <3>1, NobodyLeaves
  <2> QED
    BY <2>1, <2>2
<1>3. CASE Service /\ ~exited
  <2>1. Same /\ UNCHANGED <<spc, hpc, cpc, socketOpen, connected>>
    BY <1>3 DEF Service, clientVars, groupVars
  <2>2. CASE running' = running
    BY <2>1, <2>2, NobodyLeaves
  <2>3. CASE running' # running
    <3>1. running /\ ~running' /\ brokerCtx
      BY <1>3, <2>3 DEF Service, BrokerLoop, Stop, Selecting, TakeSub, TakeUnsub,
                TakePublish, Offer, FeederInv, Shutdown
    <3>2. Live' = Live \ {"broker"} /\ "broker" \in Live
      BY <2>1, <3>1 DEF Live
    <3>3. grpErr # "none" /\ GroupReturn("none")
      BY <1>3, <2>1, <3>1 DEF GroupReturn, FeederInv, Shutdown, Service,
         BrokerLoop, Stop, TakeSub, TakeUnsub, TakePublish, Offer
    <3> QED
      BY <1>3, <2>1, <3>2, <3>3, ReturnLeaves DEF LC!Workers
  <2> QED
    BY <2>2, <2>3
<1>4. ASSUME NEW s \in Streams, Stream(s) PROVE Goal
  <2>1. Same /\ UNCHANGED <<spc, running, hpc, cpc>>
    BY <1>4 DEF Stream, StreamStep, StreamOpen, Subscribe, StreamDone, StreamTake,
       YieldOk, YieldFail, Unsubscribe, CancelStream, brokerVars, clientVars, groupVars
  <2> QED
    BY <2>1, NobodyLeaves
<1>5. CASE Signal /\ ~exited
  <2>1. /\ signalled' = TRUE /\ UNCHANGED <<grpErr, exited>>
        /\ UNCHANGED <<spc, running, hpc, cpc>>
    BY <1>5 DEF Signal, vars, brokerVars, clientVars
  <2>2. Live' = Live
    BY <2>1, NobodyLeaves
  <2> QED
    BY <1>5, <2>1, <2>2 DEF LC!LifecycleNext, LC!Signal
<1>6. CASE ListenFails
  <2>1. Same /\ UNCHANGED <<spc, running, hpc, cpc>>
    BY <1>6 DEF ListenFails, vars, brokerVars, clientVars
  <2> QED
    BY <2>1, NobodyLeaves
<1>7. CASE SignalGoroutine /\ ~exited
  <2>1. /\ spc = "waiting" /\ spc' = "exited"
        /\ UNCHANGED <<running, hpc, cpc, socketOpen, connected, signalled, exited>>
    BY <1>7 DEF SignalGoroutine, brokerRest, clientVars
  <2>2. Live' = Live \ {"signals"} /\ "signals" \in Live
    BY <2>1 DEF Live
  <2>3. ~exited
    BY <1>7
  <2>4. PICK e \in {"none", "signal"} :
          /\ GroupReturn(e)
          /\ (e = "signal" /\ signalled) \/ grpErr # "none"
    BY <1>7 DEF SignalGoroutine, FeederInv, Shutdown
  <2> QED
    BY <2>1, <2>2, <2>3, <2>4, ReturnLeaves DEF LC!Workers, LC!Reasons
<1>8. CASE ServerStops /\ ~exited
  <2>1. /\ hpc = "serving" /\ ~exited
        /\ UNCHANGED <<spc, running, cpc, socketOpen, connected, signalled, exited>>
    BY <1>8 DEF ServerStops, brokerRest, clientVars
  <2>2. CASE hpc' = "shutdown" /\ UNCHANGED grpErr
    BY <2>1, <2>2 DEF Live
  <2>3. CASE hpc' = "exited" /\ GroupReturn("listen")
    <3>1. Live' = Live \ {"server"} /\ "server" \in Live
      BY <2>1, <2>3 DEF Live
    <3> QED
      BY <2>1, <2>3, <3>1, ReturnLeaves DEF LC!Workers, LC!Reasons
  <2> QED
    BY <1>8, <2>2, <2>3 DEF ServerStops
<1>9. CASE ServerShutdown /\ ~exited
  <2>1. /\ hpc = "shutdown" /\ hpc' = "exited" /\ ~exited
        /\ UNCHANGED <<spc, running, cpc, socketOpen, connected, signalled, exited>>
    BY <1>9 DEF ServerShutdown, brokerRest, clientVars
  <2>2. Live' = Live \ {"server"} /\ "server" \in Live
    BY <2>1 DEF Live
  <2>3. grpErr # "none" /\ \E e \in {"none", "shutdown"} : GroupReturn(e)
    BY <1>9, <2>1 DEF ServerShutdown, FeederInv, Shutdown
  <2> QED
    BY <2>1, <2>2, <2>3, ReturnLeaves DEF LC!Workers
<1>10. CASE Exit
  <2>1. /\ ~exited /\ exited' = TRUE /\ UNCHANGED <<signalled, grpErr>>
        /\ UNCHANGED <<spc, running, hpc, cpc>>
        /\ spc = "exited" /\ cpc = "exited" /\ hpc = "exited" /\ ~running
    BY <1>10 DEF Exit, vars, brokerVars, clientVars
  <2>2. Live' = Live /\ Live = {}
    BY <2>1, NobodyLeaves, ClientIsLive DEF Live
  <2> QED
    BY <2>1, <2>2 DEF LC!LifecycleNext, LC!End
<1>11. CASE UNCHANGED feederVars
  <2>1. Same /\ UNCHANGED <<spc, running, hpc, cpc>>
    BY <1>11 DEF feederVars, vars, brokerVars, clientVars, groupVars
  <2> QED
    BY <2>1, NobodyLeaves
<1> QED
  BY <1>1, <1>2, <1>3, <1>4, <1>5, <1>6, <1>7, <1>8, <1>9, <1>10, <1>11 DEF FeederNext

(* The process is a behaviour of Lifecycle: nobody leaves without a        *)
(* reason, the first is the one reported, and the end comes after all have *)
(* left, the socket closed and the receiver told.                          *)
THEOREM FeederImplementsLifecycle == FeederSpec => ImplementsLifecycle
<1>1. FeederInit => FeederTypeOK /\ FeederInv /\ BrokerInv
  BY FeederStarts, InitInv DEF FeederInit
<1>2. FeederInit => LC!LifecycleInit
  BY DEF FeederInit, Init, Live, LC!LifecycleInit, LC!Workers
<1>3. FeederInv /\ FeederInv' /\ [FeederNext]_feederVars
        => [LC!LifecycleNext]_<<signalled, grpErr, Live, exited>>
  BY LifecycleStep
<1> QED
  BY <1>1, <1>2, <1>3, FeederInvStep, PTL
     DEF FeederSpec, ImplementsLifecycle, LC!LifecycleSpec

(* The process runs Broker: what BrokerProofs has of the broker and its    *)
(* streams is true of them in the feeder.                                  *)
THEOREM FeederRunsBroker == FeederSpec => Spec
<1>1. FeederInit => Init /\ FeederTypeOK /\ FeederInv /\ BrokerInv
  BY FeederStarts, InitInv DEF FeederInit
<1>2. FeederInv /\ [FeederNext]_feederVars => [Next]_vars
  BY FeederStep DEF FeederInv
<1> QED
  BY <1>1, <1>2, FeederInvStep, PTL DEF FeederSpec, Spec

(* In the process every stream is served as the broker promises: its       *)
(* registration is kept, it starts with what is new, ...                   *)
THEOREM FeederServesStreams == FeederSpec => [](Registered /\ FreshStart)
BY FeederRunsBroker, StreamsServed, PTL

(* ... it gets the observations of the frames in order, each at most once, *)
(* up to the end of the process, whatever the order the goroutines of the  *)
(* shutdown run in.                                                        *)
THEOREM FeederImplementsLossyFeed == FeederSpec => ImplementsLossyFeed
BY FeederRunsBroker, BrokerImplementsLossyFeed, PTL

(* A client in Publish whose broker has returned: only the broker would    *)
(* make room, only the end of Publish would let the client go on, and the  *)
(* process waits for the client.                                           *)
LEMMA WedgedStep ==
  FeederInv /\ [FeederNext]_feederVars => (Wedged => Wedged' /\ ~exited')
<1> SUFFICES ASSUME FeederInv, [FeederNext]_feederVars, Wedged
             PROVE  Wedged' /\ ~exited'
  OBVIOUS
<1>1. /\ cpc = "publishing" /\ publishCh # {} /\ ~running /\ ~exited
  BY DEF Wedged, HasRoom, FeederInv, Shutdown
<1>2. /\ cpc' = cpc /\ exited' = exited
      /\ publishCh' = publishCh /\ running' = running
  <2> USE DEF vars, brokerVars, brokerRest, groupVars, clientVars
  <2>1. CASE Receive
    BY <2>1 DEF Receive, CheckConnected, ReceiveNothing, ReceiveFrame,
                ReceiveError, Push
  <2>2. CASE Client
    BY <1>1, <2>2 DEF Client, TakeReceiveErr, ClientDone, TakeData,
                      ClientPublish, Publish, HasRoom, CloseSocket, ClearConnected
  <2>3. CASE Service
    BY <1>1, <2>3 DEF Service, BrokerLoop, TakeSub, TakeUnsub, TakePublish,
                      Stop, Offer, Selecting
  <2>4. ASSUME NEW s \in Streams, Stream(s)
        PROVE  /\ cpc' = cpc /\ exited' = exited
               /\ publishCh' = publishCh /\ running' = running
    BY <2>4 DEF Stream, StreamStep, StreamOpen, Subscribe, StreamDone,
                StreamTake, YieldOk, YieldFail, Unsubscribe, CancelStream
  <2>5. CASE Signal \/ SignalGoroutine \/ ListenFails \/ ServerStops \/ ServerShutdown
    BY <2>5 DEF Signal, SignalGoroutine, ListenFails, ServerStops, ServerShutdown
  <2>6. CASE Exit
    BY <1>1, <2>6 DEF Exit
  <2>7. CASE UNCHANGED feederVars
    BY <2>7 DEF feederVars
  <2> QED
    BY <2>1, <2>2, <2>3, <2>4, <2>5, <2>6, <2>7 DEF FeederNext
<1> QED
  BY <1>1, <1>2 DEF Wedged, HasRoom

(* Once wedged the process stays so and never ends.                        *)
THEOREM WedgedIsForever == FeederSpec => WedgedForever
<1>1. FeederInit => FeederTypeOK /\ FeederInv /\ BrokerInv
  BY FeederStarts, InitInv DEF FeederInit
<1> QED
  BY <1>1, FeederInvStep, WedgedStep, PTL DEF FeederSpec, WedgedForever
=============================================================================
