--------------------------- MODULE WSSessionProofs ---------------------------
(***************************************************************************)
(* Theorems about WSSession: the sessions are streams of Broker, so that   *)
(* what BrokerProofs has of the streams is true of the sessions, for any   *)
(* number of sessions, observations and frames from their peers.           *)
(***************************************************************************)
EXTENDS WSSession, BrokerProofs, FiniteSetTheorems

(* A goroutine that returns an error cancels its stream's context, unless  *)
(* it is cancelled already; one that returns none leaves Broker's state.   *)
LEMMA ReturnCancels ==
  ASSUME TypeOK, NEW s \in Streams, NEW c, NEW e, GoroutineReturns(s, c, e)
  PROVE  [Next]_vars
<1> USE DEF TypeOK
<1>1. CASE cancelled[s] \/ e = "none"
  <2>1. cancelled[s] \in BOOLEAN /\ cancelled'[s] = cancelled[s]
    BY <1>1 DEF GoroutineReturns
  <2>2. cancelled' = cancelled
    BY <2>1 DEF GoroutineReturns
  <2> QED
    BY <2>2 DEF GoroutineReturns, vars, brokerVars, streamVars
<1>2. CASE ~cancelled[s] /\ e # "none"
  <2>1. CancelStream(s)
    BY <1>2 DEF GoroutineReturns, CancelStream, brokerVars
  <2> QED
    BY <2>1 DEF Next
<1> QED
  BY <1>1, <1>2

(* Every step of a session, of its peer and of the rest of the process is  *)
(* a step of Broker or leaves Broker's state as it is.                     *)
LEMMA SessionStep == TypeOK /\ [SessionNext]_sessionVars => [Next]_vars
<1> SUFFICES ASSUME TypeOK, [SessionNext]_sessionVars PROVE [Next]_vars
  OBVIOUS
<1>1. CASE Feed
  BY <1>1 DEF Feed, Next
<1>2. ASSUME NEW s \in Streams, Handler(s) PROVE [Next]_vars
  BY <1>2 DEF Handler, Enter, HandlerLock, Lock, Greet, Wait, Report
<1>3. ASSUME NEW s \in Streams, connReader(s) PROVE [Next]_vars
  <2>1. CASE ReaderCheck(s)
    BY <2>1, ReturnCancels DEF ReaderCheck
  <2>2. CASE ReadFrame(s)
    BY <2>2 DEF ReadFrame
  <2>3. CASE ReadFails(s)
    BY <2>3, ReturnCancels DEF ReadFails
  <2>4. CASE ReaderLock(s)
    BY <2>4 DEF ReaderLock, Lock
  <2>5. CASE LockTimeout(s)
    BY <2>5, ReturnCancels DEF LockTimeout
  <2>6. CASE PongOrClose(s)
    BY <2>6, ReturnCancels DEF PongOrClose
  <2> QED
    BY <1>3, <2>1, <2>2, <2>3, <2>4, <2>5, <2>6 DEF connReader
<1>4. ASSUME NEW s \in Streams, observationWriter(s) PROVE [Next]_vars
  <2>1. CASE Iterate(s)
    BY <2>1 DEF Iterate, Next, StreamStep
  <2>2. CASE WriterLock(s)
    BY <2>2 DEF WriterLock, Lock
  <2>3. CASE WriteObservation(s)
    <3>1. YieldOk(s) \/ YieldFail(s)
      BY <2>3 DEF WriteObservation
    <3> QED
      BY <3>1 DEF Next, StreamStep
  <2>4. CASE WriterReturns(s)
    BY <2>4, ReturnCancels DEF WriterReturns
  <2> QED
    BY <1>4, <2>1, <2>2, <2>3, <2>4 DEF observationWriter
<1>5. ASSUME NEW s \in Streams, Peer(s) PROVE [Next]_vars
  BY <1>5 DEF Peer
<1>6. CASE UNCHANGED sessionVars
  BY <1>6 DEF sessionVars
<1> QED
  BY <1>1, <1>2, <1>3, <1>4, <1>5, <1>6 DEF SessionNext

(* The invariant of Broker holds of the sessions' streams.                 *)
THEOREM SessionsKeepBroker == SessionSpec => [](TypeOK /\ BrokerInv)
<1>1. SessionInit => TypeOK /\ BrokerInv
  BY InitInv DEF SessionInit
<1>2. TypeOK /\ BrokerInv /\ [SessionNext]_sessionVars => (TypeOK /\ BrokerInv)'
  BY SessionStep, TypeStep, InvStep
<1> QED
  BY <1>1, <1>2, PTL DEF SessionSpec

(* A session does to the broker what a stream of Broker may do, so all of  *)
(* BrokerProofs carries over.                                              *)
THEOREM SessionsAreStreams == SessionSpec => ImplementsBroker
<1>1. SessionInit => Init
  BY DEF SessionInit
<1> QED
  BY <1>1, SessionStep, SessionsKeepBroker, PTL DEF SessionSpec, ImplementsBroker, Spec

(* A session is handed the observations in the order they were published,  *)
(* each at most once, none from before it was opened, and keeps its place  *)
(* among the subscriptions while other sessions come and go.               *)
THEOREM SessionsAreServed ==
  SessionSpec => ImplementsLossyFeed /\ [](Registered /\ FreshStart)
BY SessionsAreStreams, BrokerImplementsLossyFeed, StreamsServed, PTL DEF ImplementsBroker

(* A channel a session leaves behind in the map of subscriptions is one    *)
(* whose unsubscription overtook its subscription.                         *)
THEOREM SessionsLeakByOvertaking == SessionSpec => LeakNeedsOvertaking
BY SessionsAreStreams, LeaksNeedOvertaking, PTL DEF ImplementsBroker

-----------------------------------------------------------------------------
(* Sessions in themselves.                                                 *)
ConnType == conn \in [Streams -> Connection]

LEMMA FrameKinds ==
  /\ Frames = {"data", "ping", "close"}
  /\ \A f \in Frames : Handling[f] \in {"checking", "ponging", "closing"}
<1>1. Frames = {"data", "ping", "close"}
  BY DEF Frames, Handling
<1> QED
  BY <1>1 DEF Handling

(* However a write ends, it leaves a connection, gives the lock back and   *)
(* touches nothing of the goroutines.                                      *)
LEMMA WriteKeeps ==
  ASSUME NEW c \in Connection, NEW m \in Messages, NEW d \in WriteControl(c, m)
  PROVE  /\ d \in Connection
         /\ d.mu = "free"
         /\ d.handler = c.handler /\ d.reader = c.reader /\ d.writer = c.writer
         /\ d.gerr = c.gerr
<1>1. d = Written(c, m) \/ d = Failed(c)
  BY DEF WriteControl, Write
<1>2. (IF m = "pong" THEN c.sent ELSE Append(c.sent, m)) \in Seq(Messages)
  BY DEF Connection
<1>3. CASE d = Written(c, m)
  BY <1>2, <1>3 DEF Written, Connection
<1>4. CASE d = Failed(c)
  BY <1>4 DEF Failed, Connection
<1> QED
  BY <1>1, <1>3, <1>4

(* A data write ends as a control write may.                               *)
LEMMA WriteIsWriteControl ==
  ASSUME NEW c, NEW m, NEW d \in Write(c, m)
  PROVE  d \in WriteControl(c, m)
  BY DEF WriteControl

-----------------------------------------------------------------------------
\* SessionPhase and MuInWrite of a session with connection c, whose stream is
\* at at and whose context is done or not.
Sound(c, at, done) ==
  /\ c \in Connection
  /\ c.handler \in {"none", "rejected", "greeting"} <=> c.reader = "none"
  /\ c.reader = "none" <=> c.writer = "none"
  /\ done => c.gerr # "none"
  /\ c.reader = "returned" => c.gerr # "none"
  /\ c.writer = "returned" => at = "done"
  /\ c.writer = "none" => at = "idle"
  /\ c.handler \in {"reporting", "returned"} =>
       c.reader = "returned" /\ c.writer = "returned"
  /\ c.mu = "handler" => c.handler \in {"greeting", "reporting"}
  /\ c.mu = "reader" => c.reader \in {"ponging", "closing"}
  /\ c.mu = "writer" => c.writer = "running" /\ at = "yielding"

SessionInv ==
  /\ ConnType
  /\ \A s \in Streams : Sound(conn[s], pc[s], cancelled[s])

(* Sound is what the model checker evaluates as SessionPhase and           *)
(* SessionTypeOK.                                                          *)
LEMMA SoundIs ==
  ConnType =>
    (SessionInv <=> \A s \in Streams : SessionPhase(s) /\ MuInWrite(s))
  BY DEF ConnType, SessionInv, Sound, SessionPhase, MuInWrite

(* A step of one session need only be looked at there.                     *)
LEMMA OneSession ==
  ASSUME TypeOK, SessionInv, NEW s \in Streams, NEW d,
         conn' = [conn EXCEPT ![s] = d],
         \A r \in Streams \ {s} : pc'[r] = pc[r] /\ cancelled'[r] = cancelled[r],
         Sound(d, pc'[s], cancelled'[s])
  PROVE  SessionInv'
<1>1. d \in Connection
  BY DEF Sound
<1>2. ConnType'
  BY <1>1 DEF SessionInv, ConnType
<1>3. ASSUME NEW r \in Streams PROVE Sound(conn'[r], pc'[r], cancelled'[r])
  <2>1. CASE r = s
    BY <2>1 DEF SessionInv, ConnType
  <2>2. CASE r # s
    BY <2>2 DEF SessionInv, ConnType
  <2> QED
    BY <2>1, <2>2
<1> QED
  BY <1>2, <1>3 DEF SessionInv

(* A goroutine that returns: its error, or the first one, is the group's.  *)
LEMMA ReturnSound ==
  ASSUME TypeOK, SessionInv, NEW s \in Streams, NEW c \in Connection,
         NEW e \in {"none", "read", "write"}, GoroutineReturns(s, c, e),
         c.gerr = conn[s].gerr,
         Sound([c EXCEPT !.gerr = IF @ = "none" THEN e ELSE @], pc[s],
               cancelled[s] \/ e # "none")
  PROVE  SessionInv'
<1> DEFINE d == [c EXCEPT !.gerr = IF @ = "none" THEN e ELSE @]
<1>1. conn' = [conn EXCEPT ![s] = d]
  BY DEF GoroutineReturns
<1>2. /\ \A r \in Streams \ {s} : pc'[r] = pc[r] /\ cancelled'[r] = cancelled[r]
      /\ pc'[s] = pc[s] /\ cancelled'[s] = (cancelled[s] \/ e # "none")
  BY DEF GoroutineReturns, TypeOK
<1>3. Sound(d, pc'[s], cancelled'[s])
  BY <1>2
<1> HIDE DEF d
<1> QED
  BY <1>1, <1>2, <1>3, OneSession

(* A step that only changes one session's record.                          *)
LEMMA ConnStep ==
  ASSUME TypeOK, SessionInv, NEW s \in Streams, NEW d, UNCHANGED vars,
         conn' = [conn EXCEPT ![s] = d], Sound(d, pc[s], cancelled[s])
  PROVE  SessionInv'
<1>1. pc' = pc /\ cancelled' = cancelled
  BY DEF vars, streamVars
<1> QED
  BY <1>1, OneSession

(* Entrypoint.                                                             *)
LEMMA HandlerSound ==
  ASSUME TypeOK, SessionInv, NEW s \in Streams, Handler(s)
  PROVE  SessionInv'
<1>0. conn[s] \in Connection /\ Sound(conn[s], pc[s], cancelled[s])
  BY DEF SessionInv, ConnType
<1>1. UNCHANGED vars
  BY DEF Handler, Enter, HandlerLock, Lock, Greet, Wait, Report
<1>2. CASE Enter(s)
  <2>1. PICK h \in {"rejected", "greeting"} :
          conn' = [conn EXCEPT ![s] = [conn[s] EXCEPT !.handler = h]]
    BY <1>2 DEF Enter
  <2>2. Sound([conn[s] EXCEPT !.handler = h], pc[s], cancelled[s])
    BY <1>0, <1>2 DEF Sound, Connection, Enter
  <2> QED
    BY <1>1, <2>1, <2>2, ConnStep
<1>3. CASE HandlerLock(s)
  <2>1. conn' = [conn EXCEPT ![s] = [conn[s] EXCEPT !.mu = "handler"]]
    BY <1>3 DEF HandlerLock, Lock
  <2>2. Sound([conn[s] EXCEPT !.mu = "handler"], pc[s], cancelled[s])
    BY <1>0, <1>3 DEF Sound, Connection, HandlerLock, Lock
  <2> QED
    BY <1>1, <2>1, <2>2, ConnStep
<1>4. CASE Greet(s)
  <2>1. PICK d \in Write(conn[s], "sinfo") :
          conn' = [conn EXCEPT ![s] = [d EXCEPT !.handler = "waiting",
                                                !.reader = "checking",
                                                !.writer = "running"]]
    BY <1>4 DEF Greet
  <2>2. /\ d \in Connection /\ d.mu = "free" /\ d.gerr = conn[s].gerr
    BY <1>0, <2>1, WriteIsWriteControl, WriteKeeps DEF Messages
  <2> DEFINE x == [d EXCEPT !.handler = "waiting", !.reader = "checking",
                            !.writer = "running"]
  <2>3. /\ x \in Connection /\ x.handler = "waiting" /\ x.reader = "checking"
        /\ x.writer = "running" /\ x.mu = "free" /\ x.gerr = conn[s].gerr
    BY <2>2 DEF Connection
  <2> HIDE DEF x
  <2>4. Sound(x, pc[s], cancelled[s])
    BY <1>0, <2>3 DEF Sound
  <2> QED
    BY <1>1, <2>1, <2>4, ConnStep DEF x
<1>5. CASE Wait(s)
  <2>1. PICK h \in {"returned", "reporting"} :
          conn' = [conn EXCEPT ![s] = [conn[s] EXCEPT !.handler = h]]
    BY <1>5 DEF Wait
  <2>2. Sound([conn[s] EXCEPT !.handler = h], pc[s], cancelled[s])
    BY <1>0, <1>5 DEF Sound, Connection, Wait
  <2> QED
    BY <1>1, <2>1, <2>2, ConnStep
<1>6. CASE Report(s)
  <2>1. PICK d \in Write(conn[s], "error") :
          conn' = [conn EXCEPT ![s] = [d EXCEPT !.handler = "returned"]]
    BY <1>6 DEF Report
  <2>2. /\ d \in Connection /\ d.mu = "free" /\ d.gerr = conn[s].gerr
        /\ d.reader = conn[s].reader /\ d.writer = conn[s].writer
    BY <1>0, <2>1, WriteIsWriteControl, WriteKeeps DEF Messages
  <2>3. Sound([d EXCEPT !.handler = "returned"], pc[s], cancelled[s])
    BY <1>0, <1>6, <2>2 DEF Sound, Connection, Report
  <2> QED
    BY <1>1, <2>1, <2>3, ConnStep
<1> QED
  BY <1>2, <1>3, <1>4, <1>5, <1>6 DEF Handler

(* connReader.                                                             *)
LEMMA ReaderSound ==
  ASSUME TypeOK, SessionInv, NEW s \in Streams, connReader(s)
  PROVE  SessionInv'
<1>0. conn[s] \in Connection /\ Sound(conn[s], pc[s], cancelled[s])
  BY DEF SessionInv, ConnType
<1>1. CASE ReaderCheck(s)
  <2>1. CASE cancelled[s] /\ GoroutineReturns(s, [conn[s] EXCEPT !.reader = "returned"], "none")
    <3> DEFINE c == [conn[s] EXCEPT !.reader = "returned"]
    <3>1. c \in Connection /\ c.gerr = conn[s].gerr
      BY <1>0 DEF Connection
    <3>2. Sound([c EXCEPT !.gerr = IF @ = "none" THEN "none" ELSE @], pc[s], cancelled[s])
      BY <1>0, <1>1, <2>1 DEF Sound, Connection, ReaderCheck
    <3> QED
      BY <2>1, <3>1, <3>2, ReturnSound DEF TypeOK
  <2>2. CASE conn' = [conn EXCEPT ![s].reader = "reading"] /\ UNCHANGED vars
    <3>1. Sound([conn[s] EXCEPT !.reader = "reading"], pc[s], cancelled[s])
      BY <1>0, <1>1 DEF Sound, Connection, ReaderCheck
    <3> QED
      BY <2>2, <3>1, ConnStep
  <2> QED
    BY <1>1, <2>1, <2>2 DEF ReaderCheck
<1>2. CASE ReadFrame(s)
  <2>1. PICK r \in {"checking", "ponging", "closing"} :
          conn' = [conn EXCEPT ![s] = [conn[s] EXCEPT !.reader = r]]
    BY <1>2, FrameKinds DEF ReadFrame
  <2>2. Sound([conn[s] EXCEPT !.reader = r], pc[s], cancelled[s])
    BY <1>0, <1>2 DEF Sound, Connection, ReadFrame
  <2> QED
    BY <1>2, <2>1, <2>2, ConnStep DEF ReadFrame
<1>3. CASE ReadFails(s) \/ LockTimeout(s)
  <2>1. GoroutineReturns(s, [conn[s] EXCEPT !.reader = "returned"], "read")
    BY <1>3 DEF ReadFails, LockTimeout
  <2>2. conn[s].reader \in {"reading", "ponging", "closing"} /\ conn[s].mu # "reader"
    BY <1>0, <1>3 DEF ReadFails, LockTimeout, Sound
  <2> DEFINE c == [conn[s] EXCEPT !.reader = "returned"]
  <2>3. c \in Connection /\ c.gerr = conn[s].gerr
    BY <1>0 DEF Connection
  <2>4. Sound([c EXCEPT !.gerr = IF @ = "none" THEN "read" ELSE @], pc[s], TRUE)
    BY <1>0, <2>2 DEF Sound, Connection
  <2> QED
    BY <2>1, <2>3, <2>4, ReturnSound DEF TypeOK
<1>4. CASE ReaderLock(s)
  <2>1. Sound([conn[s] EXCEPT !.mu = "reader"], pc[s], cancelled[s])
    BY <1>0, <1>4 DEF Sound, Connection, ReaderLock, Lock
  <2> QED
    BY <1>4, <2>1, ConnStep DEF ReaderLock, Lock
<1>5. CASE PongOrClose(s)
  <2>1. conn[s].reader \in {"ponging", "closing"}
    BY <1>5 DEF PongOrClose
  <2>2. ASSUME NEW m \in {"pong", "close"}, NEW d \in WriteControl(conn[s], m)
        PROVE  /\ d \in Connection /\ d.mu = "free" /\ d.gerr = conn[s].gerr
               /\ d.handler = conn[s].handler /\ d.reader = conn[s].reader
               /\ d.writer = conn[s].writer
    BY <1>0, <2>2, WriteKeeps DEF Messages
  <2>3. CASE \E d \in WriteControl(conn[s], "pong") :
               /\ conn' = [conn EXCEPT ![s] = [d EXCEPT !.reader = "reading"]]
               /\ UNCHANGED vars
    <3>1. PICK d \in WriteControl(conn[s], "pong") :
            /\ conn' = [conn EXCEPT ![s] = [d EXCEPT !.reader = "reading"]]
            /\ UNCHANGED vars
      BY <2>3
    <3>2. Sound([d EXCEPT !.reader = "reading"], pc[s], cancelled[s])
      BY <1>0, <2>1, <2>2 DEF Sound, Connection
    <3> QED
      BY <3>1, <3>2, ConnStep
  <2>4. CASE \E d \in WriteControl(conn[s], "pong") :
               GoroutineReturns(s, [d EXCEPT !.reader = "returned"], "read")
    <3>1. PICK d \in WriteControl(conn[s], "pong") :
            GoroutineReturns(s, [d EXCEPT !.reader = "returned"], "read")
      BY <2>4
    <3> DEFINE c == [d EXCEPT !.reader = "returned"]
    <3>2. c \in Connection /\ c.gerr = conn[s].gerr
      BY <2>2 DEF Connection
    <3>3. Sound([c EXCEPT !.gerr = IF @ = "none" THEN "read" ELSE @], pc[s], TRUE)
      BY <1>0, <2>1, <2>2 DEF Sound, Connection
    <3> QED
      BY <3>1, <3>2, <3>3, ReturnSound DEF TypeOK
  <2>5. CASE \E d \in WriteControl(conn[s], "close") :
               GoroutineReturns(s, [d EXCEPT !.reader = "returned",
                                             !.writeErr = TRUE], "read")
    <3>1. PICK d \in WriteControl(conn[s], "close") :
            GoroutineReturns(s, [d EXCEPT !.reader = "returned",
                                          !.writeErr = TRUE], "read")
      BY <2>5
    <3> DEFINE c == [d EXCEPT !.reader = "returned", !.writeErr = TRUE]
    <3>2. c \in Connection /\ c.gerr = conn[s].gerr
      BY <2>2 DEF Connection
    <3>3. Sound([c EXCEPT !.gerr = IF @ = "none" THEN "read" ELSE @], pc[s], TRUE)
      BY <1>0, <2>1, <2>2 DEF Sound, Connection
    <3> QED
      BY <3>1, <3>2, <3>3, ReturnSound DEF TypeOK
  <2> QED
    BY <1>5, <2>3, <2>4, <2>5 DEF PongOrClose
<1> QED
  BY <1>1, <1>2, <1>3, <1>4, <1>5 DEF connReader

(* observationWriter.                                                      *)
LEMMA WriterSound ==
  ASSUME TypeOK, SessionInv, NEW s \in Streams, observationWriter(s)
  PROVE  SessionInv'
<1>0. conn[s] \in Connection /\ Sound(conn[s], pc[s], cancelled[s])
  BY DEF SessionInv, ConnType
<1>1. CASE Iterate(s)
  <2>1. /\ conn' = [conn EXCEPT ![s] = conn[s]]
        /\ cancelled' = cancelled
        /\ \A r \in Streams \ {s} : pc'[r] = pc[r]
        /\ conn[s].writer = "running" /\ pc[s] # "yielding"
    BY <1>1 DEF Iterate, StreamOpen, Subscribe, StreamDone, StreamTake,
                Unsubscribe, TypeOK, SessionInv, ConnType
  <2>2. Sound(conn[s], pc'[s], cancelled'[s])
    BY <1>0, <2>1 DEF Sound
  <2> QED
    BY <2>1, <2>2, OneSession
<1>2. CASE WriterLock(s)
  <2>1. conn[s].writer = "running"
    BY <1>0, <1>2 DEF Sound, WriterLock, Connection
  <2>2. Sound([conn[s] EXCEPT !.mu = "writer"], pc[s], cancelled[s])
    BY <1>0, <1>2, <2>1 DEF Sound, Connection, WriterLock, Lock
  <2> QED
    BY <1>2, <2>2, ConnStep DEF WriterLock, Lock
<1>3. CASE WriteObservation(s)
  <2>1. PICK d \in Write(conn[s], "obs") \cup Write(conn[s], "blank"),
              e \in BOOLEAN : conn' = [conn EXCEPT ![s] = [d EXCEPT !.werr = e]]
    <3>1. \A d \in Write(conn[s], "obs") : d.writeErr \in BOOLEAN
      BY <1>0 DEF Write, Written, Failed, Connection
    <3> QED
      BY <1>3, <3>1 DEF WriteObservation
  <2>2. /\ YieldOk(s) \/ YieldFail(s)
        /\ conn[s].mu = "writer"
    BY <1>3 DEF WriteObservation
  <2>3. /\ cancelled' = cancelled
        /\ \A r \in Streams \ {s} : pc'[r] = pc[r]
    BY <2>2 DEF YieldOk, YieldFail, TypeOK
  <2>4. /\ d \in Connection /\ d.mu = "free" /\ d.gerr = conn[s].gerr
        /\ d.handler = conn[s].handler /\ d.reader = conn[s].reader
        /\ d.writer = conn[s].writer
    BY <1>0, WriteIsWriteControl, WriteKeeps DEF Messages
  <2>5. Sound([d EXCEPT !.werr = e], pc'[s], cancelled'[s])
    BY <1>0, <2>2, <2>3, <2>4 DEF Sound, Connection
  <2> QED
    BY <2>1, <2>3, <2>5, OneSession
<1>4. CASE WriterReturns(s)
  <2>1. PICK e \in {"none", "write"} :
          GoroutineReturns(s, [conn[s] EXCEPT !.writer = "returned"], e)
    BY <1>4 DEF WriterReturns
  <2> DEFINE c == [conn[s] EXCEPT !.writer = "returned"]
  <2>2. c \in Connection /\ c.gerr = conn[s].gerr
    BY <1>0 DEF Connection
  <2>3. Sound([c EXCEPT !.gerr = IF @ = "none" THEN e ELSE @], pc[s],
              cancelled[s] \/ e # "none")
    BY <1>0, <1>4 DEF Sound, Connection, WriterReturns
  <2> QED
    BY <2>1, <2>2, <2>3, ReturnSound
<1> QED
  BY <1>1, <1>2, <1>3, <1>4 DEF observationWriter

(* The peer stalls, resumes or goes.                                       *)
LEMMA PeerSound ==
  ASSUME TypeOK, SessionInv, NEW s \in Streams, Peer(s)
  PROVE  SessionInv'
<1>0. conn[s] \in Connection /\ Sound(conn[s], pc[s], cancelled[s])
  BY DEF SessionInv, ConnType
<1>1. PICK p \in {"reading", "stalled", "gone"} :
        conn' = [conn EXCEPT ![s] = [conn[s] EXCEPT !.peer = p]]
  BY DEF Peer
<1>2. Sound([conn[s] EXCEPT !.peer = p], pc[s], cancelled[s])
  BY <1>0 DEF Sound, Connection
<1> QED
  BY <1>1, <1>2, ConnStep DEF Peer

(* The feed and the broker leave the sessions' phases alone.               *)
LEMMA FeedSound == ASSUME SessionInv, Feed PROVE SessionInv'
<1>1. pc' = pc /\ cancelled' = cancelled /\ conn' = conn
  BY DEF Feed, Publish, CancelBroker, BrokerLoop, TakeSub, TakeUnsub,
         TakePublish, Stop, Offer, streamVars
<1> QED
  BY <1>1 DEF SessionInv, ConnType

(* Every session starts with a fresh connection and an idle stream.        *)
LEMMA SessionInvInit == SessionInit => SessionInv
<1> SUFFICES ASSUME SessionInit PROVE SessionInv
  OBVIOUS
<1> DEFINE c == [handler |-> "none", reader |-> "none", writer |-> "none",
        mu |-> "free", writeErr |-> FALSE, werr |-> FALSE, gerr |-> "none",
        peer |-> "reading", sent |-> <<>>]
<1>1. c \in Connection
  BY DEF Connection
<1>2. conn = [s \in Streams |-> c]
  BY DEF SessionInit
<1>3. \A s \in Streams : pc[s] = "idle" /\ cancelled[s] = FALSE
  BY DEF SessionInit, Init
<1>4. Sound(c, "idle", FALSE)
  BY <1>1 DEF Sound
<1> HIDE DEF c
<1> QED
  BY <1>1, <1>2, <1>3, <1>4 DEF SessionInv, ConnType

(* The inductive invariant of the sessions.                                *)
LEMMA SessionsSound == SessionSpec => []SessionInv
<1>1. SessionInit => SessionInv
  BY SessionInvInit
<1>2. TypeOK /\ SessionInv /\ [SessionNext]_sessionVars => SessionInv'
  <2> SUFFICES ASSUME TypeOK, SessionInv, [SessionNext]_sessionVars PROVE SessionInv'
    OBVIOUS
  <2>1. CASE UNCHANGED sessionVars
    BY <2>1 DEF sessionVars, vars, streamVars, SessionInv, ConnType
  <2> QED
    BY <2>1, HandlerSound, ReaderSound, WriterSound, PeerSound, FeedSound DEF SessionNext
<1> QED
  BY <1>1, <1>2, SessionsKeepBroker, PTL DEF SessionSpec

(* The handler that reports is alone, its stream is done, and it has an    *)
(* error.                                                                  *)
THEOREM SessionsEnd == SessionSpec => [](SessionTypeOK /\ SessionOver)
<1>1. TypeOK /\ SessionInv => SessionTypeOK /\ SessionOver
  BY DEF SessionInv, Sound, ConnType, SessionTypeOK, SessionOver, MuInWrite
<1> QED
  BY <1>1, SessionsSound, SessionsKeepBroker, PTL

-----------------------------------------------------------------------------
(* What is written, in order.                                              *)

\* The handler has not greeted the peer.
Early(c) == c.handler \in {"none", "rejected", "greeting"}

\* The order of the messages of a session with connection c that has been
\* given n observations.  Who may still write has written no last message.
Ordered(c, n) ==
  /\ Early(c) => c.sent = <<>>
  /\ c.sent # <<>> => c.sent[1] = "sinfo"
  /\ ~Early(c) => c.writeErr \/ c.sent # <<>>
  /\ \A i \in 1..Len(c.sent) :
       c.sent[i] \in {"close", "error"} =>
         i = Len(c.sent) /\ (c.writeErr \/ c.handler = "returned")
  /\ Observations(c.sent) = n

OrderInv == \A s \in Streams : Ordered(conn[s], Len(delivered[s]))

\* A step from c to d that writes nothing, and one that writes m.
Quiet(c, d) ==
  /\ d.sent = c.sent
  /\ c.writeErr => d.writeErr
  /\ Early(d) => Early(c)
  /\ Early(c) => Early(d) \/ d.writeErr
  /\ c.handler = "returned" => d.handler = "returned"

Says(c, d, m) ==
  /\ d.sent = Append(c.sent, m)
  /\ ~c.writeErr
  /\ c.handler # "returned"
  /\ ~Early(d)
  /\ Early(c) => m = "sinfo"
  /\ m \in {"close", "error"} => d.writeErr \/ d.handler = "returned"

(* One message more is one observation more or none.                       *)
LEMMA CountAppend ==
  ASSUME NEW q \in Seq(Messages), NEW m \in Messages
  PROVE  /\ Observations(q) \in Nat
         /\ m = "obs" => Observations(Append(q, m)) = Observations(q) + 1
         /\ m # "obs" => Observations(Append(q, m)) = Observations(q)
<1> DEFINE S == {i \in 1..Len(q) : q[i] = "obs"}
           T == {i \in 1..Len(Append(q, m)) : Append(q, m)[i] = "obs"}
<1>1. IsFiniteSet(S) /\ Cardinality(S) \in Nat
  <2>1. Len(q) \in Int /\ 1 \in Int /\ S \subseteq 1..Len(q)
    OBVIOUS
  <2>2. IsFiniteSet(1..Len(q))
    BY <2>1, FS_Interval
  <2>3. IsFiniteSet(S)
    BY <2>1, <2>2, FS_Subset
  <2> QED
    BY <2>3, FS_CardinalityType
<1>2. /\ Len(Append(q, m)) = Len(q) + 1
      /\ Append(q, m)[Len(q) + 1] = m
      /\ \A i \in 1..Len(q) : Append(q, m)[i] = q[i]
  OBVIOUS
<1>3. 1..(Len(q) + 1) = (1..Len(q)) \cup {Len(q) + 1}
  OBVIOUS
<1>4. Len(q) + 1 \notin S
  OBVIOUS
<1>5. T = IF m = "obs" THEN S \cup {Len(q) + 1} ELSE S
  BY <1>2, <1>3
<1> HIDE DEF S, T
<1>6. Cardinality(S \cup {Len(q) + 1}) = Cardinality(S) + 1
  BY <1>1, <1>4, FS_AddElement
<1>7. Observations(q) = Cardinality(S) /\ Observations(Append(q, m)) = Cardinality(T)
  BY DEF Observations, S, T
<1> QED
  BY <1>1, <1>5, <1>6, <1>7

(* A quiet step keeps the order; a message keeps it if it is the greeting, *)
(* or comes after it and before any last one.                              *)
LEMMA QuietKeeps ==
  ASSUME NEW c, NEW d, NEW n, Ordered(c, n), Quiet(c, d)
  PROVE  Ordered(d, n)
BY DEF Ordered, Quiet, Early

LEMMA SaysKeeps ==
  ASSUME NEW c \in Connection, NEW d, NEW m \in Messages, NEW n,
         Ordered(c, n), Says(c, d, m)
  PROVE  Ordered(d, IF m = "obs" THEN n + 1 ELSE n)
<1>1. c.sent \in Seq(Messages)
  BY DEF Connection
<1> DEFINE q == c.sent
<1>2. /\ Len(Append(q, m)) = Len(q) + 1
      /\ Append(q, m)[Len(q) + 1] = m
      /\ \A i \in 1..Len(q) : Append(q, m)[i] = q[i]
      /\ Append(q, m) # <<>>
  BY <1>1
<1>3. \A i \in 1..Len(q) : q[i] \notin {"close", "error"}
  BY DEF Ordered, Says
<1>4. Append(q, m)[1] = "sinfo"
  <2>1. CASE q = <<>>
    <3>1. m = "sinfo"
      BY <2>1 DEF Ordered, Says
    <3> QED
      BY <2>1, <3>1
  <2>2. CASE q # <<>>
    <3>1. 1 \in 1..Len(q) /\ q[1] = "sinfo"
      BY <1>1, <2>2 DEF Ordered
    <3> QED
      BY <1>2, <3>1
  <2> QED
    BY <2>1, <2>2
<1>5. \A i \in 1..(Len(q) + 1) : i \in 1..Len(q) \/ i = Len(q) + 1
  BY <1>1
<1>6. \A i \in 1..Len(d.sent) :
        d.sent[i] \in {"close", "error"} =>
          i = Len(d.sent) /\ (d.writeErr \/ d.handler = "returned")
  BY <1>2, <1>3, <1>5 DEF Says
<1>7. Observations(d.sent) = IF m = "obs" THEN n + 1 ELSE n
  BY <1>1, CountAppend DEF Ordered, Says
<1> QED
  BY <1>2, <1>4, <1>6, <1>7 DEF Ordered, Says

(* How a write ends: the message is written, or it is not and the error    *)
(* sticks; a pong is not recorded.                                         *)
LEMMA WriteEnds ==
  ASSUME NEW c \in Connection, NEW m \in Messages, NEW d \in WriteControl(c, m)
  PROVE  /\ d.handler = c.handler
         /\ \/ d.sent = Append(c.sent, m) /\ ~c.writeErr /\ ~d.writeErr
            \/ d.sent = c.sent /\ d.writeErr
            \/ m = "pong" /\ d.sent = c.sent /\ ~c.writeErr
<1>1. \/ d = Written(c, m) /\ ~c.writeErr
      \/ d = Failed(c)
  BY DEF WriteControl, Write
<1> QED
  BY <1>1 DEF Written, Failed, Connection

(* A step of one session need only be looked at there.                     *)
LEMMA OrderOfOne ==
  ASSUME TypeOK, SessionInv, OrderInv, NEW s \in Streams, NEW d,
         conn' = [conn EXCEPT ![s] = d],
         \A r \in Streams \ {s} : delivered'[r] = delivered[r],
         Ordered(d, Len(delivered'[s]))
  PROVE  OrderInv'
<1> SUFFICES ASSUME NEW r \in Streams PROVE Ordered(conn'[r], Len(delivered'[r]))
  BY DEF OrderInv
<1>1. CASE r = s
  BY <1>1 DEF SessionInv, ConnType
<1>2. CASE r # s
  BY <1>2 DEF SessionInv, ConnType, OrderInv
<1> QED
  BY <1>1, <1>2

(* So with steps that deliver nothing.                                     *)
LEMMA OrderKept ==
  ASSUME TypeOK, SessionInv, OrderInv, NEW s \in Streams, NEW d,
         conn' = [conn EXCEPT ![s] = d], delivered' = delivered,
         Quiet(conn[s], d) \/ \E m \in Messages \ {"obs"} : Says(conn[s], d, m)
  PROVE  OrderInv'
<1>1. conn[s] \in Connection /\ Ordered(conn[s], Len(delivered[s]))
  BY DEF SessionInv, ConnType, OrderInv
<1>2. Ordered(d, Len(delivered[s]))
  <2>1. CASE Quiet(conn[s], d)
    BY <1>1, <2>1, QuietKeeps
  <2>2. ASSUME NEW m \in Messages \ {"obs"}, Says(conn[s], d, m)
        PROVE  Ordered(d, Len(delivered[s]))
    BY <1>1, <2>2, SaysKeeps
  <2> QED
    BY <2>1, <2>2
<1> QED
  BY <1>2, OrderOfOne

(* A goroutine that returns from connection c.                             *)
LEMMA ReturnOrdered ==
  ASSUME TypeOK, SessionInv, OrderInv, NEW s \in Streams,
         NEW c \in Connection, NEW e, GoroutineReturns(s, c, e),
         Quiet(conn[s], c) \/ \E m \in Messages \ {"obs"} : Says(conn[s], c, m)
  PROVE  OrderInv'
<1> DEFINE d == [c EXCEPT !.gerr = IF @ = "none" THEN e ELSE @]
<1>1. conn' = [conn EXCEPT ![s] = d] /\ delivered' = delivered
  BY DEF GoroutineReturns
<1>2. /\ d.sent = c.sent /\ d.writeErr = c.writeErr /\ d.handler = c.handler
  BY DEF Connection
<1> HIDE DEF d
<1>3. Quiet(conn[s], d) \/ \E m \in Messages \ {"obs"} : Says(conn[s], d, m)
  BY <1>2 DEF Quiet, Says, Early
<1> QED
  BY <1>1, <1>3, OrderKept

(* Entrypoint: the greeting is the first message, the error the last.      *)
LEMMA HandlerOrdered ==
  ASSUME TypeOK, SessionInv, OrderInv, NEW s \in Streams, Handler(s)
  PROVE  OrderInv'
<1>0. conn[s] \in Connection /\ Sound(conn[s], pc[s], cancelled[s])
  BY DEF SessionInv, ConnType
<1>1. delivered' = delivered
  BY DEF Handler, Enter, HandlerLock, Lock, Greet, Wait, Report, vars, streamVars
<1>2. CASE Enter(s)
  <2>1. PICK h \in {"rejected", "greeting"} :
          conn' = [conn EXCEPT ![s] = [conn[s] EXCEPT !.handler = h]]
    BY <1>2 DEF Enter
  <2>2. Quiet(conn[s], [conn[s] EXCEPT !.handler = h])
    BY <1>0, <1>2 DEF Quiet, Early, Connection, Enter
  <2> QED
    BY <1>1, <2>1, <2>2, OrderKept
<1>3. CASE HandlerLock(s)
  <2>1. conn' = [conn EXCEPT ![s] = [conn[s] EXCEPT !.mu = "handler"]]
    BY <1>3 DEF HandlerLock, Lock
  <2>2. Quiet(conn[s], [conn[s] EXCEPT !.mu = "handler"])
    BY <1>0 DEF Quiet, Early, Connection
  <2> QED
    BY <1>1, <2>1, <2>2, OrderKept
<1>4. CASE Greet(s)
  <2>1. PICK d \in Write(conn[s], "sinfo") :
          conn' = [conn EXCEPT ![s] = [d EXCEPT !.handler = "waiting",
                                                !.reader = "checking",
                                                !.writer = "running"]]
    BY <1>4 DEF Greet
  <2> DEFINE x == [d EXCEPT !.handler = "waiting", !.reader = "checking",
                            !.writer = "running"]
  <2>2. /\ d \in Connection
        /\ \/ d.sent = Append(conn[s].sent, "sinfo") /\ ~conn[s].writeErr
           \/ d.sent = conn[s].sent /\ d.writeErr
    BY <1>0, <2>1, WriteIsWriteControl, WriteKeeps, WriteEnds DEF Messages
  <2>3. x.sent = d.sent /\ x.writeErr = d.writeErr /\ x.handler = "waiting"
    BY <2>2 DEF Connection
  <2> HIDE DEF x
  <2>4. Quiet(conn[s], x) \/ Says(conn[s], x, "sinfo")
    BY <1>4, <2>2, <2>3 DEF Quiet, Says, Early, Greet
  <2> QED
    BY <1>1, <2>1, <2>4, OrderKept DEF Messages, x
<1>5. CASE Wait(s)
  <2>1. PICK h \in {"returned", "reporting"} :
          conn' = [conn EXCEPT ![s] = [conn[s] EXCEPT !.handler = h]]
    BY <1>5 DEF Wait
  <2>2. Quiet(conn[s], [conn[s] EXCEPT !.handler = h])
    BY <1>0, <1>5 DEF Quiet, Early, Connection, Wait
  <2> QED
    BY <1>1, <2>1, <2>2, OrderKept
<1>6. CASE Report(s)
  <2>1. PICK d \in Write(conn[s], "error") :
          conn' = [conn EXCEPT ![s] = [d EXCEPT !.handler = "returned"]]
    BY <1>6 DEF Report
  <2> DEFINE x == [d EXCEPT !.handler = "returned"]
  <2>2. /\ d \in Connection
        /\ \/ d.sent = Append(conn[s].sent, "error") /\ ~conn[s].writeErr
           \/ d.sent = conn[s].sent /\ d.writeErr
    BY <1>0, <2>1, WriteIsWriteControl, WriteKeeps, WriteEnds DEF Messages
  <2>3. x.sent = d.sent /\ x.writeErr = d.writeErr /\ x.handler = "returned"
    BY <2>2 DEF Connection
  <2> HIDE DEF x
  <2>4. Quiet(conn[s], x) \/ Says(conn[s], x, "error")
    BY <1>6, <2>2, <2>3 DEF Quiet, Says, Early, Report
  <2> QED
    BY <1>1, <2>1, <2>4, OrderKept DEF Messages, x
<1> QED
  BY <1>2, <1>3, <1>4, <1>5, <1>6 DEF Handler

(* connReader: pongs between the greeting and the end, a close at the end. *)
LEMMA ReaderOrdered ==
  ASSUME TypeOK, SessionInv, OrderInv, NEW s \in Streams, connReader(s)
  PROVE  OrderInv'
<1>0. conn[s] \in Connection /\ Sound(conn[s], pc[s], cancelled[s])
  BY DEF SessionInv, ConnType
<1>1. ASSUME NEW x, x = [conn[s] EXCEPT !.reader = "returned"],
             NEW e, GoroutineReturns(s, x, e)
      PROVE  OrderInv'
  <2>1. x \in Connection /\ Quiet(conn[s], x)
    BY <1>0, <1>1 DEF Connection, Quiet, Early
  <2> QED
    BY <1>1, <2>1, ReturnOrdered
<1>2. ASSUME NEW x, x.sent = conn[s].sent, x.writeErr = conn[s].writeErr,
             x.handler = conn[s].handler,
             conn' = [conn EXCEPT ![s] = x], UNCHANGED vars
      PROVE  OrderInv'
  <2>1. Quiet(conn[s], x)
    BY <1>2 DEF Quiet, Early
  <2> QED
    BY <1>2, <2>1, OrderKept DEF vars, streamVars
<1>3. CASE ReaderCheck(s)
  <2>1. CASE conn' = [conn EXCEPT ![s].reader = "reading"] /\ UNCHANGED vars
    BY <1>0, <1>2, <2>1 DEF Connection
  <2> QED
    BY <1>1, <1>3, <2>1 DEF ReaderCheck
<1>4. CASE ReadFrame(s)
  <2>0. PICK f \in Frames : conn' = [conn EXCEPT ![s].reader = Handling[f]]
    BY <1>4 DEF ReadFrame
  <2> DEFINE x == [conn[s] EXCEPT !.reader = Handling[f]]
  <2>1. conn' = [conn EXCEPT ![s] = x] /\ UNCHANGED vars
    BY <1>4, <2>0 DEF ReadFrame
  <2>2. x.sent = conn[s].sent /\ x.writeErr = conn[s].writeErr
        /\ x.handler = conn[s].handler
    BY <1>0 DEF Connection
  <2> HIDE DEF x
  <2> QED
    BY <1>2, <2>1, <2>2
<1>5. CASE ReadFails(s) \/ LockTimeout(s)
  BY <1>1, <1>5 DEF ReadFails, LockTimeout
<1>6. CASE ReaderLock(s)
  <2>1. conn' = [conn EXCEPT ![s] = [conn[s] EXCEPT !.mu = "reader"]] /\ UNCHANGED vars
    BY <1>6 DEF ReaderLock, Lock
  <2> QED
    BY <1>0, <1>2, <2>1 DEF Connection
<1>7. CASE PongOrClose(s)
  <2>1. ~Early(conn[s]) /\ conn[s].handler # "returned"
    BY <1>0, <1>7 DEF PongOrClose, Sound, Early
  <2>2. ASSUME NEW m \in {"pong", "close"}, NEW d \in WriteControl(conn[s], m)
        PROVE  /\ d \in Connection /\ d.handler = conn[s].handler
               /\ \/ d.sent = Append(conn[s].sent, m) /\ ~conn[s].writeErr
                  \/ d.sent = conn[s].sent /\ d.writeErr
                  \/ d.sent = conn[s].sent /\ ~conn[s].writeErr
    BY <1>0, <2>2, WriteKeeps, WriteEnds DEF Messages
  <2>3. ASSUME NEW m \in {"pong", "close"}, NEW d \in WriteControl(conn[s], m), NEW x,
               x.sent = d.sent, x.handler = d.handler,
               d.writeErr => x.writeErr, m = "close" => x.writeErr
        PROVE  Quiet(conn[s], x) \/ Says(conn[s], x, m)
    BY <2>1, <2>2, <2>3 DEF Quiet, Says, Early
  <2>4. ASSUME NEW d \in WriteControl(conn[s], "pong"), UNCHANGED vars,
               conn' = [conn EXCEPT ![s] = [d EXCEPT !.reader = "reading"]]
        PROVE  OrderInv'
    <3> DEFINE x == [d EXCEPT !.reader = "reading"]
    <3>1. x.sent = d.sent /\ x.handler = d.handler /\ x.writeErr = d.writeErr
      BY <2>2 DEF Connection
    <3> HIDE DEF x
    <3>2. Quiet(conn[s], x) \/ Says(conn[s], x, "pong")
      BY <2>3, <3>1
    <3>3. conn' = [conn EXCEPT ![s] = x] /\ delivered' = delivered
      BY <2>4 DEF x, vars, streamVars
    <3> QED
      BY <3>2, <3>3, OrderKept DEF Messages
  <2>5. ASSUME NEW d \in WriteControl(conn[s], "pong"),
               GoroutineReturns(s, [d EXCEPT !.reader = "returned"], "read")
        PROVE  OrderInv'
    <3> DEFINE x == [d EXCEPT !.reader = "returned"]
    <3>1. x.sent = d.sent /\ x.handler = d.handler /\ x.writeErr = d.writeErr
          /\ x \in Connection
      BY <2>2 DEF Connection
    <3>2. GoroutineReturns(s, x, "read")
      BY <2>5
    <3> HIDE DEF x
    <3>3. Quiet(conn[s], x) \/ Says(conn[s], x, "pong")
      BY <2>3, <3>1
    <3> QED
      BY <3>1, <3>2, <3>3, ReturnOrdered DEF Messages
  <2>6. ASSUME NEW d \in WriteControl(conn[s], "close"),
               GoroutineReturns(s, [d EXCEPT !.reader = "returned",
                                             !.writeErr = TRUE], "read")
        PROVE  OrderInv'
    <3> DEFINE x == [d EXCEPT !.reader = "returned", !.writeErr = TRUE]
    <3>1. x.sent = d.sent /\ x.handler = d.handler /\ x.writeErr = TRUE
          /\ x \in Connection
      BY <2>2 DEF Connection
    <3>2. GoroutineReturns(s, x, "read")
      BY <2>6
    <3> HIDE DEF x
    <3>3. Quiet(conn[s], x) \/ Says(conn[s], x, "close")
      BY <2>3, <3>1
    <3> QED
      BY <3>1, <3>2, <3>3, ReturnOrdered DEF Messages
  <2> QED
    BY <1>7, <2>4, <2>5, <2>6 DEF PongOrClose
<1> QED
  BY <1>3, <1>4, <1>5, <1>6, <1>7 DEF connReader

(* observationWriter: an observation is written exactly when the stream's  *)
(* yield succeeds.                                                         *)
LEMMA WriterOrdered ==
  ASSUME TypeOK, SessionInv, OrderInv, NEW s \in Streams, observationWriter(s)
  PROVE  OrderInv'
<1>0. /\ conn[s] \in Connection /\ Sound(conn[s], pc[s], cancelled[s])
      /\ Ordered(conn[s], Len(delivered[s]))
  BY DEF SessionInv, ConnType, OrderInv
<1>1. CASE Iterate(s)
  BY <1>1 DEF Iterate, StreamOpen, Subscribe, StreamDone, StreamTake, Unsubscribe,
              OrderInv, Ordered
<1>2. CASE WriterLock(s)
  <2>1. Quiet(conn[s], [conn[s] EXCEPT !.mu = "writer"])
    BY <1>0 DEF Quiet, Early, Connection
  <2>2. conn' = [conn EXCEPT ![s] = [conn[s] EXCEPT !.mu = "writer"]]
        /\ delivered' = delivered
    BY <1>2 DEF WriterLock, Lock, vars, streamVars
  <2> QED
    BY <2>1, <2>2, OrderKept
<1>3. CASE WriteObservation(s)
  <2>1. conn[s].mu = "writer" /\ ~Early(conn[s]) /\ conn[s].handler # "returned"
    BY <1>0, <1>3 DEF WriteObservation, Sound, Early
  <2>2. ASSUME NEW m \in {"obs", "blank"}, NEW d \in Write(conn[s], m), NEW b
        PROVE  LET x == [d EXCEPT !.werr = b]
               IN  /\ \/ d.writeErr /\ Quiet(conn[s], x)
                      \/ ~d.writeErr /\ Says(conn[s], x, m)
    <3>1. /\ d \in Connection /\ d.handler = conn[s].handler
          /\ \/ d.sent = Append(conn[s].sent, m) /\ ~conn[s].writeErr /\ ~d.writeErr
             \/ d.sent = conn[s].sent /\ d.writeErr
      BY <1>0, WriteIsWriteControl, WriteKeeps, WriteEnds DEF Messages
    <3> DEFINE x == [d EXCEPT !.werr = b]
    <3>2. x.sent = d.sent /\ x.handler = d.handler /\ x.writeErr = d.writeErr
      BY <3>1 DEF Connection
    <3> HIDE DEF x
    <3>3. (d.writeErr /\ Quiet(conn[s], x)) \/ (~d.writeErr /\ Says(conn[s], x, m))
      BY <2>1, <3>1, <3>2 DEF Quiet, Says, Early
    <3> QED
      BY <3>3 DEF x
  <2>3. ASSUME NEW d \in Write(conn[s], "obs"),
               conn' = [conn EXCEPT ![s] = [d EXCEPT !.werr = d.writeErr]],
               IF d.writeErr THEN YieldFail(s) ELSE YieldOk(s)
        PROVE  OrderInv'
    <3> DEFINE x == [d EXCEPT !.werr = d.writeErr]
    <3>1. CASE d.writeErr
      <4>1. delivered' = delivered /\ Quiet(conn[s], x)
        BY <2>2, <2>3, <3>1 DEF YieldFail
      <4> QED
        BY <2>3, <4>1, OrderKept
    <3>2. CASE ~d.writeErr
      <4>1. Says(conn[s], x, "obs")
        BY <2>2, <3>2
      <4>2. /\ Len(delivered'[s]) = Len(delivered[s]) + 1
            /\ \A r \in Streams \ {s} : delivered'[r] = delivered[r]
        BY <2>3, <3>2 DEF YieldOk, TypeOK
      <4> HIDE DEF x
      <4>3. Ordered(x, Len(delivered[s]) + 1)
        BY <1>0, <4>1, SaysKeeps DEF Messages
      <4> QED
        BY <2>3, <4>2, <4>3, OrderOfOne DEF x
    <3> QED
      BY <3>1, <3>2
  <2>4. ASSUME NEW d \in Write(conn[s], "blank"),
               conn' = [conn EXCEPT ![s] = [d EXCEPT !.werr = TRUE]], YieldFail(s)
        PROVE  OrderInv'
    <3> DEFINE x == [d EXCEPT !.werr = TRUE]
    <3>1. Quiet(conn[s], x) \/ Says(conn[s], x, "blank")
      BY <2>2
    <3>2. delivered' = delivered
      BY <2>4 DEF YieldFail
    <3> HIDE DEF x
    <3> QED
      BY <2>4, <3>1, <3>2, OrderKept DEF Messages, x
  <2> QED
    BY <1>3, <2>3, <2>4 DEF WriteObservation
<1>4. CASE WriterReturns(s)
  <2> DEFINE x == [conn[s] EXCEPT !.writer = "returned"]
  <2>1. x \in Connection /\ Quiet(conn[s], x)
    BY <1>0 DEF Connection, Quiet, Early
  <2>2. PICK e : GoroutineReturns(s, x, e)
    BY <1>4 DEF WriterReturns
  <2> HIDE DEF x
  <2> QED
    BY <2>1, <2>2, ReturnOrdered
<1> QED
  BY <1>1, <1>2, <1>3, <1>4 DEF observationWriter

(* What the peer and the feed do writes nothing.                           *)
LEMMA OthersOrdered ==
  ASSUME TypeOK, SessionInv, OrderInv, Feed \/ \E s \in Streams : Peer(s)
  PROVE  OrderInv'
<1>1. CASE Feed
  BY <1>1 DEF Feed, Publish, CancelBroker, BrokerLoop, TakeSub, TakeUnsub,
     TakePublish, Stop, Offer, streamVars, OrderInv, Ordered
<1>2. ASSUME NEW s \in Streams, Peer(s) PROVE OrderInv'
  <2>0. conn[s] \in Connection
    BY DEF SessionInv, ConnType
  <2>1. PICK x \in {[conn[s] EXCEPT !.peer = p] : p \in {"reading", "stalled", "gone"}} :
          conn' = [conn EXCEPT ![s] = x]
    BY <1>2 DEF Peer
  <2>2. Quiet(conn[s], x)
    BY <2>0 DEF Quiet, Early, Connection
  <2>3. delivered' = delivered
    BY <1>2 DEF Peer, vars, streamVars
  <2> QED
    BY <2>1, <2>2, <2>3, OrderKept
<1> QED
  BY <1>1, <1>2

(* A peer is greeted first, is written nothing after a close or an error,  *)
(* pongs aside, and is written as many observations as are counted; with   *)
(* SessionsAreServed, those of delivered, in their order.                  *)
THEOREM SessionsWriteInOrder == SessionSpec => []WireOrder
<1>1. SessionInit => OrderInv
  <2> SUFFICES ASSUME SessionInit, NEW s \in Streams
               PROVE  Ordered(conn[s], Len(delivered[s]))
    BY DEF OrderInv
  <2>1. conn[s].sent = <<>> /\ conn[s].handler = "none" /\ delivered[s] = <<>>
    BY DEF SessionInit, Init
  <2>2. Observations(<<>>) = 0
    <3>1. {i \in 1..Len(<<>>) : <<>>[i] = "obs"} = {}
      OBVIOUS
    <3> QED
      BY <3>1, FS_EmptySet DEF Observations
  <2> QED
    BY <2>1, <2>2 DEF Ordered, Early
<1>2. TypeOK /\ SessionInv /\ OrderInv /\ [SessionNext]_sessionVars => OrderInv'
  <2> SUFFICES ASSUME TypeOK, SessionInv, OrderInv, [SessionNext]_sessionVars
               PROVE  OrderInv'
    OBVIOUS
  <2>1. CASE UNCHANGED sessionVars
    BY <2>1 DEF sessionVars, vars, streamVars, OrderInv, Ordered
  <2> QED
    BY <2>1, HandlerOrdered, ReaderOrdered, WriterOrdered, OthersOrdered DEF SessionNext
<1>3. OrderInv /\ SessionInv => WireOrder
  <2> SUFFICES ASSUME OrderInv, SessionInv, NEW s \in Streams
               PROVE  LET sent == conn[s].sent IN
                      /\ \A i \in 1..Len(sent) :
                           /\ sent[i] = "obs" => sent[1] = "sinfo"
                           /\ sent[i] \in {"close", "error"} => i = Len(sent)
                      /\ Observations(sent) = Len(delivered[s])
    BY DEF WireOrder
  <2>1. conn[s].sent \in Seq(Messages) /\ Ordered(conn[s], Len(delivered[s]))
    BY DEF OrderInv, SessionInv, ConnType, Connection
  <2> QED
    BY <2>1 DEF Ordered
<1> QED
  BY <1>1, <1>2, <1>3, SessionsSound, SessionsKeepBroker, PTL DEF SessionSpec
=============================================================================
