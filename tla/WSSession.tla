----------------------------- MODULE WSSession -----------------------------
(***************************************************************************)
(* The websocket sessions of the feeder (feeder/pkg/app/handlers/ws.go).   *)
(* Session s is the consumer of stream s of module Broker: Entrypoint, the *)
(* handler, greets the peer and starts two goroutines in an error group,   *)
(* connReader, which reads what the peer sends and answers its pings, and  *)
(* observationWriter, which runs the stream and writes each observation    *)
(* it yields.  When both have returned the handler reports the error and   *)
(* closes the connection.                                                  *)
(*                                                                         *)
(* The peer may stop reading (its writes then block, for they have no      *)
(* deadline), resume, send frames, ask to close, or vanish.                *)
(***************************************************************************)
EXTENDS Broker

VARIABLE conn \* conn[s]: the session's goroutines, connection and peer

sessionVars == <<vars, conn>>

\* What a frame from the peer makes ReadMessage do next: return to the loop
\* of connReader, or answer with a control frame from within.
Handling == [data |-> "checking", ping |-> "ponging", close |-> "closing"]
Frames == DOMAIN Handling

\* What the session writes; a blank is what an observation that cannot be
\* encoded leaves behind.
Messages == {"sinfo", "obs", "blank", "pong", "close", "error"}

Connection ==
  [handler  : {"none", "rejected", "greeting", "waiting", "reporting", "returned"},
   reader   : {"none", "checking", "reading", "ponging", "closing", "returned"},
   writer   : {"none", "running", "returned"},
   mu       : {"free", "handler", "reader", "writer"}, \* who is in a socket write
   writeErr : BOOLEAN,                     \* every later write fails at once
   werr     : BOOLEAN,                     \* err of observationWriter is set
   gerr     : {"none", "read", "write"},   \* the group's first error
   peer     : {"reading", "stalled", "gone"},
   sent     : Seq(Messages)]               \* what was written, in order,
                                           \* apart from pongs

\* Who holds mu is in a write.
MuInWrite(s) ==
  /\ conn[s].mu = "handler" => conn[s].handler \in {"greeting", "reporting"}
  /\ conn[s].mu = "reader" => conn[s].reader \in {"ponging", "closing"}
  /\ conn[s].mu = "writer" => conn[s].writer = "running" /\ pc[s] = "yielding"

SessionTypeOK ==
  /\ TypeOK
  /\ conn \in [Streams -> Connection]
  /\ \A s \in Streams : MuInWrite(s)

SessionInit ==
  /\ Init
  /\ conn = [s \in Streams |->
       [handler |-> "none", reader |-> "none", writer |-> "none",
        mu |-> "free", writeErr |-> FALSE, werr |-> FALSE, gerr |-> "none",
        peer |-> "reading", sent |-> <<>>]]

-----------------------------------------------------------------------------
(* The connection (vendored websocket conn.go).  A write holds mu; the     *)
(* error of one write is kept and fails all later ones.  Write is the set  *)
(* of what can become of connection c when a write without a deadline      *)
(* ends: none while the peer stalls.  A control frame has a deadline of a  *)
(* second.                                                                 *)
\* Mutant: mu is given back by writes that succeed only.
FailedLocked(c) == [c EXCEPT !.writeErr = TRUE]

\* A peer may send pings for ever: pongs are not recorded.
Written(c, m) ==
  [c EXCEPT !.mu = "free", !.sent = IF m = "pong" THEN @ ELSE Append(@, m)]
Failed(c) == [c EXCEPT !.mu = "free", !.writeErr = TRUE]

Write(c, m) ==
  {d \in {Written(c, m), Failed(c)} :
     IF d = Failed(c) THEN c.writeErr \/ c.peer = "gone"
                      ELSE ~c.writeErr /\ c.peer # "stalled"}

WriteControl(c, m) ==
  Write(c, m) \cup {d \in {Failed(c)} : c.peer = "stalled"}

Lock(s, who) ==
  /\ conn[s].mu = "free"
  /\ conn' = [conn EXCEPT ![s].mu = who]
  /\ UNCHANGED vars

\* Mutant: the group has no context of its own to cancel.
GoroutineReturnsAlone(s, c, e) ==
  /\ conn' = [conn EXCEPT ![s] = [c EXCEPT !.gerr = IF @ = "none" THEN e ELSE @]]
  /\ UNCHANGED <<published, brokerVars, streamVars>>

\* Mutant: the last goroutine that returns decides whether the context is done.
GoroutineReturnsLast(s, c, e) ==
  /\ conn' = [conn EXCEPT ![s] = [c EXCEPT !.gerr = IF @ = "none" THEN e ELSE @]]
  /\ cancelled' = [cancelled EXCEPT ![s] = e # "none"]
  /\ UNCHANGED <<published, brokerVars, pc, inbox, holding, delivered, since>>

\* A goroutine of the group returns e, leaving the connection as c: the first
\* error is kept and cancels the context the stream was given.
GoroutineReturns(s, c, e) ==
  /\ conn' = [conn EXCEPT ![s] = [c EXCEPT !.gerr = IF @ = "none" THEN e ELSE @]]
  /\ cancelled' = [cancelled EXCEPT ![s] = @ \/ e # "none"]
  /\ UNCHANGED <<published, brokerVars, pc, inbox, holding, delivered, since>>

-----------------------------------------------------------------------------
(* Entrypoint.                                                             *)

\* An unknown instrument and a failed upgrade end it before the session.
Enter(s) ==
  /\ conn[s].handler = "none"
  /\ \E h \in {"rejected", "greeting"} : conn' = [conn EXCEPT ![s].handler = h]
  /\ UNCHANGED vars

HandlerLock(s) == conn[s].handler \in {"greeting", "reporting"} /\ Lock(s, "handler")

\* The server info is written, its error ignored, the goroutines start.
Greet(s) ==
  /\ conn[s].handler = "greeting" /\ conn[s].mu = "handler"
  /\ \E d \in Write(conn[s], "sinfo") :
       conn' = [conn EXCEPT ![s] = [d EXCEPT !.handler = "waiting",
                                             !.reader = "checking",
                                             !.writer = "running"]]
  /\ UNCHANGED vars

\* Mutant: the handler goes on at the first error.
WaitFirst(s) ==
  /\ conn[s].handler = "waiting"
  /\ conn[s].gerr # "none"
  /\ conn' = [conn EXCEPT ![s].handler = "reporting"]
  /\ UNCHANGED vars

\* egrp.Wait returns.
Wait(s) ==
  /\ conn[s].handler = "waiting"
  /\ conn[s].reader = "returned" /\ conn[s].writer = "returned"
  /\ conn' = [conn EXCEPT ![s].handler =
                IF conn[s].gerr = "none" THEN "returned" ELSE "reporting"]
  /\ UNCHANGED vars

\* The error is written, what becomes of it ignored, the connection closed.
Report(s) ==
  /\ conn[s].handler = "reporting" /\ conn[s].mu = "handler"
  /\ \E d \in Write(conn[s], "error") :
       conn' = [conn EXCEPT ![s] = [d EXCEPT !.handler = "returned"]]
  /\ UNCHANGED vars

-----------------------------------------------------------------------------
(* connReader.                                                             *)

\* The head of the loop: the context is looked at here only.
ReaderCheck(s) ==
  /\ conn[s].reader = "checking"
  /\ \/ /\ cancelled[s]
        /\ GoroutineReturns(s, [conn[s] EXCEPT !.reader = "returned"], "none")
     \/ /\ ~cancelled[s]
        /\ conn' = [conn EXCEPT ![s].reader = "reading"]
        /\ UNCHANGED vars

\* ReadMessage reads a frame, whenever the peer has sent one; it may send as
\* many as it likes, and the network deliver them after the peer has gone.
ReadFrame(s) ==
  /\ conn[s].reader = "reading"
  /\ \E f \in Frames : conn' = [conn EXCEPT ![s].reader = Handling[f]]
  /\ UNCHANGED vars

\* Mutant: an error of ReadMessage is passed over.
ReadFailsOver(s) ==
  /\ conn[s].reader = "reading" /\ conn[s].peer = "gone"
  /\ conn' = [conn EXCEPT ![s].reader = "checking"]
  /\ UNCHANGED vars

ReadFails(s) ==
  /\ conn[s].reader = "reading" /\ conn[s].peer = "gone"
  /\ GoroutineReturns(s, [conn[s] EXCEPT !.reader = "returned"], "read")

ReaderLock(s) == conn[s].reader \in {"ponging", "closing"} /\ Lock(s, "reader")

\* A second has passed with another writer in mu.  For a ping that is the
\* error of ReadMessage, for a close the peer's close is.
LockTimeout(s) ==
  /\ conn[s].reader \in {"ponging", "closing"}
  /\ conn[s].mu \notin {"free", "reader"}
  /\ GoroutineReturns(s, [conn[s] EXCEPT !.reader = "returned"], "read")

\* Mutant: after a close frame data may still be written.
PongOrCloseOpen(s) ==
  /\ conn[s].mu = "reader" /\ conn[s].reader = "closing"
  /\ \E d \in WriteControl(conn[s], "close") :
       GoroutineReturns(s, [d EXCEPT !.reader = "returned"], "read")

\* The ping handler, after which ReadMessage reads on without a look at the
\* context; or the answer to a close, the last thing written.
PongOrClose(s) ==
  /\ conn[s].mu = "reader"
  /\ \/ /\ conn[s].reader = "ponging"
        /\ \E d \in WriteControl(conn[s], "pong") :
             \/ /\ ~d.writeErr
                /\ conn' = [conn EXCEPT ![s] = [d EXCEPT !.reader = "reading"]]
                /\ UNCHANGED vars
             \/ /\ d.writeErr
                /\ GoroutineReturns(s, [d EXCEPT !.reader = "returned"], "read")
     \/ /\ conn[s].reader = "closing"
        /\ \E d \in WriteControl(conn[s], "close") :
             GoroutineReturns(s, [d EXCEPT !.reader = "returned",
                                           !.writeErr = TRUE], "read")

-----------------------------------------------------------------------------
(* observationWriter.                                                      *)

\* The stream between its yields.
Iterate(s) ==
  /\ conn[s].writer = "running"
  /\ StreamOpen(s) \/ Subscribe(s) \/ StreamDone(s) \/ StreamTake(s) \/ Unsubscribe(s)
  /\ UNCHANGED conn

\* Mutant: a writer that finds the connection busy gives up.
WriterTryLock(s) ==
  \/ pc[s] = "yielding" /\ Lock(s, "writer")
  \/ conn[s].mu = "reader" /\ YieldFail(s) /\ UNCHANGED conn

WriterLock(s) == pc[s] = "yielding" /\ Lock(s, "writer")

\* WriteJSON in the yield: written, failed, or, for an observation that
\* cannot be encoded (a time past the year 9999), failed with a blank message.
WriteObservation(s) ==
  /\ conn[s].mu = "writer"
  /\ \/ \E d \in Write(conn[s], "obs") :
          /\ conn' = [conn EXCEPT ![s] = [d EXCEPT !.werr = d.writeErr]]
          /\ IF d.writeErr THEN YieldFail(s) ELSE YieldOk(s)
     \/ /\ \E d \in Write(conn[s], "blank") :
             conn' = [conn EXCEPT ![s] = [d EXCEPT !.werr = TRUE]]
        /\ YieldFail(s)

WriterReturns(s) ==
  /\ conn[s].writer = "running" /\ pc[s] = "done"
  /\ GoroutineReturns(s, [conn[s] EXCEPT !.writer = "returned"],
                      IF conn[s].werr THEN "write" ELSE "none")

-----------------------------------------------------------------------------
(* The peer and the network, while the connection lasts.                   *)
Peer(s) ==
  /\ conn[s].handler \in {"greeting", "waiting", "reporting"}
  /\ conn[s].peer # "gone"
  /\ \E p \in {"reading", "stalled", "gone"} :
       p # conn[s].peer /\ conn' = [conn EXCEPT ![s].peer = p]
  /\ UNCHANGED vars

Handler(s) == Enter(s) \/ HandlerLock(s) \/ Greet(s) \/ Wait(s) \/ Report(s)
connReader(s) ==
  ReaderCheck(s) \/ ReadFrame(s) \/ ReadFails(s)
  \/ ReaderLock(s) \/ LockTimeout(s) \/ PongOrClose(s)
observationWriter(s) ==
  Iterate(s) \/ WriterLock(s) \/ WriteObservation(s) \/ WriterReturns(s)

\* The rest of the process: the feed, and its end.
Feed == (Publish \/ BrokerLoop \/ CancelBroker) /\ UNCHANGED conn

SessionNext ==
  \/ Feed
  \/ \E s \in Streams :
       Handler(s) \/ connReader(s) \/ observationWriter(s) \/ Peer(s)

SessionSpec == SessionInit /\ [][SessionNext]_sessionVars

(***************************************************************************)
(* Fairness: every goroutine that can run does; goroutines that wait for   *)
(* mu or for a channel of the broker are served in order, a select takes a *)
(* case that stays ready, a write gets through to a peer that reads again  *)
(* and again, and what a peer that has gone left to be read comes to an    *)
(* end.  Nothing is assumed of the peer, which need send no frame.         *)
(***************************************************************************)
SessionFairness(s) ==
  /\ SF_sessionVars(HandlerLock(s) \/ Greet(s) \/ Wait(s) \/ Report(s))
  /\ SF_sessionVars(connReader(s) /\ ~ReadFrame(s))
  /\ SF_sessionVars(ReadFails(s))
  /\ SF_sessionVars(WriterLock(s) \/ WriteObservation(s) \/ WriterReturns(s))
  /\ WF_sessionVars(Iterate(s))
  /\ SF_sessionVars(Iterate(s) /\ ~StreamOpen(s) /\ ~StreamTake(s))

FairSessionSpec ==
  /\ SessionSpec
  /\ WF_sessionVars(BrokerLoop /\ UNCHANGED conn)
  /\ SF_sessionVars((TakeSub \/ TakeUnsub) /\ UNCHANGED conn)
  /\ \A s \in Streams : SessionFairness(s)

-----------------------------------------------------------------------------
(* ImplementsBroker: a session is a stream of Broker: what it does to the  *)
(* broker, to its stream and to its context is what Broker allows, so all  *)
(* that is shown of Broker is true of the sessions (ws.go:58-81, 113-121). *)
ImplementsBroker == Spec

(* SessionOver: when the handler goes on from Wait both goroutines have    *)
(* returned, so its own WriteJSON meets no other ("one concurrent writer", *)
(* vendored websocket doc.go:124), the stream has given its channel back,  *)
(* and there is an error to report: the branch without one (ws.go:123) is  *)
(* never taken.                                                            *)
SessionOver ==
  \A s \in Streams :
    conn[s].handler \in {"reporting", "returned"} =>
      /\ conn[s].reader = "returned" /\ conn[s].writer = "returned"
      /\ pc[s] = "done"
      /\ conn[s].gerr # "none"

\* How many of the messages in q are observations.
Observations(q) == Cardinality({i \in 1..Len(q) : q[i] = "obs"})

(* WireOrder: the peer is greeted before it gets an observation, gets no   *)
(* message after a close frame or an error, and the observations written   *)
(* are as many as mObservationsDispatched counts.  (Which ones and in what *)
(* order ImplementsBroker says: those of delivered.  Pongs are left out:   *)
(* their writer also writes the close, and has returned before the error.) *)
WireOrder ==
  \A s \in Streams :
    LET sent == conn[s].sent IN
    /\ \A i \in 1..Len(sent) :
         /\ sent[i] = "obs" => sent[1] = "sinfo"
         /\ sent[i] \in {"close", "error"} => i = Len(sent)
    /\ Observations(sent) = Len(delivered[s])

(* What the phases of a session have to do with each other: nothing runs   *)
(* before the greeting, only an error cancels the context, and a goroutine *)
(* that has returned has left an error behind, or its stream closed.       *)
SessionPhase(s) ==
  LET c == conn[s] IN
  /\ c.handler \in {"none", "rejected", "greeting"} <=> c.reader = "none"
  /\ c.reader = "none" <=> c.writer = "none"
  /\ cancelled[s] => c.gerr # "none"
  /\ c.reader = "returned" => c.gerr # "none"
  /\ c.writer = "returned" => pc[s] = "done"
  /\ c.writer = "none" => pc[s] = "idle"
  /\ c.handler \in {"reporting", "returned"} =>
       c.reader = "returned" /\ c.writer = "returned"

(* GoneIsReleased: the session of a peer that vanishes ends and gives its  *)
(* channel back, wherever its goroutines are, while the broker runs.       *)
GoneIsReleased ==
  \A s \in Streams :
    conn[s].peer = "gone" ~> (conn[s].handler = "returned" \/ ~running)

(* ReaderEndsSession: once connReader has returned, after a close, a       *)
(* failed pong or a failed read, the session ends.  The only thing that    *)
(* can keep it is a peer that never reads again: WriteJSON has no deadline *)
(* (ws.go:71).                                                             *)
ReaderEndsSession ==
  \A s \in Streams :
    [](conn[s].reader = "returned" =>
         <>(conn[s].handler = "returned" \/ ~running
            \/ [](conn[s].peer = "stalled")))

(* PeerIsServed: every observation in a session's channel is written to    *)
(* the peer, however many of its pings compete for the connection, unless  *)
(* a write fails, the session has an error or the peer stops reading for   *)
(* good: the pongs of connReader cannot keep the lock of the connection    *)
(* from observationWriter for ever (ws.go:65-74 and 102-110).              *)
PeerIsServed ==
  \A s \in Streams, n \in Obs :
    [](n \in inbox[s] =>
         <>(\/ \E i \in 1..Len(delivered[s]) : delivered[s][i] = n
            \/ conn[s].werr \/ conn[s].gerr # "none"
            \/ [](conn[s].peer = "stalled")))
=============================================================================
