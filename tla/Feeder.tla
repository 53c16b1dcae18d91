------------------------------- MODULE Feeder -------------------------------
(***************************************************************************)
(* The feeder process: app.Start (feeder/pkg/app/root.go) runs four        *)
(* goroutines in an error group, the one that waits for a signal, the one  *)
(* of the upstream client (feeder/pkg/infra/upstream/zmq.go, with a        *)
(* goroutine of its own that receives), the broker's and the HTTP          *)
(* server's.  The first that returns an error cancels the context of all;  *)
(* the process ends when all have returned.                                *)
(*                                                                         *)
(* The client and the broker meet in Publish: the client's goroutine is    *)
(* the upstream goroutine of module Broker.  brokerCtx is the context of   *)
(* the group.                                                              *)
(***************************************************************************)
EXTENDS Broker

CONSTANT MaxFrames \* bound on the frames that arrive from the upstream

ASSUME FeederAssumption == MaxFrames \in Nat /\ MaxFrames <= MaxObs

VARIABLES
  arrived,    \* (history) frames received from the socket
  discarded,  \* mUpstreamMessagesDiscarded
  rpc,        \* the receive goroutine: "checking" the flag, "receiving",
              \* "pushing" to the data channel, or "exited"
  frame,      \* the frame it pushes
  data,       \* zmqClient.data, a channel of capacity 1
  recverrs,   \* the channel of Start for the end of receive, capacity 1
  cpc,        \* client.Start: "select", "publishing", "closing" the socket,
              \* "clearing" the flag, or "exited"
  clientErr,  \* what the error client.Start is about to return wraps
  socketOpen, \* the ZMQ socket is open
  connected,  \* zmqClient.socketConnected
  signalled,  \* SIGINT or SIGTERM has come
  spc,        \* the signal goroutine: "waiting", "exited"
  hpc,        \* the server goroutine: "serving", "shutdown", "exited"
  errs,       \* the channel for the error of ListenAndServe, capacity 1
  grpErr,     \* the first error of the group
  exited      \* grp.Wait has returned and main has ended the process

clientVars == <<arrived, discarded, rpc, frame, data, recverrs, cpc, clientErr,
                socketOpen, connected>>
groupVars == <<signalled, spc, hpc, errs, grpErr, exited>>
feederVars == <<vars, clientVars, groupVars>>

Frames == {"observation", "malformed"}
Ends == {"none", "nil", "fault", "closed"}  \* of receive, "nil" without error
Causes == {"none", "signal", "listen", "shutdown"} \cup Ends

FeederTypeOK ==
  /\ TypeOK
  /\ arrived \in 0..MaxFrames /\ discarded \in 0..MaxFrames
  /\ rpc \in {"checking", "receiving", "pushing", "exited"}
  /\ frame \in Frames \cup {"none"}
  /\ data \subseteq Frames /\ \A f, g \in data : f = g
  /\ recverrs \in Ends
  /\ cpc \in {"select", "publishing", "closing", "clearing", "exited"}
  /\ clientErr \in Ends
  /\ {socketOpen, connected, signalled, exited} \subseteq BOOLEAN
  /\ spc \in {"waiting", "exited"}
  /\ hpc \in {"serving", "shutdown", "exited"}
  /\ errs \in {"none", "listen"}
  /\ grpErr \in Causes

\* app.New and Start up to grp.Wait: Connect has succeeded.
FeederInit ==
  /\ Init
  /\ arrived = 0 /\ discarded = 0
  /\ rpc = "checking" /\ frame = "none"
  /\ data = {} /\ recverrs = "none"
  /\ cpc = "select" /\ clientErr = "none"
  /\ socketOpen = TRUE /\ connected = TRUE
  /\ signalled = FALSE /\ spc = "waiting"
  /\ hpc = "serving" /\ errs = "none"
  /\ grpErr = "none" /\ exited = FALSE

\* Mutant: every error replaces the one before.
GroupReturnLast(e) ==
  IF e # "none"
  THEN grpErr' = e /\ brokerCtx' = TRUE
  ELSE UNCHANGED <<grpErr, brokerCtx>>

\* A goroutine of the group returns e: the first error cancels the context.
GroupReturn(e) ==
  IF grpErr = "none" /\ e # "none"
  THEN grpErr' = e /\ brokerCtx' = TRUE
  ELSE UNCHANGED <<grpErr, brokerCtx>>

\* What GroupReturn leaves of the broker's variables.
brokerRest == <<published, publishCh, subCh, unsubCh, stopCh, running,
                subscriptions, msg, targets, streamVars>>

-----------------------------------------------------------------------------
(* The receive goroutine of the client.                                    *)

\* The loop condition: socketConnected is read without the mutex.
CheckConnected ==
  /\ rpc = "checking"
  /\ \/ connected /\ rpc' = "receiving" /\ UNCHANGED recverrs
     \/ ~connected /\ rpc' = "exited" /\ recverrs' = "nil"
  /\ UNCHANGED <<vars, groupVars, arrived, discarded, frame, data, cpc,
                 clientErr, socketOpen, connected>>

\* RecvBytes returns EAGAIN.
ReceiveNothing ==
  /\ rpc = "receiving"
  /\ rpc' = "checking"
  /\ UNCHANGED <<vars, groupVars, arrived, discarded, frame, data, recverrs,
                 cpc, clientErr, socketOpen, connected>>

\* RecvBytes returns a frame.
ReceiveFrame ==
  /\ rpc = "receiving" /\ socketOpen
  /\ arrived < MaxFrames
  /\ arrived' = arrived + 1
  /\ \E f \in Frames : frame' = f
  /\ rpc' = "pushing"
  /\ UNCHANGED <<vars, groupVars, discarded, data, recverrs, cpc, clientErr,
                 socketOpen, connected>>

\* RecvBytes fails: a fault of an open socket, or the socket is closed.
ReceiveError ==
  /\ rpc = "receiving"
  /\ recverrs' = IF socketOpen THEN "fault" ELSE "closed"
  /\ rpc' = "exited"
  /\ UNCHANGED <<vars, groupVars, arrived, discarded, frame, data, cpc,
                 clientErr, socketOpen, connected>>

\* Mutant: the send on the data channel has a default case.
PushOrDrop ==
  /\ rpc = "pushing"
  /\ data' = IF HasRoom(data) THEN {frame} ELSE data
  /\ frame' = "none"
  /\ rpc' = "checking"
  /\ UNCHANGED <<vars, groupVars, arrived, discarded, recverrs, cpc, clientErr,
                 socketOpen, connected>>

\* Mutant: the data channel has no bound.
PushUnbounded ==
  /\ rpc = "pushing"
  /\ data' = data \cup {frame}
  /\ frame' = "none"
  /\ rpc' = "checking"
  /\ UNCHANGED <<vars, groupVars, arrived, discarded, recverrs, cpc, clientErr,
                 socketOpen, connected>>

\* z.data <- data
Push ==
  /\ rpc = "pushing"
  /\ HasRoom(data)
  /\ data' = {frame}
  /\ frame' = "none"
  /\ rpc' = "checking"
  /\ UNCHANGED <<vars, groupVars, arrived, discarded, recverrs, cpc, clientErr,
                 socketOpen, connected>>

-----------------------------------------------------------------------------
(* client.Start.                                                           *)

\* case receiveErr := <-recverrs
TakeReceiveErr ==
  /\ cpc = "select"
  /\ recverrs # "none"
  /\ recverrs' = "none"
  /\ clientErr' = recverrs
  /\ cpc' = "closing"
  /\ UNCHANGED <<vars, groupVars, arrived, discarded, rpc, frame, data,
                 socketOpen, connected>>

\* case <-ctx.Done()
ClientDone ==
  /\ cpc = "select"
  /\ brokerCtx
  /\ cpc' = "closing"
  /\ UNCHANGED <<vars, groupVars, arrived, discarded, rpc, frame, data,
                 recverrs, clientErr, socketOpen, connected>>

\* case data := <-z.data, and the handler up to the call of Publish
TakeData ==
  /\ cpc = "select"
  /\ data # {}
  /\ data' = {}
  /\ \/ /\ "malformed" \in data
        /\ discarded' = discarded + 1
        /\ UNCHANGED cpc
     \/ /\ "observation" \in data
        /\ cpc' = "publishing"
        /\ UNCHANGED discarded
  /\ UNCHANGED <<vars, groupVars, arrived, rpc, frame, recverrs, clientErr,
                 socketOpen, connected>>

\* ProcessObservation: the handler returns when Publish does.
ClientPublish ==
  /\ cpc = "publishing"
  /\ Publish
  /\ cpc' = "select"
  /\ UNCHANGED <<groupVars, arrived, discarded, rpc, frame, data, recverrs,
                 clientErr, socketOpen, connected>>

\* Close, under socketMu: the socket is closed, then the flag is cleared.
CloseSocket ==
  /\ cpc = "closing"
  /\ socketOpen' = FALSE
  /\ cpc' = "clearing"
  /\ UNCHANGED <<vars, groupVars, arrived, discarded, rpc, frame, data,
                 recverrs, clientErr, connected>>

ClearConnected ==
  /\ cpc = "clearing"
  /\ connected' = FALSE
  /\ cpc' = "exited"
  /\ GroupReturn(clientErr)
  /\ UNCHANGED <<brokerRest, signalled, spc, hpc, errs, exited, arrived,
                 discarded, rpc, frame, data, recverrs, clientErr, socketOpen>>

-----------------------------------------------------------------------------
(* The other goroutines of the group.                                      *)

\* A signal arrives; Notify keeps catching, so later ones change nothing.
Signal ==
  /\ ~signalled
  /\ signalled' = TRUE
  /\ UNCHANGED <<vars, clientVars, spc, hpc, errs, grpErr, exited>>

\* Mutant: the goroutine returns nil when the signal comes.
SignalSwallowed ==
  /\ spc = "waiting"
  /\ signalled \/ brokerCtx
  /\ spc' = "exited"
  /\ UNCHANGED <<vars, clientVars, signalled, hpc, errs, grpErr, exited>>

SignalGoroutine ==
  /\ spc = "waiting"
  /\ spc' = "exited"
  /\ \/ signalled /\ GroupReturn("signal")
     \/ brokerCtx /\ GroupReturn("none")
  /\ UNCHANGED <<brokerRest, clientVars, signalled, hpc, errs, exited>>

\* ListenAndServe fails before any Shutdown, a port in use for one.
ListenFails ==
  /\ hpc = "serving" /\ errs = "none"
  /\ errs' = "listen"
  /\ UNCHANGED <<vars, clientVars, signalled, spc, hpc, grpErr, exited>>

\* The select of the server goroutine.
ServerStops ==
  /\ hpc = "serving"
  /\ \/ brokerCtx /\ hpc' = "shutdown" /\ UNCHANGED <<errs, grpErr, brokerCtx>>
     \/ errs # "none" /\ errs' = "none" /\ hpc' = "exited" /\ GroupReturn("listen")
  /\ UNCHANGED <<brokerRest, clientVars, signalled, spc, exited>>

\* Shutdown returns: the open requests are over, or hardShutdownTimeout is.
\* It does not wait for hijacked connections, the streams.
ServerShutdown ==
  /\ hpc = "shutdown"
  /\ hpc' = "exited"
  /\ \E e \in {"none", "shutdown"} : GroupReturn(e)
  /\ UNCHANGED <<brokerRest, clientVars, signalled, spc, errs, exited>>

\* grp.Wait returns once all four have; main logs the error and exits.
Exit ==
  /\ ~exited
  /\ spc = "exited" /\ cpc = "exited" /\ hpc = "exited" /\ ~running
  /\ exited' = TRUE
  /\ UNCHANGED <<vars, clientVars, signalled, spc, hpc, errs, grpErr>>

-----------------------------------------------------------------------------
\* Broker.Close has no caller, and the context is the group's to cancel.
Receive == CheckConnected \/ ReceiveNothing \/ ReceiveFrame \/ ReceiveError \/ Push
Client == TakeReceiveErr \/ ClientDone \/ TakeData \/ ClientPublish
          \/ CloseSocket \/ ClearConnected
Service == BrokerLoop /\ UNCHANGED <<clientVars, groupVars>>
Stream(s) == (StreamStep(s) \/ CancelStream(s)) /\ UNCHANGED <<clientVars, groupVars>>

FeederNext ==
  \/ Exit
  \/ /\ ~exited
     /\ \/ Receive \/ Client \/ Service
        \/ Signal \/ SignalGoroutine \/ ListenFails \/ ServerStops \/ ServerShutdown
        \/ \E s \in Streams : Stream(s)

FeederSpec == FeederInit /\ [][FeederNext]_feederVars

(***************************************************************************)
(* Fairness: the scheduler runs every runnable goroutine, and a select     *)
(* takes each of the cases that are ready at infinitely many of its turns. *)
(* RecvBytes need not ever return a frame, nor a stream take any.          *)
(***************************************************************************)
FeederFairness ==
  /\ WF_feederVars(~exited /\ (CheckConnected \/ ReceiveNothing \/ Push))
  /\ WF_feederVars(~exited /\ Client)
  /\ SF_feederVars(~exited /\ (ClientDone \/ TakeReceiveErr))
  /\ WF_feederVars(~exited /\ Service)
  /\ SF_feederVars(~exited /\ Stop /\ UNCHANGED <<clientVars, groupVars>>)
  /\ SF_feederVars(~exited /\ TakePublish /\ UNCHANGED <<clientVars, groupVars>>)
  /\ WF_feederVars(~exited /\ (SignalGoroutine \/ ServerStops \/ ServerShutdown))
  /\ WF_feederVars(Exit)

FairFeederSpec == FeederSpec /\ FeederFairness

-----------------------------------------------------------------------------
(* Conservation: each frame the socket gave is published, discarded or at  *)
(* exactly one of the three places between the socket and the broker, also *)
(* while the process shuts down (zmq.go:85-98, 121-124).                   *)
Conservation ==
  arrived = published + discarded + Cardinality(data)
            + (IF rpc = "pushing" THEN 1 ELSE 0)
            + (IF cpc = "publishing" THEN 1 ELSE 0)

\* The workers of the process.  The client has not left before its socket is
\* closed and its receiver told.
Live ==
  {w \in {"signals"} : spc # "exited"}
  \cup {w \in {"client"} : cpc # "exited" \/ socketOpen \/ connected}
  \cup {w \in {"broker"} : running}
  \cup {w \in {"server"} : hpc # "exited"}

LC == INSTANCE Lifecycle WITH cause <- grpErr, live <- Live, ended <- exited

(* ImplementsLifecycle: nobody leaves before there is a reason, the reason *)
(* reported is the one that began the shutdown, and the process ends after *)
(* everyone has left.  What the shutdown itself provokes, a receive on the *)
(* socket being closed or a Shutdown that times out, is never reported in  *)
(* its place (root.go:106-113 and 147, zmq.go:52-54 and 87-91); there is   *)
(* always a reason, so that main never logs "Done!"                        *)
(* (cmd/feeder/root.go:62-69).                                             *)
ImplementsLifecycle == LC!LifecycleSpec

\* The client waits to publish to a broker that has returned.
Wedged == cpc = "publishing" /\ ~HasRoom(publishCh) /\ ~running

(* WedgedForever: from there no step of any goroutine, no signal and no    *)
(* timeout leads out (broker.go:52-54 against 30-31).                      *)
WedgedForever == [][Wedged => Wedged' /\ ~exited']_feederVars

(* StopsOrWedges: the process ends after a signal, whatever the streams    *)
(* and the upstream do, unless it gets wedged.                             *)
StopsOrWedges == signalled ~> (exited \/ Wedged)

(* FramesGetThrough: while nothing stops the process each frame is         *)
(* discarded, or published and offered to every subscriber, in the end.    *)
FramesGetThrough ==
  \A n \in 1..MaxFrames :
    arrived = n ~> (msg + discarded >= n /\ targets = {}) \/ grpErr # "none"

(* StopsOnSignal: "stopping due to signal %d" (feeder/pkg/app/root.go:109) *)
(* with a hardShutdownTimeout of five seconds (const.go:6): a signal ends  *)
(* the process.                                                            *)
StopsOnSignal == signalled ~> exited

(* SocketNotShared: "The Socket is not thread safe. This means that you    *)
(* cannot access the same Socket from different goroutines without using   *)
(* something like a mutex" (vendored zmq4.go:879-881): no RecvBytes while  *)
(* Close closes the socket.                                                *)
SocketNotShared == ~(rpc = "receiving" /\ cpc = "closing")
=============================================================================
