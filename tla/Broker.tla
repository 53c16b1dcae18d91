------------------------------- MODULE Broker -------------------------------
(***************************************************************************)
(* The fan-out broker of the price feeder (feeder/pkg/util/broker.go) and  *)
(* the service around it (feeder/pkg/core/feedersvc): one broker goroutine *)
(* runs Start, one upstream goroutine calls ProcessObservation, and every  *)
(* call of ObservationsStream is a goroutine that subscribes a channel of  *)
(* its own, forwards what arrives to its consumer and unsubscribes.        *)
(*                                                                         *)
(* Every channel is made with capacity 1, so a channel is the set of the   *)
(* at most one item in its buffer.  Observations are numbered in the order *)
(* in which Publish accepts them; their contents do not matter here.       *)
(***************************************************************************)
EXTENDS Naturals, FiniteSets, Sequences

CONSTANTS Streams,   \* the calls of ObservationsStream, each with its obss channel
          MaxObs     \* bound on the number of observations published

ASSUME BrokerAssumption == IsFiniteSet(Streams) /\ MaxObs \in Nat

VARIABLES
  published,     \* number of observations accepted by publishCh
  publishCh,     \* Broker.publishCh
  subCh,         \* Broker.subCh
  unsubCh,       \* Broker.unsubCh
  stopCh,        \* Broker.stopCh holds a token
  brokerCtx,     \* the context given to Broker.Start is done
  running,       \* Broker.Start has not returned
  subscriptions, \* the map of Broker.Start
  msg,           \* the last observation Start received from publishCh
  targets,       \* the channels the range over subscriptions has still to visit
  pc,            \* pc[s]: where the goroutine of stream s is
  cancelled,     \* cancelled[s]: the context of stream s is done
  inbox,         \* inbox[s]: the obss channel of s
  holding,       \* holding[s]: the observation s is yielding, 0 when none
  delivered,     \* delivered[s]: the observations whose yield returned true, in order
  since          \* since[s] (history): published when s entered its stream

brokerVars == <<publishCh, subCh, unsubCh, stopCh, brokerCtx, running,
                subscriptions, msg, targets>>
streamVars == <<pc, cancelled, inbox, holding, delivered, since>>
vars == <<published, brokerVars, streamVars>>

Obs == 1..MaxObs

TypeOK ==
  /\ published \in 0..MaxObs
  /\ publishCh \subseteq Obs
  /\ subCh \subseteq Streams /\ \A s, t \in subCh : s = t
  /\ unsubCh \subseteq Streams /\ \A s, t \in unsubCh : s = t
  /\ stopCh \in BOOLEAN
  /\ brokerCtx \in BOOLEAN
  /\ running \in BOOLEAN
  /\ subscriptions \subseteq Streams
  /\ msg \in 0..MaxObs
  /\ targets \subseteq subscriptions
  /\ pc \in [Streams -> {"idle", "subscribing", "looping", "yielding",
                         "unsubscribing", "done"}]
  /\ cancelled \in [Streams -> BOOLEAN]
  /\ inbox \in [Streams -> SUBSET Obs]
  /\ holding \in [Streams -> 0..MaxObs]
  /\ delivered \in [Streams -> Seq(Obs)]
  /\ since \in [Streams -> 0..MaxObs]

\* A send on a channel of capacity 1 proceeds when its buffer is empty.
HasRoom(ch) == ch = {}

-----------------------------------------------------------------------------
(* NewBroker and New: empty channels, Start entered, no stream yet.        *)
Init ==
  /\ published = 0
  /\ publishCh = {} /\ subCh = {} /\ unsubCh = {} /\ stopCh = FALSE
  /\ brokerCtx = FALSE
  /\ running = TRUE
  /\ subscriptions = {}
  /\ msg = 0
  /\ targets = {}
  /\ pc = [s \in Streams |-> "idle"]
  /\ cancelled = [s \in Streams |-> FALSE]
  /\ inbox = [s \in Streams |-> {}]
  /\ holding = [s \in Streams |-> 0]
  /\ delivered = [s \in Streams |-> <<>>]
  /\ since = [s \in Streams |-> 0]

-----------------------------------------------------------------------------
\* Mutant: a send on publishCh that replaces what the buffer holds.
PublishOverwrites ==
  /\ published < MaxObs
  /\ published' = published + 1
  /\ publishCh' = {published + 1}
  /\ UNCHANGED <<subCh, unsubCh, stopCh, brokerCtx, running, subscriptions,
                 msg, targets, streamVars>>

(* The upstream goroutine.  ProcessObservation is a call of Publish, which *)
(* blocks, whatever the context, until publishCh has room.                 *)
Publish ==
  /\ published < MaxObs
  /\ HasRoom(publishCh)
  /\ published' = published + 1
  /\ publishCh' = {published + 1}
  /\ UNCHANGED <<subCh, unsubCh, stopCh, brokerCtx, running, subscriptions,
                 msg, targets, streamVars>>

-----------------------------------------------------------------------------
(* The goroutine of Broker.Start.  In its select any ready case may win.   *)
Selecting == running /\ targets = {}

\* Mutant: the new subscription replaces the map instead of joining it.
TakeSubReplaces ==
  /\ Selecting
  /\ subCh # {}
  /\ subscriptions' = subCh
  /\ subCh' = {}
  /\ UNCHANGED <<published, publishCh, unsubCh, stopCh, brokerCtx, running,
                 msg, targets, streamVars>>

\* Mutant: a new subscriber is greeted with the last observation received.
TakeSubReplaysLast ==
  /\ Selecting
  /\ subCh # {}
  /\ subscriptions' = subscriptions \cup subCh
  /\ subCh' = {}
  /\ inbox' = [s \in Streams |->
                 IF s \in subCh /\ msg > 0 THEN {msg} ELSE inbox[s]]
  /\ UNCHANGED <<published, publishCh, unsubCh, stopCh, brokerCtx, running,
                 msg, targets, pc, cancelled, holding, delivered, since>>

\* case sub := <-b.subCh
TakeSub ==
  /\ Selecting
  /\ subCh # {}
  /\ subscriptions' = subscriptions \cup subCh
  /\ subCh' = {}
  /\ UNCHANGED <<published, publishCh, unsubCh, stopCh, brokerCtx, running,
                 msg, targets, streamVars>>

\* Mutant: the channel received from unsubCh is not deleted from the map.
TakeUnsubForgets ==
  /\ Selecting
  /\ unsubCh # {}
  /\ unsubCh' = {}
  /\ UNCHANGED <<published, publishCh, subCh, stopCh, brokerCtx, running,
                 subscriptions, msg, targets, streamVars>>

\* case unsub := <-b.unsubCh
TakeUnsub ==
  /\ Selecting
  /\ unsubCh # {}
  /\ subscriptions' = subscriptions \ unsubCh
  /\ unsubCh' = {}
  /\ UNCHANGED <<published, publishCh, subCh, stopCh, brokerCtx, running,
                 msg, targets, streamVars>>

\* case msg := <-b.publishCh, up to the range over the subscriptions
TakePublish ==
  /\ Selecting
  /\ \E m \in publishCh : msg' = m
  /\ publishCh' = {}
  /\ targets' = subscriptions
  /\ UNCHANGED <<published, subCh, unsubCh, stopCh, brokerCtx, running,
                 subscriptions, streamVars>>

\* Mutant: the select of the range has no default case.
OfferBlocks(s) ==
  /\ running
  /\ s \in targets
  /\ HasRoom(inbox[s])
  /\ targets' = targets \ {s}
  /\ inbox' = [inbox EXCEPT ![s] = {msg}]
  /\ UNCHANGED <<published, publishCh, subCh, unsubCh, stopCh, brokerCtx,
                 running, subscriptions, msg, pc, cancelled, holding,
                 delivered, since>>

\* One iteration of the range: send to the channel, or drop when it is full.
Offer(s) ==
  /\ running
  /\ s \in targets
  /\ targets' = targets \ {s}
  /\ \/ /\ HasRoom(inbox[s])
        /\ inbox' = [inbox EXCEPT ![s] = {msg}]
     \/ /\ ~HasRoom(inbox[s])
        /\ UNCHANGED inbox
  /\ UNCHANGED <<published, publishCh, subCh, unsubCh, stopCh, brokerCtx,
                 running, subscriptions, msg, pc, cancelled, holding,
                 delivered, since>>

\* case <-b.stopCh and case <-ctx.Done()
Stop ==
  /\ Selecting
  /\ \/ stopCh /\ stopCh' = FALSE
     \/ brokerCtx /\ UNCHANGED stopCh
  /\ running' = FALSE
  /\ UNCHANGED <<published, publishCh, subCh, unsubCh, brokerCtx,
                 subscriptions, msg, targets, streamVars>>

\* Broker.Close
Close ==
  /\ ~stopCh
  /\ stopCh' = TRUE
  /\ UNCHANGED <<published, publishCh, subCh, unsubCh, brokerCtx, running,
                 subscriptions, msg, targets, streamVars>>

\* The owner of the broker cancels the context it gave to Start.
CancelBroker ==
  /\ ~brokerCtx
  /\ brokerCtx' = TRUE
  /\ UNCHANGED <<published, publishCh, subCh, unsubCh, stopCh, running,
                 subscriptions, msg, targets, streamVars>>

-----------------------------------------------------------------------------
(* The goroutine of a stream: the iterator ObservationsStream returns.     *)

\* The iterator is entered: the clients gauge goes up, the channel is made.
StreamOpen(s) ==
  /\ pc[s] = "idle"
  /\ pc' = [pc EXCEPT ![s] = "subscribing"]
  /\ since' = [since EXCEPT ![s] = published]
  /\ UNCHANGED <<published, brokerVars, cancelled, inbox, holding, delivered>>

\* Mutant: subCh has no bound.
SubscribeUnbounded(s) ==
  /\ pc[s] = "subscribing"
  /\ subCh' = subCh \cup {s}
  /\ pc' = [pc EXCEPT ![s] = "looping"]
  /\ UNCHANGED <<published, publishCh, unsubCh, stopCh, brokerCtx, running,
                 subscriptions, msg, targets, cancelled, inbox, holding,
                 delivered, since>>

\* s.broker.Subscribe(obss) returns once subCh has room.
Subscribe(s) ==
  /\ pc[s] = "subscribing"
  /\ HasRoom(subCh)
  /\ subCh' = {s}
  /\ pc' = [pc EXCEPT ![s] = "looping"]
  /\ UNCHANGED <<published, publishCh, unsubCh, stopCh, brokerCtx, running,
                 subscriptions, msg, targets, cancelled, inbox, holding,
                 delivered, since>>

\* case <-ctx.Done(): the deferred Unsubscribe comes next.
StreamDone(s) ==
  /\ pc[s] = "looping"
  /\ cancelled[s]
  /\ pc' = [pc EXCEPT ![s] = "unsubscribing"]
  /\ UNCHANGED <<published, brokerVars, cancelled, inbox, holding, delivered,
                 since>>

\* Mutant: the observation is read but stays in the channel.
StreamTakePeeks(s) ==
  /\ pc[s] = "looping"
  /\ \E m \in inbox[s] : holding' = [holding EXCEPT ![s] = m]
  /\ pc' = [pc EXCEPT ![s] = "yielding"]
  /\ UNCHANGED <<published, brokerVars, cancelled, inbox, delivered, since>>

\* case obs := <-obss, up to the call of yield
StreamTake(s) ==
  /\ pc[s] = "looping"
  /\ \E m \in inbox[s] : holding' = [holding EXCEPT ![s] = m]
  /\ inbox' = [inbox EXCEPT ![s] = {}]
  /\ pc' = [pc EXCEPT ![s] = "yielding"]
  /\ UNCHANGED <<published, brokerVars, cancelled, delivered, since>>

\* yield returned true: mObservationsDispatched goes up, the loop continues.
YieldOk(s) ==
  /\ pc[s] = "yielding"
  /\ delivered' = [delivered EXCEPT ![s] = Append(@, holding[s])]
  /\ holding' = [holding EXCEPT ![s] = 0]
  /\ pc' = [pc EXCEPT ![s] = "looping"]
  /\ UNCHANGED <<published, brokerVars, cancelled, inbox, since>>

\* yield returned false
YieldFail(s) ==
  /\ pc[s] = "yielding"
  /\ holding' = [holding EXCEPT ![s] = 0]
  /\ pc' = [pc EXCEPT ![s] = "unsubscribing"]
  /\ UNCHANGED <<published, brokerVars, cancelled, inbox, delivered, since>>

\* The deferred Unsubscribe returns once unsubCh has room; the gauge goes down.
Unsubscribe(s) ==
  /\ pc[s] = "unsubscribing"
  /\ HasRoom(unsubCh)
  /\ unsubCh' = {s}
  /\ pc' = [pc EXCEPT ![s] = "done"]
  /\ UNCHANGED <<published, publishCh, subCh, stopCh, brokerCtx, running,
                 subscriptions, msg, targets, cancelled, inbox, holding,
                 delivered, since>>

\* The caller of ObservationsStream cancels the context it gave, perhaps
\* before it enters the iterator.
CancelStream(s) ==
  /\ ~cancelled[s]
  /\ cancelled' = [cancelled EXCEPT ![s] = TRUE]
  /\ UNCHANGED <<published, brokerVars, pc, inbox, holding, delivered, since>>

-----------------------------------------------------------------------------
BrokerLoop == TakeSub \/ TakeUnsub \/ TakePublish \/ Stop \/ \E s \in Streams : Offer(s)

StreamStep(s) ==
  \/ StreamOpen(s) \/ Subscribe(s) \/ StreamDone(s) \/ StreamTake(s)
  \/ YieldOk(s) \/ YieldFail(s) \/ Unsubscribe(s)

Next ==
  \/ Publish
  \/ BrokerLoop
  \/ Close \/ CancelBroker
  \/ \E s \in Streams : StreamStep(s) \/ CancelStream(s)

Spec == Init /\ [][Next]_vars

-----------------------------------------------------------------------------
(* The metrics of feedersvc: the gauge of downstream clients counts the    *)
(* streams between Inc and the deferred Dec.                               *)
Active(s) == pc[s] \notin {"idle", "done"}
mDownstreamClients == Cardinality({s \in Streams : Active(s)})

-----------------------------------------------------------------------------
(* Safety.                                                                 *)

(* The upstream is at most one observation ahead of the broker: what       *)
(* publishCh holds is the newest observation and msg the one before it.    *)
PublishPipeline ==
  \/ publishCh = {} /\ msg = published
  \/ publishCh = {published} /\ published = msg + 1

(* What a stream has been given is ordered along its way: the delivered    *)
(* ones below the one being yielded, that one below the one in its         *)
(* channel, all at most msg, and below msg while the range has still to    *)
(* visit the stream (so that msg can join the end of the line).            *)
StreamOrder(s) ==
  /\ \A m, n \in inbox[s] : m = n
  /\ \A m \in inbox[s] : holding[s] < m /\ m <= msg
  /\ holding[s] <= msg
  /\ \A i \in 1..Len(delivered[s]) :
       /\ delivered[s][i] <= msg
       /\ holding[s] # 0 => delivered[s][i] < holding[s]
       /\ \A m \in inbox[s] : delivered[s][i] < m
  /\ s \in targets =>
       /\ \A m \in inbox[s] : m < msg
       /\ holding[s] < msg
       /\ \A i \in 1..Len(delivered[s]) : delivered[s][i] < msg

(* A goroutine holds an observation exactly while its yield runs, and the  *)
(* broker knows no channel that its stream has not yet sent it.            *)
StreamPhase(s) ==
  /\ holding[s] # 0 <=> pc[s] = "yielding"
  /\ s \in subCh \cup subscriptions => pc[s] \notin {"idle", "subscribing"}
  /\ s \in unsubCh => pc[s] = "done"
  /\ pc[s] = "idle" => inbox[s] = {} /\ delivered[s] = <<>>

(* Registered: while a stream waits for observations or yields one, the    *)
(* broker has its channel in the map or will find it in subCh: no other    *)
(* stream's coming or going (broker.go:32-35) can take it out.             *)
Registered ==
  \A s \in Streams :
    pc[s] \in {"looping", "yielding"} => s \in subCh \cup subscriptions

(* FreshStart: a stream never gets an observation older than the last one  *)
(* published before it was opened, although that last one may still be in  *)
(* publishCh, or on its way to the other streams, when it subscribes       *)
(* (uc_observations_stream.go:18-20 against broker.go:36-42).              *)
FreshStart ==
  \A s \in Streams :
    /\ \A m \in inbox[s] : m >= since[s]
    /\ holding[s] # 0 => holding[s] >= since[s]
    /\ \A i \in 1..Len(delivered[s]) : delivered[s][i] >= since[s]

\* The fan-out under way respects FreshStart, and since is a past count.
FreshTargets ==
  \A s \in Streams :
    /\ since[s] <= published
    /\ s \in targets => msg >= since[s]

(* BrokerInv: the inductive invariant; the order in which observations     *)
(* travel from publishCh through the fan-out (broker.go:36-43) and a       *)
(* stream's channel to its consumer (uc_observations_stream.go:23-34).     *)
BrokerInv ==
  /\ PublishPipeline
  /\ \A s \in Streams : StreamOrder(s) /\ StreamPhase(s)
  /\ Registered
  /\ FreshTargets
  /\ FreshStart

(* ImplementsLossyFeed: whatever the broker drops, each consumer gets      *)
(* observations in publication order, none twice and none before it was    *)
(* published.                                                              *)
LF == INSTANCE LossyFeed
ImplementsLossyFeed == LF!Spec

(* LeakNeedsOvertaking: a finished stream whose channel the broker keeps   *)
(* for good.  It comes about in one way only: subCh and unsubCh both hold  *)
(* the stream's channel and the select of Start (broker.go:32-35), which   *)
(* does not order its cases, takes the unsubscription first.               *)
Leaked(s) ==
  /\ pc[s] = "done"
  /\ s \notin unsubCh
  /\ s \in subCh \cup subscriptions

LeakNeedsOvertaking ==
  [][\A s \in Streams :
       ~Leaked(s) /\ Leaked(s)' => Selecting /\ s \in subCh \cap unsubCh]_vars

=============================================================================
