----------------------------- MODULE PriceSource -----------------------------
(***************************************************************************)
(* The price source of the engine                                          *)
(* (src/libtfbsm/interactions/zmq_price_source.cpp) and the main thread    *)
(* that sets it up (src/app/test_pricing_engine.cpp).  The constructor     *)
(* starts the receiver thread, which polls the socket, parses a message    *)
(* and calls the observers under a shared lock; main adds the engine, as   *)
(* an observer of ticks and then of klines, each under the unique lock.    *)
(*                                                                         *)
(* The engine is module PricingEngine.  Of a message it matters whether it *)
(* parses, to a tick or to a kline, and what is in it.                     *)
(***************************************************************************)
EXTENDS PricingEngine

CONSTANTS MaxQueue,    \* bound on the messages waiting in the socket
          MaxMessages  \* bound on the messages that arrive

ASSUME SourceAssumption == MaxQueue \in Nat /\ MaxMessages \in Nat

VARIABLES
  queue,            \* the messages waiting in the socket
  receiver,         \* run(): "polling", "locking" or "delivering"
  current,          \* the message it has parsed
  mtx,              \* mtx_: "free", "shared" or "unique"
  tick_oververs_,   \* the engine is in the set of tick observers
  kline_observers_, \* the engine is in the set of kline observers
  mainAt,           \* main: "addTick", "insertTick", "addKline", "insertKline",
                    \* or "sleeping" ever after
  arrived,          \* (history) messages that have arrived
  discarded,        \* (history) messages that did not parse or have no type known
  missed            \* (history) ticks and klines for which there was no observer

sourceVars == <<queue, receiver, current, mtx, tick_oververs_,
                kline_observers_, mainAt, arrived, discarded, missed>>
processVars == <<allVars, sourceVars>>

NoMessage == [type |-> "none"]
Messages ==
  {[type |-> "tick", tick |-> t] : t \in Tick}
  \cup {[type |-> "kline", kline |-> k] : k \in Sample}
  \cup {[type |-> "unknown"], [type |-> "malformed"]}

\* Who has gone on has given the lock back.
MtxReleased ==
  /\ mtx = "shared" => receiver = "delivering"
  /\ mtx = "unique" => mainAt \in {"insertTick", "insertKline"}

SourceTypeOK ==
  /\ MtxReleased
  /\ EngineTypeOK
  /\ queue \in Seq(Messages) /\ Len(queue) <= MaxQueue
  /\ receiver \in {"polling", "locking", "delivering"}
  /\ current \in Messages \cup {NoMessage}
  /\ mtx \in {"free", "shared", "unique"}
  /\ {tick_oververs_, kline_observers_} \subseteq BOOLEAN
  /\ mainAt \in {"addTick", "insertTick", "addKline", "insertKline", "sleeping"}
  /\ arrived \in 0..MaxMessages
  /\ discarded \in 0..MaxMessages /\ missed \in 0..MaxMessages

\* The constructor has returned; its thread runs already.
SourceInit ==
  /\ EngineInit
  /\ queue = <<>>
  /\ receiver = "polling" /\ current = NoMessage
  /\ mtx = "free"
  /\ tick_oververs_ = FALSE /\ kline_observers_ = FALSE
  /\ mainAt = "addTick"
  /\ arrived = 0 /\ discarded = 0 /\ missed = 0

-----------------------------------------------------------------------------
(* The socket, subscribed to everything since before the thread started.   *)
Arrive(m) ==
  /\ arrived < MaxMessages /\ Len(queue) < MaxQueue
  /\ queue' = Append(queue, m)
  /\ arrived' = arrived + 1
  /\ UNCHANGED <<allVars, receiver, current, mtx, tick_oververs_,
                 kline_observers_, mainAt, discarded, missed>>

(* run(), the receiver thread.                                             *)

\* A message that does not parse is reported and dropped before any lock.
Recv ==
  /\ receiver = "polling"
  /\ queue # <<>>
  /\ queue' = Tail(queue)
  /\ \/ /\ Head(queue).type = "malformed"
        /\ discarded' = discarded + 1
        /\ UNCHANGED <<receiver, current>>
     \/ /\ Head(queue).type # "malformed"
        /\ receiver' = "locking" /\ current' = Head(queue)
        /\ UNCHANGED discarded
  /\ UNCHANGED <<allVars, mtx, tick_oververs_, kline_observers_, mainAt,
                 arrived, missed>>

\* Mutant: no lock around the observers.
LockSharedNot ==
  /\ receiver = "locking"
  /\ receiver' = "delivering"
  /\ UNCHANGED <<allVars, queue, current, mtx, tick_oververs_,
                 kline_observers_, mainAt, arrived, discarded, missed>>

LockShared ==
  /\ receiver = "locking"
  /\ mtx = "free" /\ mtx' = "shared"
  /\ receiver' = "delivering"
  /\ UNCHANGED <<allVars, queue, current, tick_oververs_, kline_observers_,
                 mainAt, arrived, discarded, missed>>

Observed(m) ==
  \/ m.type = "tick" /\ tick_oververs_
  \/ m.type = "kline" /\ kline_observers_

\* Mutant: a kline is handed on as two samples, its open and its close.
EngineCallTwice(m) ==
  \/ m.type = "tick" /\ onTick(m.tick)
  \/ m.type = "kline" /\ onKlines(<<m.kline, m.kline>>)

\* Mutant: a tick is handed to the overload that leaves out the estimator.
EngineCallUnfed(m) ==
  \/ /\ m.type = "tick"
     /\ ~terminated
     /\ EngineTick(m.tick, samples, params, samples, windowEnd)
     /\ UNCHANGED <<estVars, batch, expiry>>
  \/ m.type = "kline" /\ onKlines(<<m.kline>>)

\* A tick goes by itself, a kline as a vector of one.
EngineCall(m) ==
  \/ m.type = "tick" /\ onTick(m.tick)
  \/ m.type = "kline" /\ onKlines(<<m.kline>>)

\* The loops over the observers, up to the release of the lock.
Deliver ==
  /\ receiver = "delivering"
  /\ \/ /\ Observed(current)
        /\ EngineCall(current)
        /\ UNCHANGED <<discarded, missed>>
     \/ /\ ~Observed(current)
        /\ IF current.type = "unknown"
           THEN discarded' = discarded + 1 /\ UNCHANGED missed
           ELSE missed' = missed + 1 /\ UNCHANGED discarded
        /\ UNCHANGED allVars
  /\ receiver' = "polling" /\ current' = NoMessage
  /\ mtx' = "free"
  /\ UNCHANGED <<queue, tick_oververs_, kline_observers_, mainAt, arrived>>

-----------------------------------------------------------------------------
(* main: addTickObserver and addKlineObserver.                             *)
LockUnique ==
  /\ mainAt \in {"addTick", "addKline"}
  /\ mtx = "free" /\ mtx' = "unique"
  /\ mainAt' = IF mainAt = "addTick" THEN "insertTick" ELSE "insertKline"
  /\ UNCHANGED <<allVars, queue, receiver, current, tick_oververs_,
                 kline_observers_, arrived, discarded, missed>>

\* Mutant: main sleeps once it has added the observer of ticks.
InsertTickOnly ==
  /\ mainAt = "insertTick"
  /\ tick_oververs_' = TRUE /\ mainAt' = "sleeping"
  /\ mtx' = "free"
  /\ UNCHANGED <<allVars, queue, receiver, current, kline_observers_, arrived,
                 discarded, missed>>

\* Mutant: the unique lock is not given back.
InsertKeepsLock ==
  /\ \/ /\ mainAt = "insertTick"
        /\ tick_oververs_' = TRUE /\ mainAt' = "addKline"
        /\ UNCHANGED kline_observers_
     \/ /\ mainAt = "insertKline"
        /\ kline_observers_' = TRUE /\ mainAt' = "sleeping"
        /\ UNCHANGED tick_oververs_
  /\ UNCHANGED <<allVars, queue, receiver, current, mtx, arrived, discarded,
                 missed>>

Insert ==
  /\ \/ /\ mainAt = "insertTick"
        /\ tick_oververs_' = TRUE /\ mainAt' = "addKline"
        /\ UNCHANGED kline_observers_
     \/ /\ mainAt = "insertKline"
        /\ kline_observers_' = TRUE /\ mainAt' = "sleeping"
        /\ UNCHANGED tick_oververs_
  /\ mtx' = "free"
  /\ UNCHANGED <<allVars, queue, receiver, current, arrived, discarded, missed>>

-----------------------------------------------------------------------------
run == Recv \/ LockShared \/ Deliver
main == LockUnique \/ Insert
Clock == (\E o \in Options : Expire(o)) /\ UNCHANGED sourceVars

\* An exception that leaves the engine leaves the thread and ends the process.
SourceNext ==
  /\ ~terminated
  /\ (\E m \in Messages : Arrive(m)) \/ run \/ main \/ Clock

SourceSpec == SourceInit /\ [][SourceNext]_processVars

(***************************************************************************)
(* Fairness: both threads run, and whoever waits for mtx_ gets it, for the *)
(* other holds it in short turns.                                          *)
(***************************************************************************)
FairSourceSpec ==
  /\ SourceSpec
  /\ SF_processVars(~terminated /\ run)
  /\ SF_processVars(~terminated /\ main)

-----------------------------------------------------------------------------
(* ImplementsEngine: through the source the engine is called by one thread *)
(* and one call at a time, so what is shown of PricingEngine holds         *)
(* (zmq_price_source.cpp:64-75).                                           *)
ImplementsEngine == EngineSpec

(* NoInsertWhileDelivering: no set of observers is changed while the       *)
(* receiver goes through one (zmq_price_source.hpp:45, .cpp:65).           *)
NoInsertWhileDelivering ==
  ~(receiver = "delivering" /\ mainAt \in {"insertTick", "insertKline"})

(* MessagesAccounted: each message is waiting, in the receiver's hands,    *)
(* discarded, missed or exactly one sample of the estimator.               *)
MessagesAccounted ==
  arrived = Len(queue) + (IF receiver = "polling" THEN 0 ELSE 1)
            + discarded + missed + samples

(* MissedOnlyAtStart: a tick or a kline is lost for want of an observer    *)
(* only until main has added both: the price of starting the thread in the *)
(* constructor (zmq_price_source.hpp:30).                                  *)
MissedOnlyAtStart == [][missed' # missed => mainAt # "sleeping"]_processVars

(* ThreadsServed: neither thread keeps the other from the lock for good:   *)
(* main gets its two turns however busy the feed is, and every message is  *)
(* taken and dealt with (zmq_price_source.cpp:14-75, .hpp:45).             *)
ThreadsServed ==
  /\ <>(mainAt = "sleeping" \/ terminated)
  /\ \A n \in 1..MaxMessages :
       arrived = n ~> (samples + discarded + missed >= n \/ terminated)
=============================================================================
