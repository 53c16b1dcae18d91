# Formal model of the tfbsm pricing system

TLA+ modules of the time-fractional Black-Scholes option pricing system: the
C++ pricing engine that turns ticks into estimated option prices, and the Go
feeder that fans the estimations out to websocket consumers. TLC checks the
modules on small instances; the TLA+ proof system proves the safety of all of
them for every value of the constants.

## The system

```
 tick_feeder.py ─ZMQ SUB─> ZeroMQPriceSource ─> PricingEngine ─> ZeroMQPriceSink
 kline_feeder.py            (receiver thread)    └ ParameterEstimator   │
                                                                   ZMQ PUB, 40 bytes
                                                                        │
 websocket <─ Entrypoint <─ ObservationsStream <─ Broker <─ zmqClient <─┘
 consumers    (2 goroutines   (1 goroutine per     (1)       (2 goroutines)
               per session)    stream)
```

| component | source | state | operations |
|---|---|---|---|
| Broker | `feeder/pkg/util/broker.go` | four channels of capacity 1, the map of subscriptions | Publish, Subscribe, Unsubscribe, Close; the loop of Start |
| Feeder service | `feeder/pkg/core/feedersvc` | per stream: the channel, the place in the loop; a gauge and a counter | ProcessObservation, ObservationsStream |
| Upstream client | `feeder/pkg/infra/upstream/zmq.go` | socket, connected flag, data channel, error channel | Connect, Start, receive, Close |
| Application | `feeder/pkg/app/root.go` | error group, signal channel, server | Start, shutdown |
| Websocket session | `feeder/pkg/app/handlers/ws.go` | the connection with its write lock and sticky error, an error group | Entrypoint, connReader, observationWriter, ping handler |
| Pricing engine | `src/libtfbsm/core/pricing_engine.cpp` | last spot prices | onTick, onTicks, onKlines, sendEstimation |
| Parameter estimator | `src/libtfbsm/core/parameter_estimator.cpp` | buffer of samples, parameters | onTick, onTicks, onKlines, estimate |
| Configuration repository | `src/libtfbsm/configuration_repository.cpp` | options by symbol and by spot, codes, buffer size, rate | from_json, get_option, get_option_by_spot, get_symbol_code |
| Sampler | `src/libtfbsm/core/stable_distribution.cpp` | none of its own | sampleValue |
| Price source | `src/libtfbsm/interactions/zmq_price_source.cpp` | socket, sets of observers, shared mutex | run, addTickObserver, addKlineObserver |
| Price sink | `src/libtfbsm/interactions/zmq_price_sink.cpp` | socket | onPriceEstimation |
| Wire protocol | `protocol.hpp`, `crc32.h`, `observation_dto.go` | none | serialize, deserialize, crc32, Decode |

What is hard in it. The broker's select takes any ready case, so two channels
meant to be used in turn can be emptied in the other order. Sends that drop and
sends that block meet in one pipeline. The feeder's shutdown closes contexts,
sockets and loops in an order the scheduler picks. A session's two goroutines
share one connection, whose writes have no deadline and whose reader does not
see the context while it waits. The price source's receiver runs before main has
added its observers. The estimator's window, its default parameters, the sampler and the time
to expiry each have an edge where doubles stop being numbers. The configuration
has two maps over one list, whose keys may repeat. The same layout is kept by
hand in two languages.

What makes each component correct, in a sentence: the broker delivers in order,
at most once and never waits for a consumer; a stream's registration follows its
life; the client loses and doubles no frame; the process ends when told to and
reports why; a session is one of the broker's streams, writes from one goroutine
at a time, and ends when its peer is gone; the estimator uses every sample in
exactly one window; the engine prices with current parameters of a full window
and a spot price from before the tick; the source gives every message to the
engine once, one call at a time; an engine runs only on a configuration read to
its end, with the first entry of each key; what a consumer reads is what the engine
computed, to six digits (of prices below 450 million; beyond, to the precision
of a double) and under the right name. `PROJECT.json` lists the
hazards at their lines with the properties that cover them.

## The modules

* `LossyFeed` is what a consumer is promised: any observation may be missing,
  but those that come are in publication order, each at most once, none before
  it was published.
* `Lifecycle` is what whoever runs the feeder is promised: four workers that stay
  until one has a reason to stop, the first reason reported, and an end after all
  have left.
* `Broker` models broker.go and feedersvc. A channel of capacity 1 is the set of
  the at most one item in it, the fan-out `range` is one `Offer` per remaining
  target (in any order, as over a Go map), a stream is `pc[s]` with its channel
  `inbox[s]`. Observations are numbered by `Publish`. `since` is a history
  variable. `LF == INSTANCE LossyFeed` has the names of the variables in common,
  so the refinement mapping is the identity on `published` and `delivered`.
* `Feeder` extends `Broker` with the other goroutines of the process. Its
  `ClientPublish` is `Broker`'s `Publish` in the goroutine of the client, and the
  broker's context is the group's. The streams keep their actions. Out of scope:
  `Broker.Close`, which has no caller. `LC == INSTANCE Lifecycle WITH cause <-
  grpErr, live <- Live, ended <- exited` has the mapping: a goroutine is a worker
  while it has not returned, and the client also while its socket is open or its
  receiver has not been told.
* `WSSession` extends `Broker` the other way: session `s` is whoever consumes
  stream `s`. `conn[s]` has the place of the handler and of its two goroutines,
  the write lock, the two errors that stick (the connection's and the group's),
  the peer, and the messages written (but pongs). A write is two steps, lock and end, so that
  a peer can stall in between and other writers can find the lock taken; `Write`
  is the set of what may become of it. A peer reads, stalls, resumes, sends data,
  pings or a close as often as it likes, or vanishes, at any point. Not in it: the size and content of
  messages, and peers that break the protocol.
* `ParameterEstimator` keeps the buffer as the sequence of samples. Numbers of
  the loss are IEEE classes, worked out from the differences of the actual
  samples: `DivClass`, `MulClass` and `SumClass` are division, product and sum.
  The grid of alpha ends at 0.99 (in doubles 0.1 plus ninety times 0.01 is more
  than 1.0), which is why "grid" always means the Monte Carlo branch of the
  engine and "default" always the classical one.
* `Pricing` says which classes of price `estimate` may return for the time to
  expiry, the sign of the rate and the parameters; `Quote` is a caller who asks
  and gets one of them.
* `PricingEngine` extends `ParameterEstimator` and `Pricing`. One thread calls the engine; `onTicks` is one step
  for the estimator and one `BatchTick` for each tick, between which only the
  clock moves (`Expire`). A spot price is the number of the sample that set it;
  the record `est` is the last estimation with the history the properties need.
* `Valuation` is `estimate`, `black_scholes_price` and the sampler, one simulated
  path a step. A double is its class (zero, an ordinary number, finite but beyond
  64 bits, infinite, negative, nan); an operation on classes gives all classes
  its result may have. `Q == INSTANCE Quote WITH answer <- ...` reads the price's
  class off the finished sum.
* `Configuration` extends `Valuation`: `from_json` entry by entry, each of which
  may abort, then the engine's lookups, a valuation and `sendEstimation`. An
  option is the number of its entry, as the two maps share their options. A
  document is what the JSON parser gives; a list that is missing counts as one
  with an entry that does not parse, and a missing setting ends the process (the
  parser's assertion; a build without assertions leaves it undefined).
* `PriceSource` extends `PricingEngine` with its only caller: the receiver thread
  (`Recv`, `LockShared`, `Deliver`), main, which adds the engine as observer of
  ticks and then of klines (`LockUnique`, `Insert`), and the socket's queue.
  Messages that fail to parse, of an unknown type, and without an observer are
  counted apart. The receiver is the only thread that takes the lock shared.
* `Crc32` has the bitwise check sum over sets of the bits that are one, and a
  reference that divides polynomials bit by bit; `Wire` uses it in the 40 bytes
  on their way from the sink to the feeder's handler. A word is its bytes; the
  host's byte order is a variable. Prices are integers in units of a tenth of
  the sink's last digit, so that what the conversion cuts off shows.
* `MC*` modules and `.cfg` files are the instances for TLC; `*Proofs` modules
  hold the theorems. Definitions marked "Mutant" are plausible slips in an
  operation, kept beside it: each property is checked to fail for one of them
  (`PROJECT.json`, "mutants").

## The runs

| run | question | bounds |
|---|---|---|
| `broker_safety` | order, freshness, registration, leaks, refinement of `LossyFeed` | 2 streams, 3 observations |
| `feeder_safety` | conservation of frames, refinement of `Lifecycle` (the reported cause, the order of the exit); a signal ends the process or finds it wedged for good | 5 frames, no streams |
| `feeder_live` | frames get through beside a stream that may stall | 1 stream, 2 frames |
| `feeder_stops` (violated) | a signal ends the process | 3 frames |
| `feeder_socket` (violated) | the socket is used by one goroutine at a time | 1 frame |
| `session` | refinement of `Broker`, the end of a session, the order of what is written, release, and that a peer that reads is served however often it pings | 1 session, 2 observations, any number of frames from the peer |
| `engine` | windows, when the search falls back to its default, parameters and spot prices an estimation is made from, undefined prices | window 2, vectors up to 2, 4 samples, 3 time stamps, 2 options |
| `engine_expiry` (violated) | an option is paid off at expiry | as `engine`, 2 time stamps |
| `configuration` | what is loaded, why the process ends, what a put is valued to, refinement of `Quote` | up to 2 entries over 2 options and 2 spots, 3 types, 3 sets of codes, sizes -1, 0, 1, 65535, 65536, 2 paths |
| `source` | calls of the engine, every message accounted for and handled, main's turns at the lock | queue of 2, 3 messages, window 2, 2 options |
| `wire` | fields, check sum, prices and names across the wire | 2 byte orders, 3 instruments, 5 prices up to 2^31 |
| `wire_unknown` (violated) | an unknown instrument is discarded | as `wire` |

Why the bounds are enough. Two streams are what the races of the broker need
(each of subCh, unsubCh and the fan-out can then hold one while the other acts);
three observations fill publishCh, the fan-out and a stream's channel at once.
Five frames are one more than the four places between socket and broker. The
process has no streams in `feeder_safety`: the broker's send to one never waits
(`Offer`), so that they change nothing for the goroutines the run is about;
`feeder_live` has one that may stall, the theorems have any number. A window
of two with vectors of two gives windows that overshoot to three samples, with
repeated time stamps next to each other and apart (before sorting), and two
windows with a spot tick before, inside and after a batch. Two entries may share
the symbol, the spot, both or neither; two paths are a good one before or after
one that overflows or falls back, and a sum of more has no class that a sum of
two has not (the theorems have any number of entries and paths). One session is enough
because sessions share nothing but the broker, and `ImplementsBroker` has each of
them do to it what a stream does; `broker_safety` has two streams, and the
theorems any number. Of its two observations one can
wait in the channel while the writer waits for the lock with the other. The
peer's frames need no bound, since pongs are not recorded. Three messages are one before any
observer is added, one between the two and one after, or a full window and a tick
after it. On the wire, 2147483630 and 2567 have four and two bytes that differ,
zero and 7 (less than one unit) are the ends where the conversion could go
negative. Numbers of more than 31 bits are beyond TLC, so that in its instance
the upper halves of the 64-bit words are zero except in the time stamp, and
`Rounding` is 0; the
theorems about `Wire` have all of them. The identities of streams are
interchangeable, so `broker_safety` uses symmetry; the liveness runs do not.
Deadlock is not checked: a process that has exited, a broker that has returned
and a bounded input that is used up all stop.

## Fairness

* `FairFeederSpec`: weak fairness of every goroutine of the process and strong
  fairness of the select cases that compete (the end of the context, an error of
  receive, the broker's cases): Go's select draws uniformly among the ready
  cases, so a case that is ready again and again is taken, and goroutines blocked
  in a send are served in order. The network owes nothing: `ReceiveFrame`,
  `ReceiveError`, `Signal` and `ListenFails` are not fair. Nor are the streams,
  which may stall for ever.
* `FairSessionSpec`: the broker's loop as above, and every goroutine of a session
  that can run does. Steps that wait for the write lock are strongly fair because
  the lock is a channel of one, whose waiters are served in order; the end of a
  write is, because a peer that reads again and again takes what is in the
  socket. Of the stream's loop the cases other than a new observation are
  strongly fair (the end of the context beside a full channel). Nothing is
  assumed of the peer, which may send pings for ever and need send nothing; only
  what a vanished peer has left to be read comes to an end. `PeerIsServed` rests
  on the order of the lock's waiters: were `WriterLock` weakly fair only, TLC finds
  the behaviour in which every release of the lock is followed by another pong.
* `FairSourceSpec`: receiver and main run, and whoever waits for the mutex gets
  it. The receiver polls without waiting and so releases the lock again and
  again; a `shared_mutex` that let it starve main for ever would break
  `ThreadsServed`, and the standard leaves that open. The assumption is the
  platform's: pthread rwlocks as used here have one reader, in short turns.

## What the checks found

* `feeder_stops`: `Publish` ignores its context. If the broker's select prefers
  `ctx.Done()` to a waiting observation, the client's next `Publish` blocks for
  ever, `grp.Wait` never returns, and further signals are swallowed. `feeder_safety`
  shows (`StopsOrWedges`) that this is the only way a signal fails to end the process, and
  `WedgedForever` that nothing leads out.
* `feeder_socket`: `receive` uses the ZMQ socket without the mutex that `Close`
  holds; the binding's documentation asks for one.
* `engine_expiry`: the Monte Carlo branch has no case for an expired option; its
  price is a nan, whose conversion to an integer in the sink is undefined.
  `DeclaredPutIsNumber` has the other side of it: ahead of expiry a put on a spot
  with a price is always a number, whatever the sampler draws.
* `wire_unknown`: `GetInstrumentByCode` returns true for every code, so the two
  errors of `ObservationDTO.Observation` cannot occur, and observations of
  instruments the feeder does not know are published without a name.

Read off the models, without a run of their own: the send with a default case
keeps the older observation, so that a consumer one behind at the end of a burst
shows a stale price until the next one comes; the mock upstream encodes 40 bytes
into a buffer of 32 and stops at its first observation (`MockSend`); the check
sum is computed correctly, contrary to the remark at protocol.hpp:110, but the
feeder never verifies it; a session's write has no deadline, so a peer that stays
connected and never reads keeps its session (the exception in
`ReaderEndsSession`); the branch of Entrypoint without an error is never taken
(`SessionOver`); the time to expiry is in seconds
(`get_time_to_expiration_h` has no caller), so that a long path of a call may
overflow, and with a negative rate so may the discount, in either formula
(`Pricing`, the precondition of `UndefinedOnlyFromGrid`); a size of 65536 becomes
0 (`ReadSettings`); an option whose type is neither call nor put is priced by
what was in memory (`TypesOf`); `get_option_by_spot` has no caller.

## The proofs

`BrokerProofs` proves, for every finite set of streams and every `MaxObs`:

* `BrokerCorrect`: `Spec => [](TypeOK /\ BrokerInv)`. `BrokerInv` is inductive
  together with `TypeOK`, and neither is alone: that an offered observation is in
  range follows from the stream in `targets` holding a smaller one. Its parts:
  `PublishPipeline` (what publishCh holds is `msg + 1`), `StreamOrder` (the line
  delivered < yielding < channel <= `msg`, strictly below `msg` while the stream
  is still a target, so that `msg` can join its end), `StreamPhase`, and the two
  claims `Registered` and `FreshStart` with `FreshTargets` to carry the latter
  through a fan-out.
* `StreamsServed`: `Registered` and `FreshStart`.
* `BrokerImplementsLossyFeed`: `ImplementsLossyFeed`, that is `LF!Spec`; only `Publish` and `YieldOk`
  are visible, and `StreamOrder` is the guard of `Deliver`.
* `LeaksNeedOvertaking`: the action property `LeakNeedsOvertaking`.

`WSSessionProofs` proves, for every number of sessions, observations and frames:

* `SessionsAreStreams`: `SessionSpec => Spec`. Every step of a session is a step
  of its stream, the cancellation of its context (`ReturnCancels`: once, by the
  first goroutine that returns an error), or a stutter. All theorems of
  `BrokerProofs` therefore hold of the sessions; `SessionsKeepBroker` states the
  invariant among them.
* `SessionsAreServed` and `SessionsLeakByOvertaking`: of that, what a session is
  promised, `ImplementsLossyFeed`, `Registered` and `FreshStart`, and that no
  peer, whether it stalls or vanishes, can make the broker leak otherwise than
  `LeakNeedsOvertaking` says.
* `SessionsEnd`: `SessionTypeOK` and `SessionOver`. The inductive invariant is
  `SessionInv`, one `Sound` per session: `SessionPhase` (a returned reader has
  left an error in the group, a returned writer has a stream that is done, a
  context is cancelled by an error only) with who may hold the write lock.
  `SessionOver` is not inductive by itself: that there is an error when both have
  returned comes from the reader, which returns none only when the context is
  cancelled, which needs an error. `OneSession` reduces a step to the session
  that takes it.
* `SessionsWriteInOrder`: `WireOrder`, by `OrderInv`. Messages carry no numbers: it
  counts the observations, and which they are and in what order is
  `ImplementsLossyFeed` of `SessionsAreServed`. `Ordered`
  adds to the claim what makes it inductive: whoever may still write has written no
  last message, because a close leaves an error in the connection and the
  handler's error is its last step. A step either writes nothing (`Quiet`) or one
  message (`Says`); `CountAppend` is what one more message does to the count.

`FeederProofs` proves, for every number of frames and streams:

* `FeederCorrect`: the types and `Conservation`. The inductive
  invariant is `FeederInv` with the types and `BrokerInv`: `Shutdown` says who
  may have returned before the group has its error (nobody but a client that met
  a fault), `Handover` how far `Close` has come when the receiver meets a closed
  socket or a cleared flag. An error "closed" or "nil" from the receiver is
  therefore no cause: it exists only once the client has left its loop and no
  longer reads the channel it is in.
* `FeederImplementsLifecycle`: `ImplementsLifecycle`, from the same invariant; its
  part `CauseIsReal` is what makes the first `Leave` one for a reason.
* `FeederRunsBroker`: `FeederSpec => Spec`. The group's first error is the end of
  the broker's context.
* `FeederServesStreams` and `FeederImplementsLossyFeed`: with it, `Registered`,
  `FreshStart` and `ImplementsLossyFeed` in the process, also while it shuts down.
* `WedgedIsForever`: the action property `WedgedForever`.

`EngineProofs` proves, for every buffer size, bound on vectors, set of
options and configuration of codes:

* `EstimatorCorrect`: `Tumbling` and `DefaultIffTies`. The latter is about the
  classes of a sum over a sorted window: if two samples of the window share a time
  stamp then two neighbours of the sorted one do, their term of the Caputo sum
  divides by zero, and a nan makes a nan of every sum it is in; without one no
  term leaves the numbers. `SortedByTs` has every sorted order of the
  window, as `std::sort` is not stable.
* `SortHasResult`: `SortedByTs(b)` is never empty, so that none of this holds for
  want of a step. `LeastGoesFirst` sorts `n` samples from `n - 1`, and the least
  number of samples that could not be sorted (`LeastNatural`) does not exist.
* `EngineRunsEstimator`: `EngineSpec => EstSpec`, and from it `EngineDefaults`,
  `DefaultIffTies` in the engine.
* `EngineCorrect`: `FreshParameters` and `CausalPricing`. `EngineInv` adds
  `BatchOrder`: a batch's ticks are the last samples fed and no spot price is
  newer than the tick before the next one, which `CausalPricing` needs between
  the ticks of a batch.
* `UndefinedIsMonteCarlo`: the action property `UndefinedOnlyFromGrid`. Strikes
  are taken to be positive and spot prices not negative, which the code does not
  check.

`SourceProofs` proves, for queues and numbers of messages of any size:

* `SourceImplementsEngine`: `SourceSpec => EngineSpec`. A delivery is a call of
  the engine, the clock is `Expire`, all else stutters.
* `SourceKeepsEngine` and `SourceUndefinedIsMonteCarlo`: with it, `Tumbling`,
  `DefaultIffTies`, `FreshParameters`, `CausalPricing` and
  `UndefinedOnlyFromGrid` in the process.
* `SourceCorrect`: `NoInsertWhileDelivering`, `MessagesAccounted`, and
  `ExactWindows`, the windows and samples of what was delivered. `SourceInv` has `MtxHolder` (the mutex says who is where), `CurrentParsed` (what
  the receiver holds has parsed, so no sample comes of a malformed message) and
  `MainProgress`.
* `NothingMissed`: the action property `MissedOnlyAtStart`, from `MainProgress`.

`Crc32Proofs` proves `CrcCorrect`: what `crc32.h` computes is the check sum of the
standard, for every sequence of bytes. `Image(d, s)` is the register `d` read
backwards at the powers from `s` up. The argument: as a word, the image of the
register is what is left of the message's polynomial. One round of the shifting
loop (`CrcBit`) is one step of the division (`BitStep`, from `Mirror`: the two
polynomials are each other's image), eight are a byte (`ByteStep`), and
`RemainingSplit` separates what the division has reached from the bytes it has
not. The loops are recursive functions; `LoopExists`, by induction over sets of
naturals (`SetInduction`, from the library's well-founded minimum), has that they
take the values their equations give.

`WireProofs` proves, for all words, both byte orders and any configuration:

* `FieldsCorrect`: `FieldsSurvive`. `WriteIsPut` and `ReadIsGet` cancel the two
  turns of the byte order, `PutThenGet` has that a field written at one place is
  not changed by one written at another, `FrameHolds` puts the seven together.
* `PricesCorrect`: `PricesSurvive`. `WordOfNumber64` turns a number into eight
  bytes and back; `FixedBounds` has how far the number may be from the price. A
  price is rounded twice, to a double and as a product of doubles, by less than
  one part in 2^52 together; `Rounding` is that in whole units of the model. Below
  2^52 units, a price of 450 million, it is 0: the product may only just miss an
  integer that the price has reached. Above, it may also reach one that the price
  has not (890000000.0000009 is sent as 890000000.000001). The one bound is
  `Fits64`, in `WireAssumption`: the product is below 2^64, where the conversion
  to `uint64_t` is defined.
* `WireTyped`: `WireTypeOK`.
* `CheckSumCorrect`: `CrcIsRemainder`, from `CrcCorrect` and `FrameSum`: the sum is
  written last, after the bytes it is taken of, and changes none of them.
* `NothingDiscarded`: every estimation that is sent is published, because a frame
  of the engine has forty bytes and neither error of the names can occur;
  `PriceFits` has that every estimation can be sent.
* `NamesCorrect`: `OneToOne => NamesSurvive`. `OneToOne` says that no two symbols
  have one code or one name, and that the empty name is none of them: the tables
  are two configurations, and no code makes sure of it.

`ConfigurationProofs` proves, for every set of documents and number of paths:

* `ConfigurationLoaded`: `ConfTypeOK` and `LoadedAsWritten`. The inductive
  invariant `ConfInv` has `Indexed`: after `n` entries a map has exactly the first
  of them for each key. `InsertIndexes` is the step of `insert`, `IndexIsUnique`
  identifies such a map with the `IndexOf` of the property.
* `EndsExplained`: `EndsForAReason`.
* `PutsAreNumbers`: `DeclaredPutIsNumber`, from `Sound`, the part of the invariant
  about a valuation under way: a put's payoff is 0 where the
  simulated price overflows, and `OperationalTimes` keeps the time of a path from
  being a nan, infinite or zero before the expiry, so each path adds a number.
* `ValuationImplementsQuote`: `ImplementsQuote`. The clock, the rate and the
  parameters read at the beginning decide the class of the sum at the end.

* `EngineMayAssume`: from the moment an engine exists the repository satisfies
  what `PricingEngine` and `ParameterEstimator` assume of their constants
  (`EngineTables`), and never changes again, which is why they are constants.

The assumptions used are the named ones of the modules on their constants:
`BrokerAssumption` (a finite set of streams, a natural bound), `FeederAssumption`
(no more frames than the broker may number),
`EstimatorAssumption` (a buffer of any size, 0 included, which
`ReadSettings` may make of 65536), `EngineAssumption` (every
option has its spot), `SourceAssumption`, `WireAssumption` (what is sent of
a price fits 64 bits, `Nothing` is no packet), `ValuationAssumption` (at least one path) and `ConfigurationAssumption`
(what a document is).

Only model-checked: liveness (`StopsOrWedges`, `FramesGetThrough`,
`GoneIsReleased`, `ReaderEndsSession`, `PeerIsServed`, `ThreadsServed`), which rests
on fairness and so on `ENABLED`, beyond the prover. Every invariant, every action
property and every refinement a run checks is a theorem; those of the runs that
expect a violation are, of course, not.

## Not modelled

The values of the formulas and of the samples (numbers, not control; their
classes are in `Valuation`); `sampleValues` and `to_json`, which have no caller;
formatting, the JSON replies and logging; `Connect` of the upstream client, whose
errors come before any goroutine exists and end the process; the reading of the
feeder's own settings; the transports' own buffering; the feed scripts, which are
the engine's environment; the mock client, a peer that only reads; the Kafka
sink, an interface without an implementation. `PricingEngine` and `Wire` take the
tables they look symbols up in as constants: `Configuration` has what is in them
when an engine runs.

## The plan

Done, in this order: `LossyFeed`, `Broker`, `Feeder`, `ParameterEstimator`,
`PricingEngine`, `WSSession`, `PriceSource`, `Crc32`, `Wire`, `Pricing`, `Quote`,
`Valuation`, `Configuration`, `Lifecycle`; proofs of all properties but liveness.
What could follow: a composition of `Wire` with `Feeder`, in
which frames are the bytes of observations, too short ones among them, up to a
consumer's stream. Both ends of it are here: a frame is an observation or
malformed in `Feeder`, and `Handle` of `Wire` says which.
