---------------------------- MODULE PricingEngine ----------------------------
(***************************************************************************)
(* The pricing engine (src/libtfbsm/core/pricing_engine.cpp) with its      *)
(* parameter estimator, the configuration it looks symbols up in and the   *)
(* conversion its sink makes.  One thread calls the engine, so a call is   *)
(* over before the next begins; only the wall clock moves meanwhile.       *)
(*                                                                         *)
(* A spot price is represented by the number of the sample it came from,   *)
(* an estimated price by its class in Pricing.                             *)
(***************************************************************************)
EXTENDS ParameterEstimator, Pricing

CONSTANTS Symbols,  \* the symbols of ticks
          Options,  \* keys of options_, the options of the configuration
          SpotOf,   \* spot_symbol of each option
          Coded,    \* keys of symbol_codes_
          Rate      \* the sign of risk_free_rate_

ASSUME EngineAssumption ==
  /\ Options \subseteq Symbols /\ Coded \subseteq Symbols
  /\ SpotOf \in [Options -> Symbols] /\ Rate \in Rates

VARIABLES
  spot_prices_, \* spot_prices_[y]: the sample y's price is from, 0 if unknown
  batch,        \* the ticks onTicks has still to go through
  expiry,       \* expiry[o]: "ahead", "now" or "past" of the wall clock
  est,          \* the last estimation given to the sink
  terminated    \* an exception has left the engine

engineVars == <<spot_prices_, batch, expiry, est, terminated>>
allVars == <<estVars, engineVars>>

Tick == [ts : Times, price : Prices, market : {"option", "spot"}, symbol : Symbols]
TickVectors == UNION {[1..n -> Tick] : n \in 0..MaxBatch}
SampleOf(tick) == [ts |-> tick.ts, price |-> tick.price]

NoEst == [option |-> "none"]
Estimations ==
  [option : Options, spot : 1..MaxSamples, tick : 1..MaxSamples,
   asOf : 0..MaxSamples, fed : 1..MaxSamples, expiry : Horizons,
   price : PriceClasses, wire : {"number", "undefined"}]

EngineTypeOK ==
  /\ EstTypeOK
  /\ spot_prices_ \in [Symbols -> 0..MaxSamples]
  /\ batch \in TickVectors
  /\ expiry \in [Options -> Horizons]
  /\ est \in Estimations \cup {NoEst}
  /\ terminated \in BOOLEAN

EngineInit ==
  /\ EstInit
  /\ spot_prices_ = [y \in Symbols |-> 0]
  /\ batch = <<>>
  /\ expiry \in [Options -> Horizons]
  /\ est = NoEst
  /\ terminated = FALSE

-----------------------------------------------------------------------------
(* Pricing.                                                                *)

\* The sink's conversion of the price to an unsigned integer is undefined for
\* infinities and nans.
onPriceEstimation(price) == IF price = "bad" THEN "undefined" ELSE "number"

\* The early returns of onTick for a tick of an option.
Priceable(y, p) ==
  /\ p # "none"
  /\ y \in Options
  /\ spot_prices_[SpotOf[y]] # 0

\* Mutant: the price is taken from the last tick of the batch.
SpotTickLate(y, n) ==
  /\ spot_prices_' = [spot_prices_ EXCEPT ![y] = samples']
  /\ UNCHANGED <<est, terminated>>

SpotTick(y, n) ==
  /\ spot_prices_' = [spot_prices_ EXCEPT ![y] = n]
  /\ UNCHANGED <<est, terminated>>

\* A pointer to an exception is thrown for a missing code; nothing catches it.
sendEstimation(e) ==
  \/ /\ {e.option, SpotOf[e.option]} \subseteq Coded
     /\ est' = e
     /\ UNCHANGED terminated
  \/ /\ ~({e.option, SpotOf[e.option]} \subseteq Coded)
     /\ terminated' = TRUE
     /\ UNCHANGED est

\* onTick(tick, batch) after the estimator: tick is sample n, p the parameters,
\* fed the samples fed by then and asOf those behind p.
EngineTick(tick, n, p, fed, asOf) ==
  \/ tick.market = "spot" /\ SpotTick(tick.symbol, n)
  \/ /\ tick.market = "option"
     /\ ~Priceable(tick.symbol, p)
     /\ UNCHANGED <<spot_prices_, est, terminated>>
  \/ /\ tick.market = "option"
     /\ Priceable(tick.symbol, p)
     /\ \E price \in PriceOf(expiry[tick.symbol], Rate, p) :
          sendEstimation([option |-> tick.symbol,
                          spot |-> spot_prices_[SpotOf[tick.symbol]],
                          tick |-> n, asOf |-> asOf, fed |-> fed,
                          expiry |-> expiry[tick.symbol], price |-> price,
                          wire |-> onPriceEstimation(price)])
     /\ UNCHANGED spot_prices_

-----------------------------------------------------------------------------
(* The calls.                                                              *)
Idle == batch = <<>> /\ ~terminated

\* Mutant: the tick is priced before the estimator has seen it.
OnTickStale(tick) ==
  /\ Idle
  /\ samples < MaxSamples
  /\ EstOnTick(SampleOf(tick))
  /\ EngineTick(tick, samples', params, samples', windowEnd)
  /\ UNCHANGED <<batch, expiry>>

onTick(tick) ==
  /\ Idle
  /\ samples < MaxSamples
  /\ EstOnTick(SampleOf(tick))
  /\ EngineTick(tick, samples', params', samples', windowEnd')
  /\ UNCHANGED <<batch, expiry>>

\* onTicks gives the estimator the whole vector first ...
onTicks(ticks) ==
  /\ Idle
  /\ samples + Len(ticks) <= MaxSamples
  /\ EstOnTicks([i \in DOMAIN ticks |-> SampleOf(ticks[i])])
  /\ batch' = ticks
  /\ UNCHANGED <<spot_prices_, expiry, est, terminated>>

\* ... and then goes through it.
BatchTick ==
  /\ batch # <<>>
  /\ ~terminated
  /\ UNCHANGED <<estVars, expiry>>
  /\ EngineTick(Head(batch), samples - Len(batch) + 1, params, samples, windowEnd)
  /\ batch' = Tail(batch)

onKlines(klines) ==
  /\ Idle
  /\ samples + Len(klines) <= MaxSamples
  /\ EstOnKlines(klines)
  /\ UNCHANGED engineVars

\* The wall clock reaches the second an option expires in, and leaves it.
Expire(o) ==
  /\ expiry[o] # "past"
  /\ expiry' = [expiry EXCEPT ![o] = IF @ = "ahead" THEN "now" ELSE "past"]
  /\ UNCHANGED <<estVars, spot_prices_, batch, est, terminated>>

EngineNext ==
  \/ \E tick \in Tick : onTick(tick)
  \/ \E ticks \in TickVectors : onTicks(ticks)
  \/ BatchTick
  \/ \E klines \in Vectors : onKlines(klines)
  \/ \E o \in Options : Expire(o)

EngineSpec == EngineInit /\ [][EngineNext]_allVars

-----------------------------------------------------------------------------
(* FreshParameters: an estimation is made only after a first full window,  *)
(* and with parameters that miss fewer samples than a buffer holds, none   *)
(* if its size is 0 (pricing_engine.cpp:33-44, 14-18).                     *)
FreshParameters ==
  est # NoEst =>
    /\ est.asOf >= BufSize
    /\ est.fed - est.asOf < BufSize \/ est.fed = est.asOf

(* CausalPricing: the spot price of an estimation was fed before the tick  *)
(* that asked for it, for batches as for single ticks; the parameters may  *)
(* come from later ticks, but only of the tick's own batch.                *)
CausalPricing ==
  est # NoEst =>
    /\ est.spot < est.tick
    /\ est.tick <= est.fed /\ est.fed < est.tick + MaxBatch
    /\ est.asOf <= est.fed

(* UndefinedOnlyFromGrid: unless the rate is negative, what the sink       *)
(* cannot convert comes from the Monte Carlo branch; an option the         *)
(* classical formula prices is safe on both sides of its expiry            *)
(* (pricing_engine.cpp:77-79, 141-147).                                    *)
UndefinedOnlyFromGrid ==
  [][Rate = "nonneg" /\ est' # est /\ est'.wire = "undefined"
       => params' = "grid" /\ est'.expiry # "now"]_allVars

(* PaidOffAtExpiry: "Terminal condition: V(T, S) = max(S - K, 0)"          *)
(* (README.md, "Boundary conditions"): what is sent for an option whose    *)
(* time to expiry is not positive is its payoff.                           *)
PaidOffAtExpiry ==
  est # NoEst /\ est.expiry # "ahead" => est.price = "payoff"
=============================================================================
