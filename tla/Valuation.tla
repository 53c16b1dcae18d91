------------------------------ MODULE Valuation ------------------------------
(***************************************************************************)
(* PricingEngine::estimate and black_scholes_price                         *)
(* (src/libtfbsm/core/pricing_engine.cpp) and the sampler they draw from   *)
(* (stable_distribution.cpp), one simulated path a step.                   *)
(*                                                                         *)
(* A double is its class: "zero", "num" (a positive number of ordinary     *)
(* size: products and sums of such are of ordinary size), "huge" (finite,  *)
(* beyond what the sink converts), "inf" (either infinity), "neg" (a       *)
(* negative number) or "nan".  Strike prices are positive, spot prices not *)
(* negative.  An operation on classes gives the set of classes its result  *)
(* may have.                                                               *)
(***************************************************************************)
EXTENDS Naturals, Pricing

CONSTANT Paths  \* size, the number of simulated paths
ASSUME ValuationAssumption == Paths \in Nat \ {0}

VARIABLES
  pc,     \* "idle", "asked", "paths" or "done"
  option, \* the option's type and the spot price it is priced at
  question, \* what estimate reads first: time to expiry, rate, parameters
  path,   \* paths simulated
  sum     \* class of the sum of discounted payoffs, then of the price

valuationVars == <<pc, option, question, path, sum>>

Q == INSTANCE Quote WITH answer <-
       IF pc # "done" THEN "none"
       ELSE IF sum \notin {"zero", "num"} THEN "bad"
       ELSE IF question.T = "ahead" THEN "model" ELSE "payoff"

Types == {"call", "put"}
Sums == {"zero", "num", "huge", "inf", "nan"}
NoOption == [type |-> "none", spot |-> "none"]
PricedOptions == [type : Types, spot : {"zero", "num"}]

ValuationTypeOK ==
  /\ pc \in {"idle", "asked", "paths", "done"}
  /\ option \in PricedOptions \cup {NoOption}
  /\ question \in Q!Questions \cup {Q!NoQuestion}
  /\ pc # "idle" => option # NoOption /\ question # Q!NoQuestion
  /\ path \in 0..Paths
  /\ sum \in Sums

ValuationInit ==
  /\ pc = "idle"
  /\ option = NoOption /\ question = Q!NoQuestion
  /\ path = 0 /\ sum = "zero"

-----------------------------------------------------------------------------
(* Arithmetic of classes.                                                  *)
Times(x, y) ==
  CASE "nan" \in {x, y} \/ {x, y} = {"zero", "inf"} -> {"nan"}
    [] "zero" \in {x, y} /\ {x, y} \subseteq {"zero", "num", "huge"} -> {"zero"}
    [] "inf" \in {x, y} /\ {x, y} \subseteq {"num", "huge", "inf"} -> {"inf"}
    [] {x, y} = {"num"} -> {"zero", "num"}
    [] OTHER -> {"zero", "num", "huge", "inf"}

Plus(x, y) ==
  CASE "nan" \in {x, y} -> {"nan"}
    [] "inf" \in {x, y} /\ "nan" \notin {x, y} -> {"inf"}
    [] "huge" \in {x, y} /\ {x, y} \subseteq {"zero", "num", "huge"} -> {"huge", "inf"}
    [] {x, y} \subseteq {"zero", "num"} -> IF "num" \in {x, y} THEN {"num"} ELSE {"zero"}

TimesAll(X, Y) == UNION {Times(x, y) : x \in X, y \in Y}

\* sampleValue: a sine that is 0 at the end of U's range, times a power of a
\* quotient by W, which may be 0.
sampleValue == TimesAll({"zero", "num"}, {"num", "inf"})

\* The class of a time to expiry.
ClassOf(T) == CASE T = "ahead" -> "num" [] T = "now" -> "zero" [] T = "past" -> "neg"

\* pow(T / |s1|, alpha), alpha below 1: a negative base gives a nan.
Power(T, s1) ==
  CASE s1 = "nan" \/ (s1 = "zero" /\ T = "now") -> "nan"
    [] s1 = "inf"                                -> "zero"
    [] s1 = "zero" /\ T # "now"                  -> "inf"
    [] s1 = "num" -> CASE T = "ahead" -> "num" [] T = "now" -> "zero" [] T = "past" -> "nan"

\* Mutant: the power is used as it is.
OperationalTimeRaw(T, s1) == Power(T, s1)

\* e_t: T itself whenever the power is not finite or not positive.
OperationalTime(T, s1) == IF Power(T, s1) = "num" THEN "num" ELSE ClassOf(T)

\* exp(drift + diffusion): the root of a negative e_t is a nan.
Growth(e_t) ==
  CASE e_t = "zero" -> {"num"}
    [] e_t = "num"  -> {"zero", "num", "huge", "inf"}
    [] OTHER        -> {"nan"}

Discount(rate, e_t) ==
  CASE e_t = "zero"                    -> {"num"}
    [] e_t = "num" /\ rate = "nonneg" -> {"zero", "num"}
    [] OTHER                           -> {"zero", "num", "huge", "inf"}

\* max(S_T - K, 0) of a call and max(K - S_T, 0) of a put; std::max(nan, 0) is
\* the nan.
Payoff(type, S_T) ==
  CASE S_T = "nan"                                    -> {"nan"}
    [] type = "call" /\ S_T \in {"huge", "inf"}       -> {S_T}
    [] type = "call" /\ S_T = "zero"                  -> {"zero"}
    [] type = "put"  /\ S_T \in {"huge", "inf"}       -> {"zero"}
    [] type = "put"  /\ S_T = "zero"                  -> {"num"}
    [] S_T = "num"                                    -> {"zero", "num"}

\* One path's discounted payoff for its operational time e_t.
Discounted(e_t) ==
  UNION {TimesAll(Discount(question.rate, e_t), Payoff(option.type, S_T)) :
           S_T \in TimesAll({option.spot}, Growth(e_t))}

-----------------------------------------------------------------------------
(* The steps of a valuation.                                               *)

\* estimate is called: it reads the rate, the parameters and the clock.
Estimate(type) ==
  /\ pc \in {"idle", "done"}
  /\ option' \in {o \in PricedOptions : o.type = type}
  /\ question' \in Q!Questions
  /\ pc' = "asked"
  /\ path' = 0 /\ sum' = "zero"

\* With alpha 1: the payoff, or the difference of two discounted products.
BlackScholes ==
  /\ pc = "asked" /\ question.p = "default"
  /\ sum' \in IF question.T # "ahead"
              THEN Payoff(option.type, option.spot)
              ELSE UNION {Plus(x, y) : x \in {"zero", "num"},
                            y \in TimesAll(Discount(question.rate, "num"), {"zero", "num"})}
  /\ pc' = "done"
  /\ UNCHANGED <<option, question, path>>

Path ==
  /\ pc = "paths" \/ (pc = "asked" /\ question.p = "grid")
  /\ path < Paths
  /\ \E s1 \in sampleValue :
       \E payoff \in Discounted(OperationalTime(question.T, s1)) : sum' \in Plus(sum, payoff)
  /\ path' = path + 1
  /\ pc' = "paths"
  /\ UNCHANGED <<option, question>>

\* mean = sum / size may be of ordinary size when the sum is huge.
Mean ==
  /\ pc = "paths" /\ path = Paths
  /\ sum' \in IF sum = "huge" THEN {"num", "huge"} ELSE {sum}
  /\ pc' = "done"
  /\ UNCHANGED <<option, question, path>>

ValuationStep == BlackScholes \/ Path \/ Mean
ValuationNext == (\E type \in Types : Estimate(type)) \/ ValuationStep
ValuationSpec == ValuationInit /\ [][ValuationNext]_valuationVars

-----------------------------------------------------------------------------
(* ImplementsQuote: whatever the sampler draws, the price is one that      *)
(* Pricing allows for the time, rate and parameters read at the beginning  *)
(* (pricing_engine.cpp:65-162).                                            *)
ImplementsQuote == Q!QuoteSpec

(* PutIsNumber: a put on a spot with a price is valued to a number until   *)
(* it has expired, by either formula, however many paths overflow or fall  *)
(* back to T, unless the rate is negative (pricing_engine.cpp:91-124).     *)
PutIsNumber ==
  /\ pc = "done" /\ option.type = "put" /\ option.spot = "num"
  /\ question.T # "past" /\ question.rate = "nonneg"
  => sum \in {"zero", "num"}
=============================================================================
