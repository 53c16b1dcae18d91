------------------------------- MODULE Pricing -------------------------------
(***************************************************************************)
(* What PricingEngine::estimate (src/libtfbsm/core/pricing_engine.cpp) may *)
(* return, by the time left to the option's expiry T, the sign of the      *)
(* risk-free rate and the parameters.  An estimated price is               *)
(*   "model"  a number of ordinary size computed by one of the formulas    *)
(*   "payoff" the value at expiry                                          *)
(*   "bad"    an infinity, a nan, or more than 64 bits hold                *)
(* Valuation computes it path by path, PricingEngine takes it as one step. *)
(***************************************************************************)

Horizons == {"ahead", "now", "past"}  \* T > 0, T = 0 and T < 0
Rates == {"nonneg", "neg"}
PriceClasses == {"model", "payoff", "bad"}

\* Mutant: no test of T <= 0; the logarithm's quotient is by a root of T.
BlackScholesUnguarded(T, rate) == IF T = "ahead" THEN {"model"} ELSE {"bad"}

\* The value at expiry when T <= 0.  T is in seconds, so that a negative rate
\* makes the discount e^(-rT) overflow.
black_scholes_price(T, rate) ==
  CASE T # "ahead"                     -> {"payoff"}
    [] T = "ahead" /\ rate = "nonneg" -> {"model"}
    [] T = "ahead" /\ rate = "neg"    -> {"model", "bad"}

\* At T = 0 every path ends at the spot price; T < 0 gives the power of a
\* negative number, then the root of a negative one, on every path; at T > 0 the
\* exponential of a long path may overflow.
MonteCarlo(T) ==
  CASE T = "ahead" -> {"model", "bad"}
    [] T = "now"   -> {"payoff"}
    [] T = "past"  -> {"bad"}

\* The default parameters have alpha 1, those of the grid a smaller one.
PriceOf(T, rate, p) ==
  IF p = "default" THEN black_scholes_price(T, rate) ELSE MonteCarlo(T)
=============================================================================
