-------------------------------- MODULE Quote --------------------------------
(***************************************************************************)
(* A valuation as its caller sees it: it is asked with the time to expiry, *)
(* the rate and the parameters as they are then, and some time later gives *)
(* one of the prices they allow.                                           *)
(***************************************************************************)
EXTENDS Pricing

VARIABLES question, \* the last question, or NoQuestion
          answer    \* its price, or "none"

NoQuestion == [T |-> "none", rate |-> "none", p |-> "none"]
Questions == [T : Horizons, rate : Rates, p : {"default", "grid"}]

QuoteInit == question = NoQuestion /\ answer = "none"

Ask ==
  /\ question = NoQuestion \/ answer # "none"
  /\ question' \in Questions
  /\ answer' = "none"

Answer ==
  /\ question # NoQuestion /\ answer = "none"
  /\ answer' \in PriceOf(question.T, question.rate, question.p)
  /\ UNCHANGED question

QuoteSpec == QuoteInit /\ [][Ask \/ Answer]_<<question, answer>>
=============================================================================
