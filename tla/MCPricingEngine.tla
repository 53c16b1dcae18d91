--------------------------- MODULE MCPricingEngine ---------------------------
(* Instances of PricingEngine for TLC: options on one spot symbol.         *)
EXTENDS PricingEngine

CONSTANT Spot

MCSpotOf == [o \in Options |-> Spot]
=============================================================================
