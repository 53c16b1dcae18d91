---------------------------- MODULE MCPriceSource ----------------------------
(* Instances of PriceSource for TLC: options on one spot symbol.           *)
EXTENDS PriceSource

CONSTANT Spot

MCSpotOf == [o \in Options |-> Spot]
=============================================================================
