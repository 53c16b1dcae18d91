------------------------------- MODULE MCWire -------------------------------
(* The instruments of deploy/config.json and of the feeder's config.yaml,  *)
(* and one that only the engine has.                                       *)
EXTENDS Wire

BTC == "BTCUSDT"
Call == "BTC-19DEC25-88500-C-USDT"
ETH == "ETHUSDT"

MCCode == [y \in {BTC, Call, ETH} |->
             CASE y = BTC -> <<0, 0, 3, 232>>
               [] y = Call -> <<0, 0, 7, 209>>
               [] y = ETH -> <<1, 2, 3, 4>>]
MCInstrument == [c \in {<<0, 0, 3, 232>>, <<0, 0, 7, 209>>} |->
                   IF c = <<0, 0, 3, 232>> THEN BTC ELSE Call]
MCStamps == {<<0, 0, 1, 154, 83, 127, 1, 0>>}
=============================================================================
