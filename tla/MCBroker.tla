------------------------------ MODULE MCBroker ------------------------------
(* Instances of Broker for TLC: the constants are given in the cfg files.  *)
EXTENDS Broker, TLC

Symmetry == Permutations(Streams)
=============================================================================
