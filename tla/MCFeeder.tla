------------------------------ MODULE MCFeeder ------------------------------
(* Instances of Feeder for TLC: the constants are given in the cfg files.  *)
EXTENDS Feeder
=============================================================================
