---------------------------- MODULE MCWSSession ----------------------------
(* Instances of WSSession for TLC: the constants are given in the cfgs.    *)
EXTENDS WSSession
=============================================================================
