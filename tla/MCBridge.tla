------------------------------ MODULE MCBridge ------------------------------
(* Instances of Bridge for TLC.                                              *)
EXTENDS Bridge

CONSTANTS a1, f1, f2, k1, k2
=============================================================================
