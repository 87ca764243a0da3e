----------------------------- MODULE MCDialTarget -----------------------------
(* An instance of DialTarget for TLC.  The timeouts are none, a half, one,   *)
(* one and a half and seven milliseconds, and the two at the binding's width.*)
EXTENDS DialTarget

CONSTANTS i1, i2, s1, s2, r1
=============================================================================
