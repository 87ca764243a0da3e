--------------------------- MODULE MCFramedStream ---------------------------
(* Instances of FramedStream for TLC.                                        *)
EXTENDS FramedStream, TLC

CONSTANTS t1, t2

ThreadSymmetry == Permutations({t1, t2})
=============================================================================
