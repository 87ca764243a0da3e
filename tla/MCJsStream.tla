---------------------------- MODULE MCJsStream ----------------------------
(* Instances of JsStream for TLC.                                            *)
EXTENDS JsStream, TLC

CONSTANTS m1, m2, c1, c2

HandlerSymmetry == Permutations({m1, m2}) \cup Permutations({c1, c2})
=============================================================================
