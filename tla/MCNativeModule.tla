--------------------------- MODULE MCNativeModule ---------------------------
(* Instances of NativeModule for TLC.                                        *)
EXTENDS NativeModule

(* One function for each kind of result.                                     *)
ABufferAScalarNothing == {"echo_roundtrip", "is_running", "send"}
=============================================================================
