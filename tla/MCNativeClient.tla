--------------------------- MODULE MCNativeClient ---------------------------
(* Instances of NativeClient for TLC. *)
EXTENDS NativeClient
CONSTANTS t1, t2
=============================================================================
