---------------------------- MODULE MCConversions ----------------------------
(* Conversions with two-bit bytes, on a 64-bit or a 32-bit target.          *)
EXTENDS Conversions
=============================================================================
