------------------------------ MODULE MCUdelay ------------------------------
(***************************************************************************)
(* Udelay with 10-bit numbers and a quarter of a second of 8 microseconds. *)
(***************************************************************************)
EXTENDS Udelay
=============================================================================
