----------------------------- MODULE MCUartRing -----------------------------
(* Instances of UartRing for TLC. *)
EXTENDS UartRing
=============================================================================
