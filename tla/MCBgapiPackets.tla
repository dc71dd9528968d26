--------------------------- MODULE MCBgapiPackets ---------------------------
(* Instances of BgapiPackets for TLC. *)
EXTENDS BgapiPackets
=============================================================================
