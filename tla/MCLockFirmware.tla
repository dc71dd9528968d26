--------------------------- MODULE MCLockFirmware ---------------------------
(* Instances of LockFirmware for TLC. *)
EXTENDS LockFirmware
=============================================================================
