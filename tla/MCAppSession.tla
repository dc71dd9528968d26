---------------------------- MODULE MCAppSession ----------------------------
(* Instances of AppSession for TLC. *)
EXTENDS AppSession
=============================================================================
