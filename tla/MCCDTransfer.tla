---------------------------- MODULE MCCDTransfer ----------------------------
(* Instances of CDTransfer for TLC. *)
EXTENDS CDTransfer
=============================================================================
