-------------------------- MODULE MCHardwareFlash ---------------------------
(* Small instances of HardwareFlash for TLC. *)
EXTENDS HardwareFlash
=============================================================================
