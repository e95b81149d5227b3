--------------------------- MODULE MCProviderGate ---------------------------
(* Small instances of ProviderGate for TLC. *)
EXTENDS ProviderGate
=============================================================================
