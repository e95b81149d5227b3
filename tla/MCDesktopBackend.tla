-------------------------- MODULE MCDesktopBackend --------------------------
(* Small instances of DesktopBackend for TLC. *)
EXTENDS DesktopBackend, TLC

\* Builds are compared only for equality.
BuildSymmetry == Permutations(Builds)
=============================================================================
