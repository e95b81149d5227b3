-------------------------- MODULE MCChangePublish --------------------------
(* Small instances of ChangePublish for TLC. *)
EXTENDS ChangePublish, TLC

\* Paths, contents and ChangeSets are only compared for equality.
Symmetry == Permutations(Files) \cup Permutations(Contents) \cup Permutations(ChangeSets)
=============================================================================
