--------------------------- MODULE MCImportApply ---------------------------
(* Finite instances of ImportApply for TLC. *)
EXTENDS ImportApply, TLC

Symmetry == Permutations(Attempts)
=============================================================================
