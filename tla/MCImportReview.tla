-------------------------- MODULE MCImportReview --------------------------
(* Finite instances of ImportReview for TLC. *)
EXTENDS ImportReview, TLC

Symmetry == Permutations(Attempts)
=============================================================================
