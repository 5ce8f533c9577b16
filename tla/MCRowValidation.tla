-------------------------- MODULE MCRowValidation --------------------------
(* Finite instances of RowValidation. *)
EXTENDS RowValidation, TLC

Symmetry == Permutations(Ids) \cup Permutations(Slugs)
=============================================================================
