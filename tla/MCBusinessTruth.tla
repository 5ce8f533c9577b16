------------------------- MODULE MCBusinessTruth -------------------------
(* Finite instances of BusinessTruth for TLC. *)
EXTENDS BusinessTruth, TLC
=============================================================================
