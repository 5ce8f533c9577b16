--------------------------- MODULE MCImportSource ---------------------------
(* Finite instances of ImportSource. *)
EXTENDS ImportSource
=============================================================================
