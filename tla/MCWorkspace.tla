---------------------------- MODULE MCWorkspace ----------------------------
(* Finite instances of Workspace: one brand and one evidence record. *)
EXTENDS Workspace, TLC

MCObjects == {"brand1", "evidence1"}
MCTypeOf == [o \in MCObjects |-> IF o = "evidence1" THEN "evidence" ELSE "brand"]
MCRequired == {{"brand"}, {"brand", "evidence"}}

Symmetry == Permutations(Requests) \cup Permutations(Keys)
=============================================================================
