--------------------------- MODULE MCAssetSession ---------------------------
(* Finite instances of AssetSession. *)
EXTENDS AssetSession, TLC

AttemptSymmetry == Permutations(Attempts)
=============================================================================
