-------------------------- MODULE MCBlockPrediction --------------------------
(* Positions are interchangeable. *)
EXTENDS BlockPrediction, TLC

Symmetry == Permutations(Positions)
=============================================================================
