------------------------ MODULE MCTransNewGeneration ------------------------
(* Small instances of TransNewGeneration. *)
EXTENDS TransNewGenerationInv, TLC

Symmetry == Permutations(Threads) \cup Permutations(TransIDs)
=============================================================================
