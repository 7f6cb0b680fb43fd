------------------------------ MODULE MCVacuum ------------------------------
(* Small instances of Vacuum for TLC; handles and keys are symmetric. *)
EXTENDS Vacuum, TLC

CONSTANTS h1, h2, k1, k2

MCOneHandle  == {h1}
MCTwoHandles == {h1, h2}
MCTwoKeys    == {k1, k2}

(* Within a history, and after it; or just before its last step. *)
MCCutoffs       == {3, MaxTime + 1}
MCEarlyCutoffs  == {1, 3, MaxTime + 1}
MCLateCutoff    == {MaxTime - 1}

Symmetry == Permutations(MCTwoHandles) \union Permutations(MCTwoKeys)
=============================================================================
