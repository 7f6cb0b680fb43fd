----------------------------- MODULE MCKVStore -----------------------------
(***************************************************************************)
(* Small instances of KVStore for TLC.  No constant depends on which       *)
(* writer or which key it is, so both sets are symmetric where only safety *)
(* is checked.                                                             *)
(***************************************************************************)
EXTENDS KVStore, TLC

CONSTANTS w1, w2, r1, k1, k2

MCHandles  == {w1, w2, r1}
MCReadOnly == {r1}
MCWriters  == {w1, w2}
MCNone     == {}
MCOneKey   == {k1}
MCTwoKeys  == {k1, k2}
MCTimes1   == {1}
MCTimes2   == {1, 2}

Symmetry == Permutations({w1, w2}) \union Permutations(MCTwoKeys)
=============================================================================
