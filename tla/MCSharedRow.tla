---------------------------- MODULE MCSharedRow ----------------------------
(* Small instances of SharedRow for TLC. *)
EXTENDS SharedRow, TLC

CONSTANTS c1, c2, a, b

MCTwoConns   == {c1, c2}
MCOneCol     == {a}
MCTwoCols    == {a, b}
MCOneValue   == {"x"}
MCTwoValues  == {"x", "y"}
MCTimes3     == 1..3

Symmetry == Permutations({c1, c2})
=============================================================================
