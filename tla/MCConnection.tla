---------------------------- MODULE MCConnection ----------------------------
(* Small instances of Connection for TLC. *)
EXTENDS Connection, TLC

CONSTANTS t1, t2, ro

MCTables    == {t1, t2, ro}
MCReadOnly  == {ro}
MCUserTimes == {4}

Symmetry == Permutations({t1, t2})
=============================================================================
