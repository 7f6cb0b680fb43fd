------------------------------ MODULE RowMerge ------------------------------
(***************************************************************************)
(* Rows of a table and their merge: MergeRows and mergeValues of           *)
(* pkg/azb/vtable_common.go.                                               *)
(*                                                                         *)
(* The code stores the times of a row as offsets to the modification time  *)
(* of its entry and rebases them whenever that changes; here they are the  *)
(* absolute times.  A column that is not in the row's map is a cell that   *)
(* was written at time 0, before every write.                              *)
(***************************************************************************)
EXTENDS Naturals

CONSTANTS Cols,     \* the columns, without the key
          Values,   \* the values of a column
          Times     \* the write times, as positive epoch nanos

ASSUME WriteTimes == Times \subseteq Nat \ {0}

NULL == "null"

Unset == [at |-> 0, val |-> NULL]
Cell  == {Unset} \union [at : Times, val : Values]

(* A row with the modification time of its entry; NoRow for no entry. *)
Row   == [mod : Times, deleted : BOOLEAN, since : Times, cells : [Cols -> Cell]]
NoRow == [mod |-> 0, deleted |-> FALSE, since |-> 0, cells |-> [c \in Cols |-> Unset]]

Exists(r) == r # NoRow /\ ~r.deleted

(* Rows whose every cell was written at the row's own time, or that are deleted. *)
Whole(r) ==
    /\ r.since = r.mod
    /\ \A c \in Cols : IF Exists(r) THEN r.cells[c].at = r.mod ELSE r.cells[c] = Unset

-----------------------------------------------------------------------------

(* Variant of LaterStatus: the comparison is the wrong way round. *)
EarlierStatus(r1, r2) == IF r2.since <= r1.since THEN r2 ELSE r1

(* The row that was inserted, updated or deleted last; the second on a tie. *)
LaterStatus(r1, r2) == IF r1.since <= r2.since THEN r2 ELSE r1

(* A live row starts afresh when the other one was deleted before it. *)
ResetBefore(r1, r2) ==
    IF ~LaterStatus(r1, r2).deleted /\ (r1.deleted \/ r2.deleted)
    THEN LaterStatus(r1, r2).since ELSE 0

(* The later cell, the first one on a tie. *)
LaterCell(c1, c2) == IF c1.at < c2.at THEN c2 ELSE c1

Hidden(cell, reset) == cell.at < reset

MergeCells(r1, r2) ==
    [c \in Cols |->
        LET cell == LaterCell(r1.cells[c], r2.cells[c])
        IN  IF LaterStatus(r1, r2).deleted \/ Hidden(cell, ResetBefore(r1, r2))
            THEN Unset ELSE cell]

MergeRows(r1, r2, outTime) ==
    [mod     |-> outTime,
     deleted |-> LaterStatus(r1, r2).deleted,
     since   |-> LaterStatus(r1, r2).since,
     cells   |-> MergeCells(r1, r2)]

(* Variant of MergeValues: the rows are merged in the order they come. *)
MergeAsGiven(i1, i2) == MergeRows(i1, i2, i2.mod)

(* Variant of MergeValues: the result has the time of the older entry. *)
MergeOlderTime(i1, i2) ==
    IF i1.mod < i2.mod THEN MergeRows(i1, i2, i1.mod) ELSE MergeRows(i2, i1, i2.mod)

(* The custom merge of two entries of a key: the older one comes first. *)
MergeValues(i1, i2) ==
    IF i1.mod < i2.mod THEN MergeRows(i1, i2, i2.mod) ELSE MergeRows(i2, i1, i1.mod)

(* What a merge of trees does to a key that is in one of them or in both. *)
Merge(primary, graft) ==
    IF graft = NoRow THEN primary
    ELSE IF primary = NoRow THEN graft
    ELSE IF primary = graft THEN primary
    ELSE MergeValues(primary, graft)
=============================================================================
