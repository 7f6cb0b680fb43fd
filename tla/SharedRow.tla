----------------------------- MODULE SharedRow -----------------------------
(***************************************************************************)
(* One row of a table as several connections write it in transactions,     *)
(* commit it and merge what the others committed: Insert, Update, Delete,  *)
(* Begin, Commit and Rollback of pkg/azb/vtable_common.go as               *)
(* pkg/sqlite/vtable.go drives them.                                       *)
(*                                                                         *)
(* The versioned store below is reduced to the set of entries that some    *)
(* version holds for the row; KVStore is about how versions come and go.   *)
(***************************************************************************)
EXTENDS RowMerge, FiniteSets

CONSTANTS
    Conns,        \* connections, each with its own handle of the table
    CommitsFail,  \* TRUE: a commit may report an error
    MaxInTx       \* bound: statements per transaction

ASSUME CommitsFailAssumption == CommitsFail \in BOOLEAN
ASSUME MaxInTxAssumption == MaxInTx \in Nat

VARIABLES
    row,       \* the entry in table.Tree.Root
    tx,        \* write time of the transaction in progress, 0 if none
    txStart,   \* the entry in the clone taken by Begin
    inTx,      \* statements of the transaction in progress
    stored,    \* entries in the versions of the store
    used,      \* write times taken: no two transactions share one
    log        \* the statements of all transactions whose version was stored

vars == <<row, tx, txStart, inTx, stored, used, log>>

Kinds == {"insert", "update", "delete"}

(* A statement that reported success, with the cells it was to set. *)
Statement == [kind : Kinds, at : Times, cells : [Cols -> Cell]]

TypeOK ==
    /\ row \in [Conns -> Row \union {NoRow}]
    /\ tx \in [Conns -> Times \union {0}]
    /\ txStart \in [Conns -> Row \union {NoRow}]
    /\ inTx \in [Conns -> SUBSET Statement]
    /\ stored \subseteq Row
    /\ used \subseteq Times
    /\ log \subseteq Statement

Init ==
    /\ row = [c \in Conns |-> NoRow]
    /\ tx = [c \in Conns |-> 0]
    /\ txStart = [c \in Conns |-> NoRow]
    /\ inTx = [c \in Conns |-> {}]
    /\ stored = {}
    /\ used = {}
    /\ log = {}

-----------------------------------------------------------------------------
(* Transactions *)

(* SQLite begins a transaction before the first statement; its time is fixed. *)
Begin(c) ==
    /\ tx[c] = 0
    /\ \E t \in Times \ used : tx' = [tx EXCEPT ![c] = t] /\ used' = used \union {t}
    /\ txStart' = [txStart EXCEPT ![c] = row[c]]
    /\ UNCHANGED <<row, inTx, stored, log>>

End(c) ==
    /\ tx' = [tx EXCEPT ![c] = 0]
    /\ txStart' = [txStart EXCEPT ![c] = NoRow]
    /\ inTx' = [inTx EXCEPT ![c] = {}]
    /\ UNCHANGED used

(* Versions that hold the row after this connection stored its own. *)
StoredWith(c) == IF row[c] = NoRow THEN stored ELSE stored \union {row[c]}

Store(c) == stored' = StoredWith(c) /\ log' = log \union inTx[c]

(* Sync commits the tree; the transaction cannot fail any more. *)
Sync(c) ==
    /\ tx[c] # 0
    /\ Store(c)
    /\ End(c)
    /\ UNCHANGED row

(* Variant of SyncFails: the table keeps the clone that was written to. *)
SyncFailsKeepsRow(c) ==
    /\ CommitsFail
    /\ tx[c] # 0
    /\ Store(c) \/ UNCHANGED <<stored, log>>
    /\ UNCHANGED row
    /\ End(c)

(* The commit reports an error, and may have stored the version all the same. *)
SyncFails(c) ==
    /\ CommitsFail
    /\ tx[c] # 0
    /\ Store(c) \/ UNCHANGED <<stored, log>>
    /\ row' = [row EXCEPT ![c] = txStart[c]]
    /\ End(c)

(* The transaction is rolled back to the clone taken by Begin. *)
Rollback(c) ==
    /\ tx[c] # 0
    /\ row' = [row EXCEPT ![c] = txStart[c]]
    /\ End(c)
    /\ UNCHANGED <<stored, log>>

-----------------------------------------------------------------------------
(* Statements *)

(* Variant of Set: what is written last stays. *)
SetAnyway(old, new) == new

(* crdt.Tree.update: an entry that was modified later stays. *)
Set(old, new) == IF old # NoRow /\ new.mod < old.mod THEN old ELSE new

(* The row merged with what a statement writes at the transaction's time. *)
Written(c, deleted, cells) ==
    LET new == [mod |-> tx[c], deleted |-> deleted, since |-> tx[c], cells |-> cells]
    IN  Set(row[c], MergeRows(row[c], new, tx[c]))

(* A statement in a transaction that has room for it sets the row. *)
Execute(c, kind, cells, newRow) ==
    /\ row' = [row EXCEPT ![c] = newRow]
    /\ inTx' = [inTx EXCEPT ![c] =
                   @ \union {[kind |-> kind, at |-> tx[c], cells |-> cells]}]
    /\ UNCHANGED <<tx, txStart, stored, used, log>>

CanExecute(c) == tx[c] # 0 /\ Cardinality(inTx[c]) < MaxInTx

(* A row that was not deleted before this time violates the primary key. *)
InsertAllowed(c) ==
    row[c] # NoRow => row[c].deleted /\ row[c].since < tx[c]

AllCells(c, vals) == [k \in Cols |-> [at |-> tx[c], val |-> vals[k]]]

Insert(c, vals) ==
    /\ CanExecute(c)
    /\ InsertAllowed(c)
    /\ Execute(c, "insert", AllCells(c, vals), Written(c, FALSE, AllCells(c, vals)))

(***************************************************************************)
(* UPDATE ... SET changed = vals.  Cursor.Column always sets a result, so  *)
(* SQLite never marks a value as unchanged, and Update is given a value    *)
(* for every column: those that are not to change as the row has them.     *)
(***************************************************************************)
Update(c, changed, vals) ==
    /\ CanExecute(c)
    /\ Exists(row[c])
    /\ LET given == [k \in Cols |-> IF k \in changed THEN vals[k] ELSE row[c].cells[k].val]
           set   == [k \in Cols |-> IF k \in changed THEN AllCells(c, vals)[k] ELSE Unset]
       IN  Execute(c, "update", set, Written(c, FALSE, AllCells(c, given)))

Delete(c) ==
    /\ CanExecute(c)
    /\ Exists(row[c])
    /\ LET none == [k \in Cols |-> Unset]
       IN  Execute(c, "delete", none, Written(c, TRUE, none))

-----------------------------------------------------------------------------
(* Merging *)

(* A handle is opened anew ... *)
Reopen(c) ==
    /\ tx[c] = 0
    /\ row[c] # NoRow
    /\ row' = [row EXCEPT ![c] = NoRow]
    /\ UNCHANGED <<tx, txStart, inTx, stored, used, log>>

(* ... and merges the versions it finds, in any order ... *)
MergeStored(c) ==
    /\ tx[c] = 0
    /\ \E e \in stored :
         /\ Merge(row[c], e) # row[c]
         /\ row' = [row EXCEPT ![c] = Merge(@, e)]
    /\ UNCHANGED <<tx, txStart, inTx, stored, used, log>>

(* ... and stores the result as a version, which may hold nothing new. *)
StoreMerged(c) ==
    /\ tx[c] = 0
    /\ stored' = StoredWith(c)
    /\ UNCHANGED <<row, tx, txStart, inTx, used, log>>

Next == \E c \in Conns :
    \/ Begin(c) \/ Sync(c) \/ SyncFails(c) \/ Rollback(c)
    \/ \E vals \in [Cols -> Values] :
         \/ Insert(c, vals)
         \/ \E changed \in (SUBSET Cols) \ {{}} : Update(c, changed, vals)
    \/ Delete(c)
    \/ Reopen(c) \/ MergeStored(c) \/ StoreMerged(c)

Spec == Init /\ [][Next]_vars

-----------------------------------------------------------------------------
(* Safety *)

(* Everything a connection outside a transaction, or a version, may hold. *)
Settled ==
    {NoRow} \union stored \union {row[c] : c \in {d \in Conns : tx[d] = 0}}

(***************************************************************************)
(* Versions are merged in random order and again and again, and every      *)
(* reader must see the same row in the end: the merge of what connections  *)
(* hold and store depends neither on the order nor on repetition.          *)
(***************************************************************************)
MergeOrderIrrelevant ==
    \A e, f, g \in Settled :
        /\ Merge(e, f) = Merge(f, e)
        /\ Merge(Merge(e, f), g) = Merge(e, Merge(f, g))
        /\ Merge(e, Merge(e, f)) = Merge(e, f)

(***************************************************************************)
(* The merge never mixes the columns of two transactions into a row that   *)
(* nobody wrote: merging what is there gives nothing new.                  *)
(***************************************************************************)
NoMixedRows == \A e, f \in Settled : Merge(e, f) \in {e, f}

(***************************************************************************)
(* Nothing of a transaction that was rolled back, or whose commit failed   *)
(* before it stored a version, is ever seen outside of it: every entry     *)
(* there is of the time of a transaction that stored one.                  *)
(***************************************************************************)
OnlyStoredTransactions ==
    \A e \in Settled \ {NoRow} : \E s \in log : s.at = e.mod

UpToDate(c) == tx[c] = 0 /\ \A e \in stored : Merge(row[c], e) = row[c]

(***************************************************************************)
(* A connection that merged all versions shows the transaction with the    *)
(* latest time or, if that one's statements were all dropped, a later one: *)
(* nothing written later than the row is missing, also when the commit     *)
(* reported an error after it stored its version.                          *)
(***************************************************************************)
NothingNewerMissing ==
    \A c \in Conns : UpToDate(c) => \A s \in log : s.at <= row[c].mod

(* Everything that is or may again become a settled entry. *)
Held == Settled \union {txStart[c] : c \in Conns}

(***************************************************************************)
(* The inductive invariant.  Every entry outside of transactions is whole: *)
(* all of it was written by one transaction, whose time identifies it.  A  *)
(* transaction in progress either left the row it began with or made it    *)
(* wholly its own, under a time nothing else has.                          *)
(***************************************************************************)
HeldInv ==
    /\ \A e \in Held : Whole(e) /\ e.mod \in used \union {0}
    /\ \A e, f \in Held : e.mod = f.mod => e = f

LogInv ==
    /\ \A e \in Held \ {NoRow} : \E s \in log : s.at = e.mod
    /\ \A s \in log : \E e \in stored : s.at <= e.mod

TxInv(c) ==
    /\ tx[c] \in used
    /\ \A e \in Held : e.mod # tx[c]
    /\ \A d \in Conns \ {c} : tx[d] # tx[c]
    /\ \/ row[c] = txStart[c]
       \/ row[c] \in Row /\ Whole(row[c]) /\ row[c].mod = tx[c] /\ inTx[c] # {}
    /\ \A s \in inTx[c] : s.at = tx[c] /\ tx[c] <= row[c].mod

RowInv ==
    /\ TypeOK
    /\ HeldInv
    /\ LogInv
    /\ \A c \in Conns : IF tx[c] = 0 THEN inTx[c] = {} ELSE TxInv(c)

-----------------------------------------------------------------------------
(* What README.md:145 says of conflicts *)

(* The statements whose effect is in a version. *)
Effective == {s \in log : \E e \in stored : e.mod = s.at}

Wrote(s, k) == s.cells[k] # Unset

LastWriters(k) ==
    {s \in Effective : Wrote(s, k) /\ \A u \in Effective : Wrote(u, k) => u.at <= s.at}

(***************************************************************************)
(* "Conflicts resolve with last-write-wins per column": an up-to-date row  *)
(* that was inserted once and then only updated shows in each column what  *)
(* the last statement that set the column wrote there.                     *)
(***************************************************************************)
OnlyUpdated ==
    /\ Cardinality({s \in log : s.kind = "insert"}) = 1
    /\ \A s \in log : s.kind # "delete"

LastWriteWinsPerColumn ==
    \A c \in Conns : UpToDate(c) /\ OnlyUpdated =>
        \A k \in Cols : LastWriters(k) # {} =>
            \E s \in LastWriters(k) : row[c].cells[k].val = s.cells[k].val

(***************************************************************************)
(* "Deletes hide later updates for the same row until another insert for   *)
(* that key": an up-to-date row that is visible was inserted after every   *)
(* delete that took effect in a version.                                   *)
(***************************************************************************)
DeletesHideUpdates ==
    \A c \in Conns : UpToDate(c) /\ Exists(row[c]) =>
        \A d \in Effective : d.kind = "delete" =>
            \E s \in log : s.kind = "insert" /\ s.at >= d.at

(***************************************************************************)
(* Both together: what README.md:145 says of merges.                       *)
(***************************************************************************)
MergesAsDocumented == LastWriteWinsPerColumn /\ DeletesHideUpdates

(***************************************************************************)
(* An UPDATE writes the columns it changes if the row is older than its    *)
(* transaction; if not, because a merge brought a later row or the same    *)
(* transaction wrote it before, it reports success and changes nothing.    *)
(***************************************************************************)
UpdateTakesEffect ==
    [][\A c \in Conns, changed \in (SUBSET Cols) \ {{}}, vals \in [Cols -> Values] :
         Update(c, changed, vals) =>
            IF row[c].mod < tx[c]
            THEN \A k \in changed : row'[c].cells[k] = [at |-> tx[c], val |-> vals[k]]
            ELSE row' = row]_vars
=============================================================================
