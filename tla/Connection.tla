----------------------------- MODULE Connection -----------------------------
(***************************************************************************)
(* One SQLite connection and its tables: the transactions that SQLite runs *)
(* over them, the settings in azb_conn, azb_refresh and azb_vacuum, all of *)
(* which share the connection's context and write time (AZBConn).          *)
(*                                                                         *)
(* The order in which SQLite calls a virtual table is not under src/: it   *)
(* is what sqlite.Transaction and sqlite.TwoPhaseCommit ask for.  A table  *)
(* begins with its first statement in a transaction; at the end all tables *)
(* that began are synced and then committed, or all are rolled back.       *)
(*                                                                         *)
(* The rows of a table are the set of writes made to them; how writes to   *)
(* one row merge is SharedRow, how versions of a table do is KVStore.      *)
(***************************************************************************)
EXTENDS Integers, Sequences

CONSTANTS
    Tables,
    ReadOnly,      \* those with the option readonly
    UserTimes,     \* values given to azb_conn.write_time
    MaxTime,       \* bound: of the clock
    MaxTx,         \* bound: transactions
    MaxRows,       \* bound: rows written in a transaction
    MaxCalls,      \* bound: updates of azb_conn, refreshes, vacuums, dropped tables
    MaxFaults      \* bound: failed commits, and crashes

ASSUME TablesAssumption == ReadOnly \subseteq Tables
ASSUME TimesAssumption ==
    /\ {MaxTime, MaxTx, MaxRows, MaxCalls, MaxFaults} \subseteq Nat /\ MaxTime >= 2
    /\ UserTimes \subseteq Nat \ {0} /\ \A t \in UserTimes : t % 2 = 0

VARIABLES
    \* AZBConn
    writeTime, txFixedWriteTime,
    deadline,      \* "none", "ahead" or "past"
    ctx,           \* its write time, the deadline it has, and whether it lives
    ctxCancel,     \* ctxCancel is not nil
    tables,        \* of this connection
    \* azb.VirtualTable
    tree,          \* Tree.Root: the writes in it, and whether it is dirty
    txStart,       \* the clone taken by Begin
    \* SQLite
    phase,         \* of the transaction
    explicit,      \* between BEGIN and COMMIT or ROLLBACK
    on,            \* the table that the statement under way writes, if any
    begun,         \* tables in the transaction, in the order they joined it
    left,          \* those still to be synced
    \* the blob container
    store,         \* writes that the versions of a table hold
    \* what was promised
    tx,            \* number of the last transaction
    done, undone,  \* transactions that were committed, rolled back
    accepted,      \* the writes that were made, in all
    stamps,        \* <<transaction, time>> of the rows written
    vacuumed,      \* <<transaction, table>> whose writes a vacuum committed
    dropped,       \* <<transaction, table>> whose writes a refresh dropped
    retimed,       \* transactions that azb_conn was updated in or, in vain, before
    refused,       \* a Begin has failed
    unsettled,     \* an update of azb_conn failed and its effects are not in ctx
    now, calls, faults

settings == <<writeTime, txFixedWriteTime, deadline, ctx, ctxCancel, unsettled>>
sqlite   == <<phase, explicit, on, begun, left>>
promised == <<tx, done, undone, accepted, stamps, vacuumed, dropped, retimed,
              refused>>
vars == <<settings, tables, tree, txStart, sqlite, store, promised, now, calls, faults>>

-----------------------------------------------------------------------------

(* A write is known by its transaction and its number in it. *)
Write == [tx : Nat, nr : Nat]
Tree  == [rows : SUBSET Write, dirty : BOOLEAN]
NoTree  == [rows |-> {}, dirty |-> FALSE]
NoStart == [rows |-> {}, dirty |-> TRUE]      \* txStart = nil; a clone is never dirty

(* Variant of Whole: the second before. *)
SecondBefore(t) == t - 1

(* Two ticks of the clock are a second; azb_conn shows whole seconds. *)
Whole(t) == t - (t % 2)

Context == [time : Nat, until : {"none", "deadline", "former"}, live : BOOLEAN]
Background == [time |-> 0, until |-> "none", live |-> TRUE]

TypeOK ==
    /\ writeTime \in Nat /\ txFixedWriteTime \in BOOLEAN
    /\ deadline \in {"none", "ahead", "past"}
    /\ ctx \in Context
    /\ ctxCancel \in BOOLEAN /\ unsettled \in BOOLEAN /\ refused \in BOOLEAN
    /\ tables \subseteq Tables
    /\ tree \in [Tables -> Tree] /\ txStart \in [Tables -> Tree]
    /\ phase \in {"idle", "open", "statement", "sync", "rollback"}
    /\ explicit \in BOOLEAN
    /\ on \subseteq Tables
    /\ begun \in Seq(Tables) /\ left \in Seq(Tables)
    /\ store \in [Tables -> SUBSET Write] /\ accepted \in [Tables -> SUBSET Write]
    /\ tx \in Nat /\ stamps \subseteq (1..tx) \X Nat
    /\ done \subseteq 1..tx /\ undone \subseteq 1..tx /\ retimed \subseteq 1..tx
    /\ vacuumed \subseteq (1..tx) \X Tables /\ dropped \subseteq (1..tx) \X Tables
    /\ now \in Nat /\ calls \in Nat /\ faults \in Nat

(* A connection that has created its tables. *)
Init ==
    /\ writeTime = 0 /\ txFixedWriteTime = FALSE /\ deadline = "none"
    /\ ctx = Background /\ ctxCancel = FALSE /\ unsettled = FALSE
    /\ tables = Tables
    /\ tree = [t \in Tables |-> NoTree]
    /\ txStart = [t \in Tables |-> NoStart]
    /\ phase = "idle" /\ explicit = FALSE /\ on = {} /\ begun = <<>> /\ left = <<>>
    /\ store = [t \in Tables |-> {}]
    /\ tx = 0 /\ done = {} /\ undone = {}
    /\ accepted = [t \in Tables |-> {}]
    /\ stamps = {} /\ vacuumed = {} /\ dropped = {} /\ retimed = {} /\ refused = FALSE
    /\ now = 2 /\ calls = 0 /\ faults = 0

-----------------------------------------------------------------------------
(* Context and write time *)

(* Variant of ResetContext: the old context stays in use. *)
ResetContextKeepsOld(wt, dl) ==
    /\ ctx' = [ctx EXCEPT !.live = @ /\ ~ctxCancel, !.time = wt]
    /\ ctxCancel' = (dl # "none")
    /\ unsettled' = FALSE

(* AZBConn.ResetContext with write time wt and deadline dl. *)
ResetContext(wt, dl) ==
    /\ ctx' = [time |-> wt, until |-> IF dl = "none" THEN "none" ELSE "deadline",
               live |-> dl # "past"]
    /\ ctxCancel' = (dl # "none")
    /\ unsettled' = FALSE

(* Variant of FixTime: every table that joins fixes the time again. *)
FixTimeAgain ==
    /\ writeTime' = now /\ txFixedWriteTime' = TRUE
    /\ ResetContext(now, deadline)
    /\ UNCHANGED deadline

(* The first part of VirtualTable.Begin. *)
FixTime ==
    IF writeTime = 0
    THEN /\ writeTime' = now /\ txFixedWriteTime' = TRUE
         /\ ResetContext(now, deadline)
         /\ UNCHANGED deadline
    ELSE UNCHANGED settings

(* Variant of ReleaseTime: the time stays fixed. *)
ReleaseTimeNever == UNCHANGED settings

(* The second part of VirtualTable.Commit and Rollback. *)
ReleaseTime ==
    IF txFixedWriteTime
    THEN /\ writeTime' = 0 /\ txFixedWriteTime' = FALSE
         /\ ResetContext(0, deadline)
         /\ UNCHANGED deadline
    ELSE UNCHANGED settings

Between == phase \in {"idle", "open"}

(* time.Now(), rounded: a statement and a COMMIT take no time. *)
Tick ==
    /\ Between
    /\ now < MaxTime /\ now' = now + 1
    /\ UNCHANGED <<settings, tables, tree, txStart, sqlite, store, promised, calls, faults>>

DeadlinePasses ==
    /\ \/ /\ deadline = "ahead" /\ deadline' = "past"
          /\ ctx' = [ctx EXCEPT !.live = @ /\ ctx.until # "deadline"]
       \/ /\ ctx.until = "former" /\ ctx.live
          /\ ctx' = [ctx EXCEPT !.live = FALSE]
          /\ UNCHANGED deadline
    /\ UNCHANGED <<writeTime, txFixedWriteTime, ctxCancel, unsettled, tables, tree, txStart,
                   sqlite, store, promised, now, calls, faults>>

Call == calls < MaxCalls /\ calls' = calls + 1

(* The transaction has been given a time that is not its own. *)
Retimed == retimed \union (IF phase = "idle" THEN {} ELSE {tx})

(***************************************************************************)
(* UPDATE azb_conn.  Every column is assigned: one that the statement does *)
(* not name (keep) gets the value that azb_conn shows.  An error in        *)
(* write_time, or in a column after it, leaves what was assigned so far.   *)
(***************************************************************************)
UpdateConn(dl, wt, stage) ==
    /\ Between
    /\ Call
    /\ deadline' = IF dl = "keep" THEN deadline ELSE dl
    /\ writeTime' = IF stage = "write_time" THEN writeTime
                    ELSE IF wt = -1 THEN Whole(writeTime) ELSE wt
    /\ IF stage = "done"
       THEN txFixedWriteTime' = FALSE /\ ResetContext(writeTime', deadline')
       ELSE /\ ctx' = IF deadline' = "none" THEN Background
                      ELSE IF ctx.until = "deadline" /\ dl # "keep"
                           THEN [ctx EXCEPT !.until = "former"] ELSE ctx
            /\ unsettled' = TRUE
            /\ UNCHANGED <<txFixedWriteTime, ctxCancel>>
    /\ retimed' = Retimed
    /\ UNCHANGED <<tables, tree, txStart, sqlite, store, tx, done, undone, accepted, stamps, vacuumed,
                   dropped, refused, now, faults>>

-----------------------------------------------------------------------------
(* Tables *)

Fault == faults < MaxFaults /\ faults' = faults + 1

(* Opening a table needs the container; it shows what is stored. *)
Opened(t) == [rows |-> store[t], dirty |-> FALSE]

(* A connection has one table of a name. *)
AddTable(t)    == t \notin tables /\ tables' = tables \union {t}
RemoveTable(t) == t \in tables /\ tables' = tables \ {t}

(* azb.NewWithOptions, with options that are accepted. *)
NewTable(t) ==
    /\ ctx.live
    /\ tree' = [tree EXCEPT ![t] = Opened(t)]
    /\ txStart' = [txStart EXCEPT ![t] = NoStart]

(* CREATE VIRTUAL TABLE *)
Connect(t) ==
    /\ phase = "idle"
    /\ NewTable(t)
    /\ AddTable(t)
    /\ UNCHANGED <<settings, sqlite, store, promised, now, calls, faults>>

(* azb.VirtualTable.Disconnect: nothing is left of the table. *)
CloseTable(t) ==
    /\ tree' = [tree EXCEPT ![t] = NoTree]
    /\ txStart' = [txStart EXCEPT ![t] = NoStart]

(* DROP TABLE also cancels the context that all tables use. *)
Disconnect(t) ==
    /\ phase = "idle"
    /\ Call
    /\ CloseTable(t)
    /\ RemoveTable(t)
    /\ ctx' = [ctx EXCEPT !.live = @ /\ ~(ctxCancel /\ ctx.until # "none")]
    /\ ctxCancel' = FALSE
    /\ UNCHANGED <<writeTime, txFixedWriteTime, deadline, unsettled, sqlite, store, promised,
                   now, faults>>

(* Writes of the transaction that are in t's tree only. *)
Pending(t) == IF tree[t].dirty THEN {<<tx, t>>} ELSE {}

(* azb_refresh: the table is opened again, and its tree replaced. *)
Refresh(t) ==
    /\ Between /\ t \in tables
    /\ Call
    /\ ctx.live
    /\ tree' = [tree EXCEPT ![t] = Opened(t)]
    /\ dropped' = dropped \union Pending(t)
    /\ UNCHANGED <<settings, tables, txStart, sqlite, store, tx, done, undone, accepted,
                   stamps, vacuumed, retimed, refused, now, faults>>

(* Variant of Stored: the handle that Begin set aside is stored. *)
StoredStart(t) == [store EXCEPT ![t] = IF tree[t].dirty THEN @ \union txStart[t].rows ELSE @]

(* Variant of Stored: only the last row is stored. *)
StoredNewest(t) == [store EXCEPT ![t] =
    IF tree[t].dirty
    THEN @ \union {w \in tree[t].rows : \A v \in tree[t].rows : v.tx = w.tx => v.nr <= w.nr}
    ELSE @]

(* kv.DB.Commit stores the tree, if it is dirty. *)
Stored(t) == [store EXCEPT ![t] = IF tree[t].dirty THEN @ \union tree[t].rows ELSE @]

(* What was committed is clean. *)
Clean(t)  == [tree EXCEPT ![t].dirty = FALSE]

(* A commit may fail, always without a context, and store the version or not. *)
CommitFails(t) ==
    /\ tree[t].dirty
    /\ IF ctx.live THEN Fault ELSE UNCHANGED faults
    /\ store' \in {store} \union (IF ctx.live THEN {Stored(t)} ELSE {})

(***************************************************************************)
(* azb_vacuum commits a clone of the tree and puts it in the place of the  *)
(* tree.  Which rows and versions it removes is module Vacuum; the tree of *)
(* a read-only table is never dirty, so there it changes nothing here.     *)
(***************************************************************************)
Vacuum(t) ==
    /\ Between /\ t \in tables \ ReadOnly
    /\ Call
    /\ \/ /\ ctx.live \/ ~tree[t].dirty
          /\ store' = Stored(t) /\ tree' = Clean(t)
          /\ UNCHANGED faults
       \/ CommitFails(t) /\ UNCHANGED tree
    /\ vacuumed' = vacuumed \union Pending(t)
    /\ UNCHANGED <<settings, tables, txStart, sqlite, tx, done, undone, accepted, stamps, dropped,
                   retimed, refused, now>>

-----------------------------------------------------------------------------
(* Transactions *)

(* BEGIN, or a statement outside of a transaction. *)
NewTransaction == tx < MaxTx /\ tx' = tx + 1

BeginTransaction ==
    /\ phase = "idle"
    /\ NewTransaction
    /\ phase' = "open" /\ explicit' = TRUE
    /\ UNCHANGED <<settings, tables, tree, txStart, on, begun, left, store, done, undone,
                   accepted, stamps, vacuumed, dropped, retimed, refused, now, calls, faults>>

Joined == {begun[i] : i \in DOMAIN begun}

(* azb.VirtualTable.Begin, if it does not fail. *)
BeginTable(t) ==
    /\ txStart[t] = NoStart
    /\ txStart' = [txStart EXCEPT ![t] = tree[t]]

(***************************************************************************)
(* A statement that writes t.  If SQLite has not called Begin for t in     *)
(* this transaction it does now; if Begin fails, t is not in it.           *)
(***************************************************************************)
StartStatement(t) ==
    /\ Between /\ t \in tables
    /\ IF phase = "idle" THEN NewTransaction ELSE UNCHANGED tx
    /\ IF t \in Joined
       THEN phase' = "statement" /\ on' = {t} /\ UNCHANGED <<settings, txStart, begun, refused>>
       ELSE /\ FixTime
            /\ \/ /\ BeginTable(t)
                  /\ begun' = Append(begun, t)
                  /\ phase' = "statement" /\ on' = {t}
                  /\ UNCHANGED refused
               \/ /\ txStart[t] # NoStart
                  /\ refused' = TRUE
                  /\ UNCHANGED <<phase, on, txStart, begun>>
    /\ UNCHANGED <<tables, tree, explicit, left, store, done, undone, accepted, stamps, vacuumed,
                   dropped, retimed, now, calls, faults>>

(* updateTime *)
UpdateTime == IF ctx.time # 0 THEN ctx.time ELSE now

(* Rows are numbered as they are written. *)
IsNext(w) ==
    /\ \A t \in Tables : w \notin accepted[t]
    /\ w.nr = 1 \/ \E t \in Tables : [w EXCEPT !.nr = @ - 1] \in accepted[t]

(* Insert, Update or Delete of a row. *)
WriteRow ==
    /\ phase = "statement"
    /\ \E t \in on \ ReadOnly, w \in [tx : {tx}, nr : 1..MaxRows] :
         /\ IsNext(w)
         /\ tree' = [tree EXCEPT ![t] = [rows |-> @.rows \union {w}, dirty |-> TRUE]]
         /\ accepted' = [accepted EXCEPT ![t] = @ \union {w}]
    /\ stamps' = stamps \union {<<tx, UpdateTime>>}
    /\ retimed' = IF unsettled THEN retimed \union {tx} ELSE retimed
    /\ UNCHANGED <<settings, tables, txStart, sqlite, store, tx, done, undone, vacuumed,
                   dropped, refused, now, calls, faults>>

(* A statement ends: in a transaction of its own it is committed. *)
EndStatement ==
    /\ phase = "statement"
    /\ phase' = IF explicit THEN "open" ELSE "sync"
    /\ left' = IF explicit THEN <<>> ELSE begun
    /\ on' = {}
    /\ UNCHANGED <<settings, tables, tree, txStart, explicit, begun, store, promised, now,
                   calls, faults>>

(* A row fails.  There are no savepoints: what the statement wrote stays. *)
FailStatement ==
    /\ phase = "statement"
    /\ phase' = IF explicit THEN "open" ELSE "rollback"
    /\ on' = {}
    /\ UNCHANGED <<settings, tables, tree, txStart, explicit, begun, left, store, promised, now,
                   calls, faults>>

(* COMMIT, ROLLBACK *)
EndTransaction ==
    /\ phase = "open"
    /\ \/ phase' = "sync" /\ left' = begun
       \/ phase' = "rollback" /\ left' = left
    /\ UNCHANGED <<settings, tables, tree, txStart, explicit, on, begun, store, promised, now,
                   calls, faults>>

(* VirtualTable.Sync of the next table; an error rolls the transaction back. *)
SyncTable ==
    /\ phase = "sync" /\ left # <<>>
    /\ LET t == Head(left) IN
         \/ /\ t \in ReadOnly
            /\ left' = Tail(left)
            /\ UNCHANGED <<phase, tree, txStart, store, faults>>
         \/ /\ t \notin ReadOnly
            /\ ctx.live \/ ~tree[t].dirty
            /\ store' = Stored(t) /\ tree' = Clean(t)
            /\ txStart' = [txStart EXCEPT ![t] = NoStart]
            /\ left' = Tail(left)
            /\ UNCHANGED <<phase, faults>>
         \/ /\ t \notin ReadOnly
            /\ CommitFails(t)
            /\ phase' = "rollback" /\ left' = <<>>
            /\ UNCHANGED <<tree, txStart>>
    /\ UNCHANGED <<settings, tables, explicit, on, begun, promised, now, calls>>

Ended == phase' = "idle" /\ explicit' = FALSE /\ begun' = <<>> /\ left' = <<>>

(* VirtualTable.Commit of every table; it cannot fail. *)
CommitTables ==
    /\ phase = "sync" /\ left = <<>>
    /\ IF begun = <<>> THEN UNCHANGED settings ELSE ReleaseTime
    /\ done' = done \union {tx}
    /\ Ended
    /\ UNCHANGED <<tables, tree, txStart, on, store, tx, undone, accepted, stamps, vacuumed,
                   dropped, retimed, refused, now, calls, faults>>

(* Variant of Restored: the tree that was written to stays. *)
RestoredNot(t) == tree[t]

(* Variant of Restored: also a table that synced gets what stands for its clone. *)
RestoredAnyway(t) == txStart[t]

(* azb.VirtualTable.Rollback puts the clone back; a table that synced has none. *)
Restored(t) == IF txStart[t] = NoStart THEN tree[t] ELSE txStart[t]

(* VirtualTable.Rollback of every table that began. *)
RollbackTables ==
    /\ phase = "rollback"
    /\ tree' = [t \in Tables |-> IF t \in Joined THEN Restored(t) ELSE tree[t]]
    /\ txStart' = [t \in Tables |-> IF t \in Joined THEN NoStart ELSE txStart[t]]
    /\ IF begun = <<>> THEN UNCHANGED settings ELSE ReleaseTime
    /\ undone' = undone \union {tx}
    /\ Ended
    /\ UNCHANGED <<tables, on, store, tx, done, accepted, stamps, vacuumed, dropped, retimed,
                   refused, now, calls, faults>>

(* The process dies, and another opens a connection and the tables. *)
Crash ==
    /\ Fault
    /\ writeTime' = 0 /\ txFixedWriteTime' = FALSE /\ deadline' = "none"
    /\ ctx' = Background /\ ctxCancel' = FALSE /\ unsettled' = FALSE
    /\ tables' = Tables
    /\ tree' = [t \in Tables |-> Opened(t)]
    /\ txStart' = [t \in Tables |-> NoStart]
    /\ phase' = "idle" /\ explicit' = FALSE /\ on' = {} /\ begun' = <<>> /\ left' = <<>>
    /\ UNCHANGED <<store, promised, now, calls>>

-----------------------------------------------------------------------------

Next ==
    \/ Tick \/ DeadlinePasses
    \/ \E dl \in {"keep", "none", "ahead"}, wt \in UserTimes \union {0, -1},
          stage \in {"write_time", "later", "done"} : UpdateConn(dl, wt, stage)
    \/ \E t \in Tables :
          Connect(t) \/ Disconnect(t) \/ Refresh(t) \/ Vacuum(t) \/ StartStatement(t)
    \/ BeginTransaction \/ WriteRow \/ EndStatement \/ FailStatement \/ EndTransaction
    \/ SyncTable \/ CommitTables \/ RollbackTables
    \/ Crash

Spec == Init /\ [][Next]_vars

-----------------------------------------------------------------------------
(* What a transaction promises *)

(* Writes to t that transaction n's statements reported as made. *)
WritesOf(n, t) == {w \in accepted[t] : w.tx = n}

(***************************************************************************)
(* A transaction that was committed is stored, whatever else the           *)
(* connection does to the table in it, except azb_refresh, which drops     *)
(* what was written before (vt.Tree = nt).                                 *)
(***************************************************************************)
CommittedIsStored ==
    \A n \in done, t \in Tables : <<n, t>> \notin dropped => WritesOf(n, t) \subseteq store[t]

(***************************************************************************)
(* What a connection committed it goes on to see, through rollbacks,       *)
(* failed commits, refreshes and vacuums.                                  *)
(***************************************************************************)
ReadsItsCommits ==
    \A n \in done, t \in tables : <<n, t>> \notin dropped => WritesOf(n, t) \subseteq tree[t].rows

(***************************************************************************)
(* Of the writes of one transaction to one table all are stored or none,   *)
(* also if it fails or the process dies; a transaction with a vacuum or a  *)
(* refresh in its midst is torn.                                           *)
(***************************************************************************)
AllOrNothing ==
    \A n \in 1..tx, t \in Tables :
        LET ws == WritesOf(n, t) IN
        <<n, t>> \in vacuumed \union dropped \/ ws \subseteq store[t] \/ ws \intersect store[t] = {}

(***************************************************************************)
(* A rolled back transaction is not seen: the tree that a table goes on    *)
(* with has none of its writes that are not stored all the same.           *)
(***************************************************************************)
RolledBackIsGone ==
    \A n \in undone, t \in tables : WritesOf(n, t) \intersect tree[t].rows \subseteq store[t]

(***************************************************************************)
(* All rows that a transaction writes have one time, over all tables (it   *)
(* is what merges compare), unless azb_conn is updated in the transaction, *)
(* or was updated in vain before it.                                       *)
(***************************************************************************)
OneTimePerTransaction ==
    \A v, w \in stamps : v[1] = w[1] /\ v[1] \notin retimed => v[2] = w[2]

(***************************************************************************)
(* Between transactions nothing of the last one is left: no clone that     *)
(* makes the next Begin fail, but for a read-only table, whose Sync        *)
(* returns early; no fixed time that would go to the next transaction,     *)
(* unless a Begin has failed.                                              *)
(***************************************************************************)
IdleIsClean ==
    phase = "idle" =>
        /\ \A t \in Tables \ ReadOnly : txStart[t] = NoStart /\ ~tree[t].dirty
        /\ txFixedWriteTime => refused

(***************************************************************************)
(* The context is dead only once the deadline has passed - or after a      *)
(* table was dropped, which cancels it, or an azb_conn update failed.      *)
(***************************************************************************)
ContextLives == ~ctx.live => deadline = "past" \/ ~ctxCancel \/ ctx.until = "former"
=============================================================================
