------------------------- MODULE ConnectionTxProofs -------------------------
(***************************************************************************)
(* What Connection promises of transactions, for any set of tables, any    *)
(* write times and any bounds: a connection reads what it committed and    *)
(* not what it rolled back, a transaction is stored as a whole and has one *)
(* time, and the context lives.  Each theorem has an invariant of its own, *)
(* on top of IInv of ConnectionProofs.                                     *)
(***************************************************************************)
EXTENDS ConnectionProofs

(* What a tree holds is stored, or written to it by the transaction under way. *)
SeenInv ==
    /\ \A t \in Tables : txStart[t].rows \subseteq store[t]
    /\ \A t \in Tables : \A w \in tree[t].rows : w \in store[t] \/ (tree[t].dirty /\ w.tx = tx)
    /\ phase # "idle" => tx \notin undone

(* Transaction n, or what a refresh left of it, is in rows. *)
HasWrites(rows, n, t) == <<n, t>> \in dropped \/ WritesOf(n, t) \subseteq rows

(* Trees have what was committed and what is being written, clones what was committed. *)
ReadsInv ==
    /\ \A t \in ReadOnly : accepted[t] = {}
    /\ \A t \in tables, n \in done : HasWrites(tree[t].rows, n, t)
    /\ phase # "idle" => \A t \in tables : HasWrites(tree[t].rows, tx, t)
    /\ \A t \in Tables \ ReadOnly, n \in done :
         txStart[t] # NoStart => HasWrites(txStart[t].rows, n, t)

(* What is stored was written, but before its Sync nothing of a transaction is stored. *)
TornInv ==
    /\ \A t \in Tables : store[t] \subseteq accepted[t] /\ tree[t].rows \subseteq accepted[t]
    /\ phase \in {"open", "statement"} =>
         \A t \in Tables : <<tx, t>> \in vacuumed \union dropped
                             \/ WritesOf(tx, t) \intersect store[t] = {}
    /\ AllOrNothing

(* The transaction under way has the time that is set, from its first table on. *)
TimeInv ==
    /\ now > 0
    /\ ~unsettled => ctx.time = writeTime
    /\ phase # "idle" /\ tx \notin retimed /\ ~unsettled /\ begun # <<>> => writeTime # 0
    /\ \A s \in stamps : s[1] = tx /\ phase # "idle" /\ tx \notin retimed =>
         ~unsettled /\ begun # <<>> /\ s[2] = writeTime
    /\ OneTimePerTransaction

(* A context that nothing ends is alive. *)
LiveInv == ContextLives /\ (ctx.until = "none" => ctx.live)

-----------------------------------------------------------------------------
(* Parts of steps *)

(* A commit adds what is in the tree of its table, if it is dirty. *)
LEMMA StoredIs ==
  ASSUME TypeOK, NEW t \in Tables
  PROVE  /\ \A s \in Tables \ {t} : Stored(t)[s] = store[s]
         /\ Stored(t)[t] = IF tree[t].dirty THEN store[t] \union tree[t].rows ELSE store[t]
  BY DEF TypeOK, Stored

(* A table joins, or does not, and its clone is what its tree is. *)
LEMMA Starts ==
  ASSUME IInv, NEW t \in Tables, StartStatement(t)
  PROVE  /\ t \in tables /\ UNCHANGED <<tables, tree, store, done, undone, accepted, stamps, vacuumed,
                                        dropped, retimed, now>>
         /\ \/ UNCHANGED <<txStart, begun>>
            \/ /\ txStart[t] = NoStart /\ txStart' = [txStart EXCEPT ![t] = tree[t]]
               /\ begun' = Append(begun, t) /\ begun' # <<>>
         /\ \/ phase = "idle" /\ tx' = tx + 1
            \/ phase = "open" /\ tx' = tx
         /\ phase' \in {"statement", phase}
<1>1. begun' = Append(begun, t) => begun' # <<>>
  BY JoinedGrows DEF IInv
<1> QED
  BY <1>1 DEF StartStatement, BeginTable, Between, NewTransaction

(* The sync of a table. *)
LEMMA Syncs ==
  ASSUME IInv, SyncTable
  PROVE  \E t \in Tables :
           /\ phase = "sync" /\ phase' \in {"sync", "rollback"}
           /\ \/ t \in ReadOnly /\ UNCHANGED <<tree, txStart, store>>
              \/ /\ store' = Stored(t) /\ tree' = Clean(t)
                 /\ txStart' = [txStart EXCEPT ![t] = NoStart]
              \/ /\ tree[t].dirty /\ store' \in {store, Stored(t)} /\ UNCHANGED <<tree, txStart>>
<1>1. left # <<>> /\ left \in Seq(Tables)
  BY DEF IInv, TypeOK, SyncTable
<1>2. Head(left) \in Tables
  BY <1>1
<1> QED
  BY <1>2 DEF SyncTable, CommitFails

(* A vacuum commits the tree, or fails to. *)
LEMMA Vacuums ==
  ASSUME IInv, NEW t \in Tables, Vacuum(t)
  PROVE  /\ phase \in {"idle", "open"}
         /\ UNCHANGED <<settings, tables, txStart, sqlite, tx, done, undone, accepted, stamps, dropped,
                        retimed, now>>
         /\ vacuumed' = vacuumed \union Pending(t)
         /\ \/ store' = Stored(t) /\ tree' = Clean(t)
            \/ tree[t].dirty /\ store' \in {store, Stored(t)} /\ UNCHANGED tree
  BY DEF Vacuum, CommitFails, Between

(* A row is written to one table, in a statement. *)
LEMMA Writes ==
  ASSUME IInv, WriteRow
  PROVE  \E t \in Tables \ ReadOnly, w \in Write :
           /\ phase = "statement" /\ t \in Joined /\ w.tx = tx
           /\ \A s \in Tables : w \notin accepted[s]
           /\ tree' = [tree EXCEPT ![t] = [rows |-> @.rows \union {w}, dirty |-> TRUE]]
           /\ accepted' = [accepted EXCEPT ![t] = @ \union {w}]
<1>1. on \subseteq Tables /\ on \subseteq Joined /\ phase = "statement" /\ tx \in Nat
  BY DEF IInv, TypeOK, JoinedInv, WriteRow
<1>2. PICK t \in on \ ReadOnly, w \in [tx : {tx}, nr : 1..MaxRows] :
         /\ IsNext(w)
         /\ tree' = [tree EXCEPT ![t] = [rows |-> @.rows \union {w}, dirty |-> TRUE]]
         /\ accepted' = [accepted EXCEPT ![t] = @ \union {w}]
  BY DEF WriteRow
<1>3. w \in Write /\ w.tx = tx
  BY <1>1, <1>2, TimesAssumption DEF Write
<1> QED
  BY <1>1, <1>2, <1>3 DEF IsNext

(* A step within a transaction, or at its end, that leaves tables and their trees alone. *)
LEMMA QuietSteps ==
  ASSUME \/ EndStatement \/ FailStatement \/ EndTransaction \/ Tick \/ DeadlinePasses
  PROVE  /\ UNCHANGED <<tables, tree, txStart, begun, store, promised, writeTime>>
         /\ phase' = "idle" <=> phase = "idle"
         /\ phase' = phase \/ phase = "statement" \/ phase' \in {"sync", "rollback"}
  BY DEF EndStatement, FailStatement, EndTransaction, Tick, DeadlinePasses, sqlite, promised, settings

-----------------------------------------------------------------------------
(* Rolled back transactions *)

LEMMA SeenStep ==
  ASSUME IInv, SeenInv, [Next]_vars
  PROVE  SeenInv'
<1> USE DEF SeenInv
<1>1. /\ tree \in [Tables -> Tree] /\ txStart \in [Tables -> Tree]
      /\ store \in [Tables -> SUBSET Write] /\ tx \in Nat /\ undone \subseteq 1..tx
      /\ \A t \in Tables : tree[t].dirty => phase # "idle"
  BY DEF IInv, TypeOK, StartInv
<1>2. ASSUME UNCHANGED <<tree, txStart, store, tx, undone>>, phase = "idle" => phase' = "idle"
      PROVE  SeenInv'
  BY <1>2
<1>3. ASSUME UNCHANGED <<tree, txStart, store, undone>>, phase = "idle", tx' = tx + 1
      PROVE  SeenInv'
  BY <1>1, <1>3
<1>4. CASE UNCHANGED vars
  BY <1>2, <1>4 DEF vars, sqlite, promised
<1>5. CASE \/ EndStatement \/ FailStatement \/ EndTransaction \/ Tick \/ DeadlinePasses
  BY <1>2, <1>5, QuietSteps DEF promised
<1>6. CASE \E dl \in {"keep", "none", "ahead"}, wt \in UserTimes \union {0, -1},
              stage \in {"write_time", "later", "done"} : UpdateConn(dl, wt, stage)
  BY <1>2, <1>6 DEF UpdateConn, sqlite
<1>7. CASE BeginTransaction
  BY <1>3, <1>7 DEF BeginTransaction, NewTransaction
<1>8. CASE CommitTables
  BY <1>2, <1>8 DEF CommitTables, Ended
<1>9. ASSUME NEW t \in Tables, Connect(t) \/ Disconnect(t) PROVE SeenInv'
  <2>1. /\ tree' \in {[tree EXCEPT ![t] = Opened(t)], [tree EXCEPT ![t] = NoTree]}
        /\ txStart' = [txStart EXCEPT ![t] = NoStart]
        /\ UNCHANGED <<store, tx, undone, phase>>
    BY <1>9 DEF Connect, NewTable, Disconnect, CloseTable, sqlite, promised
  <2> QED
    BY <1>1, <2>1 DEF Opened, NoTree, NoStart
<1>10. ASSUME NEW t \in Tables, Refresh(t) PROVE SeenInv'
  <2>1. tree' = [tree EXCEPT ![t] = Opened(t)] /\ UNCHANGED <<txStart, store, tx, undone, phase>>
    BY <1>10 DEF Refresh, sqlite
  <2> QED
    BY <1>1, <2>1 DEF Opened
<1>11. ASSUME NEW t \in Tables, \/ store' = Stored(t) /\ tree' = Clean(t)
                                \/ store' \in {store, Stored(t)} /\ UNCHANGED tree
       PROVE  \A s \in Tables :
                /\ store[s] \subseteq store'[s]
                /\ \A w \in tree'[s].rows : w \in store'[s] \/ (tree'[s].dirty /\ w.tx = tx)
  <2>1. TypeOK
    BY DEF IInv
  <2>2. /\ \A s \in Tables \ {t} : Stored(t)[s] = store[s]
        /\ Stored(t)[t] = IF tree[t].dirty THEN store[t] \union tree[t].rows ELSE store[t]
    BY <2>1, StoredIs
  <2>3. CASE store' = Stored(t) /\ tree' = Clean(t)
    <3>1. /\ \A s \in Tables : tree'[s].rows = tree[s].rows
          /\ \A s \in Tables \ {t} : tree'[s] = tree[s]
      BY <2>1, <2>3, CleanTree
    <3>2. \A w \in tree[t].rows : w \in store'[t]
      BY <2>2, <2>3
    <3> QED
      BY <2>2, <2>3, <3>1, <3>2
  <2>4. CASE store' \in {store, Stored(t)} /\ UNCHANGED tree
    BY <2>2, <2>4
  <2> QED
    BY <1>11, <2>3, <2>4
<1>12. ASSUME NEW t \in Tables, Vacuum(t) PROVE SeenInv'
  BY <1>11, <1>12, Vacuums DEF sqlite
<1>13. ASSUME NEW t \in Tables, StartStatement(t) PROVE SeenInv'
  <2>1. CASE UNCHANGED txStart
    BY <1>1, <1>13, <2>1, Starts
  <2>2. CASE txStart[t] = NoStart /\ txStart' = [txStart EXCEPT ![t] = tree[t]]
    <3>1. tree[t].rows \subseteq store[t]
      BY <2>2 DEF IInv, StartInv
    <3> QED
      BY <1>1, <1>13, <2>2, <3>1, Starts
  <2> QED
    BY <1>13, <2>1, <2>2, Starts
<1>14. CASE WriteRow
  <2>1. UNCHANGED <<txStart, store, tx, undone, phase>>
    BY <1>14 DEF WriteRow, sqlite
  <2> QED
    BY <1>1, <1>14, <2>1, Writes
<1>15. CASE SyncTable
  <2>1. PICK t \in Tables :
           /\ phase = "sync"
           /\ \/ t \in ReadOnly /\ UNCHANGED <<tree, txStart, store>>
              \/ /\ store' = Stored(t) /\ tree' = Clean(t)
                 /\ txStart' = [txStart EXCEPT ![t] = NoStart]
              \/ /\ store' \in {store, Stored(t)} /\ UNCHANGED <<tree, txStart>>
    BY <1>15, Syncs
  <2>2. UNCHANGED <<tx, undone>>
    BY <1>15 DEF SyncTable, promised
  <2>3. \A s \in Tables :
          /\ store[s] \subseteq store'[s]
          /\ \A w \in tree'[s].rows : w \in store'[s] \/ (tree'[s].dirty /\ w.tx = tx)
    BY <1>11, <2>1
  <2>4. \A s \in Tables : txStart'[s].rows \subseteq txStart[s].rows
    BY <1>1, <2>1 DEF NoStart
  <2> QED
    BY <2>1, <2>2, <2>3, <2>4
<1>16. CASE RollbackTables
  <2>1. /\ tree' = [t \in Tables |-> IF t \in Joined THEN Restored(t) ELSE tree[t]]
        /\ txStart' = [t \in Tables |-> IF t \in Joined THEN NoStart ELSE txStart[t]]
        /\ phase' = "idle" /\ UNCHANGED <<store, tx>>
    BY <1>16 DEF RollbackTables, Ended
  <2>2. \A t \in Tables : tree'[t] \in {tree[t], txStart[t]}
    BY <2>1 DEF Restored
  <2>3. \A t \in Tables : txStart'[t].rows \subseteq txStart[t].rows
    BY <2>1 DEF NoStart
  <2> QED
    BY <2>1, <2>2, <2>3
<1>17. CASE Crash
  BY <1>1, <1>17 DEF Crash, Opened, NoStart, promised
<1> QED
  BY <1>4, <1>5, <1>6, <1>7, <1>8, <1>9, <1>10, <1>12, <1>13, <1>14, <1>15, <1>16, <1>17 DEF Next

(***************************************************************************)
(* No connection goes on to see what it rolled back, unless the commit     *)
(* that failed, or a vacuum, stored it (VirtualTable.Rollback restores the *)
(* clone taken by Begin).                                                  *)
(***************************************************************************)
THEOREM ConnRolledBackIsGone == Spec => []RolledBackIsGone
<1>1. Init => SeenInv
  BY DEF Init, SeenInv, NoTree, NoStart
<1>2. Spec => []SeenInv
  BY <1>1, SpecInv, SeenStep, PTL DEF Spec
<1>3. IInv /\ SeenInv => RolledBackIsGone
  BY DEF IInv, TypeOK, StartInv, SeenInv, RolledBackIsGone, WritesOf
<1> QED
  BY <1>2, <1>3, SpecInv, PTL

-----------------------------------------------------------------------------
(* Committed transactions *)

(* No write is of a transaction that is yet to come. *)
LEMMA NothingOfNext ==
  ASSUME IInv, NEW t \in Tables
  PROVE  WritesOf(tx + 1, t) = {}
<1>1. \A w \in accepted[t] : w.tx \in Nat /\ w.tx <= tx
  BY DEF IInv, TypeOK, TxInv, Write
<1>2. tx \in Nat
  BY DEF IInv, TypeOK
<1> QED
  BY <1>1, <1>2 DEF WritesOf

LEMMA ReadsStep ==
  ASSUME IInv, ReadsInv, [Next]_vars
  PROVE  ReadsInv'
<1> USE DEF ReadsInv, HasWrites
<1>1. /\ tree \in [Tables -> Tree] /\ txStart \in [Tables -> Tree]
      /\ accepted \in [Tables -> SUBSET Write] /\ tx \in Nat
      /\ tables \subseteq Tables /\ ReadOnly \subseteq Tables
      /\ CommittedIsStored
  BY TablesAssumption DEF IInv, TypeOK
<1>2. ASSUME UNCHANGED <<tree, txStart, tables, tx, done, accepted, dropped>>,
             phase = "idle" => phase' = "idle"
      PROVE  ReadsInv'
  BY <1>2 DEF WritesOf
<1>3. ASSUME UNCHANGED <<tree, txStart, tables, done, accepted, dropped>>,
             phase = "idle", tx' = tx + 1
      PROVE  ReadsInv'
  <2>1. \A t \in tables : WritesOf(tx, t)' = {}
    BY <1>1, <1>3, NothingOfNext DEF WritesOf
  <2>2. \A n, t : WritesOf(n, t)' = WritesOf(n, t)
    BY <1>3 DEF WritesOf
  <2> QED
    BY <1>3, <2>1, <2>2
<1>4. CASE UNCHANGED vars
  BY <1>2, <1>4 DEF vars, sqlite, promised
<1>5. CASE \/ EndStatement \/ FailStatement \/ EndTransaction \/ Tick \/ DeadlinePasses
  BY <1>2, <1>5, QuietSteps DEF promised
<1>6. CASE \E dl \in {"keep", "none", "ahead"}, wt \in UserTimes \union {0, -1},
              stage \in {"write_time", "later", "done"} : UpdateConn(dl, wt, stage)
  BY <1>2, <1>6 DEF UpdateConn, sqlite
<1>7. CASE BeginTransaction
  BY <1>3, <1>7 DEF BeginTransaction, NewTransaction
<1>8. CASE CommitTables
  <2>1. /\ UNCHANGED <<tree, txStart, tables, tx, accepted, dropped>>
        /\ done' = done \union {tx} /\ phase = "sync" /\ phase' = "idle" /\ left = <<>>
    BY <1>8 DEF CommitTables, Ended
  <2>2. \A t \in Tables \ ReadOnly : txStart[t] = NoStart
    BY <2>1 DEF IInv, StartInv, Waiting
  <2>3. \A n, t : WritesOf(n, t)' = WritesOf(n, t)
    BY <2>1 DEF WritesOf
  <2> QED
    BY <2>1, <2>2, <2>3
<1>9. ASSUME NEW t \in Tables, Connect(t) \/ Disconnect(t) PROVE ReadsInv'
  <2>1. /\ txStart' = [txStart EXCEPT ![t] = NoStart]
        /\ phase = "idle" /\ phase' = "idle"
        /\ UNCHANGED <<tx, done, accepted, dropped>>
    BY <1>9 DEF Connect, NewTable, Disconnect, CloseTable, sqlite, promised
  <2>2. \/ tree' = [tree EXCEPT ![t] = Opened(t)] /\ tables' = tables \union {t}
        \/ tree' = [tree EXCEPT ![t] = NoTree] /\ tables' = tables \ {t}
    BY <1>9 DEF Connect, NewTable, AddTable, Disconnect, CloseTable, RemoveTable
  <2>3. \A n, s : WritesOf(n, s)' = WritesOf(n, s)
    BY <2>1 DEF WritesOf
  <2>4. \A n \in done, s \in tables' : <<n, s>> \in dropped \/ WritesOf(n, s) \subseteq tree'[s].rows
    <3>1. \A n \in done : <<n, t>> \in dropped \/ WritesOf(n, t) \subseteq Opened(t).rows
      BY <1>1 DEF Opened, CommittedIsStored
    <3>2. CASE tree' = [tree EXCEPT ![t] = Opened(t)] /\ tables' = tables \union {t}
      BY <1>1, <3>1, <3>2
    <3>3. CASE tree' = [tree EXCEPT ![t] = NoTree] /\ tables' = tables \ {t}
      BY <1>1, <3>3
    <3> QED
      BY <2>2, <3>2, <3>3
  <2>5. \A s \in Tables : txStart'[s] \in {txStart[s], NoStart}
    BY <1>1, <2>1
  <2> QED
    BY <2>1, <2>3, <2>4, <2>5
<1>10. ASSUME NEW t \in Tables, Refresh(t) PROVE ReadsInv'
  <2>1. /\ tree' = [tree EXCEPT ![t] = Opened(t)] /\ dropped' = dropped \union Pending(t)
        /\ UNCHANGED <<txStart, tables, tx, done, accepted, phase>> /\ phase \in {"idle", "open"}
    BY <1>10 DEF Refresh, sqlite, Between
  <2>2. \A n, s : WritesOf(n, s)' = WritesOf(n, s)
    BY <2>1 DEF WritesOf
  <2>3. \A n \in done : <<n, t>> \in dropped \/ WritesOf(n, t) \subseteq tree'[t].rows
    BY <1>1, <2>1 DEF Opened, CommittedIsStored
  <2>4. phase = "open" => <<tx, t>> \in dropped' \/ WritesOf(tx, t) \subseteq tree'[t].rows
    BY <1>1, <2>1 DEF Opened, Pending, WritesOf, IInv, KeptInv
  <2> QED
    BY <1>1, <2>1, <2>2, <2>3, <2>4
<1>11. ASSUME NEW t \in Tables, tree' \in {tree, Clean(t)}
       PROVE  \A s \in Tables : tree'[s].rows = tree[s].rows
  BY <1>11, CleanTree DEF IInv
<1>12. ASSUME NEW t \in Tables, Vacuum(t) PROVE ReadsInv'
  <2>1. UNCHANGED <<txStart, tables, tx, done, accepted, dropped, phase>> /\ tree' \in {tree, Clean(t)}
    BY <1>12, Vacuums DEF sqlite
  <2>2. \A s \in Tables : tree'[s].rows = tree[s].rows
    BY <1>11, <2>1
  <2>3. \A n, s : WritesOf(n, s)' = WritesOf(n, s)
    BY <2>1 DEF WritesOf
  <2> QED
    BY <1>1, <2>1, <2>2, <2>3
<1>13. ASSUME NEW t \in Tables, StartStatement(t) PROVE ReadsInv'
  <2>1. t \in tables /\ UNCHANGED <<tables, tree, done, accepted, dropped>>
    BY <1>13, Starts
  <2>2. \A n, s : WritesOf(n, s)' = WritesOf(n, s)
    BY <2>1 DEF WritesOf
  <2>3. \A s \in tables : phase' # "idle" => HasWrites(tree[s].rows, tx', s)
    <3>1. CASE phase = "idle" /\ tx' = tx + 1
      BY <1>1, <3>1, NothingOfNext
    <3>2. CASE phase = "open" /\ tx' = tx
      BY <3>2
    <3> QED
      BY <1>13, <3>1, <3>2, Starts
  <2>4. \A s \in Tables \ ReadOnly, n \in done :
          txStart'[s] # NoStart => HasWrites(txStart'[s].rows, n, s)
    <3>1. CASE UNCHANGED txStart
      BY <3>1
    <3>2. CASE txStart' = [txStart EXCEPT ![t] = tree[t]]
      BY <1>1, <2>1, <3>2
    <3> QED
      BY <1>13, <3>1, <3>2, Starts
  <2> QED
    BY <2>1, <2>2, <2>3, <2>4
<1>14. CASE WriteRow
  <2>1. UNCHANGED <<txStart, tables, tx, done, dropped, phase>>
    BY <1>14 DEF WriteRow, sqlite
  <2>2. PICK t \in Tables \ ReadOnly, w \in Write :
           /\ phase = "statement" /\ w.tx = tx
           /\ tree' = [tree EXCEPT ![t] = [rows |-> @.rows \union {w}, dirty |-> TRUE]]
           /\ accepted' = [accepted EXCEPT ![t] = @ \union {w}]
    BY <1>14, Writes
  <2>3. tx \notin done
    BY <2>2 DEF IInv, TxInv
  <2>4. /\ \A s \in Tables \ {t} : tree'[s] = tree[s] /\ accepted'[s] = accepted[s]
        /\ tree'[t].rows = tree[t].rows \union {w} /\ accepted'[t] = accepted[t] \union {w}
    BY <1>1, <2>2
  <2>5. \A n, s : s \in Tables => WritesOf(n, s)' \subseteq WritesOf(n, s) \union
                                                    (IF n = tx /\ s = t THEN {w} ELSE {})
    BY <2>2, <2>4 DEF WritesOf
  <2>6. \A s \in tables, n \in done : HasWrites(tree[s].rows, n, s)'
    BY <1>1, <2>1, <2>3, <2>4, <2>5
  <2>7. \A s \in tables : HasWrites(tree[s].rows, tx, s)'
    BY <1>1, <2>1, <2>2, <2>4, <2>5
  <2>8. \A s \in Tables \ ReadOnly, n \in done :
          txStart[s] # NoStart => HasWrites(txStart[s].rows, n, s)'
    BY <2>1, <2>3, <2>5
  <2>9. \A s \in ReadOnly : accepted'[s] = {}
    BY <1>1, <2>2, <2>4
  <2> QED
    BY <2>1, <2>6, <2>7, <2>8, <2>9
<1>15. CASE SyncTable
  <2>1. UNCHANGED <<tables, tx, done, accepted, dropped>>
    BY <1>15 DEF SyncTable, promised
  <2>2. PICK t \in Tables :
           /\ phase # "idle" /\ tree' \in {tree, Clean(t)}
           /\ txStart' \in {txStart, [txStart EXCEPT ![t] = NoStart]}
    BY <1>15, Syncs
  <2>3. /\ \A s \in Tables : tree'[s].rows = tree[s].rows
        /\ \A s \in Tables : txStart'[s] \in {txStart[s], NoStart}
    BY <1>1, <1>11, <2>2
  <2>4. \A n, s : WritesOf(n, s)' = WritesOf(n, s)
    BY <2>1 DEF WritesOf
  <2> QED
    BY <1>1, <2>1, <2>2, <2>3, <2>4
<1>16. CASE RollbackTables
  <2>1. /\ tree' = [t \in Tables |-> IF t \in Joined THEN Restored(t) ELSE tree[t]]
        /\ txStart' = [t \in Tables |-> IF t \in Joined THEN NoStart ELSE txStart[t]]
        /\ phase' = "idle" /\ UNCHANGED <<tables, tx, done, accepted, dropped>>
    BY <1>16 DEF RollbackTables, Ended
  <2>2. \A t \in Tables : /\ tree'[t] = tree[t] \/ (txStart[t] # NoStart /\ tree'[t] = txStart[t])
                          /\ txStart'[t] \in {txStart[t], NoStart}
    BY <2>1 DEF Restored
  <2>3. \A n, s : WritesOf(n, s)' = WritesOf(n, s)
    BY <2>1 DEF WritesOf
  <2>4. \A t \in tables, n \in done : HasWrites(tree'[t].rows, n, t)
    <3>1. \A t \in tables \intersect ReadOnly : \A n : WritesOf(n, t) = {}
      BY DEF WritesOf
    <3> QED
      BY <1>1, <2>2, <3>1
  <2> QED
    BY <2>1, <2>2, <2>3, <2>4
<1>17. CASE Crash
  <2>1. /\ tree' = [t \in Tables |-> Opened(t)] /\ txStart' = [t \in Tables |-> NoStart]
        /\ phase' = "idle" /\ tables' = Tables /\ UNCHANGED <<tx, done, accepted, dropped>>
    BY <1>17 DEF Crash, promised
  <2>2. \A n, s : WritesOf(n, s)' = WritesOf(n, s)
    BY <2>1 DEF WritesOf
  <2> QED
    BY <1>1, <2>1, <2>2 DEF Opened, CommittedIsStored
<1> QED
  BY <1>4, <1>5, <1>6, <1>7, <1>8, <1>9, <1>10, <1>12, <1>13, <1>14, <1>15, <1>16, <1>17 DEF Next

(***************************************************************************)
(* A connection reads what it committed, after any rollbacks, failed       *)
(* commits, refreshes and vacuums, dropped and reopened tables, crashes.   *)
(***************************************************************************)
THEOREM ConnReadsItsCommits == Spec => []ReadsItsCommits
<1>1. Init => ReadsInv
  BY TablesAssumption DEF Init, ReadsInv
<1>2. Spec => []ReadsInv
  BY <1>1, SpecInv, ReadsStep, PTL DEF Spec
<1>3. ReadsInv => ReadsItsCommits
  BY DEF ReadsInv, HasWrites, ReadsItsCommits
<1> QED
  BY <1>2, <1>3, PTL

-----------------------------------------------------------------------------
(* Transactions as a whole *)

(* A commit of t stores nothing but what the transaction under way wrote to t. *)
LEMMA StoresOfNow ==
  ASSUME IInv, SeenInv, TornInv, NEW t \in Tables, store' \in {store, Stored(t)}
  PROVE  /\ \A s \in Tables : store'[s] \subseteq accepted[s]
         /\ \A s \in Tables : s # t \/ ~tree[t].dirty => store'[s] = store[s]
         /\ \A w \in store'[t] : w \in store[t] \/ w.tx = tx
<1>1. /\ \A s \in Tables \ {t} : Stored(t)[s] = store[s]
      /\ Stored(t)[t] = IF tree[t].dirty THEN store[t] \union tree[t].rows ELSE store[t]
  BY StoredIs DEF IInv
<1>2. /\ \A s \in Tables : store[s] \subseteq accepted[s] /\ tree[s].rows \subseteq accepted[s]
      /\ \A w \in tree[t].rows : w \in store[t] \/ w.tx = tx
  BY DEF TornInv, SeenInv
<1> QED
  BY <1>1, <1>2

(* Some but not all of what transaction n wrote to t is stored, and neither a vacuum nor a refresh did it. *)
Torn(n, t) ==
    ~(\/ <<n, t>> \in vacuumed \union dropped
      \/ WritesOf(n, t) \subseteq store[t]
      \/ WritesOf(n, t) \intersect store[t] = {})

LEMMA TornStep ==
  ASSUME IInv, SeenInv, TornInv, [Next]_vars
  PROVE  TornInv'
<1> USE DEF TornInv
<1>1. /\ tree \in [Tables -> Tree] /\ txStart \in [Tables -> Tree]
      /\ store \in [Tables -> SUBSET Write] /\ accepted \in [Tables -> SUBSET Write]
      /\ tx \in Nat
      /\ \A t \in Tables : txStart[t].rows \subseteq accepted[t]
  BY DEF IInv, TypeOK, SeenInv
<1>2. /\ \A n \in 1..tx, t \in Tables : ~Torn(n, t)
      /\ AllOrNothing' <=> \A n \in 1..tx', t \in Tables : ~Torn(n, t)'
  BY DEF AllOrNothing, Torn
<1>3. ASSUME \A t \in Tables : tree'[t].rows \subseteq accepted[t],
             UNCHANGED <<store, tx, accepted>>,
             vacuumed \subseteq vacuumed', dropped \subseteq dropped',
             phase' \in {"open", "statement"} => phase \in {"open", "statement"}
      PROVE  TornInv'
  <2>1. \A n, t : WritesOf(n, t)' = WritesOf(n, t)
    BY <1>3 DEF WritesOf
  <2>2. \A n \in 1..tx, t \in Tables : ~Torn(n, t)'
    BY <1>2, <1>3, <2>1 DEF Torn
  <2> QED
    BY <1>2, <1>3, <2>1, <2>2
<1>4. ASSUME UNCHANGED <<tree, store, accepted, vacuumed, dropped>>,
             phase = "idle", tx' = tx + 1
      PROVE  TornInv'
  <2>1. \A t \in Tables : {w \in accepted'[t] : w.tx = tx'} = {}
    BY <1>1, <1>4, NothingOfNext DEF WritesOf
  <2>2. \A n, t : WritesOf(n, t)' = WritesOf(n, t)
    BY <1>4 DEF WritesOf
  <2>3. \A n \in 1..tx' : n \in 1..tx \/ n = tx'
    BY <1>1, <1>4
  <2>4. \A t \in Tables : WritesOf(tx, t)' = {}
    BY <2>1 DEF WritesOf
  <2>5. ASSUME NEW n \in 1..tx', NEW t \in Tables PROVE ~Torn(n, t)'
    <3>1. CASE n \in 1..tx
      BY <1>2, <1>4, <2>2, <3>1 DEF Torn
    <3>2. CASE n = tx'
      BY <2>1, <3>2 DEF Torn, WritesOf
    <3> QED
      BY <2>3, <3>1, <3>2
  <2> QED
    BY <1>2, <1>4, <2>4, <2>5
<1>5. CASE UNCHANGED vars
  BY <1>3, <1>5 DEF vars, sqlite, promised
<1>6. CASE \/ EndStatement \/ FailStatement \/ EndTransaction \/ Tick \/ DeadlinePasses
  <2>1. phase' \in {"open", "statement"} => phase \in {"open", "statement"}
    BY <1>6 DEF EndStatement, FailStatement, EndTransaction, Tick, DeadlinePasses, sqlite
  <2> QED
    BY <1>3, <1>6, <2>1, QuietSteps DEF promised
<1>7. CASE \E dl \in {"keep", "none", "ahead"}, wt \in UserTimes \union {0, -1},
              stage \in {"write_time", "later", "done"} : UpdateConn(dl, wt, stage)
  BY <1>3, <1>7 DEF UpdateConn, sqlite
<1>8. CASE BeginTransaction
  BY <1>4, <1>8 DEF BeginTransaction, NewTransaction
<1>9. CASE CommitTables
  BY <1>3, <1>9 DEF CommitTables, Ended
<1>10. ASSUME NEW t \in Tables, Connect(t) \/ Disconnect(t) PROVE TornInv'
  <2>1. /\ tree' \in {[tree EXCEPT ![t] = Opened(t)], [tree EXCEPT ![t] = NoTree]}
        /\ UNCHANGED <<store, tx, accepted, vacuumed, dropped, phase>>
    BY <1>10 DEF Connect, NewTable, Disconnect, CloseTable, sqlite, promised
  <2>2. \A s \in Tables : tree'[s].rows \subseteq accepted[s]
    BY <1>1, <2>1 DEF Opened, NoTree
  <2> QED
    BY <1>3, <2>1, <2>2
<1>11. ASSUME NEW t \in Tables, Refresh(t) PROVE TornInv'
  <2>1. /\ tree' = [tree EXCEPT ![t] = Opened(t)] /\ dropped \subseteq dropped'
        /\ UNCHANGED <<store, tx, accepted, vacuumed, phase>>
    BY <1>11 DEF Refresh, sqlite
  <2>2. \A s \in Tables : tree'[s].rows \subseteq accepted[s]
    BY <1>1, <2>1 DEF Opened
  <2> QED
    BY <1>3, <2>1, <2>2
<1>12. ASSUME NEW t \in Tables, Vacuum(t) PROVE TornInv'
  <2>1. /\ UNCHANGED <<tx, accepted, dropped, phase>> /\ vacuumed' = vacuumed \union Pending(t)
        /\ store' \in {store, Stored(t)} /\ tree' \in {tree, Clean(t)}
    BY <1>12, Vacuums DEF sqlite
  <2>2. /\ \A s \in Tables : store'[s] \subseteq accepted[s]
        /\ \A s \in Tables : s # t \/ ~tree[t].dirty => store'[s] = store[s]
        /\ \A w \in store'[t] : w \in store[t] \/ w.tx = tx
    BY <2>1, StoresOfNow
  <2>3. \A s \in Tables : tree'[s].rows = tree[s].rows
    BY <2>1, CleanTree DEF IInv
  <2>4. \A n, s : WritesOf(n, s)' = WritesOf(n, s)
    BY <2>1 DEF WritesOf
  <2>5. tree[t].dirty => <<tx, t>> \in vacuumed'
    BY <2>1 DEF Pending
  <2>6. \A s \in Tables, n \in 1..tx : ~Torn(n, s)'
    <3>1. SUFFICES ASSUME NEW s \in Tables, NEW n \in 1..tx PROVE ~Torn(n, s)'
      OBVIOUS
    <3>2. CASE n = tx /\ s = t /\ tree[t].dirty
      BY <2>5, <3>2 DEF Torn
    <3>3. CASE n # tx \/ s # t \/ ~tree[t].dirty
      <4>1. \A w \in WritesOf(n, s) : w \in store'[s] <=> w \in store[s]
        <5>1. store[t] \subseteq store'[t]
          BY <2>1, StoredTree DEF IInv
        <5> QED
          BY <2>2, <3>3, <5>1 DEF WritesOf
      <4> QED
        BY <1>2, <2>1, <2>4, <4>1 DEF Torn
    <3> QED
      BY <3>2, <3>3
  <2>7. phase \in {"open", "statement"} =>
          \A s \in Tables : <<tx, s>> \in vacuumed' \union dropped
                              \/ WritesOf(tx, s) \intersect store'[s] = {}
    BY <2>1, <2>2, <2>5
  <2> QED
    BY <1>2, <2>1, <2>2, <2>3, <2>4, <2>6, <2>7
<1>13. ASSUME NEW t \in Tables, StartStatement(t) PROVE TornInv'
  <2>1. UNCHANGED <<tree, store, accepted, vacuumed, dropped>>
    BY <1>13, Starts
  <2>2. CASE phase = "idle" /\ tx' = tx + 1
    BY <1>4, <2>1, <2>2
  <2>3. CASE phase = "open" /\ tx' = tx
    BY <1>1, <1>3, <2>1, <2>3
  <2> QED
    BY <1>13, <2>2, <2>3, Starts
<1>14. CASE WriteRow
  <2>1. UNCHANGED <<store, tx, vacuumed, dropped, phase>>
    BY <1>14 DEF WriteRow, sqlite
  <2>2. PICK t \in Tables \ ReadOnly, w \in Write :
           /\ phase = "statement" /\ w.tx = tx
           /\ \A s \in Tables : w \notin accepted[s]
           /\ tree' = [tree EXCEPT ![t] = [rows |-> @.rows \union {w}, dirty |-> TRUE]]
           /\ accepted' = [accepted EXCEPT ![t] = @ \union {w}]
    BY <1>14, Writes
  <2>3. /\ \A s \in Tables \ {t} : tree'[s] = tree[s] /\ accepted'[s] = accepted[s]
        /\ tree'[t].rows = tree[t].rows \union {w} /\ accepted'[t] = accepted[t] \union {w}
    BY <1>1, <2>2
  <2>4. \A s \in Tables : store[s] \subseteq accepted'[s] /\ tree'[s].rows \subseteq accepted'[s]
    BY <2>3
  <2>5. \A n, s : s \in Tables => /\ WritesOf(n, s)' \intersect store[s]
                                       = WritesOf(n, s) \intersect store[s]
                                  /\ n # tx => WritesOf(n, s)' = WritesOf(n, s)
    BY <2>2, <2>3 DEF WritesOf
  <2>6. \A s \in Tables : <<tx, s>> \in vacuumed \union dropped
                            \/ WritesOf(tx, s)' \intersect store[s] = {}
    BY <1>1, <2>1, <2>2, <2>5
  <2>7. \A s \in Tables, n \in 1..tx : ~Torn(n, s)'
    <3>1. SUFFICES ASSUME NEW s \in Tables, NEW n \in 1..tx PROVE ~Torn(n, s)'
      OBVIOUS
    <3>2. CASE n = tx
      BY <2>1, <2>6, <3>2 DEF Torn, WritesOf
    <3>3. CASE n # tx
      BY <1>2, <2>1, <2>5, <3>3 DEF Torn
    <3> QED
      BY <3>2, <3>3
  <2> QED
    BY <1>2, <2>1, <2>4, <2>6, <2>7
<1>15. CASE SyncTable
  <2>1. UNCHANGED <<tx, accepted, vacuumed, dropped>>
    BY <1>15 DEF SyncTable, promised
  <2>2. PICK t \in Tables :
           /\ phase = "sync" /\ phase' \in {"sync", "rollback"}
           /\ store' \in {store, Stored(t)} /\ tree' \in {tree, Clean(t)}
    BY <1>15, Syncs
  <2>3. /\ \A s \in Tables : store'[s] \subseteq accepted[s]
        /\ \A s \in Tables : s # t \/ ~tree[t].dirty => store'[s] = store[s]
        /\ \A w \in store'[t] : w \in store[t] \/ w.tx = tx
    BY <2>2, StoresOfNow
  <2>4. \A s \in Tables : tree'[s].rows = tree[s].rows
    BY <2>2, CleanTree DEF IInv
  <2>5. \A n, s : WritesOf(n, s)' = WritesOf(n, s)
    BY <2>1 DEF WritesOf
  <2>6. \A s \in Tables, n \in 1..tx : ~Torn(n, s)'
    <3>1. SUFFICES ASSUME NEW s \in Tables, NEW n \in 1..tx PROVE ~Torn(n, s)'
      OBVIOUS
    <3>2. CASE store'[s] = store[s]
      BY <1>2, <2>1, <2>5, <3>2 DEF Torn
    <3>3. CASE n # tx /\ s = t
      <4>1. store[t] \subseteq store'[t]
        BY <2>2, StoredTree DEF IInv
      <4>2. \A w \in WritesOf(n, t) : w \in store'[t] <=> w \in store[t]
        BY <2>3, <3>3, <4>1 DEF WritesOf
      <4> QED
        BY <1>2, <2>1, <2>5, <3>3, <4>2 DEF Torn
    <3>4. CASE n = tx /\ s = t /\ tree[t].dirty /\ store' = Stored(t)
      <4>1. store[t] \subseteq store'[t] /\ tree[t].rows \subseteq store'[t]
        BY <3>4, StoredTree DEF IInv
      <4>2. <<tx, t>> \in dropped \/ WritesOf(tx, t) \subseteq store'[t]
        BY <2>2, <4>1 DEF IInv, KeptInv, WritesOf
      <4> QED
        BY <2>1, <2>5, <3>4, <4>2 DEF Torn
    <3> QED
      BY <2>2, <2>3, <3>2, <3>3, <3>4
  <2> QED
    BY <1>2, <2>1, <2>2, <2>3, <2>4, <2>6
<1>16. CASE RollbackTables
  <2>1. /\ tree' = [t \in Tables |-> IF t \in Joined THEN Restored(t) ELSE tree[t]]
        /\ phase' = "idle" /\ UNCHANGED <<store, tx, accepted, vacuumed, dropped>>
    BY <1>16 DEF RollbackTables, Ended
  <2>2. \A t \in Tables : tree'[t].rows \subseteq accepted[t]
    BY <1>1, <2>1 DEF Restored
  <2> QED
    BY <1>3, <2>1, <2>2
<1>17. CASE Crash
  <2>1. /\ tree' = [t \in Tables |-> Opened(t)]
        /\ phase' = "idle" /\ UNCHANGED <<store, tx, accepted, vacuumed, dropped>>
    BY <1>17 DEF Crash, promised
  <2>2. \A t \in Tables : tree'[t].rows \subseteq accepted[t]
    BY <2>1 DEF Opened
  <2> QED
    BY <1>3, <2>1, <2>2
<1> QED
  BY <1>5, <1>6, <1>7, <1>8, <1>9, <1>10, <1>11, <1>12, <1>13, <1>14, <1>15, <1>16, <1>17 DEF Next

(***************************************************************************)
(* Of what a transaction wrote to a table all is stored or nothing,        *)
(* whatever fails and whenever the process dies, unless a vacuum or a      *)
(* refresh of the table came in its midst.                                 *)
(***************************************************************************)
THEOREM ConnAllOrNothing == Spec => []AllOrNothing
<1>1. Init => SeenInv /\ TornInv
  BY DEF Init, SeenInv, TornInv, AllOrNothing, WritesOf, NoTree, NoStart
<1>2. Spec => [](SeenInv /\ TornInv)
  BY <1>1, SpecInv, SeenStep, TornStep, PTL DEF Spec
<1>3. TornInv => AllOrNothing
  BY DEF TornInv
<1> QED
  BY <1>2, <1>3, PTL

-----------------------------------------------------------------------------
(* The context *)

(* After its context is made anew it lives until the deadline. *)
LEMMA ResetLives ==
  ASSUME NEW wt, NEW dl, ResetContext(wt, dl), deadline' = dl
  PROVE  LiveInv'
  BY DEF ResetContext, LiveInv, ContextLives

LEMMA LiveStep ==
  ASSUME IInv, LiveInv, [Next]_vars
  PROVE  LiveInv'
<1>1. ctx \in Context
  BY DEF IInv, TypeOK
<1>2. ASSUME UNCHANGED <<ctx, ctxCancel, deadline>> PROVE LiveInv'
  BY <1>2 DEF LiveInv, ContextLives
<1>3. ASSUME FixTime \/ ReleaseTime \/ UNCHANGED settings PROVE LiveInv'
  BY <1>2, <1>3, ResetLives DEF FixTime, ReleaseTime, settings
<1>4. ASSUME NEW dl \in {"keep", "none", "ahead"}, NEW wt \in UserTimes \union {0, -1},
             NEW stage \in {"write_time", "later", "done"}, UpdateConn(dl, wt, stage)
      PROVE  LiveInv'
  <2>1. CASE stage = "done"
    BY <1>4, <2>1, ResetLives DEF UpdateConn
  <2>2. CASE stage # "done" /\ deadline' = "none"
    BY <1>4, <2>2 DEF UpdateConn, Background, LiveInv, ContextLives
  <2>3. CASE stage # "done" /\ deadline' # "none" /\ ctx.until = "deadline" /\ dl # "keep"
    BY <1>1, <1>4, <2>3 DEF UpdateConn, Context, LiveInv, ContextLives
  <2>4. CASE stage # "done" /\ deadline' # "none" /\ ~(ctx.until = "deadline" /\ dl # "keep")
    <3>1. UNCHANGED <<ctx, ctxCancel>> /\ (dl = "keep" => UNCHANGED deadline)
      BY <1>4, <2>4 DEF UpdateConn
    <3> QED
      BY <1>1, <2>4, <3>1 DEF Context, LiveInv, ContextLives
  <2> QED
    BY <2>1, <2>2, <2>3, <2>4
<1>5. ASSUME NEW t \in Tables, Disconnect(t) PROVE LiveInv'
  BY <1>1, <1>5 DEF Disconnect, Context, LiveInv, ContextLives
<1>6. CASE DeadlinePasses
  BY <1>1, <1>6 DEF DeadlinePasses, Context, LiveInv, ContextLives
<1>7. CASE Crash
  BY <1>7 DEF Crash, Background, LiveInv, ContextLives
<1>8. ASSUME NEW t \in Tables, StartStatement(t) PROVE LiveInv'
  BY <1>3, <1>8 DEF StartStatement
<1>9. CASE CommitTables \/ RollbackTables
  BY <1>3, <1>9 DEF CommitTables, RollbackTables
<1>10. CASE Tick \/ BeginTransaction \/ WriteRow \/ EndStatement \/ FailStatement
            \/ EndTransaction \/ SyncTable
  BY <1>3, <1>10 DEF Tick, BeginTransaction, WriteRow, EndStatement, FailStatement,
                     EndTransaction, SyncTable
<1>11. ASSUME NEW t \in Tables, Connect(t) \/ Refresh(t) \/ Vacuum(t) PROVE LiveInv'
  BY <1>3, <1>11 DEF Connect, Refresh, Vacuum
<1>12. CASE UNCHANGED vars
  BY <1>3, <1>12 DEF vars
<1> QED
  BY <1>4, <1>5, <1>6, <1>7, <1>8, <1>9, <1>10, <1>11, <1>12 DEF Next

(* Only a passed deadline, a dropped table or a failed update of azb_conn ends the context. *)
THEOREM ConnContextLives == Spec => []ContextLives
<1>1. Init => LiveInv
  BY DEF Init, Background, LiveInv, ContextLives
<1>2. Spec => []LiveInv
  BY <1>1, SpecInv, LiveStep, PTL DEF Spec
<1>3. LiveInv => ContextLives
  BY DEF LiveInv
<1> QED
  BY <1>2, <1>3, PTL

-----------------------------------------------------------------------------
(* One time *)

(* A Begin fixes a time if none is set. *)
LEMMA FixesTime ==
  ASSUME TimeInv, FixTime
  PROVE  /\ writeTime' # 0
         /\ ~unsettled' => ctx'.time = writeTime'
         /\ writeTime # 0 => UNCHANGED <<writeTime, unsettled>>
<1>1. CASE writeTime = 0
  BY <1>1 DEF FixTime, ResetContext, TimeInv
<1>2. CASE writeTime # 0
  BY <1>2 DEF FixTime, settings, TimeInv
<1> QED
  BY <1>1, <1>2

LEMMA TimeStep ==
  ASSUME IInv, TimeInv, [Next]_vars
  PROVE  TimeInv'
<1> USE DEF TimeInv
<1>1. /\ tx \in Nat /\ stamps \subseteq (1..tx) \X Nat /\ ctx \in Context /\ now \in Nat
      /\ phase = "idle" => begun = <<>>
  BY DEF IInv, TypeOK, JoinedInv
<1>2. ASSUME UNCHANGED <<writeTime, unsettled, begun, tx, retimed, stamps, now>>,
             ctx'.time = ctx.time, phase = "idle" => phase' = "idle"
      PROVE  TimeInv'
  BY <1>2 DEF OneTimePerTransaction
<1>3. ASSUME UNCHANGED <<stamps, retimed, now>>, phase' = "idle",
             ~unsettled' => ctx'.time = writeTime'
      PROVE  TimeInv'
  BY <1>3 DEF OneTimePerTransaction
<1>4. ASSUME FixTime \/ ReleaseTime \/ UNCHANGED settings
      PROVE  ~unsettled' => ctx'.time = writeTime'
  BY <1>4, FixesTime DEF ReleaseTime, ResetContext, settings
<1>5. CASE UNCHANGED vars
  BY <1>2, <1>5 DEF vars, settings, sqlite, promised
<1>6. CASE Tick
  BY <1>1, <1>6 DEF Tick, settings, sqlite, promised, OneTimePerTransaction
<1>7. CASE DeadlinePasses
  <2>1. ctx'.time = ctx.time
    BY <1>1, <1>7 DEF DeadlinePasses, Context
  <2> QED
    BY <1>2, <1>7, <2>1 DEF DeadlinePasses, sqlite, promised
<1>8. ASSUME NEW dl \in {"keep", "none", "ahead"}, NEW wt \in UserTimes \union {0, -1},
             NEW stage \in {"write_time", "later", "done"}, UpdateConn(dl, wt, stage)
      PROVE  TimeInv'
  <2>1. UNCHANGED <<stamps, tx, phase, begun, now>> /\ retimed' = Retimed
    BY <1>8 DEF UpdateConn, sqlite
  <2>2. ~unsettled' => ctx'.time = writeTime'
    BY <1>8 DEF UpdateConn, ResetContext
  <2>3. CASE phase = "idle"
    BY <1>3, <2>1, <2>2, <2>3 DEF Retimed
  <2>4. CASE phase # "idle"
    <3>1. retimed' = retimed \union {tx}
      BY <2>1, <2>4 DEF Retimed
    <3> QED
      BY <2>1, <2>2, <3>1 DEF OneTimePerTransaction
  <2> QED
    BY <2>3, <2>4
<1>9. CASE BeginTransaction
  <2>1. /\ UNCHANGED <<settings, begun, stamps, retimed, now>>
        /\ tx' = tx + 1 /\ phase = "idle"
    BY <1>9 DEF BeginTransaction, NewTransaction
  <2>2. \A s \in stamps : s[1] # tx'
    BY <1>1, <2>1
  <2> QED
    BY <1>1, <2>1, <2>2 DEF settings, OneTimePerTransaction
<1>10. ASSUME NEW t \in Tables, StartStatement(t) PROVE TimeInv'
  <2>1. UNCHANGED <<stamps, retimed, now>>
    BY <1>10, Starts
  <2>2. ~unsettled' => ctx'.time = writeTime'
    BY <1>4, <1>10 DEF StartStatement
  <2>3. CASE phase' = "idle"
    BY <1>3, <2>1, <2>2, <2>3
  <2>4. CASE t \in Joined /\ phase = "open"
    <3>1. UNCHANGED <<writeTime, unsettled, begun, tx>>
      BY <1>10, <2>4, Starts DEF StartStatement, settings
    <3> QED
      BY <2>1, <2>2, <2>4, <3>1 DEF OneTimePerTransaction
  <2>5. CASE t \notin Joined /\ phase' # "idle"
    <3>1. FixTime /\ (begun' = begun \/ begun' # <<>>)
      BY <1>10, <2>5, JoinedGrows DEF StartStatement, IInv
    <3>2. /\ writeTime' # 0
          /\ writeTime # 0 => UNCHANGED <<writeTime, unsettled>>
      BY <3>1, FixesTime
    <3>3. CASE phase = "idle" /\ tx' = tx + 1
      <4>1. \A s \in stamps : s[1] # tx'
        BY <1>1, <3>3
      <4> QED
        BY <2>1, <2>2, <3>2, <4>1 DEF OneTimePerTransaction
    <3>4. CASE phase = "open" /\ tx' = tx
      BY <2>1, <2>2, <3>1, <3>2, <3>4 DEF OneTimePerTransaction
    <3> QED
      BY <1>10, <3>3, <3>4, Starts
  <2>6. t \in Joined => phase = "open"
    <3>1. phase = "idle" => Joined = {}
      BY <1>1 DEF Joined
    <3> QED
      BY <1>10, <3>1, Starts
  <2> QED
    BY <2>3, <2>4, <2>5, <2>6
<1>11. CASE WriteRow
  <2>1. /\ UNCHANGED <<settings, begun, tx, phase, now>> /\ phase = "statement"
        /\ stamps' = stamps \union {<<tx, UpdateTime>>}
        /\ retimed' = IF unsettled THEN retimed \union {tx} ELSE retimed
    BY <1>11 DEF WriteRow, sqlite
  <2>2. begun # <<>>
    <3>1. Joined # {}
      BY <1>11, Writes
    <3> QED
      BY <3>1 DEF Joined
  <2>3. CASE unsettled
    BY <1>1, <2>1, <2>3 DEF settings, OneTimePerTransaction
  <2>4. CASE tx \in retimed
    BY <2>1, <2>4 DEF settings, OneTimePerTransaction
  <2>5. CASE ~unsettled /\ tx \notin retimed
    <3>1. UpdateTime = writeTime
      BY <2>1, <2>2, <2>5 DEF UpdateTime
    <3>2. \A s \in stamps' : s[1] = tx => s[2] = writeTime
      BY <2>1, <2>5, <3>1
    <3>3. OneTimePerTransaction'
      BY <2>1, <2>5, <3>2 DEF OneTimePerTransaction
    <3> QED
      BY <2>1, <2>2, <2>5, <3>2, <3>3 DEF settings
  <2> QED
    BY <2>3, <2>4, <2>5
<1>12. CASE EndStatement \/ FailStatement \/ EndTransaction \/ SyncTable
  <2>1. UNCHANGED <<settings, begun, promised, now>> /\ phase # "idle"
    BY <1>12 DEF EndStatement, FailStatement, EndTransaction, SyncTable
  <2> QED
    BY <2>1 DEF settings, promised, OneTimePerTransaction
<1>13. CASE CommitTables \/ RollbackTables
  <2>1. UNCHANGED <<stamps, retimed, now>> /\ phase' = "idle" /\ (ReleaseTime \/ UNCHANGED settings)
    BY <1>13 DEF CommitTables, RollbackTables, Ended
  <2> QED
    BY <1>3, <1>4, <2>1
<1>14. CASE Crash
  BY <1>3, <1>14 DEF Crash, Background, promised
<1>15. ASSUME NEW t \in Tables, Connect(t) \/ Disconnect(t) PROVE TimeInv'
  <2>1. /\ UNCHANGED <<stamps, retimed, now, writeTime, unsettled, phase>> /\ phase = "idle"
        /\ ctx'.time = ctx.time
    BY <1>1, <1>15 DEF Connect, Disconnect, settings, sqlite, promised, Context
  <2> QED
    BY <1>3, <2>1
<1>16. ASSUME NEW t \in Tables, Refresh(t) \/ Vacuum(t) PROVE TimeInv'
  <2>1. UNCHANGED <<settings, begun, tx, retimed, stamps, now, phase>>
    BY <1>16 DEF Refresh, Vacuum, sqlite
  <2> QED
    BY <1>2, <2>1 DEF settings
<1> QED
  BY <1>5, <1>6, <1>7, <1>8, <1>9, <1>10, <1>11, <1>12, <1>13, <1>14, <1>15, <1>16 DEF Next

(***************************************************************************)
(* The rows a transaction writes, in whichever tables, have one time, if   *)
(* azb_conn is not updated in it or failed to be before: Begin fixes it,   *)
(* no other Begin changes it, and only its own end releases it.            *)
(***************************************************************************)
THEOREM ConnOneTimePerTransaction == Spec => []OneTimePerTransaction
<1>1. Init => TimeInv
  BY DEF Init, Background, TimeInv, OneTimePerTransaction
<1>2. Spec => []TimeInv
  BY <1>1, SpecInv, TimeStep, PTL DEF Spec
<1>3. TimeInv => OneTimePerTransaction
  BY DEF TimeInv
<1> QED
  BY <1>2, <1>3, PTL

=============================================================================
