-------------------------- MODULE ConnectionProofs --------------------------
(***************************************************************************)
(* Theorems about Connection for any set of tables, read-only or not, any  *)
(* write times and any bounds: types, what is left between transactions,   *)
(* and that a committed transaction is stored.                             *)
(***************************************************************************)
EXTENDS Connection, TLAPS

(* Tables that wait for their Sync. *)
Waiting == {left[i] : i \in DOMAIN left}

(* Only a failed Begin leaves a fixed time without a table that will release it. *)
FixedInv == txFixedWriteTime /\ begun = <<>> => refused

(* Clones are clean, and a dirty table has one; it is in the transaction, and will be synced. *)
StartInv ==
    \A t \in Tables :
        /\ tree[t].dirty => t \notin ReadOnly /\ txStart[t] # NoStart
        /\ txStart[t] # NoStart => ~txStart[t].dirty
        /\ t \notin ReadOnly /\ txStart[t] # NoStart =>
             phase # "idle" /\ t \in Joined /\ (phase = "sync" => t \in Waiting)

(* A table in a transaction under way has a clone. *)
JoinedInv ==
    /\ phase = "idle" => begun = <<>>
    /\ phase \in {"open", "statement"} => \A t \in Joined : txStart[t] # NoStart
    /\ phase = "statement" => on \subseteq Joined

(* The transaction under way is the last one, and not committed. *)
TxInv ==
    /\ phase # "idle" => tx \in 1..tx /\ tx \notin done
    /\ \A t \in Tables : \A w \in accepted[t] : w.tx <= tx

(* What the transaction under way wrote is stored, or will be. *)
KeptInv ==
    phase \in {"open", "statement", "sync"} =>
        \A t \in Tables : \A w \in accepted[t] :
            w.tx = tx /\ <<tx, t>> \notin dropped =>
                w \in store[t] \/ (tree[t].dirty /\ w \in tree[t].rows)

IInv == TypeOK /\ FixedInv /\ StartInv /\ JoinedInv /\ TxInv /\ KeptInv /\ CommittedIsStored

(* A write time that azb_conn shows, read back, is a time. *)
LEMMA WholeType == ASSUME NEW t \in Nat PROVE Whole(t) \in Nat
  BY DEF Whole

(* A table that joins is in the transaction, with those that joined before. *)
LEMMA JoinedGrows ==
  ASSUME TypeOK, NEW t \in Tables, begun' = Append(begun, t)
  PROVE  begun' \in Seq(Tables) /\ begun' # <<>> /\ Joined' = Joined \union {t}
<1>0. begun \in Seq(Tables)
  BY DEF TypeOK
<1>1. /\ begun \in Seq(Tables) /\ begun' \in Seq(Tables) /\ begun' # <<>>
      /\ DOMAIN begun' = 1..(Len(begun) + 1)
      /\ DOMAIN begun = 1..Len(begun) /\ Len(begun) \in Nat
  BY <1>0
<1>2. /\ begun'[Len(begun) + 1] = t
      /\ \A i \in 1..Len(begun) : begun'[i] = begun[i]
  BY <1>1
<1>3. \A i \in 1..(Len(begun) + 1) : i = Len(begun) + 1 \/ i \in 1..Len(begun)
  BY <1>1
<1>4. Len(begun) + 1 \in DOMAIN begun' /\ DOMAIN begun \subseteq DOMAIN begun'
  BY <1>1
<1>5. Joined' \subseteq Joined \union {t}
  BY <1>1, <1>2, <1>3 DEF Joined
<1>6. Joined \union {t} \subseteq Joined'
  BY <1>1, <1>2, <1>4 DEF Joined
<1> QED
  BY <1>1, <1>5, <1>6

(* A table that has been synced is the only one that does not wait any more. *)
LEMMA WaitingShrinks ==
  ASSUME TypeOK, left # <<>>, left' = Tail(left)
  PROVE  /\ left' \in Seq(Tables) /\ Head(left) \in Tables
         /\ \A s \in Waiting : s = Head(left) \/ s \in Waiting'
<1>0. left \in Seq(Tables)
  BY DEF TypeOK
<1>1. /\ left \in Seq(Tables) /\ left' \in Seq(Tables)
      /\ DOMAIN left = 1..Len(left) /\ Len(left) \in Nat /\ Len(left) > 0
      /\ DOMAIN left' = 1..(Len(left) - 1) /\ left[1] = Head(left)
  BY <1>0
<1>2. \A i \in 1..(Len(left) - 1) : left'[i] = left[i + 1]
  BY <1>1
<1>3. ASSUME NEW i \in 1..Len(left)
      PROVE  left[i] = Head(left) \/ left[i] \in Waiting'
  <2>1. CASE i = 1
    BY <2>1, <1>1
  <2>2. CASE i # 1
    <3>1. i - 1 \in 1..(Len(left) - 1) /\ left'[i - 1] = left[i]
      BY <1>1, <1>2, <2>2
    <3> QED
      BY <1>1, <3>1 DEF Waiting
  <2> QED
    BY <2>1, <2>2
<1> QED
  BY <1>1, <1>3 DEF Waiting

(* Parts of the types of the context, the trees and the stores. *)
LEMMA ContextType ==
  ASSUME NEW a \in Nat, NEW u \in {"none", "deadline", "former"}, NEW l \in BOOLEAN
  PROVE  [time |-> a, until |-> u, live |-> l] \in Context
  BY DEF Context

LEMMA ResetType ==
  ASSUME NEW wt \in Nat, NEW dl \in {"none", "ahead", "past"}, ResetContext(wt, dl)
  PROVE  ctx' \in Context /\ ctxCancel' \in BOOLEAN /\ unsettled' \in BOOLEAN
<1>1. ctxCancel' \in BOOLEAN /\ unsettled' \in BOOLEAN
  BY DEF ResetContext
<1>2. ctx' \in Context
  <2> DEFINE u == IF dl = "none" THEN "none" ELSE "deadline"
             l == dl # "past"
  <2>1. u \in {"none", "deadline", "former"} /\ l \in BOOLEAN
    OBVIOUS
  <2>2. ctx' = [time |-> wt, until |-> u, live |-> l]
    BY DEF ResetContext
  <2> HIDE DEF u, l
  <2> QED
    BY <2>1, <2>2, ContextType
<1> QED
  BY <1>1, <1>2

(* The settings are well typed after a table has begun, and after it has ended. *)
LEMMA SettingsType ==
  ASSUME TypeOK, \/ FixTime \/ ReleaseTime \/ UNCHANGED settings
  PROVE  /\ writeTime' \in Nat /\ txFixedWriteTime' \in BOOLEAN
         /\ deadline' \in {"none", "ahead", "past"}
         /\ ctx' \in Context /\ ctxCancel' \in BOOLEAN /\ unsettled' \in BOOLEAN
<1>1. CASE UNCHANGED settings
  BY <1>1 DEF TypeOK, settings
<1>2. CASE writeTime' = now /\ txFixedWriteTime' = TRUE /\ ResetContext(now, deadline)
           /\ UNCHANGED deadline
  BY <1>2, ResetType DEF TypeOK
<1>3. CASE writeTime' = 0 /\ txFixedWriteTime' = FALSE /\ ResetContext(0, deadline)
           /\ UNCHANGED deadline
  <2>1. 0 \in Nat /\ deadline \in {"none", "ahead", "past"}
    BY DEF TypeOK
  <2>2. ctx' \in Context /\ ctxCancel' \in BOOLEAN /\ unsettled' \in BOOLEAN
    BY <1>3, <2>1, ResetType
  <2> QED
    BY <1>3, <2>1, <2>2
<1> QED
  BY <1>1, <1>2, <1>3 DEF FixTime, ReleaseTime

LEMMA CleanTree ==
  ASSUME TypeOK, NEW t \in Tables
  PROVE  /\ Clean(t) \in [Tables -> Tree]
         /\ \A s \in Tables : Clean(t)[s].rows = tree[s].rows
         /\ \A s \in Tables \ {t} : Clean(t)[s] = tree[s]
         /\ ~Clean(t)[t].dirty
<1> DEFINE c == [tree[t] EXCEPT !.dirty = FALSE]
<1>1. tree[t] \in Tree /\ tree \in [Tables -> Tree]
  BY DEF TypeOK
<1>2. c \in Tree /\ c.rows = tree[t].rows /\ ~c.dirty
  BY <1>1 DEF Tree
<1>3. Clean(t) = [tree EXCEPT ![t] = c]
  BY DEF Clean
<1> HIDE DEF c
<1> QED
  BY <1>1, <1>2, <1>3

LEMMA StoredTree ==
  ASSUME TypeOK, NEW t \in Tables
  PROVE  /\ Stored(t) \in [Tables -> SUBSET Write]
         /\ \A s \in Tables : store[s] \subseteq Stored(t)[s]
         /\ tree[t].dirty => tree[t].rows \subseteq Stored(t)[t]
<1>1. store \in [Tables -> SUBSET Write] /\ tree[t].rows \subseteq Write
  BY DEF TypeOK, Tree
<1> QED
  BY <1>1 DEF Stored

LEMMA InitInv == Init => IInv
<1> SUFFICES ASSUME Init PROVE IInv
  OBVIOUS
<1> USE DEF Init
<1>1. TypeOK
  <2>1. /\ tree \in [Tables -> Tree] /\ txStart \in [Tables -> Tree]
        /\ begun \in Seq(Tables) /\ left \in Seq(Tables)
    BY DEF NoTree, NoStart, Tree
  <2>2. ctx \in Context
    BY DEF Background, Context
  <2> QED
    BY <2>1, <2>2 DEF TypeOK
<1>2. FixedInv /\ StartInv
  BY DEF FixedInv, StartInv, NoTree
<1>3. JoinedInv /\ TxInv /\ KeptInv /\ CommittedIsStored
  BY DEF JoinedInv, Joined, TxInv, KeptInv, CommittedIsStored, WritesOf
<1> QED
  BY <1>1, <1>2, <1>3 DEF IInv

(* The clock moves. *)
LEMMA TickInv ==
  ASSUME IInv, Tick
  PROVE  IInv'
<1> USE DEF IInv, Tick
<1>1. TypeOK'
  <2>1. now' \in Nat
    BY DEF TypeOK
  <2> QED
    BY <2>1 DEF TypeOK, settings, sqlite, promised
<1>2. FixedInv'
  BY DEF FixedInv, settings, sqlite, promised
<1>3. StartInv'
  BY DEF StartInv, Joined, Waiting, settings, sqlite, promised
<1>4. JoinedInv'
  BY DEF JoinedInv, Joined, settings, sqlite, promised
<1>5. TxInv'
  BY DEF TxInv, settings, sqlite, promised
<1>6. KeptInv'
  BY DEF KeptInv, settings, sqlite, promised
<1>7. CommittedIsStored'
  BY DEF CommittedIsStored, WritesOf, settings, sqlite, promised
<1> QED
  BY <1>1, <1>2, <1>3, <1>4, <1>5, <1>6, <1>7

(* A deadline passes. *)
LEMMA DeadlinePassesInv ==
  ASSUME IInv, DeadlinePasses
  PROVE  IInv'
<1> USE DEF IInv, DeadlinePasses
<1>1. TypeOK'
  <2>1. PICK u \in BOOLEAN : ctx' = [ctx EXCEPT !.live = u]
    <3>1. CASE ctx' = [ctx EXCEPT !.live = @ /\ ctx.until # "deadline"]
      <4> DEFINE u == ctx.live /\ ctx.until # "deadline"
      <4>1. u \in BOOLEAN /\ ctx' = [ctx EXCEPT !.live = u]
        BY <3>1 DEF TypeOK, Context
      <4> QED
        BY <4>1
    <3>2. CASE ctx' = [ctx EXCEPT !.live = FALSE]
      BY <3>2
    <3> QED
      BY <3>1, <3>2
  <2>2. ctx' \in Context
    BY <2>1 DEF TypeOK, Context
  <2> QED
    BY <2>2 DEF TypeOK, sqlite, promised
<1>2. FixedInv'
  BY DEF FixedInv, settings, sqlite, promised
<1>3. StartInv'
  BY DEF StartInv, Joined, Waiting, settings, sqlite, promised
<1>4. JoinedInv'
  BY DEF JoinedInv, Joined, settings, sqlite, promised
<1>5. TxInv'
  BY DEF TxInv, settings, sqlite, promised
<1>6. KeptInv'
  BY DEF KeptInv, settings, sqlite, promised
<1>7. CommittedIsStored'
  BY DEF CommittedIsStored, WritesOf, settings, sqlite, promised
<1> QED
  BY <1>1, <1>2, <1>3, <1>4, <1>5, <1>6, <1>7

(* Settings change. *)
LEMMA UpdateConnInv ==
  ASSUME IInv, NEW dl \in {"keep", "none", "ahead"}, NEW wt \in UserTimes \union {0, -1}, NEW stage \in {"write_time", "later", "done"}, UpdateConn(dl, wt, stage)
  PROVE  IInv'
<1> USE DEF IInv, UpdateConn
<1>1. TypeOK'
  <2>1. deadline' \in {"none", "ahead", "past"} /\ writeTime' \in Nat
    BY WholeType, TimesAssumption DEF TypeOK
  <2>2. ctx' \in Context
    <3>1. CASE stage = "done"
      BY <3>1, <2>1, ResetType
    <3>2. CASE stage # "done"
      <4>1. CASE ctx' = ctx
        BY <4>1 DEF TypeOK
      <4>2. CASE ctx' = Background
        BY <4>2 DEF Background, Context
      <4>3. CASE ctx' = [ctx EXCEPT !.until = "former"]
        BY <4>3 DEF TypeOK, Context
      <4> QED
        BY <3>2, <4>1, <4>2, <4>3
    <3> QED
      BY <3>1, <3>2
  <2>3. txFixedWriteTime' \in BOOLEAN /\ ctxCancel' \in BOOLEAN /\ unsettled' \in BOOLEAN
    BY <2>1, ResetType DEF TypeOK
  <2>4. retimed' \subseteq 1..tx
    BY DEF TypeOK, Retimed, TxInv
  <2>5. calls' \in Nat
    BY DEF TypeOK, Call
  <2>6. UNCHANGED <<tables, tree, txStart, sqlite, store, tx, done, undone, accepted, stamps,
                    vacuumed, dropped, refused, now, faults>>
    BY DEF sqlite
  <2> HIDE DEF UpdateConn
  <2> QED
    BY <2>1, <2>2, <2>3, <2>4, <2>5, <2>6 DEF TypeOK, sqlite
<1>2. FixedInv'
  BY DEF FixedInv, settings, sqlite, promised
<1>3. StartInv'
  BY DEF StartInv, Joined, Waiting, settings, sqlite, promised
<1>4. JoinedInv'
  BY DEF JoinedInv, Joined, settings, sqlite, promised
<1>5. TxInv'
  BY DEF TxInv, settings, sqlite, promised
<1>6. KeptInv'
  BY DEF KeptInv, settings, sqlite, promised
<1>7. CommittedIsStored'
  BY DEF CommittedIsStored, WritesOf, settings, sqlite, promised
<1> QED
  BY <1>1, <1>2, <1>3, <1>4, <1>5, <1>6, <1>7

(* A table is opened. *)
LEMMA ConnectInv ==
  ASSUME IInv, NEW t \in Tables, Connect(t)
  PROVE  IInv'
<1> USE DEF IInv, Connect, NewTable, AddTable
<1>1. TypeOK'
  BY DEF TypeOK, settings, sqlite, promised, Opened, Tree, NoStart
<1>2. FixedInv'
  BY DEF FixedInv, settings, sqlite, promised
<1>3. StartInv'
  BY DEF StartInv, Joined, Waiting, settings, sqlite, promised, Opened, NoStart
<1>4. JoinedInv'
  BY DEF JoinedInv, Joined, settings, sqlite, promised
<1>5. TxInv'
  BY DEF TxInv, settings, sqlite, promised
<1>6. KeptInv'
  BY DEF KeptInv, settings, sqlite, promised, Opened
<1>7. CommittedIsStored'
  BY DEF CommittedIsStored, WritesOf, settings, sqlite, promised
<1> QED
  BY <1>1, <1>2, <1>3, <1>4, <1>5, <1>6, <1>7

(* A table is dropped. *)
LEMMA DisconnectInv ==
  ASSUME IInv, NEW t \in Tables, Disconnect(t)
  PROVE  IInv'
<1> USE DEF IInv, Disconnect, CloseTable, RemoveTable
<1>1. TypeOK'
  <2>1. tree' \in [Tables -> Tree] /\ txStart' \in [Tables -> Tree]
    BY DEF TypeOK, NoTree, NoStart, Tree
  <2>2. ctx' \in Context
    <3> DEFINE l == ctx.live /\ ~(ctxCancel /\ ctx.until # "none")
    <3>1. ctx \in Context /\ l \in BOOLEAN /\ ctx' = [ctx EXCEPT !.live = l]
      BY DEF TypeOK
    <3> HIDE DEF l
    <3> QED
      BY <3>1 DEF Context
  <2>3. tables' \subseteq Tables /\ calls' \in Nat
    BY DEF TypeOK, Call
  <2>4. UNCHANGED <<writeTime, txFixedWriteTime, deadline, unsettled, sqlite, store, promised,
                    now, faults>> /\ ctxCancel' = FALSE
    BY DEF sqlite
  <2> HIDE DEF Disconnect
  <2> QED
    BY <2>1, <2>2, <2>3, <2>4 DEF TypeOK, sqlite, promised
<1>2. FixedInv'
  BY DEF FixedInv, settings, sqlite, promised
<1>3. StartInv'
  BY DEF StartInv, Joined, Waiting, settings, sqlite, promised, NoTree, NoStart, TypeOK
<1>4. JoinedInv'
  BY DEF JoinedInv, Joined, settings, sqlite, promised
<1>5. TxInv'
  BY DEF TxInv, settings, sqlite, promised
<1>6. KeptInv'
  BY DEF KeptInv, settings, sqlite, promised
<1>7. CommittedIsStored'
  BY DEF CommittedIsStored, WritesOf, settings, sqlite, promised
<1> QED
  BY <1>1, <1>2, <1>3, <1>4, <1>5, <1>6, <1>7

(* A table is refreshed: what it had pending is dropped. *)
LEMMA RefreshInv ==
  ASSUME IInv, NEW t \in Tables, Refresh(t)
  PROVE  IInv'
<1> USE DEF IInv, Refresh
<1>1. TypeOK'
  BY DEF TypeOK, settings, sqlite, promised, Opened, Tree, Call, Pending, Between, TxInv, StartInv
<1>2. FixedInv'
  BY DEF FixedInv, settings, sqlite, promised
<1>3. StartInv'
  BY DEF StartInv, Joined, Waiting, settings, sqlite, promised, Opened
<1>4. JoinedInv'
  BY DEF JoinedInv, Joined, settings, sqlite, promised
<1>5. TxInv'
  BY DEF TxInv, settings, sqlite, promised
<1>6. KeptInv'
  BY DEF KeptInv, settings, sqlite, promised, Opened, Pending
<1>7. CommittedIsStored'
  BY DEF CommittedIsStored, WritesOf, settings, sqlite, promised
<1> QED
  BY <1>1, <1>2, <1>3, <1>4, <1>5, <1>6, <1>7

(* A vacuum stores what is pending. *)
LEMMA VacuumInv ==
  ASSUME IInv, NEW t \in Tables, Vacuum(t)
  PROVE  IInv'
<1> USE DEF IInv, Vacuum
<1>0. \/ store' = Stored(t) /\ tree' = Clean(t)
      \/ store' \in {store, Stored(t)} /\ tree' = tree
  BY DEF CommitFails
<1>1. TypeOK'
  <2>1. tree' \in [Tables -> Tree] /\ store' \in [Tables -> SUBSET Write]
    BY <1>0, CleanTree, StoredTree DEF TypeOK
  <2>2. calls' \in Nat /\ faults' \in Nat
    <3>1. calls' = calls + 1
      BY DEF Call
    <3>2. faults' = faults \/ faults' = faults + 1
      BY DEF Fault, CommitFails
    <3> QED
      BY <3>1, <3>2 DEF TypeOK
  <2>3. vacuumed' \subseteq (1..tx) \X Tables
    BY DEF TypeOK, Pending, StartInv, TxInv
  <2> QED
    BY <2>1, <2>2, <2>3 DEF TypeOK, settings, sqlite
<1>2. FixedInv'
  BY DEF FixedInv, settings, sqlite, promised
<1>3. StartInv'
  BY <1>0, CleanTree DEF StartInv, Joined, Waiting, sqlite
<1>4. JoinedInv'
  BY DEF JoinedInv, Joined, settings, sqlite, promised
<1>5. TxInv'
  BY DEF TxInv, settings, sqlite, promised
<1>6. KeptInv'
  <2>1. \A s \in Tables : store[s] \subseteq store'[s]
    BY <1>0, StoredTree
  <2>2. \A s \in Tables : tree[s].dirty => tree'[s] = tree[s] \/ tree[s].rows \subseteq store'[s]
    BY <1>0, CleanTree, StoredTree
  <2> HIDE DEF Vacuum
  <2>3. UNCHANGED <<phase, accepted, tx, dropped>>
    BY DEF Vacuum, sqlite
  <2> QED
    BY <2>1, <2>2, <2>3 DEF KeptInv
<1>7. CommittedIsStored'
  BY <1>0, StoredTree DEF CommittedIsStored, WritesOf
<1> QED
  BY <1>1, <1>2, <1>3, <1>4, <1>5, <1>6, <1>7

(* A transaction begins. *)
LEMMA BeginTransactionInv ==
  ASSUME IInv, BeginTransaction
  PROVE  IInv'
<1> USE DEF IInv, BeginTransaction
<1>1. TypeOK'
  BY DEF TypeOK, NewTransaction, settings, sqlite, promised
<1>2. FixedInv'
  BY DEF FixedInv, settings, sqlite, promised, NewTransaction, TypeOK
<1>3. StartInv'
  BY DEF StartInv, Joined, Waiting, settings, sqlite, promised, NewTransaction, TypeOK
<1>4. JoinedInv'
  BY DEF JoinedInv, Joined, settings, sqlite, promised, NewTransaction, TypeOK
<1>5. TxInv'
  <2>1. tx' \in Nat /\ tx' > tx /\ tx' \notin done
    BY DEF NewTransaction, TypeOK
  <2>2. \A t \in Tables : \A w \in accepted[t] : w.tx \in Nat /\ w.tx <= tx
    BY DEF TypeOK, Write, TxInv
  <2> QED
    BY <2>1, <2>2 DEF TxInv, TypeOK
<1>6. KeptInv'
  <2>1. \A t \in Tables : \A w \in accepted[t] : w.tx # tx'
    BY DEF NewTransaction, TypeOK, Write, TxInv
  <2> QED
    BY <2>1 DEF KeptInv
<1>7. CommittedIsStored'
  BY DEF CommittedIsStored, WritesOf, settings, sqlite, promised, NewTransaction, TypeOK
<1> QED
  BY <1>1, <1>2, <1>3, <1>4, <1>5, <1>6, <1>7

(* A row is written. *)
LEMMA WriteRowInv ==
  ASSUME IInv, WriteRow
  PROVE  IInv'
<1> USE DEF IInv, WriteRow
<1>0. PICK t \in on \ ReadOnly, w \in [tx : {tx}, nr : 1..MaxRows] :
         /\ tree' = [tree EXCEPT ![t] = [rows |-> @.rows \union {w}, dirty |-> TRUE]]
         /\ accepted' = [accepted EXCEPT ![t] = @ \union {w}]
  OBVIOUS
<1>01. /\ t \in Tables /\ t \in Joined /\ txStart[t] # NoStart
      /\ w \in Write /\ w.tx = tx /\ tx \in Nat
  BY <1>0, TimesAssumption DEF TypeOK, JoinedInv, Write
<1>1. TypeOK'
  <2>1. tree' \in [Tables -> Tree] /\ accepted' \in [Tables -> SUBSET Write]
    <3> DEFINE r == [rows |-> tree[t].rows \union {w}, dirty |-> TRUE]
    <3>1. tree \in [Tables -> Tree] /\ tree[t] \in Tree
      BY <1>01 DEF TypeOK
    <3>2. r \in Tree
      BY <3>1, <1>01 DEF Tree
    <3>3. tree' = [tree EXCEPT ![t] = r]
      BY <1>0
    <3> HIDE DEF r
    <3>4. tree' \in [Tables -> Tree]
      BY <3>1, <3>2, <3>3
    <3> QED
      <4>1. accepted \in [Tables -> SUBSET Write] /\ accepted[t] \union {w} \in SUBSET Write
        BY <1>01 DEF TypeOK
      <4>2. accepted' \in [Tables -> SUBSET Write]
        BY <4>1, <1>0
      <4> QED
        BY <3>4, <4>2
  <2>2. stamps' \subseteq (1..tx) \X Nat
    <3>1. UpdateTime \in Nat
      BY DEF TypeOK, UpdateTime, Context
    <3>2. tx \in 1..tx
      BY DEF TxInv
    <3> QED
      BY <3>1, <3>2 DEF TypeOK
  <2>3. retimed' \subseteq 1..tx
    BY DEF TypeOK, TxInv
  <2> QED
    BY <2>1, <2>2, <2>3 DEF TypeOK, settings, sqlite
<1>2. FixedInv'
  BY DEF FixedInv, settings, sqlite, promised
<1>3. StartInv'
  BY <1>0, <1>01 DEF StartInv, Joined, Waiting, TypeOK, sqlite
<1>4. JoinedInv'
  BY DEF JoinedInv, Joined, settings, sqlite, promised
<1>5. TxInv'
  BY <1>0, <1>01 DEF TxInv, TypeOK, sqlite
<1>6. KeptInv'
  BY <1>0, <1>01 DEF KeptInv, TypeOK, Tree, sqlite
<1>7. CommittedIsStored'
  BY <1>0, <1>01 DEF CommittedIsStored, WritesOf, TxInv, TypeOK
<1> QED
  BY <1>1, <1>2, <1>3, <1>4, <1>5, <1>6, <1>7

(* A statement ends. *)
LEMMA EndStatementInv ==
  ASSUME IInv, EndStatement
  PROVE  IInv'
<1> USE DEF IInv, EndStatement
<1>1. TypeOK'
  BY DEF TypeOK, settings, sqlite, promised
<1>2. FixedInv'
  BY DEF FixedInv, settings, sqlite, promised
<1>3. StartInv'
  BY DEF StartInv, Joined, Waiting, settings, sqlite, promised
<1>4. JoinedInv'
  BY DEF JoinedInv, Joined, settings, sqlite, promised
<1>5. TxInv'
  BY DEF TxInv, settings, sqlite, promised
<1>6. KeptInv'
  BY DEF KeptInv, settings, sqlite, promised
<1>7. CommittedIsStored'
  BY DEF CommittedIsStored, WritesOf, settings, sqlite, promised
<1> QED
  BY <1>1, <1>2, <1>3, <1>4, <1>5, <1>6, <1>7

(* A statement fails. *)
LEMMA FailStatementInv ==
  ASSUME IInv, FailStatement
  PROVE  IInv'
<1> USE DEF IInv, FailStatement
<1>1. TypeOK'
  BY DEF TypeOK, settings, sqlite, promised
<1>2. FixedInv'
  BY DEF FixedInv, settings, sqlite, promised
<1>3. StartInv'
  BY DEF StartInv, Joined, Waiting, settings, sqlite, promised
<1>4. JoinedInv'
  BY DEF JoinedInv, Joined, settings, sqlite, promised
<1>5. TxInv'
  BY DEF TxInv, settings, sqlite, promised
<1>6. KeptInv'
  BY DEF KeptInv, settings, sqlite, promised
<1>7. CommittedIsStored'
  BY DEF CommittedIsStored, WritesOf, settings, sqlite, promised
<1> QED
  BY <1>1, <1>2, <1>3, <1>4, <1>5, <1>6, <1>7

(* A transaction ends. *)
LEMMA EndTransactionInv ==
  ASSUME IInv, EndTransaction
  PROVE  IInv'
<1> USE DEF IInv, EndTransaction
<1>1. TypeOK'
  BY DEF TypeOK, settings, sqlite, promised
<1>2. FixedInv'
  BY DEF FixedInv, settings, sqlite, promised
<1>3. StartInv'
  BY DEF StartInv, Joined, Waiting, settings, sqlite, promised
<1>4. JoinedInv'
  BY DEF JoinedInv, Joined, settings, sqlite, promised
<1>5. TxInv'
  BY DEF TxInv, settings, sqlite, promised
<1>6. KeptInv'
  BY DEF KeptInv, settings, sqlite, promised
<1>7. CommittedIsStored'
  BY DEF CommittedIsStored, WritesOf, settings, sqlite, promised
<1> QED
  BY <1>1, <1>2, <1>3, <1>4, <1>5, <1>6, <1>7

(* All tables are committed. *)
LEMMA CommitTablesInv ==
  ASSUME IInv, CommitTables
  PROVE  IInv'
<1> USE DEF IInv, CommitTables
<1>1. TypeOK'
  <2>1. /\ writeTime' \in Nat /\ txFixedWriteTime' \in BOOLEAN /\ ctxCancel' \in BOOLEAN
        /\ unsettled' \in BOOLEAN /\ deadline' \in {"none", "ahead", "past"}
        /\ ctx' \in Context
    BY SettingsType
  <2> QED
    BY <2>1 DEF TypeOK, Ended, TxInv
<1>2. FixedInv'
  BY DEF FixedInv, settings, sqlite, promised, Ended, ReleaseTime
<1>3. StartInv'
  BY DEF StartInv, Joined, Waiting, settings, sqlite, promised, Ended
<1>4. JoinedInv'
  BY DEF JoinedInv, Joined, settings, sqlite, promised, Ended
<1>5. TxInv'
  BY DEF TxInv, settings, sqlite, promised, Ended
<1>6. KeptInv'
  BY DEF KeptInv, settings, sqlite, promised, Ended
<1>7. CommittedIsStored'
  BY DEF CommittedIsStored, WritesOf, settings, sqlite, promised, Ended, KeptInv, StartInv, Waiting
<1> QED
  BY <1>1, <1>2, <1>3, <1>4, <1>5, <1>6, <1>7

(* All tables are rolled back. *)
LEMMA RollbackTablesInv ==
  ASSUME IInv, RollbackTables
  PROVE  IInv'
<1> USE DEF IInv, RollbackTables
<1>1. TypeOK'
  <2>1. /\ writeTime' \in Nat /\ txFixedWriteTime' \in BOOLEAN /\ ctxCancel' \in BOOLEAN
        /\ unsettled' \in BOOLEAN /\ deadline' \in {"none", "ahead", "past"}
        /\ ctx' \in Context
    BY SettingsType
  <2>2. tree' \in [Tables -> Tree] /\ txStart' \in [Tables -> Tree]
    BY DEF TypeOK, Restored, NoStart, Tree
  <2>3. undone' \subseteq 1..tx
    BY DEF TypeOK, TxInv
  <2>4. UNCHANGED <<tables, on, store, tx, done, accepted, stamps, vacuumed, dropped, retimed,
                    refused, now, calls, faults>> /\ Ended
    OBVIOUS
  <2> HIDE DEF RollbackTables
  <2>5. /\ phase' \in {"idle", "open", "statement", "sync", "rollback"} /\ explicit' \in BOOLEAN
        /\ begun' \in Seq(Tables) /\ left' \in Seq(Tables)
    <3>1. phase' = "idle" /\ explicit' = FALSE /\ begun' = <<>> /\ left' = <<>>
      BY <2>4 DEF Ended
    <3>2. <<>> \in Seq(Tables) /\ FALSE \in BOOLEAN
      OBVIOUS
    <3> QED
      BY <3>1, <3>2
  <2> QED
    BY <2>1, <2>2, <2>3, <2>4, <2>5 DEF TypeOK
<1>2. FixedInv'
  BY DEF FixedInv, settings, sqlite, promised, Ended, ReleaseTime
<1>3. StartInv'
  BY DEF StartInv, Joined, Waiting, settings, sqlite, promised, Ended, Restored, TypeOK
<1>4. JoinedInv'
  BY DEF JoinedInv, Joined, settings, sqlite, promised, Ended
<1>5. TxInv'
  BY DEF TxInv, settings, sqlite, promised, Ended
<1>6. KeptInv'
  BY DEF KeptInv, settings, sqlite, promised, Ended
<1>7. CommittedIsStored'
  BY DEF CommittedIsStored, WritesOf, settings, sqlite, promised
<1> QED
  BY <1>1, <1>2, <1>3, <1>4, <1>5, <1>6, <1>7

(* A statement starts, and its table joins the transaction. *)
LEMMA StartStatementInv ==
  ASSUME IInv, NEW t \in Tables, StartStatement(t)
  PROVE  IInv'
<1> USE DEF IInv, StartStatement
<1>0. \/ /\ t \in Joined /\ begun' = begun /\ txStart' = txStart
         /\ phase' = "statement" /\ on' = {t}
      \/ /\ t \notin Joined /\ BeginTable(t) /\ begun' = Append(begun, t)
         /\ phase' = "statement" /\ on' = {t}
      \/ /\ t \notin Joined /\ txStart[t] # NoStart /\ refused' = TRUE
         /\ UNCHANGED <<phase, on, txStart, begun>>
  OBVIOUS
<1>01. Joined' = Joined \/ (Joined' = Joined \union {t} /\ begun' = Append(begun, t))
  <2>1. CASE begun' = begun
    <3>1. Joined' = Joined
      BY <2>1 DEF Joined
    <3> QED
      BY <3>1
  <2>2. CASE begun' = Append(begun, t)
    BY <2>2, JoinedGrows
  <2> QED
    BY <1>0, <2>1, <2>2
<1>1. TypeOK'
  <2>1. /\ writeTime' \in Nat /\ txFixedWriteTime' \in BOOLEAN /\ ctxCancel' \in BOOLEAN
        /\ unsettled' \in BOOLEAN /\ deadline' \in {"none", "ahead", "past"}
        /\ ctx' \in Context
    BY SettingsType
  <2>2. tx' \in Nat /\ tx <= tx'
    BY DEF TypeOK, NewTransaction
  <2>3. txStart' \in [Tables -> Tree] /\ begun' \in Seq(Tables)
    BY <1>0, JoinedGrows DEF TypeOK, BeginTable
  <2>4. on' \subseteq Tables /\ phase' \in {"idle", "open", "statement", "sync", "rollback"}
        /\ refused' \in BOOLEAN
    BY DEF TypeOK
  <2>5. /\ stamps \subseteq (1..tx') \X Nat
        /\ done \subseteq 1..tx' /\ undone \subseteq 1..tx' /\ retimed \subseteq 1..tx'
        /\ vacuumed \subseteq (1..tx') \X Tables /\ dropped \subseteq (1..tx') \X Tables
    <3>1. 1..tx \subseteq 1..tx'
      BY <2>2 DEF TypeOK
    <3> QED
      BY <3>1 DEF TypeOK
  <2> QED
    BY <2>1, <2>2, <2>3, <2>4, <2>5 DEF TypeOK
<1>2. FixedInv'
  <2>1. CASE begun' = Append(begun, t)
    BY <2>1, JoinedGrows DEF FixedInv
  <2>2. CASE t \in Joined
    BY <2>2, <1>0 DEF FixedInv, Joined, settings
  <2>3. CASE refused' = TRUE
    BY <2>3 DEF FixedInv
  <2> QED
    BY <1>0, <2>1, <2>2, <2>3
<1>3. StartInv'
  <2>1. \A s \in Tables : txStart'[s] # NoStart /\ s \notin ReadOnly => s \in Joined' /\ phase' # "idle"
    <3>1. CASE begun' = begun /\ txStart' = txStart
      BY <3>1, <1>0 DEF StartInv, Joined
    <3>2. CASE BeginTable(t) /\ begun' = Append(begun, t) /\ phase' = "statement"
      <4>1. Joined' = Joined \union {t}
        BY <3>2, JoinedGrows
      <4> QED
        BY <3>2, <4>1 DEF StartInv, BeginTable, TypeOK
    <3> QED
      BY <1>0, <3>1, <3>2
  <2> QED
    BY <1>0, <2>1 DEF StartInv, BeginTable, TypeOK, Between
<1>4. JoinedInv'
  <2>1. phase' = "idle" => begun' = <<>>
    BY <1>0 DEF JoinedInv
  <2>2. phase' \in {"open", "statement"} => \A s \in Joined' : txStart'[s] # NoStart
    <3>1. \A s \in Joined : txStart[s] # NoStart
      BY DEF JoinedInv, Joined, Between
    <3>2. CASE begun' = begun /\ txStart' = txStart
      BY <3>1, <3>2 DEF Joined
    <3>3. CASE BeginTable(t) /\ begun' = Append(begun, t)
      <4>1. ~tree[t].dirty
        BY <3>3 DEF StartInv, BeginTable
      <4>2. txStart'[t] # NoStart /\ \A s \in Tables \ {t} : txStart'[s] = txStart[s]
        BY <3>3, <4>1 DEF BeginTable, NoStart, TypeOK
      <4>3. Joined' = Joined \union {t}
        BY <3>3, JoinedGrows
      <4>4. Joined \subseteq Tables
        <5>1. begun \in Seq(Tables)
          BY DEF TypeOK
        <5>2. \A i \in DOMAIN begun : begun[i] \in Tables
          BY <5>1
        <5> QED
          BY <5>2 DEF Joined
      <4> QED
        BY <3>1, <4>2, <4>3, <4>4
    <3> QED
      BY <1>0, <3>2, <3>3
  <2>3. phase' = "statement" => on' \subseteq Joined'
    BY <1>0, JoinedGrows, <1>01 DEF JoinedInv, Between
  <2> QED
    BY <2>1, <2>2, <2>3 DEF JoinedInv
<1>5. TxInv'
  <2>1. tx' \in Nat /\ (phase' # "idle" => tx' \in 1..tx' /\ tx' \notin done)
    BY <1>0 DEF NewTransaction, TypeOK, TxInv, Between
  <2>2. tx <= tx' /\ \A s \in Tables : \A w \in accepted[s] : w.tx \in Nat /\ w.tx <= tx
    BY DEF NewTransaction, TypeOK, Write, TxInv
  <2> QED
    BY <2>1, <2>2 DEF TxInv, TypeOK
<1>6. KeptInv'
  <2>1. CASE phase = "idle" /\ tx' = tx + 1
    <3>1. \A s \in Tables : \A w \in accepted[s] : w.tx # tx'
      BY <2>1 DEF TypeOK, Write, TxInv
    <3> QED
      BY <3>1 DEF KeptInv
  <2>2. CASE phase = "open" /\ tx' = tx
    BY <2>2 DEF KeptInv
  <2> QED
    BY <2>1, <2>2 DEF Between, NewTransaction
<1>7. CommittedIsStored'
  BY DEF CommittedIsStored, WritesOf, settings, sqlite, promised
<1> QED
  BY <1>1, <1>2, <1>3, <1>4, <1>5, <1>6, <1>7

(* A table is synced. *)
LEMMA SyncTableInv ==
  ASSUME IInv, SyncTable
  PROVE  IInv'
<1> USE DEF IInv, SyncTable
<1> DEFINE t == Head(left)
<1>0. \/ /\ t \in ReadOnly /\ left' = Tail(left) /\ phase' = phase
         /\ UNCHANGED <<tree, txStart, store>>
      \/ /\ t \notin ReadOnly /\ left' = Tail(left) /\ phase' = phase
         /\ store' = Stored(t) /\ tree' = Clean(t)
         /\ txStart' = [txStart EXCEPT ![t] = NoStart]
      \/ /\ phase' = "rollback" /\ left' = <<>> /\ store' \in {store, Stored(t)}
         /\ UNCHANGED <<tree, txStart>>
  BY DEF CommitFails
<1>01. t \in Tables /\ left # <<>> /\ phase = "sync"
  BY DEF TypeOK
<1>02. left' = Tail(left) => \A s \in Waiting : s = t \/ s \in Waiting'
  BY <1>01, WaitingShrinks
<1> HIDE DEF t, SyncTable
<1>03. UNCHANGED <<settings, tables, explicit, on, begun, promised, now, calls>>
  BY DEF SyncTable
<1>1. TypeOK'
  <2>1. tree' \in [Tables -> Tree] /\ txStart' \in [Tables -> Tree]
        /\ store' \in [Tables -> SUBSET Write]
    <3>1. NoStart \in Tree
      BY DEF NoStart, Tree
    <3> QED
      <4>1. /\ tree \in [Tables -> Tree] /\ txStart \in [Tables -> Tree]
            /\ store \in [Tables -> SUBSET Write]
        BY DEF TypeOK
      <4>2. Clean(t) \in [Tables -> Tree] /\ Stored(t) \in [Tables -> SUBSET Write]
        BY <1>01, CleanTree, StoredTree
      <4> QED
        BY <3>1, <4>1, <4>2, <1>0
  <2>2. left' \in Seq(Tables)
    <3>1. CASE left' = Tail(left)
      BY <3>1, <1>01, WaitingShrinks
    <3>2. CASE left' = <<>>
      BY <3>2
    <3> QED
      BY <1>0, <3>1, <3>2
  <2>3. faults' \in Nat
    <3>1. faults' = faults \/ faults' = faults + 1
      BY DEF SyncTable, Fault, CommitFails
    <3> QED
      BY <3>1 DEF TypeOK
  <2>4. phase' \in {"idle", "open", "statement", "sync", "rollback"}
    BY <1>0, <1>01
  <2> QED
    BY <2>1, <2>2, <2>3, <2>4, <1>03 DEF TypeOK, settings, promised
<1>2. FixedInv'
  BY <1>03 DEF FixedInv, settings, promised
<1>3. StartInv'
  <2>1. CASE phase' = phase /\ left' = Tail(left) /\ t \in ReadOnly /\ UNCHANGED <<tree, txStart>>
    BY <2>1, <1>01, <1>02, <1>03 DEF StartInv, Joined
  <2>2. CASE /\ phase' = phase /\ left' = Tail(left) /\ t \notin ReadOnly
             /\ tree' = Clean(t) /\ txStart' = [txStart EXCEPT ![t] = NoStart]
    <3>1. /\ \A s \in Tables \ {t} : tree'[s] = tree[s] /\ txStart'[s] = txStart[s]
          /\ ~tree'[t].dirty /\ txStart'[t] = NoStart
      BY <2>2, <1>01, CleanTree DEF TypeOK
    <3> QED
      BY <2>2, <3>1, <1>01, <1>02, <1>03 DEF StartInv, Joined
  <2>3. CASE phase' = "rollback" /\ UNCHANGED <<tree, txStart>>
    BY <2>3, <1>01, <1>03 DEF StartInv, Joined
  <2> QED
    BY <1>0, <2>1, <2>2, <2>3
<1>4. JoinedInv'
  BY <1>0, <1>01, <1>03 DEF JoinedInv
<1>5. TxInv'
  BY <1>0, <1>01, <1>03 DEF TxInv, promised
<1>6. KeptInv'
  <2>1. \A s \in Tables : store[s] \subseteq store'[s]
    BY <1>0, <1>01, StoredTree
  <2>2. \A s \in Tables : tree[s].dirty => tree'[s] = tree[s] \/ tree[s].rows \subseteq store'[s]
    <3>1. CASE store' = Stored(t) /\ tree' = Clean(t)
      <4>1. \A s \in Tables \ {t} : tree'[s] = tree[s]
        BY <3>1, <1>01, CleanTree
      <4>2. tree[t].dirty => tree[t].rows \subseteq store'[t]
        BY <3>1, <1>01, StoredTree
      <4> QED
        BY <4>1, <4>2
    <3> QED
      BY <1>0, <3>1
  <2>3. UNCHANGED <<accepted, tx, dropped>>
    BY <1>03 DEF promised
  <2> QED
    BY <2>1, <2>2, <2>3, <1>01 DEF KeptInv
<1>7. CommittedIsStored'
  BY <1>0, <1>01, <1>03, StoredTree DEF CommittedIsStored, WritesOf, promised
<1> QED
  BY <1>1, <1>2, <1>3, <1>4, <1>5, <1>6, <1>7

(* The process dies. *)
LEMMA CrashInv ==
  ASSUME IInv, Crash
  PROVE  IInv'
<1> USE DEF IInv, Crash
<1>1. TypeOK'
  <2>1. tree' \in [Tables -> Tree] /\ txStart' \in [Tables -> Tree]
    BY DEF TypeOK, Opened, NoStart, Tree
  <2>2. ctx' \in Context
    BY DEF Background, Context
  <2>3. begun' \in Seq(Tables) /\ left' \in Seq(Tables) /\ faults' \in Nat
    BY DEF Fault, TypeOK
  <2> QED
    BY <2>1, <2>2, <2>3 DEF TypeOK, promised
<1>2. FixedInv'
  BY DEF FixedInv, settings, sqlite, promised
<1>3. StartInv'
  BY DEF StartInv, Joined, Waiting, settings, sqlite, promised, Opened, NoStart
<1>4. JoinedInv'
  BY DEF JoinedInv, Joined, settings, sqlite, promised
<1>5. TxInv'
  BY DEF TxInv, settings, sqlite, promised
<1>6. KeptInv'
  BY DEF KeptInv, settings, sqlite, promised
<1>7. CommittedIsStored'
  BY DEF CommittedIsStored, WritesOf, settings, sqlite, promised
<1> QED
  BY <1>1, <1>2, <1>3, <1>4, <1>5, <1>6, <1>7

(* IInv is inductive. *)
LEMMA NextInv == IInv /\ [Next]_vars => IInv'
<1> SUFFICES ASSUME IInv, [Next]_vars PROVE IInv'
  OBVIOUS
<1>1. CASE UNCHANGED vars
  <2>1. UNCHANGED <<settings, tables, tree, txStart, sqlite, store, promised, now, calls, faults>>
    BY <1>1 DEF vars
  <2>2. TypeOK'
    BY <2>1 DEF IInv, TypeOK, settings, sqlite, promised
  <2>3. FixedInv' /\ StartInv' /\ JoinedInv' /\ TxInv'
    BY <2>1 DEF IInv, FixedInv, StartInv, JoinedInv, Joined, Waiting, TxInv, settings, sqlite,
                promised
  <2>4. KeptInv' /\ CommittedIsStored'
    BY <2>1 DEF IInv, KeptInv, CommittedIsStored, WritesOf, sqlite, promised
  <2> QED
    BY <2>2, <2>3, <2>4 DEF IInv
<1>2. CASE Tick
  BY <1>2, TickInv
<1>3. CASE DeadlinePasses
  BY <1>3, DeadlinePassesInv
<1>4. CASE \E dl \in {"keep", "none", "ahead"}, wt \in UserTimes \union {0, -1},
              stage \in {"write_time", "later", "done"} : UpdateConn(dl, wt, stage)
  BY <1>4, UpdateConnInv
<1>5. CASE \E t \in Tables :
              Connect(t) \/ Disconnect(t) \/ Refresh(t) \/ Vacuum(t) \/ StartStatement(t)
  BY <1>5, ConnectInv, DisconnectInv, RefreshInv, VacuumInv, StartStatementInv
<1>6. CASE BeginTransaction
  BY <1>6, BeginTransactionInv
<1>7. CASE WriteRow
  BY <1>7, WriteRowInv
<1>8. CASE EndStatement \/ FailStatement \/ EndTransaction
  BY <1>8, EndStatementInv, FailStatementInv, EndTransactionInv
<1>9. CASE SyncTable
  BY <1>9, SyncTableInv
<1>10. CASE CommitTables \/ RollbackTables
  BY <1>10, CommitTablesInv, RollbackTablesInv
<1>11. CASE Crash
  BY <1>11, CrashInv
<1> QED
  BY <1>1, <1>2, <1>3, <1>4, <1>5, <1>6, <1>7, <1>8, <1>9, <1>10, <1>11 DEF Next

LEMMA SpecInv == Spec => []IInv
  BY InitInv, NextInv, PTL DEF Spec

(* The state of a connection, its tables and their transactions is well typed. *)
THEOREM ConnTypeOK == Spec => []TypeOK
<1>1. IInv => TypeOK
  BY DEF IInv
<1> QED
  BY <1>1, SpecInv, PTL

(***************************************************************************)
(* Whatever settings, refreshes, vacuums, failed statements, failed        *)
(* commits and crashes come between: a transaction that COMMIT reported as *)
(* done (VirtualTable.Sync and Commit of all its tables) is stored.        *)
(***************************************************************************)
THEOREM ConnCommittedIsStored == Spec => []CommittedIsStored
<1>1. IInv => CommittedIsStored
  BY DEF IInv
<1> QED
  BY <1>1, SpecInv, PTL

(***************************************************************************)
(* Between transactions a table that can be written has no clone and       *)
(* nothing unsaved, and no time is fixed unless a Begin failed.            *)
(***************************************************************************)
THEOREM ConnIdleIsClean == Spec => []IdleIsClean
<1>1. IInv => IdleIsClean
  BY DEF IInv, IdleIsClean, StartInv, FixedInv, JoinedInv
<1> QED
  BY <1>1, SpecInv, PTL

=============================================================================
