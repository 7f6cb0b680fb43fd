-------------------------- MODULE SharedRowProofs --------------------------
(***************************************************************************)
(* What SharedRow keeps for any number of connections, columns, values and *)
(* write times.  The merge of two whole rows of different times is the     *)
(* later of the two (MergeIsLater), and what a transaction writes over a   *)
(* whole row is whole (WrittenIsWhole); RowInv is inductive by these two.  *)
(***************************************************************************)
EXTENDS SharedRow, TLAPS

(* The entry of the later time. *)
Later(e, f) == IF e.mod < f.mod THEN f ELSE e

(* Write times are positive numbers. *)
LEMMA TimesPositive == \A t \in Times : t \in Nat /\ t > 0
<1>1. SUFFICES ASSUME NEW t \in Times PROVE t \in Nat /\ t > 0
  OBVIOUS
<1>2. t \in Nat \ {0}
  BY WriteTimes
<1>3. t \in Nat /\ t # 0
  BY <1>2
<1> QED
  BY <1>3

(* Zero is no write time, so the absent row is not a row. *)
LEMMA NoRowIsNoRow ==
    /\ \A r \in Row : r.mod \in Nat /\ r.mod > 0 /\ r # NoRow
    /\ Whole(NoRow)
    /\ NoRow.mod = 0
<1>1. NoRow.mod = 0
  BY DEF NoRow
<1>2. \A r \in Row : r.mod \in Nat /\ r.mod > 0
  <2>1. SUFFICES ASSUME NEW r \in Row PROVE r.mod \in Nat /\ r.mod > 0
    OBVIOUS
  <2>2. r.mod \in Times
    BY DEF Row
  <2> QED
    BY <2>2, TimesPositive
<1>3. \A r \in Row : r # NoRow
  BY <1>1, <1>2
<1>4. Whole(NoRow)
  BY DEF NoRow, Whole, Exists
<1> QED
  BY <1>1, <1>2, <1>3, <1>4

(* A merge by MergeRows of an older whole row into a later one, at the time of the later one. *)
LEMMA OlderIntoLater ==
  ASSUME NEW e \in Row, NEW f \in Row, Whole(e), Whole(f), e.mod < f.mod
  PROVE  MergeRows(e, f, f.mod) = f
<1>1. /\ e.mod \in Nat /\ f.mod \in Nat /\ e.mod > 0 /\ e # NoRow /\ f # NoRow
      /\ e.since = e.mod /\ f.since = f.mod
  BY NoRowIsNoRow DEF Whole
<1>2. LaterStatus(e, f) = f
  BY <1>1 DEF LaterStatus
<1>3. MergeCells(e, f) = f.cells
  <2>1. SUFFICES ASSUME NEW c \in Cols PROVE MergeCells(e, f)[c] = f.cells[c]
    BY DEF MergeCells, Row
  <2>2. CASE f.deleted
    BY <1>1, <1>2, <2>2 DEF MergeCells, Whole, Exists
  <2>3. CASE ~f.deleted
    <3>1. f.cells[c].at = f.mod
      BY <1>1, <2>3 DEF Whole, Exists
    <3>2. e.cells[c].at = 0 \/ e.cells[c].at = e.mod
      BY DEF Whole, Unset
    <3>3. LaterCell(e.cells[c], f.cells[c]) = f.cells[c]
      BY <1>1, <3>1, <3>2 DEF LaterCell
    <3>4. ~Hidden(f.cells[c], ResetBefore(e, f))
      BY <1>1, <1>2, <3>1 DEF Hidden, ResetBefore
    <3> QED
      BY <1>2, <2>3, <3>3, <3>4 DEF MergeCells
  <2> QED
    BY <2>2, <2>3
<1> QED
  BY <1>1, <1>2, <1>3 DEF MergeRows, Row

(***************************************************************************)
(* Merging two whole entries that differ if their times do gives the later *)
(* one: no column of the other survives.                                   *)
(***************************************************************************)
LEMMA MergeIsLater ==
  ASSUME NEW e \in Row \union {NoRow}, NEW f \in Row \union {NoRow},
         Whole(e), Whole(f), e.mod = f.mod => e = f
  PROVE  Merge(e, f) = Later(e, f)
<1>1. CASE e = NoRow \/ f = NoRow
  BY <1>1, NoRowIsNoRow DEF Merge, Later
<1>2. CASE e = f
  BY <1>2, NoRowIsNoRow DEF Merge, Later
<1>3. CASE e \in Row /\ f \in Row /\ e # f
  <2>1. e.mod \in Nat /\ f.mod \in Nat /\ e.mod # f.mod
    BY <1>3, NoRowIsNoRow
  <2>2. Merge(e, f) = MergeValues(e, f)
    BY <1>3, NoRowIsNoRow DEF Merge
  <2>3. CASE e.mod < f.mod
    BY <1>3, <2>2, <2>3, OlderIntoLater DEF MergeValues, Later
  <2>4. CASE f.mod < e.mod
    BY <1>3, <2>1, <2>2, <2>4, OlderIntoLater DEF MergeValues, Later
  <2> QED
    BY <2>1, <2>3, <2>4
<1> QED
  BY <1>1, <1>2, <1>3

(***************************************************************************)
(* What a statement writes over a whole row that is not newer, or over     *)
(* what its own transaction made of it, is a whole row of its time.        *)
(***************************************************************************)
LEMMA WrittenIsWhole ==
  ASSUME NEW r \in Row \union {NoRow}, Whole(r), NEW t \in Times, r.mod <= t,
         NEW deleted \in BOOLEAN, NEW cells \in [Cols -> Cell],
         \A k \in Cols : IF deleted THEN cells[k] = Unset ELSE cells[k].at = t
  PROVE  LET new == [mod |-> t, deleted |-> deleted, since |-> t, cells |-> cells]
             out == MergeRows(r, new, t)
         IN  out \in Row /\ Whole(out) /\ out.mod = t
<1> DEFINE new == [mod |-> t, deleted |-> deleted, since |-> t, cells |-> cells]
           out == MergeRows(r, new, t)
<1>1. t \in Nat /\ t > 0 /\ r.mod \in Nat /\ r.since = r.mod
  BY NoRowIsNoRow, TimesPositive DEF Whole
<1>2. LaterStatus(r, new) = new
  BY <1>1 DEF LaterStatus
<1>3. out.mod = t /\ out.deleted = deleted /\ out.since = t /\ out.cells = MergeCells(r, new)
  BY <1>2 DEF MergeRows
<1>4. \A k \in Cols : /\ out.cells[k] \in Cell
                      /\ IF deleted THEN out.cells[k] = Unset ELSE out.cells[k].at = t
  <2>1. SUFFICES ASSUME NEW k \in Cols
                 PROVE  /\ out.cells[k] \in Cell
                        /\ IF deleted THEN out.cells[k] = Unset ELSE out.cells[k].at = t
    OBVIOUS
  <2>2. CASE deleted
    <3>1. MergeCells(r, new)[k] = Unset
      BY <1>2, <2>2 DEF MergeCells
    <3> QED
      BY <1>3, <2>2, <3>1 DEF Cell
  <2>3. CASE ~deleted
    <3>1. r.cells[k] \in Cell
      BY DEF Row, NoRow, Cell
    <3>2. r.cells[k].at = 0 \/ r.cells[k].at = r.mod
      BY DEF Whole, Unset
    <3>3. new.cells[k] \in Cell /\ new.cells[k].at = t
      BY <2>3
    <3>4. /\ LaterCell(r.cells[k], new.cells[k]) \in Cell
          /\ LaterCell(r.cells[k], new.cells[k]).at = t
      BY <1>1, <3>1, <3>2, <3>3 DEF LaterCell
    <3>5. ResetBefore(r, new) \in {0, t}
      BY <1>2 DEF ResetBefore
    <3>6. ~Hidden(LaterCell(r.cells[k], new.cells[k]), ResetBefore(r, new))
      BY <1>1, <3>4, <3>5 DEF Hidden
    <3>7. out.cells[k] = LaterCell(r.cells[k], new.cells[k])
      BY <1>2, <1>3, <2>3, <3>6 DEF MergeCells
    <3> QED
      BY <2>3, <3>4, <3>7
  <2> QED
    BY <2>2, <2>3
<1>5. out = [mod |-> t, deleted |-> deleted, since |-> t, cells |-> MergeCells(r, new)]
  BY <1>2 DEF MergeRows
<1>6. MergeCells(r, new) \in [Cols -> Cell]
  BY <1>3, <1>4 DEF MergeCells
<1>7. out \in Row
  BY <1>5, <1>6 DEF Row
<1>8. Whole(out)
  BY <1>3, <1>4, <1>7, NoRowIsNoRow DEF Whole, Exists
<1> QED
  BY <1>3, <1>7, <1>8

-----------------------------------------------------------------------------
(* The entries that are held *)

(* What is held has a type. *)
LEMMA HeldTyped == TypeOK => Held \subseteq Row \union {NoRow}
  BY DEF TypeOK, Held, Settled

(* What is held merges to the later of the two. *)
LEMMA HeldMerge ==
  ASSUME TypeOK, HeldInv, NEW e \in Held, NEW f \in Held
  PROVE  Merge(e, f) = Later(e, f)
  BY HeldTyped, MergeIsLater DEF HeldInv

(* The modification time of what is held is a number. *)
LEMMA HeldTimes ==
  ASSUME TypeOK, NEW e \in Held
  PROVE  e.mod \in Nat /\ (e.mod = 0 => e = NoRow)
<1>1. e \in Row \union {NoRow}
  BY HeldTyped
<1> QED
  BY <1>1, NoRowIsNoRow

(* NoRow and what versions and transactions hold is held. *)
LEMMA HeldHas ==
    /\ NoRow \in Held
    /\ stored \subseteq Held
    /\ \A c \in Conns : txStart[c] \in Held /\ (tx[c] = 0 => row[c] \in Held)
  BY DEF Held, Settled

-----------------------------------------------------------------------------
(* Steps *)

(* A step outside of transactions that holds nothing new keeps the invariant. *)
LEMMA IdleStep ==
  ASSUME RowInv, TypeOK', Held' \subseteq Held, stored \subseteq stored',
         UNCHANGED <<tx, txStart, inTx, used, log>>,
         \A d \in Conns : tx[d] # 0 => row'[d] = row[d]
  PROVE  RowInv'
<1>1. HeldInv'
  BY DEF RowInv, HeldInv
<1>2. LogInv'
  BY DEF RowInv, LogInv
<1>3. ASSUME NEW c \in Conns, tx[c] # 0 PROVE TxInv(c)'
  BY <1>3 DEF RowInv, TxInv
<1> QED
  BY <1>1, <1>2, <1>3 DEF RowInv

(***************************************************************************)
(* What a statement makes of the row: nothing if the row is newer, else a  *)
(* whole row of the time of the transaction.                               *)
(***************************************************************************)
LEMMA WrittenCases ==
  ASSUME RowInv, NEW c \in Conns, tx[c] # 0,
         NEW deleted \in BOOLEAN, NEW cells \in [Cols -> Cell],
         \A k \in Cols : IF deleted THEN cells[k] = Unset ELSE cells[k].at = tx[c]
  PROVE  LET w == Written(c, deleted, cells)
         IN  \/ w = row[c] /\ tx[c] < row[c].mod
             \/ w \in Row /\ Whole(w) /\ w.mod = tx[c]
<1> DEFINE new == [mod |-> tx[c], deleted |-> deleted, since |-> tx[c], cells |-> cells]
           out == MergeRows(row[c], new, tx[c])
<1>1. tx[c] \in Times /\ row[c] \in Row \union {NoRow}
  BY DEF RowInv, TypeOK
<1>2. tx[c] \in Nat /\ tx[c] > 0 /\ row[c].mod \in Nat
  BY <1>1, TimesPositive, NoRowIsNoRow
<1>3. Whole(row[c])
  <2>1. row[c] \in Held \/ Whole(row[c])
    BY HeldHas DEF RowInv, TxInv
  <2> QED
    BY <2>1 DEF RowInv, HeldInv
<1>4. Written(c, deleted, cells) = Set(row[c], out)
  BY DEF Written
<1>5. out.mod = tx[c]
  BY DEF MergeRows
<1>6. CASE tx[c] < row[c].mod
  <2>1. row[c] # NoRow
    BY <1>2, <1>6, NoRowIsNoRow
  <2> QED
    BY <1>4, <1>5, <1>6, <2>1 DEF Set
<1>7. CASE row[c].mod <= tx[c]
  <2>1. out \in Row /\ Whole(out) /\ out.mod = tx[c]
    BY <1>1, <1>3, <1>7, WrittenIsWhole
  <2>2. Set(row[c], out) = out
    BY <1>2, <1>5, <1>7 DEF Set
  <2> QED
    BY <1>4, <2>1, <2>2
<1> QED
  BY <1>2, <1>6, <1>7

(* A statement keeps the invariant. *)
LEMMA StatementStep ==
  ASSUME RowInv, NEW c \in Conns, tx[c] # 0,
         NEW kind \in Kinds, NEW set \in [Cols -> Cell],
         NEW deleted \in BOOLEAN, NEW cells \in [Cols -> Cell],
         \A k \in Cols : IF deleted THEN cells[k] = Unset ELSE cells[k].at = tx[c],
         Execute(c, kind, set, Written(c, deleted, cells))
  PROVE  RowInv'
<1> DEFINE w == Written(c, deleted, cells)
           s0 == [kind |-> kind, at |-> tx[c], cells |-> set]
<1>1. \/ w = row[c] /\ tx[c] < row[c].mod
      \/ w \in Row /\ Whole(w) /\ w.mod = tx[c]
  BY WrittenCases
<1>2. row \in [Conns -> Row \union {NoRow}] /\ tx[c] \in Times
  BY DEF RowInv, TypeOK
<1>3. w \in Row \union {NoRow}
  BY <1>1, <1>2
<1>4. s0 \in Statement
  BY <1>2 DEF Statement
<1>5. row' = [row EXCEPT ![c] = w] /\ inTx' = [inTx EXCEPT ![c] = inTx[c] \union {s0}]
  BY DEF Execute
<1>6. UNCHANGED <<tx, txStart, stored, used, log>>
  BY DEF Execute
<1> HIDE DEF w, s0
<1>7. TypeOK'
  BY <1>3, <1>4, <1>5, <1>6 DEF RowInv, TypeOK
<1>8. Held' = Held
  BY <1>5, <1>6 DEF RowInv, TypeOK, Held, Settled
<1>9. HeldInv' /\ LogInv'
  BY <1>6, <1>8 DEF RowInv, HeldInv, LogInv
<1>10. TxInv(c)'
  <2>1. row'[c] = w /\ inTx'[c] = inTx[c] \union {s0}
    BY <1>5 DEF RowInv, TypeOK
  <2>2. TxInv(c)
    BY DEF RowInv
  <2>3. s0.at = tx[c]
    BY DEF s0
  <2>4. tx[c] \in Nat
    BY <1>2, TimesPositive
  <2>5. tx[c] <= w.mod
    <3>1. w.mod \in Nat
      BY <1>3, NoRowIsNoRow
    <3> QED
      BY <1>1, <2>4, <3>1
  <2>6. \A s \in inTx'[c] : s.at = tx[c] /\ tx[c] <= w.mod
    BY <2>1, <2>2, <2>3, <2>5 DEF TxInv
  <2>7. \/ w = txStart[c]
        \/ w \in Row /\ Whole(w) /\ w.mod = tx[c]
    BY <1>1, <2>2 DEF TxInv
  <2> QED
    BY <1>6, <1>8, <2>1, <2>2, <2>6, <2>7 DEF TxInv
<1>11. ASSUME NEW d \in Conns, d # c, tx[d] # 0 PROVE TxInv(d)'
  <2>1. row'[d] = row[d] /\ inTx'[d] = inTx[d]
    BY <1>5, <1>11 DEF RowInv, TypeOK
  <2> QED
    BY <1>6, <1>8, <1>11, <2>1 DEF RowInv, TxInv
<1>12. ASSUME NEW d \in Conns, tx[d] = 0 PROVE inTx'[d] = {}
  BY <1>5, <1>12 DEF RowInv, TypeOK
<1> QED
  BY <1>6, <1>7, <1>9, <1>10, <1>11, <1>12 DEF RowInv

(* The end of a transaction, whether or not it stored a version, keeps the invariant. *)
LEMMA EndStep ==
  ASSUME RowInv, NEW c \in Conns, tx[c] # 0, End(c),
         Store(c) \/ UNCHANGED <<stored, log>>,
         \/ row' = row /\ Store(c)
         \/ row' = [row EXCEPT ![c] = txStart[c]]
  PROVE  RowInv'
<1>1. /\ tx' = [tx EXCEPT ![c] = 0] /\ txStart' = [txStart EXCEPT ![c] = NoRow]
      /\ inTx' = [inTx EXCEPT ![c] = {}] /\ used' = used
  BY DEF End
<1>2. TxInv(c) /\ TypeOK
  BY DEF RowInv
<1>3. tx[c] \in Times /\ tx[c] \in Nat /\ tx[c] > 0 /\ row[c] \in Row \union {NoRow}
  BY <1>2, TimesPositive DEF TypeOK
<1>4. stored \subseteq stored' /\ stored' \subseteq stored \union {row[c]} /\ stored' \subseteq Row
      /\ log \subseteq log' /\ log' \subseteq log \union inTx[c]
  BY <1>2, <1>3 DEF Store, StoredWith, TypeOK
<1>5. TypeOK'
  BY <1>1, <1>2, <1>4 DEF TypeOK
<1>6. /\ Held' \subseteq Held \union {row[c]}
      /\ row[c] \in Held' => row[c] \in Held \/ inTx[c] \subseteq log'
  <2>1. \A d \in Conns : tx'[d] = 0 => d = c \/ tx[d] = 0
    BY <1>1, <1>2 DEF TypeOK
  <2>2. \A d \in Conns : txStart'[d] \in Held
    BY <1>1, <1>2, HeldHas DEF TypeOK
  <2>3. CASE Store(c)
    <3>1. \A d \in Conns : tx'[d] = 0 => row'[d] \in Held \union {row[c]}
      BY <1>1, <1>2, <2>1, HeldHas DEF TypeOK
    <3>2. Held' \subseteq Held \union {row[c]}
      BY <1>4, <2>2, <3>1, HeldHas DEF Held, Settled
    <3> QED
      BY <2>3, <3>2 DEF Store
  <2>4. CASE UNCHANGED <<stored, log>> /\ row' = [row EXCEPT ![c] = txStart[c]]
    <3>1. \A d \in Conns : tx'[d] = 0 => row'[d] \in Held
      BY <1>1, <1>2, <2>1, <2>4, HeldHas DEF TypeOK
    <3>2. Held' \subseteq Held
      BY <2>2, <2>4, <3>1, HeldHas DEF Held, Settled
    <3> QED
      BY <3>2
  <2> QED
    BY <2>3, <2>4
<1>7. \/ row[c] \in Held
      \/ row[c] \in Row /\ Whole(row[c]) /\ row[c].mod = tx[c] /\ inTx[c] # {}
  BY <1>2, HeldHas DEF TxInv
<1>8. HeldInv'
  <2>1. \A e \in Held' : e \in Held \/ (e = row[c] /\ Whole(e) /\ e.mod = tx[c])
    BY <1>6, <1>7
  <2>2. \A e \in Held' : Whole(e) /\ e.mod \in used' \union {0}
    BY <1>1, <1>2, <2>1 DEF RowInv, HeldInv, TxInv
  <2>3. \A e, f \in Held' : e.mod = f.mod => e = f
    BY <1>2, <2>1 DEF RowInv, HeldInv, TxInv
  <2> QED
    BY <2>2, <2>3 DEF HeldInv
<1>9. LogInv'
  <2>1. ASSUME NEW e \in Held', e # NoRow PROVE \E s \in log' : s.at = e.mod
    <3>1. CASE e \in Held
      BY <1>4, <2>1, <3>1 DEF RowInv, LogInv
    <3>2. CASE e \notin Held
      <4>1. e = row[c] /\ e.mod = tx[c] /\ inTx[c] # {} /\ inTx[c] \subseteq log'
        BY <1>6, <1>7, <2>1, <3>2
      <4>2. PICK s \in inTx[c] : TRUE
        BY <4>1
      <4> QED
        BY <1>2, <4>1, <4>2 DEF TxInv
    <3> QED
      BY <3>1, <3>2
  <2>2. ASSUME NEW s \in log' PROVE \E e \in stored' : s.at <= e.mod
    <3>1. CASE s \in log
      BY <1>4, <3>1 DEF RowInv, LogInv
    <3>2. CASE s \notin log
      <4>1. s \in inTx[c] /\ Store(c)
        BY <1>4, <2>2, <3>2
      <4>2. s.at = tx[c] /\ tx[c] <= row[c].mod
        BY <1>2, <4>1 DEF TxInv
      <4>3. row[c] # NoRow
        BY <1>3, <4>2, NoRowIsNoRow
      <4>4. row[c] \in stored'
        BY <4>1, <4>3 DEF Store, StoredWith
      <4> QED
        BY <4>2, <4>4
    <3> QED
      BY <3>1, <3>2
  <2> QED
    BY <2>1, <2>2 DEF LogInv
<1>10. ASSUME NEW d \in Conns, d # c, tx[d] # 0 PROVE TxInv(d)'
  <2>1. TxInv(d)
    BY <1>10 DEF RowInv
  <2>2. tx'[d] = tx[d] /\ txStart'[d] = txStart[d] /\ inTx'[d] = inTx[d] /\ row'[d] = row[d]
    BY <1>1, <1>2, <1>10 DEF TypeOK
  <2>3. tx[d] # tx[c]
    BY <1>2, <1>10 DEF TxInv
  <2>4. \A e \in Held' : e.mod # tx[d]
    BY <1>6, <1>7, <2>1, <2>3 DEF TxInv
  <2>5. \A x \in Conns \ {d} : tx'[x] # tx[d]
    BY <1>1, <1>2, <1>10, <2>1 DEF TypeOK, TxInv
  <2> QED
    BY <1>1, <2>1, <2>2, <2>4, <2>5 DEF TxInv
<1>11. \A d \in Conns : IF tx'[d] = 0 THEN inTx'[d] = {} ELSE TxInv(d)'
  <2>1. tx'[c] = 0 /\ inTx'[c] = {}
    BY <1>1, <1>2 DEF TypeOK
  <2>2. ASSUME NEW d \in Conns, d # c PROVE tx'[d] = tx[d] /\ inTx'[d] = inTx[d]
    BY <1>1, <1>2, <2>2 DEF TypeOK
  <2>3. \A d \in Conns : tx[d] = 0 => inTx[d] = {}
    BY DEF RowInv
  <2> QED
    BY <1>10, <2>1, <2>2, <2>3
<1> QED
  BY <1>5, <1>8, <1>9, <1>11 DEF RowInv

(* A transaction begins at a time that nothing has. *)
LEMMA BeginStep == ASSUME RowInv, NEW c \in Conns, Begin(c) PROVE RowInv'
<1>1. PICK t \in Times \ used : tx' = [tx EXCEPT ![c] = t] /\ used' = used \union {t}
  BY DEF Begin
<1>2. /\ tx[c] = 0 /\ txStart' = [txStart EXCEPT ![c] = row[c]]
      /\ UNCHANGED <<row, inTx, stored, log>>
  BY DEF Begin
<1>3. TypeOK /\ t > 0 /\ t \in Nat
  BY TimesPositive DEF RowInv
<1>4. TypeOK'
  BY <1>1, <1>2, <1>3 DEF TypeOK
<1>5. Held' \subseteq Held
  <2>1. \A d \in Conns : tx'[d] = 0 => tx[d] = 0
    BY <1>1, <1>2, <1>3 DEF TypeOK
  <2>2. \A d \in Conns : txStart'[d] \in Held
    BY <1>2, <1>3, HeldHas DEF TypeOK
  <2> QED
    BY <1>2, <2>1, <2>2, HeldHas DEF Held, Settled
<1>6. HeldInv'
  BY <1>1, <1>5 DEF RowInv, HeldInv
<1>7. LogInv'
  BY <1>2, <1>5 DEF RowInv, LogInv
<1>8. \A e \in Held' : e.mod # t
  BY <1>1, <1>3, <1>5 DEF RowInv, HeldInv
<1>9. \A d \in Conns : tx[d] # t
  BY <1>1, <1>3 DEF RowInv, TxInv
<1>10. TxInv(c)'
  <2>1. tx'[c] = t /\ txStart'[c] = row[c] /\ inTx'[c] = {}
    BY <1>1, <1>2, <1>3 DEF RowInv, TypeOK
  <2>2. \A d \in Conns \ {c} : tx'[d] # t
    BY <1>1, <1>3, <1>9 DEF TypeOK
  <2> QED
    BY <1>1, <1>2, <1>8, <2>1, <2>2 DEF TxInv
<1>11. ASSUME NEW d \in Conns, d # c, tx[d] # 0 PROVE TxInv(d)'
  <2>1. tx'[d] = tx[d] /\ txStart'[d] = txStart[d] /\ tx'[c] = t
    BY <1>1, <1>2, <1>3, <1>11 DEF TypeOK
  <2>2. TxInv(d)
    BY <1>11 DEF RowInv
  <2>3. \A x \in Conns \ {d} : tx'[x] # tx[d]
    BY <1>1, <1>3, <1>9, <2>2 DEF TypeOK, TxInv
  <2> QED
    BY <1>1, <1>2, <1>5, <2>1, <2>2, <2>3 DEF TxInv
<1>12. \A d \in Conns : IF tx'[d] = 0 THEN inTx'[d] = {} ELSE TxInv(d)'
  <2>1. tx'[c] # 0 /\ \A d \in Conns : d # c => tx'[d] = tx[d]
    BY <1>1, <1>3 DEF TypeOK
  <2> QED
    BY <1>2, <1>10, <1>11, <2>1 DEF RowInv
<1> QED
  BY <1>4, <1>6, <1>7, <1>12 DEF RowInv

(* An insert writes every column, over a row that is absent or was deleted. *)
LEMMA InsertStep ==
  ASSUME RowInv, NEW c \in Conns, NEW vals \in [Cols -> Values], Insert(c, vals)
  PROVE  RowInv'
<1>1. tx[c] # 0 /\ Execute(c, "insert", AllCells(c, vals), Written(c, FALSE, AllCells(c, vals)))
  BY DEF Insert, CanExecute
<1>2. tx[c] \in Times
  BY <1>1 DEF RowInv, TypeOK
<1>3. AllCells(c, vals) \in [Cols -> Cell] /\ \A k \in Cols : AllCells(c, vals)[k].at = tx[c]
  BY <1>2 DEF AllCells, Cell
<1> QED
  BY <1>1, <1>3, StatementStep DEF Kinds

(* What an update starts from: a live row, wholly of one transaction, with every value. *)
LEMMA UpdatedRow ==
  ASSUME RowInv, NEW c \in Conns, NEW changed \in SUBSET Cols,
         NEW vals \in [Cols -> Values], Update(c, changed, vals)
  PROVE  /\ tx[c] \in Times /\ Exists(row[c]) /\ row[c] \in Row /\ Whole(row[c])
         /\ \A k \in Cols : row[c].cells[k].val \in Values
<1>1. tx[c] # 0 /\ Exists(row[c])
  BY DEF Update, CanExecute
<1>2. tx[c] \in Times /\ row[c] \in Row /\ Whole(row[c])
  <2>1. row[c] \in Row \union {NoRow}
    BY DEF RowInv, TypeOK
  <2>2. row[c] \in Held \/ Whole(row[c])
    BY <1>1, HeldHas DEF RowInv, TxInv
  <2> QED
    BY <1>1, <2>1, <2>2 DEF RowInv, TypeOK, HeldInv, Exists
<1>3. \A k \in Cols : row[c].cells[k].val \in Values
  <2>1. SUFFICES ASSUME NEW k \in Cols PROVE row[c].cells[k].val \in Values
    OBVIOUS
  <2>2. row[c].cells[k].at = row[c].mod /\ row[c].mod > 0
    BY <1>1, <1>2, NoRowIsNoRow DEF Whole
  <2>3. row[c].cells[k] \in Cell
    BY <1>2 DEF Row
  <2> QED
    BY <2>2, <2>3 DEF Cell, Unset
<1> QED
  BY <1>1, <1>2, <1>3

(* An update writes every column too: those that do not change have values. *)
LEMMA UpdateStep ==
  ASSUME RowInv, NEW c \in Conns, NEW changed \in SUBSET Cols,
         NEW vals \in [Cols -> Values], Update(c, changed, vals)
  PROVE  RowInv'
<1> DEFINE given == [k \in Cols |-> IF k \in changed THEN vals[k] ELSE row[c].cells[k].val]
           set   == [k \in Cols |-> IF k \in changed THEN AllCells(c, vals)[k] ELSE Unset]
<1>1. /\ tx[c] # 0 /\ Exists(row[c])
      /\ Execute(c, "update", set, Written(c, FALSE, AllCells(c, given)))
  BY DEF Update, CanExecute
<1>2. tx[c] \in Times /\ row[c] \in Row /\ Whole(row[c])
  BY UpdatedRow
<1>3. \A k \in Cols : row[c].cells[k].val \in Values
  BY UpdatedRow
<1>4. given \in [Cols -> Values]
  BY <1>3
<1>5. AllCells(c, vals) \in [Cols -> Cell] /\ Unset \in Cell
  BY <1>2 DEF AllCells, Cell
<1>6. set \in [Cols -> Cell]
  BY <1>5
<1> HIDE DEF given, set
<1>7. AllCells(c, given) \in [Cols -> Cell] /\ \A k \in Cols : AllCells(c, given)[k].at = tx[c]
  BY <1>2, <1>4 DEF AllCells, Cell
<1> QED
  BY <1>1, <1>6, <1>7, StatementStep DEF Kinds

(* A delete leaves no column. *)
LEMMA DeleteStep == ASSUME RowInv, NEW c \in Conns, Delete(c) PROVE RowInv'
<1> DEFINE none == [k \in Cols |-> Unset]
<1>1. tx[c] # 0 /\ Execute(c, "delete", none, Written(c, TRUE, none))
  BY DEF Delete, CanExecute
<1>2. none \in [Cols -> Cell] /\ \A k \in Cols : none[k] = Unset
  BY DEF Cell
<1> HIDE DEF none
<1>3. \A k \in Cols : IF TRUE THEN none[k] = Unset ELSE none[k].at = tx[c]
  BY <1>2
<1>4. "delete" \in Kinds /\ TRUE \in BOOLEAN
  BY DEF Kinds
<1> QED
  BY <1>1, <1>2, <1>3, <1>4, StatementStep

(* Opening, merging and storing a merge hold nothing that was not held before. *)
LEMMA MergeSteps ==
  ASSUME RowInv, NEW c \in Conns, Reopen(c) \/ MergeStored(c) \/ StoreMerged(c)
  PROVE  RowInv'
<1>1. TypeOK /\ HeldInv /\ row[c] \in Row \union {NoRow} /\ Held \subseteq Row \union {NoRow}
  BY HeldTyped DEF RowInv, TypeOK
<1>2. CASE Reopen(c)
  <2>1. /\ row' = [row EXCEPT ![c] = NoRow] /\ tx[c] = 0
        /\ UNCHANGED <<tx, txStart, inTx, stored, used, log>>
    BY <1>2 DEF Reopen
  <2>2. TypeOK'
    BY <1>1, <2>1 DEF TypeOK
  <2>3. \A d \in Conns : tx[d] = 0 => row'[d] \in Held
    BY <1>1, <2>1, HeldHas DEF TypeOK
  <2>4. Held' \subseteq Held
    BY <2>1, <2>3, HeldHas DEF Held, Settled
  <2>5. \A d \in Conns : tx[d] # 0 => row'[d] = row[d]
    BY <1>1, <2>1 DEF TypeOK
  <2> QED
    BY <2>1, <2>2, <2>4, <2>5, IdleStep
<1>3. CASE MergeStored(c)
  <2>1. PICK e \in stored : row' = [row EXCEPT ![c] = Merge(row[c], e)]
    BY <1>3 DEF MergeStored
  <2>2. tx[c] = 0 /\ UNCHANGED <<tx, txStart, inTx, stored, used, log>>
    BY <1>3 DEF MergeStored
  <2>3. Merge(row[c], e) \in Held
    BY <1>1, <2>1, <2>2, HeldHas, HeldMerge DEF Later
  <2>4. TypeOK'
    BY <1>1, <2>1, <2>2, <2>3 DEF TypeOK
  <2>5. \A d \in Conns : tx[d] = 0 => row'[d] \in Held
    BY <1>1, <2>1, <2>3, HeldHas DEF TypeOK
  <2>6. Held' \subseteq Held
    BY <2>2, <2>5, HeldHas DEF Held, Settled
  <2>7. \A d \in Conns : tx[d] # 0 => row'[d] = row[d]
    BY <1>1, <2>1, <2>2 DEF TypeOK
  <2> QED
    BY <2>2, <2>4, <2>6, <2>7, IdleStep
<1>4. CASE StoreMerged(c)
  <2>1. /\ tx[c] = 0 /\ stored' = StoredWith(c)
        /\ UNCHANGED <<row, tx, txStart, inTx, used, log>>
    BY <1>4 DEF StoreMerged
  <2>2. stored \subseteq stored' /\ stored' \subseteq Row /\ stored' \subseteq Held
    BY <1>1, <2>1, HeldHas DEF StoredWith, TypeOK
  <2>3. TypeOK'
    BY <1>1, <2>1, <2>2 DEF TypeOK
  <2>4. Held' \subseteq Held
    BY <2>1, <2>2, HeldHas DEF Held, Settled
  <2> QED
    BY <2>1, <2>2, <2>3, <2>4, IdleStep
<1> QED
  BY <1>2, <1>3, <1>4

-----------------------------------------------------------------------------
(* Theorems *)

(* No connection holds anything at first. *)
LEMMA InitRowInv == Init => RowInv
<1> SUFFICES ASSUME Init PROVE RowInv
  OBVIOUS
<1>1. TypeOK
  BY DEF Init, TypeOK
<1>2. Held = {NoRow}
  BY DEF Init, Held, Settled
<1>3. HeldInv /\ LogInv
  BY <1>2, NoRowIsNoRow DEF Init, HeldInv, LogInv
<1> QED
  BY <1>1, <1>3 DEF Init, RowInv

(* Every step keeps the invariant. *)
LEMMA NextRowInv == RowInv /\ [Next]_vars => RowInv'
<1> SUFFICES ASSUME RowInv, [Next]_vars PROVE RowInv'
  OBVIOUS
<1>1. ASSUME NEW c \in Conns, Begin(c) PROVE RowInv'
  BY <1>1, BeginStep
<1>2. ASSUME NEW c \in Conns, Sync(c) \/ SyncFails(c) \/ Rollback(c) PROVE RowInv'
  BY <1>2, EndStep DEF Sync, SyncFails, Rollback
<1>3. ASSUME NEW c \in Conns, NEW vals \in [Cols -> Values], Insert(c, vals) PROVE RowInv'
  BY <1>3, InsertStep
<1>4. ASSUME NEW c \in Conns, NEW vals \in [Cols -> Values],
             NEW changed \in (SUBSET Cols) \ {{}}, Update(c, changed, vals)
      PROVE  RowInv'
  BY <1>4, UpdateStep
<1>5. ASSUME NEW c \in Conns, Delete(c) PROVE RowInv'
  BY <1>5, DeleteStep
<1>6. ASSUME NEW c \in Conns, Reopen(c) \/ MergeStored(c) \/ StoreMerged(c) PROVE RowInv'
  BY <1>6, MergeSteps
<1>7. CASE UNCHANGED vars
  <2>1. Held' = Held
    BY <1>7 DEF vars, Held, Settled
  <2>2. TypeOK' /\ HeldInv' /\ LogInv'
    BY <1>7, <2>1 DEF vars, RowInv, TypeOK, HeldInv, LogInv
  <2> QED
    BY <1>7, <2>1, <2>2 DEF vars, RowInv, TxInv
<1> QED
  BY <1>1, <1>2, <1>3, <1>4, <1>5, <1>6, <1>7 DEF Next

(* The inductive invariant holds in every state. *)
THEOREM RowInvHolds == Spec => []RowInv
  BY InitRowInv, NextRowInv, PTL DEF Spec

(* Connections and versions hold rows, in every state. *)
THEOREM TypeCorrect == Spec => []TypeOK
<1>1. RowInv => TypeOK
  BY DEF RowInv
<1> QED
  BY <1>1, RowInvHolds, PTL

(***************************************************************************)
(* Whatever connections there are, the order in which they merge versions, *)
(* and how often, has no influence on the row they end up with.            *)
(***************************************************************************)
THEOREM MergeOrder == Spec => []MergeOrderIrrelevant
<1>1. RowInv => MergeOrderIrrelevant
  <2> SUFFICES ASSUME RowInv, NEW e \in Settled, NEW f \in Settled, NEW g \in Settled
               PROVE  /\ Merge(e, f) = Merge(f, e)
                      /\ Merge(Merge(e, f), g) = Merge(e, Merge(f, g))
                      /\ Merge(e, Merge(e, f)) = Merge(e, f)
    BY DEF MergeOrderIrrelevant
  <2>1. TypeOK /\ HeldInv /\ e \in Held /\ f \in Held /\ g \in Held
    BY DEF RowInv, Held
  <2>2. \A x, y \in Held : Merge(x, y) = Later(x, y) /\ Later(x, y) \in Held
    BY <2>1, HeldMerge DEF Later
  <2>3. e.mod \in Nat /\ f.mod \in Nat /\ g.mod \in Nat
    BY <2>1, HeldTimes
  <2>4. Later(e, f) = Later(f, e)
    BY <2>1, <2>3 DEF Later, HeldInv
  <2>5. Later(Later(e, f), g) = Later(e, Later(f, g))
    BY <2>1, <2>3 DEF Later
  <2>6. Later(e, Later(e, f)) = Later(e, f)
    BY <2>3 DEF Later
  <2> QED
    BY <2>1, <2>2, <2>4, <2>5, <2>6
<1> QED
  BY <1>1, RowInvHolds, PTL

(* A merge never makes a row of columns of several transactions. *)
THEOREM RowsNotMixed == Spec => []NoMixedRows
<1>1. RowInv => NoMixedRows
  BY HeldMerge DEF RowInv, Held, Later, NoMixedRows
<1> QED
  BY <1>1, RowInvHolds, PTL

(* A transaction that did not store a version is never seen outside of it. *)
THEOREM StoredTransactions == Spec => []OnlyStoredTransactions
<1>1. RowInv => OnlyStoredTransactions
  BY DEF RowInv, LogInv, Held, OnlyStoredTransactions
<1> QED
  BY <1>1, RowInvHolds, PTL

(* A connection that merged all versions misses nothing written later than its row. *)
THEOREM NothingMissing == Spec => []NothingNewerMissing
<1>1. RowInv => NothingNewerMissing
  <2> SUFFICES ASSUME RowInv, NEW c \in Conns, UpToDate(c), NEW s \in log
               PROVE  s.at <= row[c].mod
    BY DEF NothingNewerMissing
  <2>1. PICK e \in stored : s.at <= e.mod
    BY DEF RowInv, LogInv
  <2>2. row[c] \in Held /\ e \in Held /\ Merge(row[c], e) = row[c]
    BY HeldHas DEF UpToDate
  <2>3. Later(row[c], e) = row[c]
    BY <2>2, HeldMerge DEF RowInv
  <2>4. row[c].mod \in Nat /\ e.mod \in Nat
    BY <2>2, HeldTimes DEF RowInv
  <2>5. s.at \in Nat
    BY TimesPositive DEF RowInv, TypeOK, Statement
  <2> QED
    BY <2>1, <2>3, <2>4, <2>5 DEF Later
<1> QED
  BY <1>1, RowInvHolds, PTL

(* Writing every column of an older whole row that exists gives exactly what was written. *)
LEMMA WrittenOverOlder ==
  ASSUME NEW r \in Row, Whole(r), Exists(r), NEW t \in Times, r.mod < t,
         NEW cells \in [Cols -> Cell], \A k \in Cols : cells[k].at = t
  PROVE  LET new == [mod |-> t, deleted |-> FALSE, since |-> t, cells |-> cells]
         IN  MergeRows(r, new, t).cells = cells
<1> DEFINE new == [mod |-> t, deleted |-> FALSE, since |-> t, cells |-> cells]
<1>1. new \in Row /\ new.mod = t /\ new.cells = cells
  BY DEF Row
<1>2. new # NoRow /\ new.since = t /\ ~new.deleted /\ \A k \in Cols : new.cells[k].at = t
  BY <1>1, NoRowIsNoRow
<1>3. Whole(new)
  BY <1>1, <1>2 DEF Whole, Exists
<1> HIDE DEF new
<1>4. MergeRows(r, new, t) = new
  BY <1>1, <1>3, OlderIntoLater
<1> QED
  BY <1>1, <1>4 DEF new

(* A transaction that writes a row a second time leaves what it wrote first. *)
LEMMA WrittenOverSame ==
  ASSUME NEW r \in Row, Whole(r), Exists(r),
         NEW cells \in [Cols -> Cell], \A k \in Cols : cells[k].at = r.mod
  PROVE  LET new == [mod |-> r.mod, deleted |-> FALSE, since |-> r.mod, cells |-> cells]
         IN  MergeRows(r, new, r.mod) = r
<1> DEFINE new == [mod |-> r.mod, deleted |-> FALSE, since |-> r.mod, cells |-> cells]
<1>1. /\ r.mod \in Nat /\ r.since = r.mod /\ ~r.deleted
      /\ \A k \in Cols : r.cells[k].at = r.mod
  BY NoRowIsNoRow DEF Whole, Exists
<1>2. /\ LaterStatus(r, new) = new /\ ResetBefore(r, new) = 0
      /\ new.deleted = FALSE /\ new.since = r.mod
      /\ \A k \in Cols : new.cells[k].at = r.mod
  BY <1>1 DEF LaterStatus, ResetBefore
<1> HIDE DEF new
<1>3. ASSUME NEW k \in Cols PROVE MergeCells(r, new)[k] = r.cells[k]
  <2>1. LaterCell(r.cells[k], new.cells[k]) = r.cells[k]
    BY <1>1, <1>2 DEF LaterCell
  <2>2. ~Hidden(r.cells[k], ResetBefore(r, new))
    BY <1>1, <1>2 DEF Hidden
  <2> QED
    BY <1>2, <2>1, <2>2 DEF MergeCells
<1>4. r.cells \in [Cols -> Cell]
  BY DEF Row
<1>5. MergeCells(r, new) = r.cells
  BY <1>3, <1>4 DEF MergeCells
<1>6. MergeRows(r, new, r.mod)
        = [mod |-> r.mod, deleted |-> FALSE, since |-> r.mod, cells |-> r.cells]
  BY <1>2, <1>5 DEF MergeRows
<1>7. MergeRows(r, new, r.mod) = r
  BY <1>1, <1>6 DEF Row
<1> QED
  BY <1>7 DEF new

(***************************************************************************)
(* An update writes the columns it changes over an older row; over a later *)
(* row, or one that its own transaction wrote before, it does nothing.     *)
(***************************************************************************)
LEMMA UpdateEffect ==
  ASSUME RowInv, NEW c \in Conns, NEW changed \in SUBSET Cols,
         NEW vals \in [Cols -> Values], Update(c, changed, vals)
  PROVE  IF row[c].mod < tx[c]
         THEN \A k \in changed : row'[c].cells[k] = [at |-> tx[c], val |-> vals[k]]
         ELSE row' = row
<1> DEFINE given == [k \in Cols |-> IF k \in changed THEN vals[k] ELSE row[c].cells[k].val]
           new   == [mod |-> tx[c], deleted |-> FALSE, since |-> tx[c],
                     cells |-> AllCells(c, given)]
           out   == MergeRows(row[c], new, tx[c])
<1>1. tx[c] \in Times /\ Exists(row[c]) /\ row[c] \in Row /\ Whole(row[c])
  BY UpdatedRow
<1>2. row' = [row EXCEPT ![c] = Set(row[c], out)]
  BY DEF Update, Execute, Written
<1>3. row \in [Conns -> Row \union {NoRow}]
  BY DEF RowInv, TypeOK
<1>4. \A k \in Cols : row[c].cells[k].val \in Values
  BY UpdatedRow
<1>5. given \in [Cols -> Values]
  BY <1>4
<1>6. \A k \in changed : given[k] = vals[k]
  OBVIOUS
<1> HIDE DEF given
<1>7. AllCells(c, given) \in [Cols -> Cell] /\ \A k \in Cols : AllCells(c, given)[k].at = tx[c]
  BY <1>1, <1>5 DEF AllCells, Cell
<1>8. tx[c] \in Nat /\ row[c].mod \in Nat /\ row[c] # NoRow
  BY <1>1, NoRowIsNoRow, TimesPositive
<1>9. out.mod = tx[c]
  BY DEF MergeRows
<1>10. CASE row[c].mod < tx[c]
  <2>1. out.cells = AllCells(c, given)
    BY <1>1, <1>7, <1>10, WrittenOverOlder
  <2>2. row'[c] = out
    BY <1>2, <1>3, <1>8, <1>9, <1>10 DEF Set
  <2>3. \A k \in changed : AllCells(c, given)[k] = [at |-> tx[c], val |-> vals[k]]
    BY <1>6 DEF AllCells
  <2> QED
    BY <1>10, <2>1, <2>2, <2>3
<1>11. CASE row[c].mod = tx[c]
  <2>1. out = row[c]
    BY <1>1, <1>7, <1>11, WrittenOverSame
  <2>2. Set(row[c], out) = row[c]
    BY <2>1 DEF Set
  <2> QED
    BY <1>2, <1>3, <1>8, <1>11, <2>2
<1>12. CASE tx[c] < row[c].mod
  <2>1. Set(row[c], out) = row[c]
    BY <1>8, <1>9, <1>12 DEF Set
  <2> QED
    BY <1>2, <1>3, <1>8, <1>12, <2>1
<1> QED
  BY <1>8, <1>10, <1>11, <1>12

(* An update takes effect exactly if its row is older than its transaction. *)
THEOREM UpdatesTakeEffect == Spec => UpdateTakesEffect
<1> DEFINE Effect ==
      \A c \in Conns, changed \in (SUBSET Cols) \ {{}}, vals \in [Cols -> Values] :
         Update(c, changed, vals) =>
            IF row[c].mod < tx[c]
            THEN \A k \in changed : row'[c].cells[k] = [at |-> tx[c], val |-> vals[k]]
            ELSE row' = row
<1>1. RowInv => Effect
  BY UpdateEffect
<1>2. RowInv => [Effect]_vars
  BY <1>1
<1>3. UpdateTakesEffect <=> [][Effect]_vars
  BY DEF UpdateTakesEffect
<1> HIDE DEF Effect
<1> QED
  BY <1>2, <1>3, RowInvHolds, PTL
=============================================================================
