--------------------------- MODULE KVStoreProofs ---------------------------
(***************************************************************************)
(* Proofs about KVStore, and the merge of LWW that it relies on, for any   *)
(* sets of handles, keys and times and any bounds.                         *)
(***************************************************************************)
EXTENDS KVStore, FiniteSetTheorems, TLAPS

-----------------------------------------------------------------------------
(* What the last-write-wins merge guarantees, for any keys and any times. *)

(***************************************************************************)
(* The timestamps of an entry are naturals, and a write is never Absent:   *)
(* Absent is the only entry whose modification time is 0.                  *)
(***************************************************************************)
LEMMA EntryFacts ==
    ASSUME NEW e \in Entry
    PROVE  /\ e.mod \in Nat
           /\ e.tomb \in Nat
           /\ e.mod = 0 => e = Absent
           /\ e.tomb \in {0, e.mod}
  BY TimesAssumption DEF Entry, Absent, Live, Dead

(* Set and Tombstone write entries other than Absent (crdt.go, Set and Tombstone). *)
LEMMA WrittenEntries ==
    ASSUME NEW t \in Times
    PROVE  Live(t) \in Entry \ {Absent} /\ Dead(t) \in Entry \ {Absent}
  <1>1. Live(t) \in Entry /\ Dead(t) \in Entry
    BY DEF Entry
  <1>2. t # 0
    BY TimesAssumption
  <1>3. Live(t).mod # Absent.mod /\ Dead(t).mod # Absent.mod
    BY <1>2 DEF Live, Dead, Absent
  <1>4. QED
    BY <1>1, <1>3

(* The order of entries is reflexive: merging a tree with itself is no step back. *)
LEMMA AtLeastReflexive ==
    ASSUME NEW e \in Entry
    PROVE  AtLeast(e, e)
  BY EntryFacts DEF AtLeast, Tombstoned

(***************************************************************************)
(* The order of entries is transitive, so a root superseded by a           *)
(* superseded root is superseded.                                          *)
(***************************************************************************)
LEMMA AtLeastTransitive ==
    ASSUME NEW a \in Entry, NEW b \in Entry, NEW c \in Entry,
           AtLeast(a, b), AtLeast(b, c)
    PROVE  AtLeast(a, c)
  BY EntryFacts DEF AtLeast, Tombstoned

(* Only an absent entry is behind Absent: an untouched key covers no write. *)
LEMMA AbsentCoversNothing ==
    ASSUME NEW e \in Entry, AtLeast(Absent, e)
    PROVE  e = Absent
  BY EntryFacts DEF AtLeast, Tombstoned, Absent

(***************************************************************************)
(* LastWriteWins returns one of its arguments, and one that supersedes     *)
(* both (value.go, LastWriteWins and firstTombstoneWins).                  *)
(***************************************************************************)
LEMMA LastWriteWinsIsUpperBound ==
    ASSUME NEW a \in Entry, NEW b \in Entry
    PROVE  /\ LastWriteWins(a, b) \in {a, b}
           /\ AtLeast(LastWriteWins(a, b), a)
           /\ AtLeast(LastWriteWins(a, b), b)
  BY EntryFacts DEF LastWriteWins, NewWins, AtLeast, Tombstoned

(***************************************************************************)
(* The entry a merge leaves for a key is one of the two it met, and        *)
(* supersedes both (crdt.go, LWW).                                         *)
(***************************************************************************)
LEMMA MergeEntryIsUpperBound ==
    ASSUME NEW a \in Entry, NEW b \in Entry
    PROVE  /\ MergeEntry(a, b) \in {a, b}
           /\ AtLeast(MergeEntry(a, b), a)
           /\ AtLeast(MergeEntry(a, b), b)
  <1>1. \A e \in Entry : AtLeast(e, Absent)
    BY EntryFacts DEF AtLeast, Tombstoned, Absent
  <1>2. QED
    BY <1>1, LastWriteWinsIsUpperBound, AtLeastReflexive DEF MergeEntry

(***************************************************************************)
(* The merge of two trees is a tree that dominates both (crdt.go, Merge).  *)
(***************************************************************************)
THEOREM MergeDominates ==
    ASSUME NEW t \in Tree, NEW u \in Tree
    PROVE  /\ MergeTrees(t, u) \in Tree
           /\ Dominates(MergeTrees(t, u), t)
           /\ Dominates(MergeTrees(t, u), u)
  <1>1. ASSUME NEW k \in Keys
        PROVE  /\ MergeEntry(t[k], u[k]) \in Entry
               /\ AtLeast(MergeEntry(t[k], u[k]), t[k])
               /\ AtLeast(MergeEntry(t[k], u[k]), u[k])
    BY MergeEntryIsUpperBound DEF Tree
  <1>2. QED
    BY <1>1 DEF MergeTrees, Dominates, Tree

(* Dominance between trees is reflexive. *)
LEMMA DominatesReflexive ==
    ASSUME NEW t \in Tree
    PROVE  Dominates(t, t)
  BY AtLeastReflexive DEF Dominates, Tree

(* Dominance between trees is transitive. *)
LEMMA DominatesTransitive ==
    ASSUME NEW t \in Tree, NEW u \in Tree, NEW v \in Tree,
           Dominates(t, u), Dominates(u, v)
    PROVE  Dominates(t, v)
  BY AtLeastTransitive DEF Dominates, Tree

(***************************************************************************)
(* An update never takes a key backwards and always covers the write it    *)
(* was called with (crdt.go, update).                                      *)
(***************************************************************************)
LEMMA UpdateIsUpperBound ==
    ASSUME NEW e \in Entry, NEW old \in Entry
    PROVE  /\ UpdateWins(e, old) => AtLeast(e, old)
           /\ ~UpdateWins(e, old) => AtLeast(old, e)
  BY EntryFacts DEF UpdateWins, NewWins, AtLeast, Tombstoned, Absent

USE DEF Name

-----------------------------------------------------------------------------
(* Types *)

(* A stored root is a root record. *)
LEMMA RootType ==
    ASSUME TypeOK, NEW n \in DOMAIN roots
    PROVE  /\ roots[n] \in RootRecord
           /\ roots[n].tree \in Tree
           /\ roots[n].parents \subseteq Name
           /\ n \in Name
  <1>1. roots \in Seq(RootRecord)
    BY DEF TypeOK
  <1>2. n \in 1..Len(roots)
    BY <1>1
  <1>3. roots[n] \in RootRecord
    BY <1>1, <1>2
  <1>4. QED
    BY <1>2, <1>3 DEF RootRecord

(* Dropping a handle leaves its variables well typed. *)
LEMMA ForgetType ==
    ASSUME TypeOK, NEW h \in Handles, Forget(h), 
           roots' \in Seq(RootRecord), current' \subseteq DOMAIN roots',
           merged' \subseteq Name, nodes' \subseteq Node,
           writes' \in 0..MaxWrites, faults' \in 0..MaxFaults
    PROVE  TypeOK'
  <1>1. EmptyTree \in Tree
    BY DEF EmptyTree, Tree, Entry
  <1>2. QED
    BY <1>1 DEF TypeOK, Forget, States

(* Storing a root keeps the store well typed, and names it. *)
LEMMA PutRootType ==
    ASSUME TypeOK, NEW r \in RootRecord, PutRoot(r)
    PROVE  /\ roots' \in Seq(RootRecord)
           /\ NameOf(r) \in DOMAIN roots'
           /\ roots'[NameOf(r)] = r
           /\ DOMAIN roots \subseteq DOMAIN roots'
           /\ \A n \in DOMAIN roots : roots'[n] = roots[n]
           /\ \A n \in DOMAIN roots' : n \in DOMAIN roots \/ n = NameOf(r)
           /\ NameOf(r) \in DOMAIN roots \/ \A n \in DOMAIN roots : n < NameOf(r)
           /\ current' = current \union {NameOf(r)}
  <1>1. CASE \E n \in DOMAIN roots : roots[n] = r
    <2>1. NameOf(r) \in DOMAIN roots /\ roots[NameOf(r)] = r
      BY <1>1 DEF NameOf
    <2>2. QED
      BY <2>1 DEF PutRoot, TypeOK
  <1>2. CASE ~ \E n \in DOMAIN roots : roots[n] = r
    <2>1. NameOf(r) = Len(roots) + 1
      BY <1>2 DEF NameOf
    <2>2. roots' = Append(roots, r)
      BY <2>1 DEF PutRoot, TypeOK
    <2>3. QED
      BY <2>1, <2>2 DEF PutRoot, TypeOK
  <1>3. QED
    BY <1>1, <1>2

(* The root a Commit stores is well formed. *)
LEMMA NewRootType ==
    ASSUME TypeOK, NEW h \in Handles
    PROVE  NewRoot(h) \in RootRecord
  BY DEF TypeOK, NewRoot, RootRecord

(* The nodes a Commit stores are nodes. *)
LEMMA DirtyNodesType ==
    ASSUME TypeOK, NEW h \in Handles
    PROVE  DirtyNodes(h) \subseteq Node
  BY DEF TypeOK, DirtyNodes, Node, Tree

(* A failed Commit leaves the handle well typed. *)
LEMMA CommitFailsType ==
    ASSUME TypeOK, NEW h \in Handles, CommitFails(h), UNCHANGED writes,
           roots' \in Seq(RootRecord), current' \subseteq DOMAIN roots',
           merged' \subseteq Name, nodes' \subseteq Node
    PROVE  TypeOK'
  <1>1. faults' \in 0..MaxFaults /\ writes' \in 0..MaxWrites
    BY BoundsAssumption DEF TypeOK, CommitFails, Fault
  <1>2. CASE opening[h]
    <2>1. Forget(h)
      BY <1>2 DEF CommitFails
    <2>2. QED
      BY <1>1, <2>1, ForgetType
  <1>3. CASE ~opening[h]
    BY <1>1, <1>3 DEF TypeOK, CommitFails, callerVars, moveVars, States
  <1>4. opening[h] \in BOOLEAN
    BY DEF TypeOK
  <1>5. QED
    BY <1>2, <1>3, <1>4

(* Every step of every handle preserves the types. *)
LEMMA TypeStep ==
    ASSUME TypeOK, [Next]_vars
    PROVE  TypeOK'
  <1> USE DEF storeVars, contentVars, moveVars, callerVars, boundVars
  <1>1. CASE UNCHANGED vars
    BY <1>1 DEF TypeOK, vars
  <1>2. ASSUME NEW h \in Handles, ListRoots(h)
        PROVE  TypeOK'
    BY <1>2, OpenTimesAssumption DEF TypeOK, ListRoots, States
  <1>3. ASSUME NEW h \in Handles, NEW n \in todo[h], SkipRoot(h, n)
        PROVE  TypeOK'
    BY <1>3 DEF TypeOK, SkipRoot
  <1>4. ASSUME NEW h \in Handles, NEW n \in todo[h], LoadFirstRoot(h, n)
        PROVE  TypeOK'
    <2>1. roots[n].tree \in Tree /\ n \in Name
      BY <1>4, RootType DEF TypeOK, LoadFirstRoot, Loadable
    <2>2. QED
      BY <1>4, <2>1 DEF TypeOK, LoadFirstRoot
  <1>5. ASSUME NEW h \in Handles, NEW n \in todo[h], MergeRoot(h, n)
        PROVE  TypeOK'
    <2>1. roots[n].tree \in Tree /\ n \in Name
      BY <1>5, RootType DEF TypeOK, MergeRoot, Loadable
    <2>2. MergeTrees(tree[h], roots[n].tree) \in Tree
      BY <2>1, MergeDominates DEF TypeOK
    <2>3. QED
      BY <1>5, <2>1, <2>2 DEF TypeOK, MergeRoot
  <1>6. ASSUME NEW h \in Handles, NEW n \in todo[h], MergeFails(h, n)
        PROVE  TypeOK'
    <2>1. Forget(h) /\ UNCHANGED <<storeVars, boundVars>>
      BY <1>6 DEF MergeFails
    <2>2. QED
      BY <2>1, ForgetType DEF TypeOK
  <1>7. ASSUME NEW h \in Handles, FinishMerge(h)
        PROVE  TypeOK'
    <2>1. sources[h] \subseteq Name
      BY DEF TypeOK
    <2>2. sources[h] # {} => (CHOOSE n \in sources[h] : TRUE) \in Name
      BY <2>1
    <2>3. Cardinality(sources[h]) = 1 => sources[h] # {}
      BY FS_EmptySet
    <2>4. QED
      BY <1>7, <2>2, <2>3 DEF TypeOK, FinishMerge, States
  <1>8. ASSUME NEW h \in Handles, NEW k \in Keys, NEW e \in Entry \ {Absent}, Update(h, k, e)
        PROVE  TypeOK'
    <2>1. writes' \in 0..MaxWrites /\ <<k, e>> \in Write
      BY <1>8, BoundsAssumption DEF TypeOK, Update, Write
    <2>2. pending' \in [Handles -> SUBSET Write]
      BY <1>8, <2>1 DEF TypeOK, Update
    <2>3. [tree[h] EXCEPT ![k] = e] \in Tree
      BY DEF TypeOK, Tree
    <2>4. tree' \in [Handles -> Tree] /\ dirty' \in [Handles -> SUBSET Keys]
      <3>1. CASE UpdateWins(e, tree[h][k])
        <4>1. tree' = [tree EXCEPT ![h] = [tree[h] EXCEPT ![k] = e]]
          BY <1>8, <3>1 DEF Update
        <4>2. dirty' = [dirty EXCEPT ![h] = dirty[h] \union {k}]
          BY <1>8, <3>1 DEF Update
        <4>3. QED
          BY <2>3, <4>1, <4>2 DEF TypeOK
      <3>2. CASE ~UpdateWins(e, tree[h][k])
        BY <1>8, <3>2 DEF TypeOK, Update
      <3>3. QED
        BY <3>1, <3>2
    <2>5. UNCHANGED <<storeVars, pc, todo, created, source, sources, unmerged, opening,
                      moveVars, committed, expected, faults>>
      BY <1>8 DEF Update
    <2>6. QED
      BY <2>1, <2>2, <2>4, <2>5 DEF TypeOK
  <1>9. ASSUME NEW h \in Handles, StartCommit(h)
        PROVE  TypeOK'
    BY <1>9 DEF TypeOK, StartCommit, States
  <1>10. ASSUME NEW h \in Handles, CommitNothing(h)
         PROVE  TypeOK'
    BY <1>10 DEF TypeOK, CommitNothing, States
  <1>11. ASSUME NEW h \in Handles, StoreNodes(h)
         PROVE  TypeOK'
    BY <1>11, DirtyNodesType DEF TypeOK, StoreNodes, States
  <1>12. ASSUME NEW h \in Handles, StoreNodesFails(h)
         PROVE  TypeOK'
    <2>1. nodes' \subseteq Node
      BY <1>12, DirtyNodesType DEF TypeOK, StoreNodesFails
    <2>2. QED
      BY <1>12, <2>1, CommitFailsType DEF TypeOK, StoreNodesFails
  <1>13. ASSUME NEW h \in Handles, StoreRoot(h)
         PROVE  TypeOK'
    <2>1. PutRoot(NewRoot(h)) /\ NewRoot(h) \in RootRecord
      BY <1>13, NewRootType DEF StoreRoot
    <2>2. /\ roots' \in Seq(RootRecord)
          /\ current' \subseteq DOMAIN roots'
          /\ NameOf(NewRoot(h)) \in Name
      BY <2>1, PutRootType DEF TypeOK
    <2>3. QED
      BY <1>13, <2>2 DEF TypeOK, StoreRoot, States
  <1>14. ASSUME NEW h \in Handles, StoreRootFails(h)
         PROVE  TypeOK'
    <2>1. roots' \in Seq(RootRecord) /\ current' \subseteq DOMAIN roots'
      BY <1>14, NewRootType, PutRootType DEF TypeOK, StoreRootFails
    <2>2. CommitFails(h) /\ UNCHANGED <<merged, nodes, writes>>
      BY <1>14 DEF StoreRootFails
    <2>3. QED
      BY <2>1, <2>2, CommitFailsType DEF TypeOK
  <1>15. ASSUME NEW h \in Handles, NEW n \in toMove[h], CopyMerged(h, n)
         PROVE  TypeOK'
    BY <1>15 DEF TypeOK, CopyMerged
  <1>16. ASSUME NEW h \in Handles, DeleteMerged(h)
         PROVE  TypeOK'
    BY <1>16 DEF TypeOK, DeleteMerged
  <1>17. ASSUME NEW h \in Handles, MoveFails(h)
         PROVE  TypeOK'
    BY <1>17, BoundsAssumption DEF TypeOK, MoveFails, Fault
  <1>18. ASSUME NEW h \in Handles, FinishCommit(h)
         PROVE  TypeOK'
    BY <1>18 DEF TypeOK, FinishCommit, States
  <1>19. ASSUME NEW h \in Handles, Retry(h)
         PROVE  TypeOK'
    BY <1>19 DEF TypeOK, Retry, States
  <1>20. ASSUME NEW h \in Handles, Close(h)
         PROVE  TypeOK'
    BY <1>20, ForgetType DEF TypeOK, Close
  <1>21. ASSUME NEW h \in Handles, Crash(h)
         PROVE  TypeOK'
    <2>1. faults' \in 0..MaxFaults
      BY <1>21, BoundsAssumption DEF TypeOK, Crash, Fault
    <2>2. QED
      BY <1>21, <2>1, ForgetType DEF TypeOK, Crash
  <1>22. QED
    BY <1>1, <1>2, <1>3, <1>4, <1>5, <1>6, <1>7, <1>8, <1>9, <1>10, <1>11, <1>12, <1>13,
       <1>14, <1>15, <1>16, <1>17, <1>18, <1>19, <1>20, <1>21, WrittenEntries DEF Next, LoadRoot

(***************************************************************************)
(* Every variable of the store and of the handles keeps its type, and no   *)
(* name is ever listed that was not stored.                                *)
(***************************************************************************)
THEOREM TypeCorrect == Spec => []TypeOK
  <1>1. Init => TypeOK
    BY BoundsAssumption DEF Init, TypeOK, States, EmptyTree, Tree, Entry
  <1>2. TypeOK /\ [Next]_vars => TypeOK'
    BY TypeStep
  <1>3. QED
    BY <1>1, <1>2, PTL DEF Spec
=============================================================================
