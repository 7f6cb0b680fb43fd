--------------------------- MODULE KVSafetyProofs ---------------------------
(***************************************************************************)
(* The inductive invariant of KVStore and what follows from it, for any    *)
(* handles, keys, times and bounds, as long as callers drop a handle whose *)
(* Commit failed (~RetryFailed), which is what pkg/sqlite does.            *)
(*                                                                         *)
(* A step of one handle can disturb the invariant of another only through  *)
(* the blob container, which only grows as far as those invariants look at *)
(* it (StoreGrows); so a step is safe once it keeps its own handle and the *)
(* roots in order (OneHandleStep).                                         *)
(***************************************************************************)
EXTENDS KVStoreProofs

StoreGrows ==
    /\ DOMAIN roots \subseteq DOMAIN roots'
    /\ \A n \in DOMAIN roots : roots'[n] = roots[n]
    /\ nodes \subseteq nodes'
    /\ merged \subseteq merged'

SameHandle(g) ==
    /\ pc'[g] = pc[g] /\ todo'[g] = todo[g] /\ tree'[g] = tree[g]
    /\ source'[g] = source[g] /\ sources'[g] = sources[g]
    /\ unmerged'[g] = unmerged[g] /\ dirty'[g] = dirty[g]
    /\ toMove'[g] = toMove[g] /\ moving'[g] = moving[g]
    /\ pending'[g] = pending[g] /\ expected'[g] = expected[g]

-----------------------------------------------------------------------------
(* Facts about trees and writes *)

(* A tree that dominates another covers every write the other covers. *)
LEMMA CoversTransitive ==
    ASSUME NEW t \in Tree, NEW u \in Tree, NEW w \in Write,
           Dominates(t, u), Covers(u, w)
    PROVE  Covers(t, w)
  <1>1. w[1] \in Keys /\ w[2] \in Entry
    BY DEF Write
  <1>2. t[w[1]] \in Entry /\ u[w[1]] \in Entry
    BY <1>1 DEF Tree
  <1>3. AtLeast(t[w[1]], u[w[1]])
    BY <1>1 DEF Dominates
  <1>4. QED
    BY <1>1, <1>2, <1>3, AtLeastTransitive DEF Covers

(* A key that was never written covers no write. *)
LEMMA AbsentKeyCoversNoWrite ==
    ASSUME NEW t \in Tree, NEW w \in Write, t[w[1]] = Absent
    PROVE  ~Covers(t, w)
  <1>1. w[2] \in Entry /\ w[2] # Absent
    BY DEF Write
  <1>2. QED
    BY <1>1, AbsentCoversNothing DEF Covers

(* The empty tree covers no write. *)
LEMMA EmptyTreeCoversNoWrite ==
    ASSUME NEW w \in Write
    PROVE  ~Covers(EmptyTree, w)
  <1>1. EmptyTree \in Tree
    BY DEF EmptyTree, Tree, Entry
  <1>2. w[1] \in Keys
    BY DEF Write
  <1>3. EmptyTree[w[1]] = Absent
    BY <1>2 DEF EmptyTree
  <1>4. QED
    BY <1>1, <1>3, AbsentKeyCoversNoWrite

(***************************************************************************)
(* Every promised write is covered by a readable current root: some        *)
(* version covers it, and a current root supersedes that version.          *)
(***************************************************************************)
LEMMA InvariantImpliesDurable ==
    ASSUME IInv
    PROVE  DurableCommits
  <1> SUFFICES ASSUME NEW w \in committed
               PROVE  \E c \in current : Readable(c) /\ Covers(roots[c].tree, w)
    BY DEF DurableCommits
  <1>1. PICK n \in DOMAIN roots : Covers(roots[n].tree, w)
    BY DEF IInv, RootsOK, VersionsOK
  <1>2. PICK c \in current : c >= n /\ Dominates(roots[c].tree, roots[n].tree)
    BY DEF IInv, RootsOK, Superseded
  <1>3. c \in DOMAIN roots /\ w \in Write
    BY DEF IInv, TypeOK
  <1>4. roots[c].tree \in Tree /\ roots[n].tree \in Tree
    BY <1>3, RootType DEF IInv
  <1>5. Covers(roots[c].tree, w)
    BY <1>1, <1>2, <1>3, <1>4, CoversTransitive
  <1>6. Readable(c)
    BY <1>3 DEF IInv, RootsOK, VersionsOK
  <1>7. QED
    BY <1>5, <1>6

(* The same of the state after a step. *)
LEMMA DurableAfterwards == IInv' => DurableCommits'
  <1>1. IInv => DurableCommits
    BY InvariantImpliesDurable
  <1>2. QED
    BY <1>1, PTL

-----------------------------------------------------------------------------
(* One handle moves, the others and the store stay in order *)

(* A handle that does not move stays in order while the store grows. *)
LEMMA OtherHandles ==
    ASSUME TypeOK, NEW g \in Handles, HandleOK(g), StoreGrows, SameHandle(g)
    PROVE  HandleOK(g)'
  <1>1. todo[g] \subseteq DOMAIN roots /\ sources[g] \subseteq DOMAIN roots
        /\ toMove[g] \subseteq DOMAIN roots
    BY DEF HandleOK, PhaseOK
  <1>2. PhaseOK(g)'
    BY <1>1 DEF HandleOK, PhaseOK, StoreGrows, SameHandle
  <1>3. MemoryOK(g)'
    BY <1>1 DEF HandleOK, MemoryOK, StoreGrows, SameHandle
  <1>4. CleanOK(g)'
    <2>1. \A k \in Keys : LeafReadable(g, k) => LeafReadable(g, k)'
      BY DEF LeafReadable, StoreGrows, SameHandle
    <2>2. QED
      BY <1>1, <2>1 DEF HandleOK, CleanOK, StoreGrows, SameHandle
  <1>5. MovingOK(g)'
    <2>1. source[g] # 0 => source[g] \in DOMAIN roots
      BY <1>1 DEF HandleOK, PhaseOK
    <2>2. QED
      BY <1>1, <2>1 DEF HandleOK, MovingOK, StoreGrows, SameHandle
  <1>6. ExpectedOK(g)'
    BY <1>1 DEF HandleOK, ExpectedOK, StoreGrows, SameHandle
  <1>7. QED
    BY <1>2, <1>3, <1>4, <1>5, <1>6 DEF HandleOK

(* What a step of one handle has to keep for the invariant to hold after it. *)
LEMMA OneHandleStep ==
    ASSUME IInv, TypeOK', NEW h \in Handles, StoreGrows,
           \A g \in Handles \ {h} : SameHandle(g),
           HandleOK(h)', RootsOK'
    PROVE  IInv'
  <1>1. ASSUME NEW g \in Handles
        PROVE  HandleOK(g)'
    <2>1. CASE g = h
      BY <2>1
    <2>2. CASE g # h
      BY <2>2, OtherHandles DEF IInv
    <2>3. QED
      BY <2>1, <2>2
  <1>2. QED
    BY <1>1 DEF IInv

(* A handle that was dropped is in order. *)
LEMMA ForgottenHandle ==
    ASSUME TypeOK, NEW h \in Handles, Forget(h)
    PROVE  /\ HandleOK(h)'
           /\ \A g \in Handles \ {h} : SameHandle(g)
  <1> USE DEF TypeOK, Forget
  <1>1. /\ pc'[h] = "closed" /\ todo'[h] = {} /\ tree'[h] = EmptyTree
        /\ source'[h] = 0 /\ sources'[h] = {} /\ dirty'[h] = {}
        /\ toMove'[h] = {} /\ moving'[h] = 0 /\ pending'[h] = {} /\ expected'[h] = {}
    OBVIOUS
  <1>2. \A g \in Handles \ {h} : SameHandle(g)
    BY DEF SameHandle
  <1>3. \A k \in Keys : tree'[h][k] = Absent
    BY <1>1 DEF EmptyTree
  <1>4. PhaseOK(h)' /\ MemoryOK(h)' /\ MovingOK(h)' /\ ExpectedOK(h)'
    BY <1>1 DEF PhaseOK, MemoryOK, MovingOK, ExpectedOK
  <1>5. CleanOK(h)'
    BY <1>1, <1>3 DEF CleanOK, LeafReadable
  <1>6. QED
    BY <1>2, <1>4, <1>5 DEF HandleOK

(* A step that leaves the store and the promises alone leaves the roots in order. *)
LEMMA SameStore ==
    ASSUME IInv, UNCHANGED <<storeVars, committed>>
    PROVE  StoreGrows /\ RootsOK'
  <1> USE DEF storeVars
  <1>1. StoreGrows
    BY DEF StoreGrows
  <1>2. RootsOK'
    BY DEF IInv, RootsOK, NamesOK, Superseded, VersionsOK, HistoryKept, Readable
  <1>3. QED
    BY <1>1, <1>2

(* New nodes leave the roots in order. *)
LEMMA MoreNodes ==
    ASSUME IInv, UNCHANGED <<roots, current, merged, committed>>, nodes \subseteq nodes'
    PROVE  StoreGrows /\ RootsOK'
  <1>1. StoreGrows
    BY DEF StoreGrows
  <1>2. RootsOK'
    BY DEF IInv, RootsOK, NamesOK, Superseded, VersionsOK, HistoryKept, Readable
  <1>3. QED
    BY <1>1, <1>2

-----------------------------------------------------------------------------
(* Open *)

(* What Open listed includes a root for everything promised before. *)
LEMMA ListRootsStep ==
    ASSUME IInv, TypeOK', NEW h \in Handles, ListRoots(h)
    PROVE  IInv' /\ StoreGrows
  <1> USE DEF TypeOK, ListRoots, moveVars, boundVars
  <1>1. /\ pc[h] = "closed" /\ pc'[h] = "loading" /\ todo'[h] = current
        /\ expected'[h] = committed
        /\ \A g \in Handles \ {h} : SameHandle(g)
        /\ UNCHANGED <<storeVars, tree, source, sources, unmerged, dirty, toMove,
                       moving, pending, committed>>
    BY DEF IInv, SameHandle
  <1>2. StoreGrows /\ RootsOK'
    BY <1>1, SameStore
  <1>3. PhaseOK(h) /\ MemoryOK(h) /\ CleanOK(h)
    BY DEF IInv, HandleOK
  <1>4. PhaseOK(h)' /\ MemoryOK(h)' /\ MovingOK(h)'
    BY <1>1, <1>3 DEF IInv, PhaseOK, MemoryOK, MovingOK, storeVars
  <1>5. CleanOK(h)'
    BY <1>1, <1>3 DEF PhaseOK, CleanOK, LeafReadable, storeVars
  <1>6. ExpectedOK(h)'
    BY <1>1, InvariantImpliesDurable DEF ExpectedOK, DurableCommits, storeVars
  <1>7. QED
    BY <1>1, <1>2, <1>4, <1>5, <1>6, OneHandleStep DEF HandleOK

(* A skipped root is remembered in unmerged, and nothing is expected any more. *)
LEMMA SkipRootStep ==
    ASSUME IInv, TypeOK', NEW h \in Handles, NEW n \in todo[h], SkipRoot(h, n)
    PROVE  IInv' /\ StoreGrows
  <1> USE DEF TypeOK, SkipRoot, moveVars, boundVars, callerVars
  <1>1. /\ pc[h] = "loading" /\ todo'[h] = todo[h] \ {n} /\ unmerged'[h] = TRUE
        /\ \A g \in Handles \ {h} : SameHandle(g)
        /\ UNCHANGED <<storeVars, pc, tree, source, sources, dirty, toMove,
                       moving, pending, expected, committed>>
    BY DEF IInv, SameHandle
  <1>2. StoreGrows /\ RootsOK'
    BY <1>1, SameStore
  <1>3. PhaseOK(h) /\ MemoryOK(h) /\ CleanOK(h)
    BY DEF IInv, HandleOK
  <1>4. PhaseOK(h)' /\ MemoryOK(h)' /\ MovingOK(h)' /\ ExpectedOK(h)'
    BY <1>1, <1>3 DEF PhaseOK, MemoryOK, MovingOK, ExpectedOK, storeVars
  <1>5. CleanOK(h)'
    BY <1>1, <1>3 DEF CleanOK, LeafReadable, storeVars
  <1>6. QED
    BY <1>1, <1>2, <1>4, <1>5, OneHandleStep DEF HandleOK

(* The first root becomes the tree: nothing was in the tree before. *)
LEMMA LoadFirstRootStep ==
    ASSUME IInv, TypeOK', NEW h \in Handles, NEW n \in todo[h], LoadFirstRoot(h, n)
    PROVE  IInv' /\ StoreGrows
  <1> USE DEF TypeOK, LoadFirstRoot, moveVars, boundVars, callerVars
  <1>1. /\ pc[h] = "loading" /\ sources[h] = {}
        /\ todo'[h] = todo[h] \ {n} /\ tree'[h] = roots[n].tree /\ sources'[h] = {n}
        /\ \A g \in Handles \ {h} : SameHandle(g)
        /\ UNCHANGED <<storeVars, pc, source, unmerged, dirty, toMove,
                       moving, pending, expected, committed>>
    BY DEF IInv, SameHandle
  <1>2. StoreGrows /\ RootsOK'
    BY <1>1, SameStore
  <1>3. PhaseOK(h) /\ ExpectedOK(h)
    BY DEF IInv, HandleOK
  <1>4. n \in DOMAIN roots /\ roots[n].tree \in Tree
    BY <1>3, RootType DEF IInv, PhaseOK
  <1>5. PhaseOK(h)' /\ MovingOK(h)'
    BY <1>1, <1>3 DEF PhaseOK, MovingOK, storeVars
  <1>6. MemoryOK(h)'
    BY <1>1, <1>3, <1>4, DominatesReflexive DEF PhaseOK, MemoryOK, storeVars
  <1>7. CleanOK(h)'
    <2>1. Readable(n)
      BY <1>4 DEF IInv, RootsOK, VersionsOK
    <2>2. /\ Top(roots[n].tree) \in nodes
          /\ \A k \in Keys : roots[n].tree[k] = Absent \/ Leaf(k, roots[n].tree[k]) \in nodes
      BY <2>1 DEF Readable, NodesOf, LeavesOf
    <2>3. QED
      BY <1>1, <2>2 DEF CleanOK, LeafReadable, storeVars
  <1>8. ExpectedOK(h)'
    <2>1. tree[h] = EmptyTree
      BY <1>1, <1>3 DEF PhaseOK
    <2>2. \A w \in expected[h] : ~Covers(tree[h], w)
      BY <2>1, EmptyTreeCoversNoWrite DEF IInv
    <2>3. QED
      BY <1>1, <1>3, <2>2 DEF ExpectedOK, storeVars
  <1>9. QED
    BY <1>1, <1>2, <1>5, <1>6, <1>7, <1>8, OneHandleStep DEF HandleOK

(* The merged tree dominates both the tree it was and the root merged into it. *)
LEMMA MergeRootStep ==
    ASSUME IInv, TypeOK', NEW h \in Handles, NEW n \in todo[h], MergeRoot(h, n)
    PROVE  IInv' /\ StoreGrows
  <1> DEFINE joined == MergeTrees(tree[h], roots[n].tree)
  <1>1. /\ pc[h] = "loading" /\ sources[h] # {}
        /\ todo'[h] = todo[h] \ {n} /\ tree'[h] = joined
        /\ sources'[h] = sources[h] \union {n}
        /\ dirty'[h] = dirty[h] \union {k \in Keys : joined[k] # tree[h][k]}
        /\ \A g \in Handles \ {h} : SameHandle(g)
        /\ UNCHANGED <<storeVars, pc, source, unmerged, toMove, moving, pending,
                       expected, committed>>
    BY DEF IInv, TypeOK, MergeRoot, SameHandle, moveVars, boundVars, callerVars
  <1>2. StoreGrows /\ RootsOK'
    BY <1>1, SameStore
  <1>3. PhaseOK(h) /\ MemoryOK(h) /\ CleanOK(h) /\ ExpectedOK(h)
    BY DEF IInv, HandleOK
  <1>4. n \in DOMAIN roots /\ roots[n].tree \in Tree /\ tree[h] \in Tree
    BY <1>3, RootType DEF IInv, PhaseOK, TypeOK
  <1>5. joined \in Tree /\ Dominates(joined, tree[h]) /\ Dominates(joined, roots[n].tree)
    BY <1>4, MergeDominates
  <1> HIDE DEF joined
  <1>6. PhaseOK(h)' /\ MovingOK(h)'
    BY <1>1, <1>3, <1>4 DEF PhaseOK, MovingOK, storeVars
  <1>7. MemoryOK(h)'
    <2>1. \A m \in sources[h] : Dominates(joined, roots[m].tree)
      <3>1. \A m \in sources[h] : roots[m].tree \in Tree /\ Dominates(tree[h], roots[m].tree)
        BY <1>3, RootType DEF IInv, PhaseOK, MemoryOK
      <3>2. QED
        BY <1>4, <1>5, <3>1, DominatesTransitive
    <2>2. pending[h] = {}
      BY <1>1, <1>3 DEF PhaseOK
    <2>3. QED
      BY <1>1, <1>5, <2>1, <2>2 DEF MemoryOK, storeVars
  <1>8. CleanOK(h)'
    <2>1. \A k \in Keys : LeafReadable(h, k)'
      BY <1>1, <1>3 DEF CleanOK, LeafReadable, storeVars
    <2>2. ASSUME dirty'[h] = {}
          PROVE  Top(tree'[h]) \in nodes
      <3>1. \A k \in Keys : joined[k] = tree[h][k]
        BY <1>1, <2>2
      <3>2. joined = tree[h]
        BY <1>4, <1>5, <3>1 DEF Tree
      <3>3. Top(tree[h]) \in nodes
        BY <1>1, <1>3, <2>2 DEF CleanOK
      <3>4. QED
        BY <1>1, <3>2, <3>3
    <2>3. \A m : sources'[h] # {m}
      BY <1>1, <1>3 DEF PhaseOK
    <2>4. QED
      BY <1>1, <2>1, <2>2, <2>3 DEF CleanOK, storeVars
  <1>9. ExpectedOK(h)'
    <2>1. expected[h] \subseteq Write
      BY DEF IInv, TypeOK
    <2>2. ASSUME NEW w \in expected[h], Covers(tree[h], w) \/ Covers(roots[n].tree, w)
          PROVE  Covers(joined, w)
      BY <1>4, <1>5, <2>1, <2>2, CoversTransitive
    <2>3. QED
      BY <1>1, <1>3, <2>2 DEF ExpectedOK, storeVars
  <1>10. QED
    BY <1>1, <1>2, <1>6, <1>7, <1>8, <1>9, OneHandleStep DEF HandleOK

(* A root merged alone is the source of the handle. *)
LEMMA FinishMergeStep ==
    ASSUME IInv, TypeOK', NEW h \in Handles, FinishMerge(h)
    PROVE  IInv' /\ StoreGrows
  <1>1. /\ pc[h] = "loading" /\ todo[h] = {} /\ pc'[h] \in {"open", "committing"}
        /\ source'[h] = IF Cardinality(sources[h]) = 1
                        THEN CHOOSE n \in sources[h] : TRUE ELSE 0
        /\ \A g \in Handles \ {h} : SameHandle(g)
        /\ UNCHANGED <<storeVars, todo, tree, sources, unmerged, dirty, toMove, moving,
                       pending, expected, committed>>
    BY DEF IInv, TypeOK, FinishMerge, SameHandle, moveVars, boundVars, callerVars
  <1>2. StoreGrows /\ RootsOK'
    BY <1>1, SameStore
  <1>3. PhaseOK(h) /\ MemoryOK(h) /\ CleanOK(h) /\ ExpectedOK(h)
    BY DEF IInv, HandleOK
  <1>4. source'[h] # 0 => sources[h] = {source'[h]}
    <2>1. IsFiniteSet(sources[h])
      <3>1. sources[h] \subseteq 1..Len(roots)
        BY <1>3 DEF IInv, TypeOK, PhaseOK
      <3>2. IsFiniteSet(1..Len(roots))
        BY FS_Interval DEF IInv, TypeOK
      <3>3. QED
        BY <3>1, <3>2, FS_Subset
    <2>2. Cardinality(sources[h]) = 1 => \E x : sources[h] = {x}
      BY <2>1, FS_Singleton
    <2>3. QED
      BY <1>1, <2>2
  <1>5. PhaseOK(h)' /\ MemoryOK(h)' /\ MovingOK(h)' /\ ExpectedOK(h)'
    BY <1>1, <1>3, <1>4 DEF PhaseOK, MemoryOK, MovingOK, ExpectedOK, storeVars
  <1>6. CleanOK(h)'
    BY <1>1, <1>3 DEF CleanOK, LeafReadable, storeVars
  <1>7. QED
    BY <1>1, <1>2, <1>5, <1>6, OneHandleStep DEF HandleOK

-----------------------------------------------------------------------------
(* Set and Tombstone *)

(* An update covers its write and takes nothing from the tree. *)
LEMMA UpdateStep ==
    ASSUME IInv, TypeOK', NEW h \in Handles, NEW k \in Keys, NEW e \in Entry \ {Absent},
           Update(h, k, e)
    PROVE  IInv' /\ StoreGrows
  <1>1. /\ pc[h] = "open" /\ pending'[h] = pending[h] \union {<<k, e>>}
        /\ \A g \in Handles \ {h} : SameHandle(g)
        /\ UNCHANGED <<storeVars, pc, todo, source, sources, unmerged, toMove, moving,
                       expected, committed>>
    <2>1. /\ pc[h] = "open" /\ pending'[h] = pending[h] \union {<<k, e>>}
          /\ UNCHANGED <<storeVars, pc, todo, source, sources, unmerged, toMove, moving,
                         expected, committed>>
      BY DEF IInv, TypeOK, Update, moveVars
    <2>2. ASSUME NEW g \in Handles \ {h}
          PROVE  pending'[g] = pending[g] /\ tree'[g] = tree[g] /\ dirty'[g] = dirty[g]
      <3>1. pending'[g] = pending[g]
        BY DEF IInv, TypeOK, Update
      <3>2. CASE UpdateWins(e, tree[h][k])
        <4>1. /\ tree' = [tree EXCEPT ![h] = [tree[h] EXCEPT ![k] = e]]
              /\ dirty' = [dirty EXCEPT ![h] = dirty[h] \union {k}]
          BY <3>2 DEF Update
        <4>2. QED
          BY <3>1, <4>1 DEF IInv, TypeOK
      <3>3. CASE ~UpdateWins(e, tree[h][k])
        BY <3>1, <3>3 DEF Update
      <3>4. QED
        BY <3>2, <3>3
    <2>3. QED
      BY <2>1, <2>2 DEF SameHandle
  <1>2. StoreGrows /\ RootsOK'
    BY <1>1, SameStore
  <1>3. PhaseOK(h) /\ MemoryOK(h) /\ CleanOK(h) /\ ExpectedOK(h)
    BY DEF IInv, HandleOK
  <1>4. tree[h] \in Tree /\ tree'[h] \in Tree /\ tree[h][k] \in Entry
    BY DEF IInv, TypeOK, Tree
  <1>5. /\ \A j \in Keys \ {k} : tree'[h][j] = tree[h][j]
        /\ AtLeast(tree'[h][k], tree[h][k]) /\ AtLeast(tree'[h][k], e)
        /\ \/ tree'[h] = tree[h] /\ dirty'[h] = dirty[h]
           \/ dirty'[h] = dirty[h] \union {k}
    <2>1. CASE UpdateWins(e, tree[h][k])
      <3>1. /\ tree' = [tree EXCEPT ![h] = [tree[h] EXCEPT ![k] = e]]
            /\ dirty' = [dirty EXCEPT ![h] = dirty[h] \union {k}]
        BY <2>1 DEF Update
      <3>2. tree'[h] = [tree[h] EXCEPT ![k] = e] /\ dirty'[h] = dirty[h] \union {k}
        BY <3>1 DEF IInv, TypeOK
      <3>3. tree'[h][k] = e
        BY <1>4, <3>2 DEF Tree
      <3>4. \A j \in Keys \ {k} : tree'[h][j] = tree[h][j]
        BY <1>4, <3>2 DEF Tree
      <3>5. AtLeast(e, tree[h][k]) /\ AtLeast(e, e)
        BY <1>4, <2>1, UpdateIsUpperBound, AtLeastReflexive
      <3>6. QED
        BY <3>2, <3>3, <3>4, <3>5
    <2>2. CASE ~UpdateWins(e, tree[h][k])
      BY <1>4, <2>2, UpdateIsUpperBound, AtLeastReflexive DEF Update
    <2>3. QED
      BY <2>1, <2>2
  <1>6. Dominates(tree'[h], tree[h])
    BY <1>4, <1>5, AtLeastReflexive DEF Dominates, Tree
  <1>7. PhaseOK(h)' /\ MovingOK(h)'
    BY <1>1, <1>3 DEF PhaseOK, MovingOK, storeVars
  <1>8. MemoryOK(h)'
    <2>1. \A m \in sources[h] : Dominates(tree'[h], roots[m].tree)
      <3>1. \A m \in sources[h] : roots[m].tree \in Tree /\ Dominates(tree[h], roots[m].tree)
        BY <1>3, RootType DEF IInv, PhaseOK, MemoryOK
      <3>2. QED
        BY <1>4, <1>6, <3>1, DominatesTransitive
    <2>2. \A w \in pending[h] : Covers(tree'[h], w)
      <3>1. \A w \in pending[h] : w \in Write /\ Covers(tree[h], w)
        BY <1>3 DEF IInv, TypeOK, MemoryOK
      <3>2. QED
        BY <1>4, <1>6, <3>1, CoversTransitive
    <2>3. Covers(tree'[h], <<k, e>>)
      BY <1>5 DEF Covers
    <2>4. QED
      BY <1>1, <2>1, <2>2, <2>3 DEF MemoryOK, Covers, storeVars
  <1>9. CleanOK(h)'
    BY <1>1, <1>3, <1>5 DEF CleanOK, LeafReadable, storeVars
  <1>10. ExpectedOK(h)'
    <2>1. \A w \in expected[h] : Covers(tree[h], w) => Covers(tree'[h], w)
      BY <1>4, <1>6, CoversTransitive DEF IInv, TypeOK
    <2>2. QED
      BY <1>1, <1>3, <2>1 DEF ExpectedOK, Covers, storeVars
  <1>11. QED
    BY <1>1, <1>2, <1>7, <1>8, <1>9, <1>10, OneHandleStep DEF HandleOK

-----------------------------------------------------------------------------
(* Commit *)

(* Beginning a Commit changes nothing but what the handle is doing. *)
LEMMA StartCommitStep ==
    ASSUME IInv, TypeOK', NEW h \in Handles, StartCommit(h)
    PROVE  IInv' /\ StoreGrows
  <1>1. /\ pc[h] = "open" /\ pc'[h] = "committing"
        /\ \A g \in Handles \ {h} : SameHandle(g)
        /\ UNCHANGED <<storeVars, todo, tree, source, sources, unmerged, dirty, toMove,
                       moving, pending, expected, committed>>
    BY DEF IInv, TypeOK, StartCommit, SameHandle, contentVars, moveVars, callerVars, boundVars
  <1>2. StoreGrows /\ RootsOK'
    BY <1>1, SameStore
  <1>3. PhaseOK(h) /\ MemoryOK(h) /\ CleanOK(h) /\ ExpectedOK(h)
    BY DEF IInv, HandleOK
  <1>4. PhaseOK(h)' /\ MemoryOK(h)' /\ MovingOK(h)' /\ ExpectedOK(h)'
    BY <1>1, <1>3 DEF PhaseOK, MemoryOK, MovingOK, ExpectedOK, storeVars
  <1>5. CleanOK(h)'
    BY <1>1, <1>3 DEF CleanOK, LeafReadable, storeVars
  <1>6. QED
    BY <1>1, <1>2, <1>4, <1>5, OneHandleStep DEF HandleOK

(***************************************************************************)
(* A Commit that finds nothing to store is right to report success: what   *)
(* the handle was told to set is already in the root it was opened from,   *)
(* and a handle opened from no root was told nothing.                      *)
(***************************************************************************)
LEMMA CommitNothingStep ==
    ASSUME IInv, TypeOK', NEW h \in Handles, CommitNothing(h)
    PROVE  IInv' /\ StoreGrows
  <1>1. /\ pc[h] = "committing" /\ NothingToCommit(h) /\ pc'[h] = "open"
        /\ committed' = committed \union pending[h] /\ pending'[h] = {}
        /\ \A g \in Handles \ {h} : SameHandle(g)
        /\ UNCHANGED <<storeVars, todo, tree, source, sources, unmerged, dirty, toMove,
                       moving, expected>>
    BY DEF IInv, TypeOK, CommitNothing, SameHandle, contentVars, moveVars, boundVars
  <1>2. PhaseOK(h) /\ MemoryOK(h) /\ CleanOK(h) /\ ExpectedOK(h)
    BY DEF IInv, HandleOK
  <1>3. ASSUME NEW w \in pending[h]
        PROVE  \E n \in DOMAIN roots : Covers(roots[n].tree, w)
    <2>1. Covers(tree[h], w) /\ w \in Write /\ tree[h] \in Tree
      BY <1>2 DEF IInv, TypeOK, MemoryOK
    <2>2. CASE source[h] = 0
      <3>1. \A k \in Keys : tree[h][k] = Absent
        BY <1>1, <1>2, <2>2 DEF NothingToCommit, CleanOK
      <3>2. w[1] \in Keys
        BY <2>1 DEF Write
      <3>3. QED
        BY <2>1, <3>1, <3>2, AbsentKeyCoversNoWrite
    <2>3. CASE source[h] # 0
      <3>1. sources[h] = {source[h]} /\ source[h] \in DOMAIN roots
        BY <1>2, <2>3 DEF PhaseOK
      <3>2. tree[h] = roots[source[h]].tree
        BY <1>1, <1>2, <3>1 DEF NothingToCommit, CleanOK
      <3>3. QED
        BY <2>1, <3>1, <3>2
    <2>4. QED
      BY <2>2, <2>3
  <1>4. StoreGrows
    BY <1>1 DEF StoreGrows, storeVars
  <1>5. RootsOK'
    BY <1>1, <1>3 DEF IInv, RootsOK, NamesOK, Superseded, VersionsOK, HistoryKept,
                      Readable, storeVars, Covers
  <1>6. PhaseOK(h)' /\ MemoryOK(h)' /\ MovingOK(h)' /\ ExpectedOK(h)'
    BY <1>1, <1>2 DEF PhaseOK, MemoryOK, MovingOK, ExpectedOK, storeVars
  <1>7. CleanOK(h)'
    BY <1>1, <1>2 DEF CleanOK, LeafReadable, storeVars
  <1>8. QED
    BY <1>1, <1>4, <1>5, <1>6, <1>7, OneHandleStep DEF HandleOK

(* Once its dirty nodes are stored, all of the tree is. *)
LEMMA StoreNodesStep ==
    ASSUME IInv, TypeOK', NEW h \in Handles, StoreNodes(h)
    PROVE  IInv' /\ StoreGrows
  <1>1. /\ pc[h] = "committing" /\ ~NothingToCommit(h) /\ pc'[h] = "storing"
        /\ nodes' = nodes \union DirtyNodes(h) /\ dirty'[h] = {}
        /\ \A g \in Handles \ {h} : SameHandle(g)
        /\ UNCHANGED <<roots, current, merged, todo, tree, source, sources, unmerged, toMove,
                       moving, pending, expected, committed>>
    BY DEF IInv, TypeOK, StoreNodes, SameHandle, moveVars, callerVars, boundVars
  <1>2. PhaseOK(h) /\ MemoryOK(h) /\ CleanOK(h) /\ ExpectedOK(h)
    BY DEF IInv, HandleOK
  <1>3. StoreGrows /\ RootsOK'
    BY <1>1, MoreNodes
  <1>4. NodesOf(tree[h]) \subseteq nodes'
    <2>1. Top(tree[h]) \in nodes'
      <3>1. CASE dirty[h] # {}
        BY <1>1, <3>1 DEF DirtyNodes
      <3>2. CASE dirty[h] = {}
        <4>1. sources[h] # {}
          BY <1>1, <1>2, <3>2 DEF NothingToCommit, PhaseOK
        <4>2. Top(tree[h]) \in nodes
          BY <1>1, <1>2, <3>2, <4>1 DEF CleanOK
        <4>3. QED
          BY <1>1, <4>2
      <3>3. QED
        BY <3>1, <3>2
    <2>2. ASSUME NEW k \in Keys, tree[h][k] # Absent
          PROVE  Leaf(k, tree[h][k]) \in nodes'
      <3>1. k \in dirty[h] \/ Leaf(k, tree[h][k]) \in nodes
        BY <1>1, <1>2, <2>2 DEF CleanOK, LeafReadable
      <3>2. QED
        BY <1>1, <3>1 DEF DirtyNodes
    <2>3. QED
      BY <2>1, <2>2 DEF NodesOf, LeavesOf
  <1>5. PhaseOK(h)' /\ MemoryOK(h)' /\ CleanOK(h)' /\ MovingOK(h)' /\ ExpectedOK(h)'
    BY <1>1, <1>2, <1>4 DEF PhaseOK, MemoryOK, CleanOK, MovingOK, ExpectedOK
  <1>6. QED
    BY <1>1, <1>3, <1>5, OneHandleStep DEF HandleOK

(* A Commit that fails leaves its handle in order, to be dropped. *)
LEMMA FailedHandle ==
    ASSUME IInv, TypeOK', NEW h \in Handles, CommitFails(h), StoreGrows,
           pc[h] \in {"committing", "storing"}
    PROVE  /\ HandleOK(h)'
           /\ \A g \in Handles \ {h} : SameHandle(g)
           /\ committed' = committed
  <1>1. CASE opening[h]
    <2>1. Forget(h)
      BY <1>1 DEF CommitFails
    <2>2. QED
      BY <2>1, ForgottenHandle DEF IInv, Forget
  <1>2. CASE ~opening[h]
    <2>1. /\ pc'[h] = "failed" /\ dirty'[h] = {}
          /\ \A g \in Handles \ {h} : SameHandle(g)
          /\ UNCHANGED <<todo, tree, source, sources, unmerged, toMove, moving,
                         pending, expected, committed>>
      BY <1>2 DEF IInv, TypeOK, CommitFails, SameHandle, moveVars, callerVars
    <2>2. PhaseOK(h) /\ MemoryOK(h) /\ ExpectedOK(h)
      BY DEF IInv, HandleOK
    <2>3. PhaseOK(h)' /\ MemoryOK(h)' /\ CleanOK(h)' /\ MovingOK(h)' /\ ExpectedOK(h)'
      BY <2>1, <2>2 DEF PhaseOK, MemoryOK, CleanOK, MovingOK, ExpectedOK, StoreGrows
    <2>4. QED
      BY <2>1, <2>3 DEF HandleOK
  <1>3. QED
    BY <1>1, <1>2

(* Nodes of a failed Commit may be stored, but no root links to them. *)
LEMMA StoreNodesFailsStep ==
    ASSUME IInv, TypeOK', NEW h \in Handles, StoreNodesFails(h)
    PROVE  IInv' /\ StoreGrows
  <1>1. /\ pc[h] = "committing" /\ nodes \subseteq nodes' /\ CommitFails(h)
        /\ UNCHANGED <<roots, current, merged>>
    BY DEF StoreNodesFails
  <1>2. StoreGrows
    BY <1>1 DEF StoreGrows
  <1>3. /\ HandleOK(h)' /\ \A g \in Handles \ {h} : SameHandle(g)
        /\ committed' = committed
    BY <1>1, <1>2, FailedHandle
  <1>4. RootsOK'
    BY <1>1, <1>3, MoreNodes
  <1>5. QED
    BY <1>2, <1>3, <1>4, OneHandleStep

(***************************************************************************)
(* Storing the new root of a handle keeps the roots in order: all its      *)
(* nodes are there, it is younger than the roots it was merged from, and   *)
(* it covers every write of its handle.                                    *)
(***************************************************************************)
LEMMA PutRootStep ==
    ASSUME IInv, TypeOK', NEW h \in Handles, pc[h] = "storing", PutRoot(NewRoot(h)),
           UNCHANGED <<merged, nodes>>, committed' \subseteq committed \union pending[h]
    PROVE  StoreGrows /\ RootsOK'
  <1> DEFINE r == NewRoot(h)
             name == NameOf(r)
  <1>1. /\ name \in DOMAIN roots' /\ roots'[name] = r
        /\ DOMAIN roots \subseteq DOMAIN roots'
        /\ \A n \in DOMAIN roots : roots'[n] = roots[n]
        /\ \A n \in DOMAIN roots' : n \in DOMAIN roots \/ n = name
        /\ name \in DOMAIN roots \/ \A n \in DOMAIN roots : n < name
        /\ current' = current \union {name}
    BY PutRootType, NewRootType DEF IInv
  <1>2. r.tree = tree[h] /\ r.parents = sources[h]
    BY DEF NewRoot
  <1> HIDE DEF r, name
  <1>3. PhaseOK(h) /\ MemoryOK(h)
    BY DEF IInv, HandleOK
  <1>4. RootsOK
    BY DEF IInv
  <1>5. StoreGrows
    BY <1>1 DEF StoreGrows
  <1>6. NamesOK'
    <2>1. sources[h] \subseteq DOMAIN roots
      BY <1>3 DEF PhaseOK
    <2>2. name \in DOMAIN roots => roots[name] = r
      BY <1>1
    <2>3. \A p \in r.parents : p < name
      BY <1>1, <1>2, <1>4, <2>1, <2>2 DEF RootsOK, NamesOK
    <2>4. QED
      BY <1>1, <1>4, <2>3 DEF RootsOK, NamesOK
  <1>7. Superseded'
    <2>1. ASSUME NEW n \in DOMAIN roots
          PROVE  \E c \in current' : c >= n /\ Dominates(roots'[c].tree, roots'[n].tree)
      <3>1. PICK c \in current : c >= n /\ Dominates(roots[c].tree, roots[n].tree)
        BY <1>4 DEF RootsOK, Superseded
      <3>2. c \in DOMAIN roots
        BY DEF IInv, TypeOK
      <3>3. QED
        BY <1>1, <3>1, <3>2
    <2>2. Dominates(roots'[name].tree, roots'[name].tree) /\ name >= name
      <3>1. tree[h] \in Tree
        BY DEF IInv, TypeOK
      <3>2. name \in Nat
        BY <1>1 DEF TypeOK
      <3>3. QED
        BY <1>1, <1>2, <3>1, <3>2, DominatesReflexive
    <2>3. QED
      BY <1>1, <2>1, <2>2 DEF Superseded
  <1>8. VersionsOK'
    <2>1. ASSUME NEW w \in committed'
          PROVE  \E n \in DOMAIN roots' : Covers(roots'[n].tree, w)
      <3>1. CASE w \in committed
        BY <1>1, <1>4, <3>1 DEF RootsOK, VersionsOK
      <3>2. CASE w \in pending[h]
        BY <1>1, <1>2, <1>3, <3>2 DEF MemoryOK
      <3>3. QED
        BY <3>1, <3>2
    <2>2. ASSUME NEW n \in DOMAIN roots'
          PROVE  NodesOf(roots'[n].tree) \subseteq nodes'
      <3>1. CASE n \in DOMAIN roots
        BY <1>1, <1>4, <3>1 DEF RootsOK, VersionsOK, Readable
      <3>2. CASE n = name
        BY <1>1, <1>2, <1>3, <3>2 DEF PhaseOK
      <3>3. QED
        BY <1>1, <3>1, <3>2
    <2>3. QED
      BY <2>1, <2>2 DEF VersionsOK, Readable, Covers
  <1>9. HistoryKept'
    BY <1>1, <1>4 DEF RootsOK, HistoryKept
  <1>10. QED
    BY <1>5, <1>6, <1>7, <1>8, <1>9 DEF RootsOK

(* The handle now rests on the root it stored, and moves only older roots. *)
LEMMA StoreRootStep ==
    ASSUME IInv, TypeOK', NEW h \in Handles, StoreRoot(h)
    PROVE  IInv' /\ StoreGrows
  <1> DEFINE r == NewRoot(h)
             name == NameOf(r)
  <1>1. /\ name \in DOMAIN roots' /\ roots'[name] = r
        /\ \A n \in DOMAIN roots : roots'[n] = roots[n]
        /\ name \in DOMAIN roots \/ \A n \in DOMAIN roots : n < name
    BY PutRootType, NewRootType DEF IInv, StoreRoot
  <1>2. r.tree = tree[h] /\ r.parents = sources[h]
    BY DEF NewRoot
  <1>3. /\ pc[h] = "storing" /\ pc'[h] = "moving"
        /\ toMove'[h] = sources[h] \ {name} /\ sources'[h] = {name} /\ source'[h] = name
        /\ committed' = committed \union pending[h] /\ pending'[h] = {}
        /\ PutRoot(NewRoot(h))
        /\ \A g \in Handles \ {h} : SameHandle(g)
        /\ UNCHANGED <<merged, nodes, todo, tree, unmerged, dirty, moving, expected>>
    BY DEF IInv, TypeOK, StoreRoot, SameHandle, boundVars
  <1> HIDE DEF r, name
  <1>4. StoreGrows /\ RootsOK'
    BY <1>3, PutRootStep
  <1>5. PhaseOK(h) /\ MemoryOK(h) /\ ExpectedOK(h)
    BY DEF IInv, HandleOK
  <1>6. name \in Nat \ {0} /\ tree[h] \in Tree
    BY <1>1 DEF IInv, TypeOK
  <1>7. sources[h] \subseteq DOMAIN roots /\ todo[h] = {} /\ dirty[h] = {}
        /\ NodesOf(tree[h]) \subseteq nodes
    BY <1>3, <1>5 DEF PhaseOK
  <1>8. PhaseOK(h)'
    BY <1>1, <1>3, <1>4, <1>5, <1>6, <1>7 DEF PhaseOK, StoreGrows
  <1>9. MemoryOK(h)'
    BY <1>1, <1>2, <1>3, <1>6, DominatesReflexive DEF MemoryOK
  <1>10. CleanOK(h)'
    <2>1. /\ Top(tree[h]) \in nodes
          /\ \A k \in Keys : tree[h][k] = Absent \/ Leaf(k, tree[h][k]) \in nodes
      BY <1>7 DEF NodesOf, LeavesOf
    <2>2. QED
      BY <1>1, <1>2, <1>3, <2>1 DEF CleanOK, LeafReadable
  <1>11. MovingOK(h)'
    <2>1. \A n \in sources[h] \ {name} : n < name
      BY <1>1, <1>2, <1>7 DEF IInv, RootsOK, NamesOK
    <2>2. \A n \in sources[h] : Dominates(tree[h], roots[n].tree)
      BY <1>5 DEF MemoryOK
    <2>3. moving'[h] = 0
      BY <1>3, <1>5 DEF PhaseOK
    <2>4. \A n \in sources[h] : roots'[n] = roots[n]
      BY <1>1, <1>7
    <2>5. QED
      BY <1>1, <1>2, <1>3, <1>6, <2>1, <2>2, <2>3, <2>4 DEF MovingOK
  <1>12. ExpectedOK(h)'
    BY <1>3, <1>5, <1>7 DEF ExpectedOK
  <1>13. QED
    BY <1>3, <1>4, <1>8, <1>9, <1>10, <1>11, <1>12, OneHandleStep DEF HandleOK

(* A root whose store failed may be there all the same, with all its nodes. *)
LEMMA StoreRootFailsStep ==
    ASSUME IInv, TypeOK', NEW h \in Handles, StoreRootFails(h)
    PROVE  IInv' /\ StoreGrows
  <1>1. /\ pc[h] = "storing" /\ CommitFails(h) /\ UNCHANGED <<merged, nodes>>
        /\ PutRoot(NewRoot(h)) \/ UNCHANGED <<roots, current>>
    BY DEF StoreRootFails
  <1>2. committed' = committed
    BY <1>1 DEF CommitFails, Forget, callerVars
  <1>3. StoreGrows /\ RootsOK'
    <2>1. CASE PutRoot(NewRoot(h))
      BY <1>1, <1>2, <2>1, PutRootStep
    <2>2. CASE UNCHANGED <<roots, current>>
      BY <1>1, <1>2, <2>2, SameStore DEF storeVars
    <2>3. QED
      BY <1>1, <2>1, <2>2
  <1>4. HandleOK(h)' /\ \A g \in Handles \ {h} : SameHandle(g)
    BY <1>1, <1>3, FailedHandle
  <1>5. QED
    BY <1>3, <1>4, OneHandleStep

-----------------------------------------------------------------------------
(* Moving merged roots *)

(* A root is copied to root/merged/ before anything happens to the original. *)
LEMMA CopyMergedStep ==
    ASSUME IInv, TypeOK', NEW h \in Handles, NEW n \in toMove[h], CopyMerged(h, n)
    PROVE  IInv' /\ StoreGrows
  <1>1. /\ pc[h] = "moving" /\ merged' = merged \union {n} /\ moving'[h] = n
        /\ \A g \in Handles \ {h} : SameHandle(g)
        /\ UNCHANGED <<roots, current, nodes, pc, todo, tree, source, sources, unmerged,
                       dirty, toMove, pending, expected, committed>>
    BY DEF IInv, TypeOK, CopyMerged, SameHandle, contentVars, callerVars, boundVars
  <1>2. HandleOK(h)
    BY DEF IInv
  <1>3. n \in DOMAIN roots
    BY <1>2 DEF HandleOK, PhaseOK
  <1>4. StoreGrows
    BY <1>1 DEF StoreGrows
  <1>5. RootsOK'
    BY <1>1, <1>3 DEF IInv, RootsOK, NamesOK, Superseded, VersionsOK, HistoryKept, Readable
  <1>6. PhaseOK(h)' /\ MemoryOK(h)' /\ MovingOK(h)' /\ ExpectedOK(h)'
    BY <1>1, <1>2 DEF HandleOK, PhaseOK, MemoryOK, MovingOK, ExpectedOK
  <1>7. CleanOK(h)'
    BY <1>1, <1>2 DEF HandleOK, CleanOK, LeafReadable
  <1>8. QED
    BY <1>1, <1>4, <1>5, <1>6, <1>7, OneHandleStep DEF HandleOK

(***************************************************************************)
(* The root that goes is superseded by the root of the handle that moves   *)
(* it, and that one by a current root no older, which therefore is not the *)
(* one that goes.                                                          *)
(***************************************************************************)
LEMMA DeleteMergedStep ==
    ASSUME IInv, TypeOK', NEW h \in Handles, DeleteMerged(h)
    PROVE  IInv' /\ StoreGrows
  <1> DEFINE gone == moving[h]
  <1>1. /\ pc[h] = "moving" /\ gone # 0 /\ current' = current \ {gone}
        /\ toMove'[h] = toMove[h] \ {gone} /\ moving'[h] = 0
        /\ \A g \in Handles \ {h} : SameHandle(g)
        /\ UNCHANGED <<roots, merged, nodes, pc, todo, tree, source, sources, unmerged,
                       dirty, pending, expected, committed>>
    BY DEF IInv, TypeOK, DeleteMerged, SameHandle, contentVars, callerVars, boundVars
  <1>2. HandleOK(h)
    BY DEF IInv
  <1>3. /\ gone \in toMove[h] /\ gone \in merged /\ gone \in DOMAIN roots
        /\ source[h] \in DOMAIN roots
        /\ gone < source[h] /\ Dominates(roots[source[h]].tree, roots[gone].tree)
    BY <1>1, <1>2 DEF HandleOK, PhaseOK, MovingOK
  <1> HIDE DEF gone
  <1>4. StoreGrows
    BY <1>1 DEF StoreGrows
  <1>5. Superseded'
    <2> SUFFICES ASSUME NEW n \in DOMAIN roots
                 PROVE  \E c \in current \ {gone} :
                            c >= n /\ Dominates(roots[c].tree, roots[n].tree)
      BY <1>1 DEF Superseded
    <2>1. PICK c \in current : c >= n /\ Dominates(roots[c].tree, roots[n].tree)
      BY DEF IInv, RootsOK, Superseded
    <2>2. PICK d \in current : d >= source[h] /\ Dominates(roots[d].tree, roots[source[h]].tree)
      BY <1>3 DEF IInv, RootsOK, Superseded
    <2>3. c \in DOMAIN roots /\ d \in DOMAIN roots
      BY DEF IInv, TypeOK
    <2>4. /\ roots[c].tree \in Tree /\ roots[d].tree \in Tree /\ roots[n].tree \in Tree
          /\ roots[source[h]].tree \in Tree /\ roots[gone].tree \in Tree
          /\ c \in Nat /\ d \in Nat /\ n \in Nat /\ source[h] \in Nat /\ gone \in Nat
      BY <1>3, <2>3, RootType DEF IInv, Name
    <2>5. CASE c = gone
      <3>1. d # gone /\ d >= n
        BY <1>3, <2>1, <2>2, <2>4, <2>5
      <3>2. Dominates(roots[d].tree, roots[gone].tree)
        BY <1>3, <2>2, <2>4, DominatesTransitive
      <3>3. Dominates(roots[d].tree, roots[n].tree)
        BY <2>1, <2>4, <2>5, <3>2, DominatesTransitive
      <3>4. QED
        BY <3>1, <3>3
    <2>6. CASE c # gone
      BY <2>1, <2>6
    <2>7. QED
      BY <2>5, <2>6
  <1>6. NamesOK' /\ VersionsOK' /\ HistoryKept'
    BY <1>1, <1>3 DEF IInv, RootsOK, NamesOK, VersionsOK, HistoryKept, Readable
  <1>7. PhaseOK(h)' /\ MemoryOK(h)' /\ MovingOK(h)' /\ ExpectedOK(h)'
    BY <1>1, <1>2 DEF HandleOK, PhaseOK, MemoryOK, MovingOK, ExpectedOK
  <1>8. CleanOK(h)'
    BY <1>1, <1>2 DEF HandleOK, CleanOK, LeafReadable
  <1>9. QED
    BY <1>1, <1>4, <1>5, <1>6, <1>7, <1>8, OneHandleStep DEF HandleOK, RootsOK

(* A move given up half way leaves the root where it was, or in both places. *)
LEMMA MoveFailsStep ==
    ASSUME IInv, TypeOK', NEW h \in Handles, MoveFails(h)
    PROVE  IInv' /\ StoreGrows
  <1>1. /\ pc[h] = "moving" /\ toMove'[h] = {} /\ moving'[h] = 0
        /\ \A g \in Handles \ {h} : SameHandle(g)
        /\ UNCHANGED <<storeVars, pc, todo, tree, source, sources, unmerged,
                       dirty, pending, expected, committed>>
    BY DEF IInv, TypeOK, MoveFails, SameHandle, contentVars, callerVars
  <1>2. StoreGrows /\ RootsOK'
    BY <1>1, SameStore
  <1>3. HandleOK(h)
    BY DEF IInv
  <1>4. PhaseOK(h)' /\ MemoryOK(h)' /\ MovingOK(h)' /\ ExpectedOK(h)'
    BY <1>1, <1>3 DEF HandleOK, PhaseOK, MemoryOK, MovingOK, ExpectedOK, storeVars
  <1>5. CleanOK(h)'
    BY <1>1, <1>3 DEF HandleOK, CleanOK, LeafReadable, storeVars
  <1>6. QED
    BY <1>1, <1>2, <1>4, <1>5, OneHandleStep DEF HandleOK

(* A Commit that has nothing left to move is over. *)
LEMMA FinishCommitStep ==
    ASSUME IInv, TypeOK', NEW h \in Handles, FinishCommit(h)
    PROVE  IInv' /\ StoreGrows
  <1>1. /\ pc[h] = "moving" /\ toMove[h] = {} /\ pc'[h] = "open"
        /\ \A g \in Handles \ {h} : SameHandle(g)
        /\ UNCHANGED <<storeVars, todo, tree, source, sources, unmerged, dirty, toMove,
                       moving, pending, expected, committed>>
    BY DEF IInv, TypeOK, FinishCommit, SameHandle, contentVars, moveVars, callerVars, boundVars
  <1>2. StoreGrows /\ RootsOK'
    BY <1>1, SameStore
  <1>3. HandleOK(h)
    BY DEF IInv
  <1>4. PhaseOK(h)' /\ MemoryOK(h)' /\ MovingOK(h)' /\ ExpectedOK(h)'
    BY <1>1, <1>3 DEF HandleOK, PhaseOK, MemoryOK, MovingOK, ExpectedOK, storeVars
  <1>5. CleanOK(h)'
    BY <1>1, <1>3 DEF HandleOK, CleanOK, LeafReadable, storeVars
  <1>6. QED
    BY <1>1, <1>2, <1>4, <1>5, OneHandleStep DEF HandleOK

(* A handle that is dropped takes nothing with it that the store needs. *)
LEMMA ForgetStep ==
    ASSUME IInv, TypeOK', NEW h \in Handles, Forget(h), UNCHANGED storeVars
    PROVE  IInv' /\ StoreGrows
  <1>1. HandleOK(h)' /\ \A g \in Handles \ {h} : SameHandle(g)
    BY ForgottenHandle DEF IInv
  <1>2. StoreGrows /\ RootsOK'
    BY SameStore DEF Forget, storeVars
  <1>3. QED
    BY <1>1, <1>2, OneHandleStep

-----------------------------------------------------------------------------
(* The invariant and what follows from it *)

(* An empty container and closed handles are in order. *)
LEMMA IInvInit ==
    ASSUME Init
    PROVE  IInv
  <1>1. TypeOK
    BY BoundsAssumption DEF Init, TypeOK, States, EmptyTree, Tree, Entry
  <1>2. RootsOK
    BY DEF Init, RootsOK, NamesOK, Superseded, VersionsOK, HistoryKept
  <1>3. ASSUME NEW h \in Handles
        PROVE  HandleOK(h)
    <2>1. \A k \in Keys : tree[h][k] = Absent
      BY DEF Init, EmptyTree
    <2>2. QED
      BY <2>1 DEF Init, HandleOK, PhaseOK, MemoryOK, CleanOK, MovingOK, ExpectedOK, LeafReadable
  <1>4. QED
    BY <1>1, <1>2, <1>3 DEF IInv

(***************************************************************************)
(* Every step keeps the invariant as long as nobody goes on with a handle  *)
(* whose Commit failed, and versions are only ever added.                  *)
(***************************************************************************)
LEMMA IInvStep ==
    ASSUME ~RetryFailed, IInv, [Next]_vars
    PROVE  IInv' /\ StoreGrows
  <1>1. TypeOK'
    BY TypeStep DEF IInv
  <1>2. CASE UNCHANGED vars
    <2>1. \A g \in Handles : SameHandle(g)
      BY <1>2 DEF SameHandle, vars, contentVars, moveVars, callerVars
    <2>2. StoreGrows /\ RootsOK'
      BY <1>2, SameStore DEF vars, callerVars
    <2>3. \A g \in Handles : HandleOK(g)'
      BY <2>1, <2>2, OtherHandles DEF IInv
    <2>4. QED
      BY <1>1, <2>2, <2>3 DEF IInv
  <1>3. ASSUME NEW h \in Handles, NEW n \in todo[h], MergeFails(h, n)
        PROVE  IInv' /\ StoreGrows
    BY <1>1, <1>3, ForgetStep DEF MergeFails
  <1>4. ASSUME NEW h \in Handles, Close(h) \/ Crash(h)
        PROVE  IInv' /\ StoreGrows
    BY <1>1, <1>4, ForgetStep DEF Close, Crash
  <1>5. ASSUME NEW h \in Handles, Retry(h)
        PROVE  FALSE
    BY <1>5 DEF Retry
  <1>6. ASSUME NEW h \in Handles, NEW n \in todo[h],
               SkipRoot(h, n) \/ LoadFirstRoot(h, n) \/ MergeRoot(h, n)
        PROVE  IInv' /\ StoreGrows
    BY <1>1, <1>6, SkipRootStep, LoadFirstRootStep, MergeRootStep
  <1>7. ASSUME NEW h \in Handles, NEW k \in Keys, NEW t \in Times,
               Update(h, k, Live(t)) \/ Update(h, k, Dead(t))
        PROVE  IInv' /\ StoreGrows
    BY <1>1, <1>7, UpdateStep, WrittenEntries
  <1>8. ASSUME NEW h \in Handles, ListRoots(h) \/ FinishMerge(h)
        PROVE  IInv' /\ StoreGrows
    BY <1>1, <1>8, ListRootsStep, FinishMergeStep
  <1>9. ASSUME NEW h \in Handles,
               StartCommit(h) \/ CommitNothing(h) \/ StoreNodes(h) \/ StoreNodesFails(h)
        PROVE  IInv' /\ StoreGrows
    BY <1>1, <1>9, StartCommitStep, CommitNothingStep, StoreNodesStep, StoreNodesFailsStep
  <1>10. ASSUME NEW h \in Handles, StoreRoot(h) \/ StoreRootFails(h)
         PROVE  IInv' /\ StoreGrows
    BY <1>1, <1>10, StoreRootStep, StoreRootFailsStep
  <1>11. ASSUME NEW h \in Handles, NEW n \in toMove[h], CopyMerged(h, n)
         PROVE  IInv' /\ StoreGrows
    BY <1>1, <1>11, CopyMergedStep
  <1>12. ASSUME NEW h \in Handles, DeleteMerged(h) \/ MoveFails(h) \/ FinishCommit(h)
         PROVE  IInv' /\ StoreGrows
    BY <1>1, <1>12, DeleteMergedStep, MoveFailsStep, FinishCommitStep
  <1>13. QED
    BY <1>2, <1>3, <1>4, <1>5, <1>6, <1>7, <1>8, <1>9, <1>10, <1>11, <1>12 DEF Next, LoadRoot

(* The strengthened invariant holds in every reachable state. *)
THEOREM Invariant == ASSUME ~RetryFailed PROVE Spec => []IInv
  <1>1. Init => IInv
    BY IInvInit
  <1>2. IInv /\ [Next]_vars => IInv'
    BY IInvStep
  <1>3. QED
    BY <1>1, <1>2, PTL DEF Spec

(***************************************************************************)
(* Nothing that a Commit promised is ever lost, whatever other handles     *)
(* merge, move or fail to move, and wherever processes die.                *)
(***************************************************************************)
THEOREM CommitsAreDurable == ASSUME ~RetryFailed PROVE Spec => []DurableCommits
  <1>1. IInv => DurableCommits
    BY InvariantImpliesDurable
  <1>2. QED
    BY <1>1, Invariant, PTL

(* Every version under root/current/ or root/merged/ has all its nodes. *)
THEOREM VersionsAreReadable == ASSUME ~RetryFailed PROVE Spec => []PublishedReadable
  <1>1. IInv => PublishedReadable
    BY DEF IInv, TypeOK, RootsOK, NamesOK, VersionsOK, PublishedReadable
  <1>2. QED
    BY <1>1, Invariant, PTL

(* A version once stored stays listed under root/current/ or root/merged/. *)
THEOREM VersionsAreKept == ASSUME ~RetryFailed PROVE Spec => []HistoryKept
  <1>1. IInv => HistoryKept
    BY DEF IInv, RootsOK
  <1>2. QED
    BY <1>1, Invariant, PTL

(* An Open that skipped no root misses no write promised before it began. *)
THEOREM CompleteOpensMissNothing == ASSUME ~RetryFailed PROVE Spec => []CompleteOpen
  <1>1. IInv => CompleteOpen
    BY DEF IInv, HandleOK, PhaseOK, ExpectedOK, CompleteOpen
  <1>2. QED
    BY <1>1, Invariant, PTL

(***************************************************************************)
(* A root that leaves root/current/ leaves a younger one behind that       *)
(* supersedes it: after the step some current root supersedes it, and it   *)
(* is not that root itself.                                                *)
(***************************************************************************)
THEOREM DeletionsAreSuperseded == ASSUME ~RetryFailed PROVE Spec => DeletedIsSuperseded
  <1>1. ASSUME IInv, IInv', StoreGrows, NEW n \in current \ current'
        PROVE  \E m \in current' : m > n /\ Dominates(roots'[m].tree, roots'[n].tree)
    <2>1. n \in DOMAIN roots'
      BY <1>1 DEF IInv, TypeOK, StoreGrows
    <2>2. PICK m \in current' : m >= n /\ Dominates(roots'[m].tree, roots'[n].tree)
      BY <1>1, <2>1 DEF IInv, RootsOK, Superseded
    <2>3. m \in DOMAIN roots' /\ m # n
      BY <1>1, <2>2 DEF IInv, TypeOK
    <2>4. m \in Nat /\ n \in Nat
      BY <1>1, <2>1, <2>3 DEF IInv, TypeOK
    <2>5. QED
      BY <2>2, <2>3, <2>4
  <1>2. IInv /\ [Next]_vars =>
            [\A n \in current \ current' : \E m \in current' :
                m > n /\ Dominates(roots'[m].tree, roots'[n].tree)]_vars
    BY <1>1, IInvStep
  <1>3. QED
    BY <1>2, Invariant, PTL DEF Spec, DeletedIsSuperseded

-----------------------------------------------------------------------------
(* The store implements the durable map *)

(***************************************************************************)
(* Every set of subsets of a finite set has one none of whose strict       *)
(* subsets is in it: the form in which finite induction is used here.      *)
(***************************************************************************)
LEMMA SmallestSubset ==
    ASSUME NEW S, IsFiniteSet(S), NEW F, F \subseteq SUBSET S, F # {}
    PROVE  \E U \in F : \A V \in F : V \subseteq U => V = U
  <1> DEFINE R == StrictSubsetOrdering(S)
  <1>1. IsWellFoundedOn(R, FiniteSubsetsOf(S))
    BY FS_StrictSubsetOrderingWellFounded
  <1>2. FiniteSubsetsOf(S) = SUBSET S
    BY FS_FiniteSubsetsOfFinite
  <1>3. PICK U \in F : \A V \in F : ~(<<V, U>> \in R)
    <2> HIDE DEF R
    <2>1. QED
      BY <1>1, <1>2, WFMin
  <1>4. QED
    BY <1>3 DEF StrictSubsetOrdering

(* Of finitely many entries one supersedes all. *)
LEMMA GreatestEntry ==
    ASSUME NEW S, IsFiniteSet(S), S \subseteq Entry, S # {}
    PROVE  \E e \in S : \A f \in S : AtLeast(e, f)
  <1> DEFINE Great(U) == \E e \in U : \A f \in U : AtLeast(e, f)
             F == {U \in SUBSET S : U # {} /\ ~Great(U)}
  <1> SUFFICES ASSUME F # {} PROVE FALSE
    <2>1. S \notin F
      OBVIOUS
    <2>2. QED
      BY <2>1
  <1>1. PICK U \in F : \A V \in F : V \subseteq U => V = U
    <2>1. F \subseteq SUBSET S
      OBVIOUS
    <2> HIDE DEF F
    <2>2. QED
      BY <2>1, SmallestSubset
  <1>2. U \subseteq S /\ U # {} /\ ~Great(U)
    OBVIOUS
  <1>3. PICK x \in U : TRUE
    BY <1>2
  <1>4. \A a \in U, b \in U : AtLeast(a, b) \/ AtLeast(b, a)
    BY <1>2, EntryFacts DEF AtLeast, Tombstoned
  <1>5. CASE U \ {x} = {}
    <2>1. U = {x}
      BY <1>5
    <2>2. Great(U)
      BY <1>4, <2>1
    <2>3. QED
      BY <1>2, <2>2
  <1>6. CASE U \ {x} # {}
    <2>1. Great(U \ {x})
      <3>1. U \ {x} \notin F
        BY <1>1, <1>3
      <3>2. QED
        BY <1>2, <1>6, <3>1
    <2>2. PICK e \in U \ {x} : \A f \in U \ {x} : AtLeast(e, f)
      BY <2>1
    <2>3. CASE AtLeast(e, x)
      <3>1. Great(U)
        BY <2>2, <2>3
      <3>2. QED
        BY <1>2, <3>1
    <2>4. CASE AtLeast(x, e)
      <3>1. \A f \in U : AtLeast(x, f)
        <4>1. x \in Entry /\ e \in Entry /\ U \subseteq Entry
          BY <1>2
        <4>2. AtLeast(x, x)
          BY <4>1, AtLeastReflexive
        <4>3. QED
          BY <2>2, <2>4, <4>1, <4>2, AtLeastTransitive
      <3>2. QED
        BY <1>2, <3>1
    <2>5. QED
      BY <1>4, <2>3, <2>4
  <1>7. QED
    BY <1>5, <1>6

(* Two entries that supersede each other are equal, so the greatest is one. *)
LEMMA AtLeastAntisymmetric ==
    ASSUME NEW a \in Entry, NEW b \in Entry, AtLeast(a, b), AtLeast(b, a)
    PROVE  a = b
  BY TimesAssumption DEF AtLeast, Tombstoned, Entry, Absent, Live, Dead

(* What the current roots have for a key. *)
EntriesOf(k) == {roots[n].tree[k] : n \in {m \in current : Readable(m)}} \union {Absent}

(* The join of the current roots has for every key the greatest of their entries. *)
JoinGreatest ==
    /\ JoinOfCurrent \in Tree
    /\ \A k \in Keys : /\ JoinOfCurrent[k] \in EntriesOf(k)
                       /\ \A e \in EntriesOf(k) : AtLeast(JoinOfCurrent[k], e)
    /\ \A k \in Keys : EntriesOf(k) \subseteq Entry

(* There is a greatest entry for every key, so the choice in JoinOfCurrent finds it. *)
LEMMA JoinIsGreatest == TypeOK => JoinGreatest
  <1> SUFFICES ASSUME TypeOK PROVE JoinGreatest
    OBVIOUS
  <1>1. ASSUME NEW k \in Keys
        PROVE  /\ EntriesOf(k) \subseteq Entry
               /\ \E e \in EntriesOf(k) : \A f \in EntriesOf(k) : AtLeast(e, f)
    <2> DEFINE C == {m \in current : Readable(m)}
               T == {roots[n].tree[k] : n \in C}
    <2>1. T \subseteq Entry
      BY RootType DEF TypeOK, Tree
    <2>2. Absent \in Entry
      BY DEF Entry
    <2>3. IsFiniteSet(C)
      <3>1. DOMAIN roots = 1..Len(roots) /\ Len(roots) \in Nat
        BY DEF TypeOK
      <3>2. IsFiniteSet(DOMAIN roots)
        BY <3>1, FS_Interval
      <3>3. C \in SUBSET DOMAIN roots
        BY DEF TypeOK
      <3>4. QED
        BY <3>2, <3>3, FS_Subset
    <2>4. IsFiniteSet(T)
      <3> DEFINE f == [n \in C |-> roots[n].tree[k]]
      <3>1. f \in Surjection(C, T)
        BY DEF Surjection
      <3> HIDE DEF f, C, T
      <3>2. QED
        BY <2>3, <3>1, FS_Surjection
    <2>5. EntriesOf(k) = T \union {Absent}
      BY DEF EntriesOf
    <2> HIDE DEF T
    <2>6. IsFiniteSet(T \union {Absent})
      BY <2>4, FS_AddElement
    <2>7. QED
      BY <2>1, <2>2, <2>5, <2>6, GreatestEntry
  <1>2. JoinOfCurrent = [k \in Keys |->
            CHOOSE e \in EntriesOf(k) : \A f \in EntriesOf(k) : AtLeast(e, f)]
    BY DEF JoinOfCurrent, EntriesOf
  <1> HIDE DEF EntriesOf
  <1>3. ASSUME NEW k \in Keys
        PROVE  /\ JoinOfCurrent[k] \in EntriesOf(k)
               /\ \A e \in EntriesOf(k) : AtLeast(JoinOfCurrent[k], e)
    BY <1>1, <1>2
  <1>4. QED
    BY <1>1, <1>2, <1>3 DEF Tree, JoinGreatest

(* The same of the state after a step. *)
LEMMA JoinIsGreatestAfterwards == TypeOK' => JoinGreatest'
  BY JoinIsGreatest, PTL

(* Publishing tree t, or moving a superseded root away, merges t into the join. *)
LEMMA JoinStep ==
    ASSUME IInv, IInv', StoreGrows, NEW t \in Tree,
           \A n \in current' : n \in current \/ roots'[n].tree = t,
           t = EmptyTree \/ \E n \in current' : roots'[n].tree = t
    PROVE  JoinOfCurrent' = MergeTrees(JoinOfCurrent, t)
  <1>1. TypeOK /\ TypeOK'
    BY DEF IInv
  <1>2. /\ JoinOfCurrent \in Tree
        /\ \A k \in Keys : /\ JoinOfCurrent[k] \in EntriesOf(k)
                           /\ \A e \in EntriesOf(k) : AtLeast(JoinOfCurrent[k], e)
    BY <1>1, JoinIsGreatest DEF JoinGreatest
  <1>3. /\ JoinOfCurrent' \in Tree
        /\ \A k \in Keys : /\ JoinOfCurrent'[k] \in EntriesOf(k)'
                           /\ \A e \in EntriesOf(k)' : AtLeast(JoinOfCurrent'[k], e)
    BY <1>1, JoinIsGreatestAfterwards DEF JoinGreatest
  <1>4. ASSUME NEW k \in Keys
        PROVE  JoinOfCurrent'[k] = MergeEntry(JoinOfCurrent[k], t[k])
    <2> DEFINE v == JoinOfCurrent[k]
               w == JoinOfCurrent'[k]
               m == MergeEntry(v, t[k])
    <2>1. v \in Entry /\ w \in Entry /\ t[k] \in Entry
      BY <1>2, <1>3 DEF Tree
    <2>2. m \in {v, t[k]} /\ AtLeast(m, v) /\ AtLeast(m, t[k])
      BY <2>1, MergeEntryIsUpperBound
    <2>3. \A e \in Entry : AtLeast(e, Absent)
      BY EntryFacts DEF AtLeast, Tombstoned, Absent
    <2>4. \A n \in current : roots[n].tree[k] \in EntriesOf(k)
      BY <1>1 DEF IInv, TypeOK, RootsOK, VersionsOK, EntriesOf
    <2>5. \A n \in current' : roots'[n].tree[k] \in EntriesOf(k)'
      BY <1>1 DEF IInv, TypeOK, RootsOK, VersionsOK, EntriesOf
    <2>6. AtLeast(m, w)
      <3>1. w = Absent \/ \E n \in current' : w = roots'[n].tree[k]
        BY <1>3 DEF EntriesOf
      <3>2. CASE w = Absent
        BY <2>1, <2>2, <2>3, <3>2
      <3>3. ASSUME NEW n \in current', w = roots'[n].tree[k], roots'[n].tree = t
            PROVE  AtLeast(m, w)
        BY <2>2, <3>3
      <3>4. ASSUME NEW n \in current', w = roots'[n].tree[k], n \in current
            PROVE  AtLeast(m, w)
        <4>1. roots'[n] = roots[n]
          BY <1>1, <3>4 DEF TypeOK, StoreGrows
        <4>2. AtLeast(v, w)
          BY <1>2, <2>4, <3>4, <4>1
        <4>3. QED
          BY <2>1, <2>2, <4>2, AtLeastTransitive
      <3>5. QED
        BY <3>1, <3>2, <3>3, <3>4
    <2>7. AtLeast(w, v)
      <3>1. v = Absent \/ \E n \in current : v = roots[n].tree[k]
        BY <1>2 DEF EntriesOf
      <3>2. CASE v = Absent
        BY <2>1, <2>3, <3>2
      <3>3. ASSUME NEW n \in current, v = roots[n].tree[k]
            PROVE  AtLeast(w, v)
        <4>1. n \in DOMAIN roots' /\ roots'[n] = roots[n]
          BY <1>1 DEF TypeOK, StoreGrows
        <4>2. PICK c \in current' : Dominates(roots'[c].tree, roots'[n].tree)
          BY <4>1 DEF IInv, RootsOK, Superseded
        <4>3. AtLeast(roots'[c].tree[k], v)
          BY <3>3, <4>1, <4>2 DEF Dominates
        <4>4. AtLeast(w, roots'[c].tree[k])
          BY <1>3, <2>5
        <4>5. roots'[c].tree[k] \in Entry
          BY <1>1, <2>5, JoinIsGreatestAfterwards DEF JoinGreatest
        <4>6. QED
          BY <2>1, <4>3, <4>4, <4>5, AtLeastTransitive
      <3>4. QED
        BY <3>1, <3>2, <3>3
    <2>8. AtLeast(w, t[k])
      <3>1. CASE t = EmptyTree
        BY <2>1, <2>3, <3>1 DEF EmptyTree
      <3>2. CASE \E n \in current' : roots'[n].tree = t
        BY <1>3, <2>5, <3>2
      <3>3. QED
        BY <3>1, <3>2
    <2>9. AtLeast(w, m)
      BY <2>2, <2>7, <2>8
    <2>10. QED
      BY <2>1, <2>2, <2>6, <2>9, AtLeastAntisymmetric
  <1>5. QED
    BY <1>3, <1>4 DEF MergeTrees, Tree

(* A step publishes the tree of the handle that stores a root, or nothing; *)
(* and promises are never taken back.                                      *)
LEMMA StepPublishes ==
    ASSUME TypeOK, [Next]_vars
    PROVE  /\ committed \subseteq committed'
           /\ \E t \in Tree :
                /\ \A n \in current' : n \in current \/ roots'[n].tree = t
                /\ t = EmptyTree \/ \E n \in current' : roots'[n].tree = t
  <1> DEFINE Publishes == \E t \in Tree :
                /\ \A n \in current' : n \in current \/ roots'[n].tree = t
                /\ t = EmptyTree \/ \E n \in current' : roots'[n].tree = t
  <1>1. ASSUME current' \subseteq current
        PROVE  Publishes
    <2>1. EmptyTree \in Tree
      BY DEF EmptyTree, Tree, Entry
    <2>2. QED
      BY <1>1, <2>1
  <1>2. ASSUME NEW h \in Handles, PutRoot(NewRoot(h))
        PROVE  Publishes
    <2>1. tree[h] \in Tree
      BY DEF TypeOK
    <2>2. /\ roots'[NameOf(NewRoot(h))] = NewRoot(h)
          /\ current' = current \union {NameOf(NewRoot(h))}
      BY <1>2, NewRootType, PutRootType
    <2>3. NewRoot(h).tree = tree[h]
      BY DEF NewRoot
    <2>4. QED
      BY <2>1, <2>2, <2>3
  <1> HIDE DEF Publishes
  <1>3. ASSUME NEW h \in Handles, Forget(h), UNCHANGED storeVars
        PROVE  committed \subseteq committed' /\ Publishes
    BY <1>1, <1>3 DEF Forget, storeVars
  <1>4. ASSUME NEW h \in Handles, CommitFails(h)
        PROVE  committed \subseteq committed'
    BY <1>4 DEF CommitFails, Forget, callerVars
  <1>5. CASE UNCHANGED vars
    <2>1. current' = current /\ committed' = committed
      BY <1>5 DEF vars, storeVars, callerVars
    <2>2. QED
      BY <1>1, <2>1 DEF Publishes
  <1>6. ASSUME NEW h \in Handles, NEW n \in todo[h], LoadRoot(h, n)
        PROVE  committed \subseteq committed' /\ Publishes
    BY <1>1, <1>3, <1>6 DEF LoadRoot, SkipRoot, LoadFirstRoot, MergeRoot, MergeFails,
                            storeVars, callerVars
  <1>7. ASSUME NEW h \in Handles, NEW k \in Keys, NEW e, Update(h, k, e)
        PROVE  committed \subseteq committed' /\ Publishes
    BY <1>1, <1>7 DEF Update, storeVars
  <1>8. ASSUME NEW h \in Handles, StoreNodes(h) \/ StoreNodesFails(h)
        PROVE  committed \subseteq committed' /\ Publishes
    BY <1>1, <1>4, <1>8 DEF StoreNodes, StoreNodesFails, callerVars
  <1>9. ASSUME NEW h \in Handles, StoreRoot(h)
        PROVE  committed \subseteq committed' /\ Publishes
    BY <1>2, <1>9 DEF StoreRoot
  <1>10. ASSUME NEW h \in Handles, StoreRootFails(h)
         PROVE  committed \subseteq committed' /\ Publishes
    BY <1>1, <1>2, <1>4, <1>10 DEF StoreRootFails
  <1>11. ASSUME NEW h \in Handles, NEW n \in toMove[h], CopyMerged(h, n)
         PROVE  committed \subseteq committed' /\ Publishes
    BY <1>1, <1>11 DEF CopyMerged, callerVars
  <1>12. ASSUME NEW h \in Handles, Close(h) \/ Crash(h)
         PROVE  committed \subseteq committed' /\ Publishes
    BY <1>3, <1>12 DEF Close, Crash
  <1>13. ASSUME NEW h \in Handles,
                \/ ListRoots(h) \/ FinishMerge(h) \/ StartCommit(h) \/ CommitNothing(h)
                \/ DeleteMerged(h) \/ MoveFails(h) \/ FinishCommit(h) \/ Retry(h)
         PROVE  committed \subseteq committed' /\ Publishes
    BY <1>1, <1>13 DEF ListRoots, FinishMerge, StartCommit, CommitNothing, DeleteMerged,
                       MoveFails, FinishCommit, Retry, storeVars, callerVars
  <1>14. QED
    BY <1>5, <1>6, <1>7, <1>8, <1>9, <1>10, <1>11, <1>12, <1>13 DEF Next, Publishes

(* DurableMap merges and compares the entries as the store does. *)
LEMMA SameOrder ==
    /\ Durable!EmptyTree = EmptyTree /\ Durable!Tree = Tree
    /\ \A t, u : Durable!MergeTrees(t, u) = MergeTrees(t, u)
    /\ \A e, f : Durable!AtLeast(e, f) <=> AtLeast(e, f)
  BY DEF Durable!EmptyTree, EmptyTree, Durable!Tree, Tree, Durable!Entry, Entry,
         Durable!Absent, Absent, Durable!Live, Live, Durable!Dead, Dead,
         Durable!MergeTrees, MergeTrees, Durable!MergeEntry, MergeEntry,
         Durable!LastWriteWins, LastWriteWins, Durable!NewWins, NewWins,
         Durable!Tombstoned, Tombstoned, Durable!AtLeast, AtLeast

(* At first nothing is published and nothing promised. *)
LEMMA DurableInit == Init => Durable!Init
  <1> SUFFICES ASSUME Init PROVE JoinOfCurrent = EmptyTree /\ committed = {}
    BY SameOrder DEF Durable!Init
  <1>1. \A k \in Keys : EntriesOf(k) = {Absent}
    BY DEF Init, EntriesOf
  <1>2. AtLeast(Absent, Absent)
    BY DEF AtLeast, Tombstoned, Absent
  <1>3. TypeOK
    BY IInvInit DEF IInv
  <1>4. \A k \in Keys : JoinOfCurrent[k] = Absent
    BY <1>1, <1>3, JoinIsGreatest DEF JoinGreatest
  <1>5. JoinOfCurrent \in Tree
    BY <1>3, JoinIsGreatest DEF JoinGreatest
  <1>6. QED
    BY <1>4, <1>5 DEF Init, EmptyTree, Tree

(***************************************************************************)
(* Every step publishes some tree, if only the empty one, and what it      *)
(* promises is covered by the join afterwards: by IInv' some current root  *)
(* covers it.                                                              *)
(***************************************************************************)
LEMMA DurableStep ==
    ASSUME ~RetryFailed, IInv, [Next]_vars
    PROVE  Durable!Publish
  <1>1. IInv' /\ StoreGrows
    BY IInvStep
  <1>2. TypeOK /\ TypeOK'
    BY <1>1 DEF IInv
  <1>3. committed \subseteq committed'
    BY <1>2, StepPublishes
  <1>4. \E t \in Tree : JoinOfCurrent' = MergeTrees(JoinOfCurrent, t)
    BY <1>1, <1>2, StepPublishes, JoinStep
  <1>5. ASSUME NEW w \in committed'
        PROVE  AtLeast(JoinOfCurrent'[w[1]], w[2])
    <2>1. DurableCommits'
      BY <1>1, DurableAfterwards
    <2>2. PICK n \in current' : Readable(n)' /\ AtLeast(roots'[n].tree[w[1]], w[2])
      BY <2>1 DEF DurableCommits, Covers
    <2>3. w[1] \in Keys /\ w[2] \in Entry
      BY <1>2 DEF TypeOK, Write
    <2>4. roots'[n].tree[w[1]] \in EntriesOf(w[1])'
      BY <2>2 DEF EntriesOf
    <2>5. /\ AtLeast(JoinOfCurrent'[w[1]], roots'[n].tree[w[1]])
          /\ roots'[n].tree[w[1]] \in Entry
          /\ JoinOfCurrent'[w[1]] \in Entry
      BY <1>2, <2>3, <2>4, JoinIsGreatestAfterwards DEF JoinGreatest
    <2>6. QED
      BY <2>2, <2>3, <2>5, AtLeastTransitive
  <1>6. QED
    BY <1>3, <1>4, <1>5, SameOrder DEF Durable!Publish

(***************************************************************************)
(* The store implements DurableMap: whatever handles merge, move or leave  *)
(* behind, the join of the current versions only climbs, and it never      *)
(* falls behind a promised write (Open, Commit, moveMergedRoots).          *)
(***************************************************************************)
THEOREM StoreImplementsDurableMap == ASSUME ~RetryFailed PROVE Spec => ImplementsDurableMap
  <1>1. Init => Durable!Init
    BY DurableInit
  <1>2. IInv /\ [Next]_vars => [Durable!Publish]_<<JoinOfCurrent, committed>>
    BY DurableStep
  <1>3. QED
    BY <1>1, <1>2, Invariant, PTL DEF Spec, ImplementsDurableMap, Durable!Spec
=============================================================================
