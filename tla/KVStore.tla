------------------------------ MODULE KVStore ------------------------------
(***************************************************************************)
(* The multi-writer key-value store of pkg/kv/kv.go.                       *)
(*                                                                         *)
(* Handles (a *DB each) share nothing but a blob container.  A version is  *)
(* a small immutable "root" blob, first stored under root/current/; the    *)
(* search-tree nodes it links to are immutable, content-addressed blobs    *)
(* under node/.  Open lists root/current/, loads the listed roots one by   *)
(* one in a random order and merges them; Commit stores the new nodes,     *)
(* then the new root, then moves every root it merged to root/merged/.     *)
(* There is no lock and no conditional write: each blob call is a step of  *)
(* its own here and interleaves with those of the other handles.           *)
(*                                                                         *)
(* A tree is represented by one leaf node per present key and a top node   *)
(* that links to them, which keeps what matters of the search tree: equal  *)
(* content is the same node, and a change of one key rewrites its leaf and *)
(* the top but no other leaf.                                              *)
(***************************************************************************)
EXTENDS LWW, Sequences, FiniteSets

CONSTANTS
    Handles,        \* the *DB values of all processes
    ReadOnly,       \* those opened with OpenOptions.ReadOnly
    OpenTimes,      \* the "when" arguments of Open
    RetryFailed,    \* TRUE: callers go on using a handle whose Commit failed
    MaxRoots,       \* bound: versions ever stored
    MaxWrites,      \* bound: Set and Tombstone calls
    MaxFaults       \* bound: crashes and failed blob calls

ASSUME HandlesAssumption == ReadOnly \subseteq Handles
ASSUME OpenTimesAssumption == OpenTimes \subseteq Nat \ {0}
ASSUME RetryAssumption == RetryFailed \in BOOLEAN
ASSUME BoundsAssumption == MaxRoots \in Nat /\ MaxWrites \in Nat /\ MaxFaults \in Nat

VARIABLES
    \* the blob container
    roots,       \* every root record ever stored, in order; the index is its name
    current,     \* names under root/current/
    merged,      \* names under root/merged/
    nodes,       \* blobs under node/
    \* the handles
    pc,          \* what the handle is doing
    todo,        \* Open: listed names not loaded yet
    tree,        \* DB.crdt.Mast
    created,     \* DB.crdt.Created
    source,      \* DB.crdt.Source, 0 for nil
    sources,     \* DB.crdt.MergeSources and the keys of DB.mergedRoots
    unmerged,    \* DB.unmergeableRoots > 0
    dirty,       \* keys whose leaf is not stored yet; IsDirty is dirty # {}
    opening,     \* the Commit under way is the one Open makes
    toMove,      \* moveMergedRoots: names left to move
    moving,      \* moveMergedRoots: name copied but not deleted yet, 0 if none
    \* what the callers know
    pending,     \* writes accepted since the last successful Commit
    committed,   \* writes covered by a Commit that reported success
    expected,    \* the value of committed when the handle's Open began
    writes, faults

storeVars   == <<roots, current, merged, nodes>>
contentVars == <<tree, created, source, sources, unmerged, dirty>>
moveVars    == <<toMove, moving>>
callerVars  == <<pending, committed, expected>>
boundVars   == <<writes, faults>>
vars == <<storeVars, pc, todo, contentVars, opening, moveVars, callerVars, boundVars>>

-----------------------------------------------------------------------------
(* Data *)

Name == Nat \ {0}

RootRecord == [tree : Tree, parents : SUBSET Name, created : Nat]

Write == Keys \X (Entry \ {Absent})

Top(t)     == [links |-> t]
Leaf(k, e) == [key |-> k, entry |-> e]
Node == {Top(t) : t \in Tree} \union {Leaf(k, e) : k \in Keys, e \in Entry}

LeavesOf(t) == {Leaf(k, t[k]) : k \in {j \in Keys : t[j] # Absent}}
NodesOf(t)  == {Top(t)} \union LeavesOf(t)

States == {"closed", "loading", "open", "committing", "storing", "moving", "failed"}
Busy   == {"loading", "committing", "storing", "moving"}

TypeOK ==
    /\ roots \in Seq(RootRecord)
    /\ current \subseteq DOMAIN roots
    /\ merged \subseteq Name
    /\ nodes \subseteq Node
    /\ pc \in [Handles -> States]
    /\ todo \in [Handles -> SUBSET Name]
    /\ tree \in [Handles -> Tree]
    /\ created \in [Handles -> Nat]
    /\ source \in [Handles -> Name \union {0}]
    /\ sources \in [Handles -> SUBSET Name]
    /\ unmerged \in [Handles -> BOOLEAN]
    /\ dirty \in [Handles -> SUBSET Keys]
    /\ opening \in [Handles -> BOOLEAN]
    /\ toMove \in [Handles -> SUBSET Name]
    /\ moving \in [Handles -> Name \union {0}]
    /\ pending \in [Handles -> SUBSET Write]
    /\ committed \subseteq Write
    /\ expected \in [Handles -> SUBSET Write]
    /\ writes \in 0..MaxWrites
    /\ faults \in 0..MaxFaults

Init ==
    /\ roots = << >>
    /\ current = {}
    /\ merged = {}
    /\ nodes = {}
    /\ pc = [h \in Handles |-> "closed"]
    /\ todo = [h \in Handles |-> {}]
    /\ tree = [h \in Handles |-> EmptyTree]
    /\ created = [h \in Handles |-> 0]
    /\ source = [h \in Handles |-> 0]
    /\ sources = [h \in Handles |-> {}]
    /\ unmerged = [h \in Handles |-> FALSE]
    /\ dirty = [h \in Handles |-> {}]
    /\ opening = [h \in Handles |-> FALSE]
    /\ toMove = [h \in Handles |-> {}]
    /\ moving = [h \in Handles |-> 0]
    /\ pending = [h \in Handles |-> {}]
    /\ committed = {}
    /\ expected = [h \in Handles |-> {}]
    /\ writes = 0
    /\ faults = 0

-----------------------------------------------------------------------------
(* Handles come and go *)

(***************************************************************************)
(* The handle is dropped: what it holds in memory is gone, and a later     *)
(* Open starts from nothing.                                               *)
(***************************************************************************)
Forget(h) ==
    /\ pc' = [pc EXCEPT ![h] = "closed"]
    /\ todo' = [todo EXCEPT ![h] = {}]
    /\ tree' = [tree EXCEPT ![h] = EmptyTree]
    /\ created' = [created EXCEPT ![h] = 0]
    /\ source' = [source EXCEPT ![h] = 0]
    /\ sources' = [sources EXCEPT ![h] = {}]
    /\ unmerged' = [unmerged EXCEPT ![h] = FALSE]
    /\ dirty' = [dirty EXCEPT ![h] = {}]
    /\ opening' = [opening EXCEPT ![h] = FALSE]
    /\ toMove' = [toMove EXCEPT ![h] = {}]
    /\ moving' = [moving EXCEPT ![h] = 0]
    /\ pending' = [pending EXCEPT ![h] = {}]
    /\ expected' = [expected EXCEPT ![h] = {}]
    /\ UNCHANGED committed

Fault == faults < MaxFaults /\ faults' = faults + 1

(* The caller cancels or drops the handle. *)
Close(h) ==
    /\ pc[h] \in {"open", "failed"}
    /\ Forget(h)
    /\ UNCHANGED <<storeVars, boundVars>>

(* The process dies, or Open returns the error of a failed blob call. *)
Crash(h) ==
    /\ pc[h] # "closed"
    /\ Fault
    /\ Forget(h)
    /\ UNCHANGED <<storeVars, writes>>

(* Leaves room for the root of every Open and Commit under way. *)
RootsLeft ==
    Len(roots) + Cardinality({h \in Handles \ ReadOnly : pc[h] \in Busy}) < MaxRoots

-----------------------------------------------------------------------------
(* Open *)

(* Open lists root/current/. *)
ListRoots(h) ==
    /\ pc[h] = "closed"
    /\ h \in ReadOnly \/ RootsLeft
    /\ pc' = [pc EXCEPT ![h] = "loading"]
    /\ todo' = [todo EXCEPT ![h] = current]
    /\ \E when \in OpenTimes : created' = [created EXCEPT ![h] = when]
    /\ opening' = [opening EXCEPT ![h] = TRUE]
    /\ expected' = [expected EXCEPT ![h] = committed]
    /\ UNCHANGED <<storeVars, tree, source, sources, unmerged, dirty, moveVars,
                   pending, committed, boundVars>>

(* crdt.Load reads the top node of a root it found. *)
Loadable(n) == n \in current /\ Top(roots[n].tree) \in nodes

(* Variant of SkipRoot: the skipped root is not counted. *)
SkipRootUncounted(h, n) ==
    /\ pc[h] = "loading" /\ n \in todo[h]
    /\ ~Loadable(n)
    /\ todo' = [todo EXCEPT ![h] = @ \ {n}]
    /\ UNCHANGED <<storeVars, pc, tree, created, source, sources, unmerged, dirty, opening,
                   moveVars, callerVars, boundVars>>

(* Variant of SkipRoot: the missing root is tried again and again. *)
SkipRootAgain(h, n) ==
    /\ pc[h] = "loading" /\ n \in todo[h]
    /\ ~Loadable(n)
    /\ unmerged' = [unmerged EXCEPT ![h] = TRUE]
    /\ UNCHANGED <<storeVars, pc, todo, tree, created, source, sources, dirty, opening,
                   moveVars, callerVars, boundVars>>

(* mergeRoots goes on without a root that is gone or has lost its top node. *)
SkipRoot(h, n) ==
    /\ pc[h] = "loading" /\ n \in todo[h]
    /\ ~Loadable(n)
    /\ todo' = [todo EXCEPT ![h] = @ \ {n}]
    /\ unmerged' = [unmerged EXCEPT ![h] = TRUE]
    /\ UNCHANGED <<storeVars, pc, tree, created, source, sources, dirty, opening,
                   moveVars, callerVars, boundVars>>

(* The first root loaded becomes the tree the others are merged into. *)
LoadFirstRoot(h, n) ==
    /\ pc[h] = "loading" /\ n \in todo[h]
    /\ Loadable(n)
    /\ sources[h] = {}
    /\ todo' = [todo EXCEPT ![h] = @ \ {n}]
    /\ tree' = [tree EXCEPT ![h] = roots[n].tree]
    /\ sources' = [sources EXCEPT ![h] = {n}]
    /\ UNCHANGED <<storeVars, pc, created, source, unmerged, dirty, opening,
                   moveVars, callerVars, boundVars>>

(* A leaf of the handle's tree is in memory while it is dirty. *)
LeafReadable(h, k) ==
    tree[h][k] = Absent \/ k \in dirty[h] \/ Leaf(k, tree[h][k]) \in nodes

(* The difference of two trees loads the leaves in which they differ. *)
Mergeable(h, graft) ==
    \A k \in Keys : tree[h][k] # graft[k] =>
        /\ LeafReadable(h, k)
        /\ graft[k] # Absent => Leaf(k, graft[k]) \in nodes

MergeRoot(h, n) ==
    /\ pc[h] = "loading" /\ n \in todo[h]
    /\ Loadable(n)
    /\ sources[h] # {}
    /\ Mergeable(h, roots[n].tree)
    /\ LET joined == MergeTrees(tree[h], roots[n].tree) IN
         /\ tree' = [tree EXCEPT ![h] = joined]
         /\ dirty' = [dirty EXCEPT ![h] = @ \union {k \in Keys : joined[k] # tree[h][k]}]
    /\ todo' = [todo EXCEPT ![h] = @ \ {n}]
    /\ sources' = [sources EXCEPT ![h] = @ \union {n}]
    /\ UNCHANGED <<storeVars, pc, created, source, unmerged, opening, moveVars,
                   callerVars, boundVars>>

(***************************************************************************)
(* A leaf that cannot be read fails the merge.  Every error satisfies the  *)
(* interface crdt.MergeError, so mergeRoots never reaches the branch that  *)
(* would skip the root: Open returns the error.                            *)
(***************************************************************************)
MergeFails(h, n) ==
    /\ pc[h] = "loading" /\ n \in todo[h]
    /\ Loadable(n)
    /\ sources[h] # {}
    /\ ~Mergeable(h, roots[n].tree)
    /\ Forget(h)
    /\ UNCHANGED <<storeVars, boundVars>>

LoadRoot(h, n) ==
    SkipRoot(h, n) \/ LoadFirstRoot(h, n) \/ MergeRoot(h, n) \/ MergeFails(h, n)

(* Variant of FinishMerge: one of several merged roots counts as the source. *)
FinishMergeAnySource(h) ==
    /\ pc[h] = "loading" /\ todo[h] = {}
    /\ source' = [source EXCEPT ![h] =
                     IF sources[h] # {} THEN CHOOSE n \in sources[h] : TRUE ELSE 0]
    /\ pc' = [pc EXCEPT ![h] = IF h \in ReadOnly THEN "open" ELSE "committing"]
    /\ opening' = [opening EXCEPT ![h] = h \notin ReadOnly]
    /\ UNCHANGED <<storeVars, todo, tree, created, sources, unmerged, dirty, moveVars,
                   callerVars, boundVars>>

(* All roots are in: a writer goes on to commit what it merged. *)
FinishMerge(h) ==
    /\ pc[h] = "loading" /\ todo[h] = {}
    /\ source' = [source EXCEPT ![h] =
                     IF Cardinality(sources[h]) = 1 THEN CHOOSE n \in sources[h] : TRUE ELSE 0]
    /\ pc' = [pc EXCEPT ![h] = IF h \in ReadOnly THEN "open" ELSE "committing"]
    /\ opening' = [opening EXCEPT ![h] = h \notin ReadOnly]
    /\ UNCHANGED <<storeVars, todo, tree, created, sources, unmerged, dirty, moveVars,
                   callerVars, boundVars>>

-----------------------------------------------------------------------------
(* Set and Tombstone *)

(* DB.Set for e = Live(when), DB.Tombstone for e = Dead(when). *)
Update(h, k, e) ==
    /\ pc[h] = "open" /\ h \notin ReadOnly
    /\ writes < MaxWrites
    /\ LeafReadable(h, k)
    /\ IF UpdateWins(e, tree[h][k])
       THEN /\ tree' = [tree EXCEPT ![h][k] = e]
            /\ dirty' = [dirty EXCEPT ![h] = @ \union {k}]
       ELSE UNCHANGED <<tree, dirty>>
    /\ pending' = [pending EXCEPT ![h] = @ \union {<<k, e>>}]
    /\ writes' = writes + 1
    /\ UNCHANGED <<storeVars, pc, todo, created, source, sources, unmerged, opening,
                   moveVars, committed, expected, faults>>

-----------------------------------------------------------------------------
(* Commit *)

StartCommit(h) ==
    /\ pc[h] = "open" /\ h \notin ReadOnly
    /\ RootsLeft
    /\ pc' = [pc EXCEPT ![h] = "committing"]
    /\ UNCHANGED <<storeVars, todo, contentVars, opening, moveVars, callerVars, boundVars>>

NothingToCommit(h) ==
    /\ dirty[h] = {}
    /\ IF source[h] # 0 THEN Cardinality(sources[h]) <= 1 ELSE sources[h] = {}

(* Commit has nothing to store and reports success. *)
CommitNothing(h) ==
    /\ pc[h] = "committing"
    /\ NothingToCommit(h)
    /\ pc' = [pc EXCEPT ![h] = "open"]
    /\ opening' = [opening EXCEPT ![h] = FALSE]
    /\ committed' = committed \union pending[h]
    /\ pending' = [pending EXCEPT ![h] = {}]
    /\ UNCHANGED <<storeVars, todo, contentVars, moveVars, expected, boundVars>>

(* Commit returned an error to Open, which returns it, or to the caller. *)
CommitFails(h) ==
    /\ Fault
    /\ IF opening[h]
       THEN Forget(h)
       ELSE /\ pc' = [pc EXCEPT ![h] = "failed"]
            /\ dirty' = [dirty EXCEPT ![h] = {}]
            /\ UNCHANGED <<todo, tree, created, source, sources, unmerged, opening,
                           moveVars, callerVars>>

DirtyNodes(h) ==
    IF dirty[h] = {} THEN {} ELSE {Top(tree[h])} \union {Leaf(k, tree[h][k]) : k \in dirty[h]}

(***************************************************************************)
(* mast flush: every dirty node is queued, and marked clean as it is       *)
(* queued; the stores run concurrently.                                    *)
(***************************************************************************)
StoreNodes(h) ==
    /\ pc[h] = "committing"
    /\ ~NothingToCommit(h)
    /\ nodes' = nodes \union DirtyNodes(h)
    /\ dirty' = [dirty EXCEPT ![h] = {}]
    /\ pc' = [pc EXCEPT ![h] = "storing"]
    /\ UNCHANGED <<roots, current, merged, todo, tree, created, source, sources, unmerged,
                   opening, moveVars, callerVars, boundVars>>

(* Variant of StoreNodesFails: Commit goes on after a failed store. *)
StoreNodesUnchecked(h) ==
    /\ pc[h] = "committing"
    /\ ~NothingToCommit(h)
    /\ \E stored \in SUBSET DirtyNodes(h) : nodes' = nodes \union stored
    /\ Fault
    /\ dirty' = [dirty EXCEPT ![h] = {}]
    /\ pc' = [pc EXCEPT ![h] = "storing"]
    /\ UNCHANGED <<roots, current, merged, todo, tree, created, source, sources, unmerged,
                   opening, moveVars, callerVars, writes>>

(* A store reports an error, and any of the stores may have taken effect. *)
StoreNodesFails(h) ==
    /\ pc[h] = "committing"
    /\ ~NothingToCommit(h)
    /\ \E stored \in SUBSET DirtyNodes(h) : nodes' = nodes \union stored
    /\ CommitFails(h)
    /\ UNCHANGED <<roots, current, merged, writes>>

NewRoot(h) == [tree |-> tree[h], parents |-> sources[h], created |-> created[h]]

(* A root is named by the hash of its content. *)
NameOf(r) == IF \E n \in DOMAIN roots : roots[n] = r
             THEN CHOOSE n \in DOMAIN roots : roots[n] = r
             ELSE Len(roots) + 1

PutRoot(r) ==
    /\ roots' = IF NameOf(r) \in DOMAIN roots THEN roots ELSE Append(roots, r)
    /\ current' = current \union {NameOf(r)}

(* The new root is stored; from here on Commit can only succeed. *)
StoreRoot(h) ==
    /\ pc[h] = "storing"
    /\ PutRoot(NewRoot(h))
    /\ LET n == NameOf(NewRoot(h)) IN
         /\ toMove' = [toMove EXCEPT ![h] = sources[h] \ {n}]
         /\ sources' = [sources EXCEPT ![h] = {n}]
         /\ source' = [source EXCEPT ![h] = n]
    /\ committed' = committed \union pending[h]
    /\ pending' = [pending EXCEPT ![h] = {}]
    /\ pc' = [pc EXCEPT ![h] = "moving"]
    /\ UNCHANGED <<merged, nodes, todo, tree, created, unmerged, dirty, opening, moving,
                   expected, boundVars>>

(* The store of the root reports an error, whether or not it took effect. *)
StoreRootFails(h) ==
    /\ pc[h] = "storing"
    /\ PutRoot(NewRoot(h)) \/ UNCHANGED <<roots, current>>
    /\ CommitFails(h)
    /\ UNCHANGED <<merged, nodes, writes>>

(* Variant of CopyMerged: moveMergedRoots goes on after a failed copy. *)
CopyMergedUnchecked(h, n) ==
    /\ pc[h] = "moving" /\ moving[h] = 0 /\ n \in toMove[h]
    /\ moving' = [moving EXCEPT ![h] = n]
    /\ UNCHANGED <<storeVars, pc, todo, contentVars, opening, toMove, callerVars, boundVars>>

(* moveMergedRoots copies one merged root to root/merged/ ... *)
CopyMerged(h, n) ==
    /\ pc[h] = "moving" /\ moving[h] = 0 /\ n \in toMove[h]
    /\ merged' = merged \union {n}
    /\ moving' = [moving EXCEPT ![h] = n]
    /\ UNCHANGED <<roots, current, nodes, pc, todo, contentVars, opening, toMove,
                   callerVars, boundVars>>

(* ... and then deletes it from root/current/, if it still is there. *)
DeleteMerged(h) ==
    /\ pc[h] = "moving" /\ moving[h] # 0
    /\ current' = current \ {moving[h]}
    /\ toMove' = [toMove EXCEPT ![h] = @ \ {moving[h]}]
    /\ moving' = [moving EXCEPT ![h] = 0]
    /\ UNCHANGED <<roots, merged, nodes, pc, todo, contentVars, opening, callerVars, boundVars>>

(* The first error ends moveMergedRoots and is not reported. *)
MoveFails(h) ==
    /\ pc[h] = "moving" /\ toMove[h] # {}
    /\ Fault
    /\ toMove' = [toMove EXCEPT ![h] = {}]
    /\ moving' = [moving EXCEPT ![h] = 0]
    /\ UNCHANGED <<storeVars, pc, todo, contentVars, opening, callerVars, writes>>

FinishCommit(h) ==
    /\ pc[h] = "moving" /\ toMove[h] = {}
    /\ pc' = [pc EXCEPT ![h] = "open"]
    /\ opening' = [opening EXCEPT ![h] = FALSE]
    /\ UNCHANGED <<storeVars, todo, contentVars, moveVars, callerVars, boundVars>>

(* The caller keeps the handle after a failed Commit, to retry it. *)
Retry(h) ==
    /\ RetryFailed
    /\ pc[h] = "failed"
    /\ pc' = [pc EXCEPT ![h] = "open"]
    /\ UNCHANGED <<storeVars, todo, contentVars, opening, moveVars, callerVars, boundVars>>

-----------------------------------------------------------------------------

Next == \E h \in Handles :
    \/ ListRoots(h)
    \/ \E n \in todo[h] : LoadRoot(h, n)
    \/ FinishMerge(h)
    \/ \E k \in Keys, t \in Times : Update(h, k, Live(t)) \/ Update(h, k, Dead(t))
    \/ StartCommit(h) \/ CommitNothing(h)
    \/ StoreNodes(h) \/ StoreNodesFails(h)
    \/ StoreRoot(h) \/ StoreRootFails(h)
    \/ \E n \in toMove[h] : CopyMerged(h, n)
    \/ DeleteMerged(h) \/ MoveFails(h) \/ FinishCommit(h)
    \/ Retry(h) \/ Close(h) \/ Crash(h)

Spec == Init /\ [][Next]_vars

-----------------------------------------------------------------------------
(* Safety *)

Readable(n) == NodesOf(roots[n].tree) \subseteq nodes

Covers(t, w) == AtLeast(t[w[1]], w[2])

(***************************************************************************)
(* A write whose Commit reported success is covered by a root that is      *)
(* under root/current/ with all its nodes, so that every later Open can    *)
(* find it: no interleaving of commits, merges, moves and crashes takes it *)
(* away again (kv.go, Commit and moveMergedRoots).                         *)
(***************************************************************************)
DurableCommits ==
    \A w \in committed : \E n \in current : Readable(n) /\ Covers(roots[n].tree, w)

(***************************************************************************)
(* A root is published only after every node it links to: whoever finds a  *)
(* version, current or historic, can read all of it (Commit calls MakeRoot *)
(* before it stores the root).                                             *)
(***************************************************************************)
PublishedReadable == \A n \in current \union merged : Readable(n)

(***************************************************************************)
(* History is never lost by merging: a version leaves root/current/ only   *)
(* once its copy is under root/merged/, whoever else moves it at the time  *)
(* (moveMergedRoots stores before it deletes).                             *)
(***************************************************************************)
HistoryKept == DOMAIN roots \subseteq current \union merged

(***************************************************************************)
(* An Open that merged every root it had listed sees everything committed  *)
(* before it began; DB.unmergeableRoots = 0 is the sign of it.             *)
(***************************************************************************)
CompleteOpen ==
    \A h \in Handles :
        pc[h] \notin {"closed", "loading"} /\ ~unmerged[h] =>
            \A w \in expected[h] : Covers(tree[h], w)

(***************************************************************************)
(* "Commit ensures any Set() entries become accessible on subsequent       *)
(* Open()s" (kv.go:460): an Open sees everything committed before it       *)
(* began, also when it skipped roots.                                      *)
(***************************************************************************)
OpenSeesCommits ==
    \A h \in Handles :
        pc[h] \notin {"closed", "loading"} => \A w \in expected[h] : Covers(tree[h], w)

(***************************************************************************)
(* A root is deleted from root/current/ only while a younger root there    *)
(* supersedes it on every key, so the roots that readers merge lose        *)
(* nothing (moveMergedRoots runs after the merged root is stored).         *)
(***************************************************************************)
DeletedIsSuperseded ==
    [][\A n \in current \ current' : \E m \in current' :
         m > n /\ Dominates(roots'[m].tree, roots'[n].tree)]_vars

(***************************************************************************)
(* The store implements the durable map: the map is the join of the        *)
(* readable current roots, and moving a merged root leaves it unchanged.   *)
(***************************************************************************)
JoinOfCurrent ==
    [k \in Keys |->
        LET es == {roots[n].tree[k] : n \in {m \in current : Readable(m)}} \union {Absent}
        IN  CHOOSE e \in es : \A f \in es : AtLeast(e, f)]

Durable == INSTANCE DurableMap WITH value <- JoinOfCurrent, promised <- committed

ImplementsDurableMap == Durable!Spec

-----------------------------------------------------------------------------
(* The inductive invariant behind the safety properties *)

(* Parents are older than their children, and only stored roots are merged. *)
NamesOK ==
    /\ merged \subseteq DOMAIN roots
    /\ \A n \in DOMAIN roots : \A p \in roots[n].parents : p < n

(* What the phases of a handle say about its variables. *)
PhaseOK(h) ==
    /\ todo[h] \union sources[h] \union toMove[h] \subseteq DOMAIN roots
    /\ todo[h] \intersect sources[h] = {}
    /\ pc[h] = "closed" => sources[h] = {}
    /\ pc[h] \in {"closed", "loading"} =>
         /\ source[h] = 0 /\ pending[h] = {}
         /\ sources[h] = {} => tree[h] = EmptyTree
    /\ pc[h] \notin {"closed", "loading"} => todo[h] = {}
    /\ pc[h] # "moving" => toMove[h] = {} /\ moving[h] = 0
    /\ pc[h] = "storing" => dirty[h] = {} /\ NodesOf(tree[h]) \subseteq nodes
    /\ source[h] # 0 => sources[h] = {source[h]}

(* The tree in memory holds everything it was merged from or told to set. *)
MemoryOK(h) ==
    /\ \A n \in sources[h] : Dominates(tree[h], roots[n].tree)
    /\ \A w \in pending[h] : Covers(tree[h], w)

(* What is not dirty is stored, or has never been anything but empty. *)
CleanOK(h) ==
    pc[h] \notin {"storing", "failed"} =>
        /\ \A k \in Keys : LeafReadable(h, k)
        /\ sources[h] = {} => \A k \in Keys : k \in dirty[h] \/ tree[h][k] = Absent
        /\ dirty[h] = {} => \A n \in sources[h] :
             /\ Top(tree[h]) \in nodes
             /\ sources[h] = {n} => tree[h] = roots[n].tree

(* The roots a handle is moving away are superseded by the one it stored. *)
MovingOK(h) ==
    pc[h] = "moving" =>
        /\ source[h] # 0
        /\ \A n \in toMove[h] :
             n < source[h] /\ Dominates(roots[source[h]].tree, roots[n].tree)
        /\ moving[h] # 0 => moving[h] \in toMove[h] /\ moving[h] \in merged

(* Whatever was ever stored is superseded by a current root no older. *)
Superseded ==
    \A n \in DOMAIN roots :
        \E c \in current : c >= n /\ Dominates(roots[c].tree, roots[n].tree)

(* Promised writes are in some version, and every version is all there. *)
VersionsOK ==
    /\ \A w \in committed : \E n \in DOMAIN roots : Covers(roots[n].tree, w)
    /\ \A n \in DOMAIN roots : Readable(n)

(* What a handle is to see is in its tree or in a root it has yet to load. *)
ExpectedOK(h) ==
    ~unmerged[h] => \A w \in expected[h] :
        \/ Covers(tree[h], w)
        \/ \E n \in todo[h] : Covers(roots[n].tree, w)

HandleOK(h) == PhaseOK(h) /\ MemoryOK(h) /\ CleanOK(h) /\ MovingOK(h) /\ ExpectedOK(h)

RootsOK == NamesOK /\ Superseded /\ VersionsOK /\ HistoryKept

IInv == TypeOK /\ RootsOK /\ \A h \in Handles : HandleOK(h)

-----------------------------------------------------------------------------
(* Liveness *)

(***************************************************************************)
(* Read-only handles are refreshed again and again (azb_refresh opens a    *)
(* new handle), and an Open under way goes on; writers may stop anywhere.  *)
(***************************************************************************)
ReaderFairness ==
    \A h \in ReadOnly :
        /\ WF_vars(ListRoots(h))
        /\ WF_vars(\E n \in todo[h] : LoadRoot(h, n))
        /\ WF_vars(FinishMerge(h))
        /\ WF_vars(Close(h))

FairSpec == Spec /\ ReaderFairness

(***************************************************************************)
(* From some time on no root is stored in root/current/ or moved away.     *)
(* Without it a reader can starve: each time it has listed a root, some    *)
(* writer merges it and moves it before the reader loads it (kv.go:337).   *)
(***************************************************************************)
WritersRest == <>[][UNCHANGED current]_vars

(***************************************************************************)
(* Once writers rest - at any point, also half way through a Commit or a   *)
(* move, with what they left behind - every reader that keeps refreshing   *)
(* sees whatever was committed, although single refreshes missed it.       *)
(***************************************************************************)
VisibleOnceWritersRest ==
    WritersRest =>
        \A h \in ReadOnly, w \in Write :
            (w \in committed) ~> (pc[h] = "open" /\ Covers(tree[h], w))
=============================================================================
