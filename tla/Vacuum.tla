------------------------------- MODULE Vacuum -------------------------------
(***************************************************************************)
(* The versions of one table, and azb_vacuum, which removes old ones:      *)
(* VacuumTable of pkg/azb/vtable_common.go, RemoveTombstones and           *)
(* DeleteHistoricVersions of pkg/kv/kv.go; with the readers of versions,   *)
(* azb_version, azb_changes and TraceHistory.                              *)
(*                                                                         *)
(* KVStore is about the steps inside Open and Commit, SharedRow about the  *)
(* merge of rows.  Here both calls are one step, and rows merge as whole   *)
(* rows do, the later one wins; the steps of a vacuum are single lookups   *)
(* and deletions of blobs.  As in KVStore a tree has a leaf per row and a  *)
(* top node.  What azb_changes shows of two versions is in TreeDiff.       *)
(***************************************************************************)
EXTENDS Integers, Sequences, FiniteSets

CONSTANTS
    Keys,          \* of the rows
    Handles,       \* connections that have the table open for writing
    Careful,       \* TRUE: a vacuum is only started by a handle that is Alone
    CacheNodes,    \* TRUE: node_cache_entries > 0
    Flat,          \* TRUE: all trees have one shape, and DiffLinks is exact
    Cutoffs,       \* bound: the times given to azb_vacuum
    MaxTime,       \* bound: opens and writes, each of which has its own time
    MaxVacuums,    \* bound: calls of azb_vacuum
    MaxQueries,    \* bound: lookups of versions by azb_changes
    MaxFaults      \* bound: crashes and failed calls

ASSUME FlagsAssumption == {Careful, CacheNodes, Flat} \subseteq BOOLEAN
ASSUME BoundsAssumption == Cutoffs \union {MaxTime, MaxVacuums, MaxQueries, MaxFaults} \subseteq Nat

VARIABLES
    \* the blob container
    roots,       \* every root ever stored, in order; the index is its name
    current, merged,   \* names under root/current/ and root/merged/
    nodes,       \* blobs under node/
    \* the handles
    pc,          \* what the handle is doing
    tree,        \* DB.crdt.Mast: its rows
    created,     \* DB.crdt.Created, the time of Open
    source,      \* DB.crdt.Source, 0 for nil; the only merge source after Open
    dirty,       \* keys changed since the last Commit
    cached,      \* the node cache
    before,      \* before_time of the vacuum under way
    search,      \* loadRootGraph: versions found, to do, and the one not in root/merged/
    doomed,      \* DeleteHistoricVersions: [nodes, roots] left to delete; sure: the nodes that
                 \* were reported for certain, of the others this is open until they are deleted
    query,       \* one azb_changes query: the versions it was given, and its lookup of them
    \* what was promised, and the bounds
    truth,       \* the latest row committed for a key
    reclaimed,   \* roots that vacuums deleted
    vacuums,     \* the cutoffs that azb_vacuum was given so far
    now, queries, faults

blobs   == <<roots, current, merged, nodes>>
content == <<tree, created, source, dirty, cached>>
work    == <<before, search, doomed>>
reading == <<query, queries>>
vars == <<blobs, pc, content, work, reading, truth, reclaimed, now, vacuums, faults>>

-----------------------------------------------------------------------------
(* Rows, trees, nodes *)

Name == Nat \ {0}

(* A row as far as merges look at it; prev is crdt.Value.PreviousRoot. *)
Row == [mod : Nat, deleted : BOOLEAN, prev : Nat]
Absent == [mod |-> 0, deleted |-> TRUE, prev |-> 0]

EmptyTree == [k \in Keys |-> Absent]

(* The top node of a tree; an empty tree has a nil link instead. *)
Top(t)     == IF t = EmptyTree THEN {} ELSE {[links |-> t]}
Leaf(k, r) == [key |-> k, row |-> r]
NodesOf(t) == Top(t) \union {Leaf(k, t[k]) : k \in {j \in Keys : t[j] # Absent}}

Latest(rs) == CHOOSE r \in rs : \A s \in rs : s.mod <= r.mod

(* The rows of several versions, merged. *)
Joined(ns) == [k \in Keys |-> Latest({Absent} \union {roots[n].tree[k] : n \in ns})]

NoWork   == [nodes |-> {}, sure |-> {}, roots |-> {}]
NoSearch == [found |-> {}, todo |-> {}, at |-> 0]
Idle     == [stage |-> "idle", wants |-> <<>>, missed |-> 0]

RootRecord == [tree : [Keys -> Row], parents : SUBSET Name, created : Nat]

Stages == {"idle", "merged", "current", "missed", "found", "failed"}

(* The nodes of all versions ever stored. *)
AllNodes == UNION {NodesOf(roots[n].tree) : n \in DOMAIN roots}

TypeOK ==
    /\ roots \in Seq(RootRecord)
    /\ current \union merged \union reclaimed \subseteq DOMAIN roots
    /\ nodes \subseteq AllNodes
    /\ pc \in [Handles -> {"closed", "open", "vacuum", "deleting"}]
    /\ tree \in [Handles -> [Keys -> Row]]
    /\ created \in [Handles -> 0..MaxTime]
    /\ source \in [Handles -> DOMAIN roots \union {0}]
    /\ dirty \in [Handles -> SUBSET Keys]
    /\ cached \in [Handles -> SUBSET AllNodes]
    /\ before \in [Handles -> Nat]
    /\ search \in [Handles -> [found : SUBSET DOMAIN roots, todo : SUBSET DOMAIN roots,
                               at : DOMAIN roots \union {0}]]
    /\ doomed \in [Handles -> [nodes : SUBSET AllNodes, sure : SUBSET AllNodes,
                               roots : SUBSET DOMAIN roots]]
    /\ query \in [stage : Stages, wants : Seq(DOMAIN roots), missed : 0..2]
    /\ truth \in [Keys -> Row]
    /\ now \in 0..MaxTime /\ vacuums \in Seq(Cutoffs) /\ Len(vacuums) <= MaxVacuums
    /\ queries \in 0..MaxQueries /\ faults \in 0..MaxFaults

Init ==
    /\ roots = <<>> /\ current = {} /\ merged = {} /\ nodes = {}
    /\ pc = [h \in Handles |-> "closed"]
    /\ tree = [h \in Handles |-> EmptyTree]
    /\ created = [h \in Handles |-> 0]
    /\ source = [h \in Handles |-> 0]
    /\ dirty = [h \in Handles |-> {}]
    /\ cached = [h \in Handles |-> {}]
    /\ before = [h \in Handles |-> 0]
    /\ search = [h \in Handles |-> NoSearch]
    /\ doomed = [h \in Handles |-> NoWork]
    /\ query = Idle
    /\ truth = EmptyTree
    /\ reclaimed = {}
    /\ now = 0 /\ vacuums = <<>> /\ queries = 0 /\ faults = 0

-----------------------------------------------------------------------------
(* Opening, writing, committing *)

Fault == faults < MaxFaults /\ faults' = faults + 1

(* What handle h can read: stored nodes, and those in its cache. *)
Visible(h) == nodes \union cached[h]

Remembered(h, ns) == IF CacheNodes THEN cached[h] \union ns ELSE {}

(* Variant of Publish: merged roots are deleted, and not kept as history. *)
PublishForgets(h, t, parents, when) ==
    /\ roots' = Append(roots, [tree |-> t, parents |-> parents, created |-> when])
    /\ source' = [source EXCEPT ![h] = Len(roots) + 1]
    /\ \/ /\ current' = (current \ parents) \union {Len(roots) + 1}
          /\ UNCHANGED faults
       \/ /\ Fault
          /\ \E moved \in SUBSET parents : current' = (current \ moved) \union {Len(roots) + 1}
    /\ UNCHANGED merged

(***************************************************************************)
(* Commit stores a root and moves its parents to root/merged/.  The first  *)
(* error ends the moving and is not reported.                              *)
(***************************************************************************)
Publish(h, t, parents, when) ==
    /\ roots' = Append(roots, [tree |-> t, parents |-> parents, created |-> when])
    /\ source' = [source EXCEPT ![h] = Len(roots) + 1]
    /\ \/ /\ current' = (current \ parents) \union {Len(roots) + 1}
          /\ merged' = merged \union parents
          /\ UNCHANGED faults
       \/ /\ Fault
          /\ \E moved \in SUBSET parents :
               /\ current' = (current \ moved) \union {Len(roots) + 1}
               /\ merged' = merged \union moved

(* Roots whose top node is gone are skipped by mergeRoots. *)
Found == {n \in current : Top(roots[n].tree) \subseteq nodes}

(* A merge reads the leaves in which the trees differ. *)
Mergeable(ns) ==
    \A k \in Keys : Cardinality({roots[n].tree[k] : n \in ns}) > 1 =>
        \A n \in ns : roots[n].tree[k] = Absent \/ Leaf(k, roots[n].tree[k]) \in nodes

(* The stored nodes of some versions; all that reading them puts into the cache. *)
Loaded(ns) == nodes \intersect UNION {NodesOf(roots[n].tree) : n \in ns}

(***************************************************************************)
(* Open merges the current roots, and commits if it merged several.  An    *)
(* Open that fails changes nothing.                                        *)
(***************************************************************************)
Open(h) ==
    /\ pc[h] = "closed"
    /\ now < MaxTime /\ now' = now + 1
    /\ Mergeable(Found)
    /\ pc' = [pc EXCEPT ![h] = "open"]
    /\ tree' = [tree EXCEPT ![h] = Joined(Found)]
    /\ created' = [created EXCEPT ![h] = now + 1]
    /\ cached' = [cached EXCEPT ![h] = Remembered(h, Loaded(Found) \union Top(Joined(Found)))]
    /\ IF Cardinality(Found) > 1
       THEN /\ Publish(h, Joined(Found), Found, now + 1)
            /\ nodes' = nodes \union Top(Joined(Found))
       ELSE /\ source' = [source EXCEPT ![h] = IF Found = {} THEN 0 ELSE CHOOSE n \in Found : TRUE]
            /\ UNCHANGED <<blobs, faults>>
    /\ UNCHANGED <<dirty, work, reading, truth, reclaimed, vacuums>>

(* Variant of Previous: the link of the row before is kept. *)
PreviousOfRow(h, k) == tree[h][k].prev

(* crdt.Value.PreviousRoot of a row about to be written: the version before. *)
Previous(h, k) == IF tree[h][k] = Absent THEN 0 ELSE source[h]

(* What handle h has for key k can be read; the top node may be in memory. *)
Readable(h, k) == tree[h][k] = Absent \/ k \in dirty[h] \/ Leaf(k, tree[h][k]) \in Visible(h)

(* An INSERT or UPDATE of a row, or a DELETE. *)
Write(h, k, deleted) ==
    /\ pc[h] = "open"
    /\ now < MaxTime /\ now' = now + 1
    /\ Readable(h, k)
    /\ deleted => ~tree[h][k].deleted
    /\ tree' = [tree EXCEPT ![h][k] =
                   [mod |-> now + 1, deleted |-> deleted, prev |-> Previous(h, k)]]
    /\ dirty' = [dirty EXCEPT ![h] = @ \union {k}]
    /\ UNCHANGED <<blobs, pc, created, source, cached, work, reading, truth, reclaimed,
                   vacuums, faults>>

(* Variant of NewNodes: a removed row leaves an empty leaf. *)
NewNodesForAll(t, ks) == Top(t) \union {Leaf(k, t[k]) : k \in ks}

(* The nodes of a tree that differs from the stored one on the dirty keys. *)
NewNodes(t, ks) == Top(t) \union {Leaf(k, t[k]) : k \in {j \in ks : t[j] # Absent}}

(* Stores tree t; nodes in the cache are taken for stored. *)
Save(h, t, ks) ==
    /\ Publish(h, t, {source[h]} \ {0}, created[h])
    /\ nodes' = nodes \union (NewNodes(t, ks) \ cached[h])
    /\ cached' = [cached EXCEPT ![h] = Remembered(h, NewNodes(t, ks))]
    /\ tree' = [tree EXCEPT ![h] = t]
    /\ dirty' = [dirty EXCEPT ![h] = {}]
    /\ truth' = [k \in Keys |-> IF k \in dirty[h] THEN Latest({truth[k], tree[h][k]}) ELSE truth[k]]

Commit(h) ==
    /\ pc[h] = "open" /\ dirty[h] # {}
    /\ Save(h, tree[h], dirty[h])
    /\ UNCHANGED <<pc, created, work, reading, reclaimed, now, vacuums>>

Forget(h) ==
    /\ pc' = [pc EXCEPT ![h] = "closed"]
    /\ tree' = [tree EXCEPT ![h] = EmptyTree]
    /\ created' = [created EXCEPT ![h] = 0]
    /\ source' = [source EXCEPT ![h] = 0]
    /\ dirty' = [dirty EXCEPT ![h] = {}]
    /\ cached' = [cached EXCEPT ![h] = {}]
    /\ before' = [before EXCEPT ![h] = 0]
    /\ search' = [search EXCEPT ![h] = NoSearch]
    /\ doomed' = [doomed EXCEPT ![h] = NoWork]
    /\ UNCHANGED <<blobs, reading, truth, reclaimed, now, vacuums>>

(* The connection is closed, or refreshed: the next Open is a new handle. *)
Close(h) == pc[h] = "open" /\ Forget(h) /\ UNCHANGED faults

(* The process dies during a vacuum. *)
Crash(h) == pc[h] \in {"vacuum", "deleting"} /\ Fault /\ Forget(h)

-----------------------------------------------------------------------------
(* Vacuum *)

(* Nobody else has the table open, everything current is merged, nothing is uncommitted. *)
Alone(h) ==
    /\ dirty[h] = {}
    /\ \A g \in Handles \ {h} : pc[g] = "closed"
    /\ current \subseteq {source[h]}

(* Variant of Old: rows that exist are removed as well. *)
OldAnyRow(r, cutoff) == r # Absent /\ r.mod < cutoff

(* Rows that were deleted before the cutoff. *)
Old(r, cutoff) == r # Absent /\ r.deleted /\ r.mod < cutoff

(* What RemoveTombstones leaves of a handle's tree. *)
Kept(h, cutoff) == [k \in Keys |-> IF Old(tree[h][k], cutoff) THEN Absent ELSE tree[h][k]]

(***************************************************************************)
(* VacuumTable removes old deleted rows from a clone of the tree, commits  *)
(* the clone, with what else was not committed, and puts it in place of    *)
(* the table's.                                                            *)
(***************************************************************************)
StartVacuum(h, cutoff) ==
    /\ pc[h] = "open"
    /\ Len(vacuums) < MaxVacuums /\ vacuums' = Append(vacuums, cutoff)
    /\ Careful => Alone(h)
    /\ NodesOf(tree[h]) \subseteq Visible(h) \union NewNodes(tree[h], dirty[h])
    /\ LET kept == Kept(h, cutoff)
           changed == dirty[h] \union {k \in Keys : kept[k] # tree[h][k]}
       IN  IF changed # {}
           THEN Save(h, kept, changed)
           ELSE UNCHANGED <<blobs, tree, source, dirty, cached, truth, faults>>
    /\ pc' = [pc EXCEPT ![h] = "vacuum"]
    /\ before' = [before EXCEPT ![h] = cutoff]
    /\ search' = [search EXCEPT ![h] = [NoSearch EXCEPT !.todo = {source'[h]} \ {0}]]
    /\ UNCHANGED <<created, doomed, reading, reclaimed, now>>

SearchStep == UNCHANGED <<blobs, pc, content, before, doomed, reading, truth, reclaimed, now,
                          vacuums, faults>>

(* Version n is found, and its parents are to be looked up. *)
FoundVersion(h, n) ==
    search' = [search EXCEPT ![h] = [found |-> @.found \union {n},
                                     todo |-> (@.todo \union (roots[n].parents \ @.found)) \ {n},
                                     at |-> 0]]

(* loadRootGraph, from the handle's version back: any version to do is looked *)
(* for under root/merged/ ... *)
FindMerged(h, n) ==
    /\ pc[h] = "vacuum" /\ search[h].at = 0 /\ n \in search[h].todo
    /\ IF n \in merged THEN FoundVersion(h, n) ELSE search' = [search EXCEPT ![h].at = n]
    /\ SearchStep

(* ... and then under root/current/; if it was moved meanwhile, it is passed over. *)
FindCurrent(h) ==
    /\ pc[h] = "vacuum" /\ search[h].at # 0
    /\ IF search[h].at \in current
       THEN FoundVersion(h, search[h].at)
       ELSE search' = [search EXCEPT ![h].todo = @ \ {search[h].at}, ![h].at = 0]
    /\ SearchStep

(* getDependents *)
Children(graph, p) == {c \in graph : p \in roots[c].parents}

(* Variant of Deletable: the age of the children is not looked at. *)
DeletableAtOnce(graph, cutoff) == {p \in DOMAIN roots : Children(graph, p) # {}}

(* Variant of Deletable: one old child is enough. *)
DeletableByOne(graph, cutoff) ==
    {p \in DOMAIN roots : \E c \in Children(graph, p) : roots[c].created <= cutoff}

(* Parents all of whose known children are old enough. *)
Deletable(graph, cutoff) ==
    {p \in DOMAIN roots :
        /\ Children(graph, p) # {}
        /\ \A c \in Children(graph, p) : roots[c].created <= cutoff}

(* The nodes of a parent that its child does not have. *)
DroppedLinks(p, c) == NodesOf(roots[p].tree) \ NodesOf(roots[c].tree)

(* Variant of MayReport: links that were added count as well. *)
MayReportAdded(h, p, c) == Visible(h) \intersect (NodesOf(roots[p].tree) \union NodesOf(roots[c].tree))

(* DiffLinks reports nodes of the parent that it can read: where trees keep their  *)
(* shape, those that were dropped; else also some that the child has elsewhere.    *)
MayReport(h, p, c) ==
    Visible(h) \intersect (IF Flat THEN DroppedLinks(p, c) ELSE NodesOf(roots[p].tree))

(* Parent and child are compared to the end, and by all they differ in. *)
Comparable(h, p, c) ==
    /\ Flat
    /\ Top(roots[p].tree) \union Top(roots[c].tree) \subseteq Visible(h)
    /\ DroppedLinks(p, c) \subseteq Visible(h)

(***************************************************************************)
(* getHistoricRootsAndNodes, when the graph is loaded.  An error of one    *)
(* comparison is logged, and what was found up to it counts.               *)
(***************************************************************************)
PlanDeletions(h) ==
    /\ pc[h] = "vacuum" /\ search[h].todo = {}
    /\ LET graph == search[h].found
           old   == Deletable(graph, before[h])
           pairs == {pair \in (old \intersect graph) \X graph : pair[1] \in roots[pair[2]].parents}
           whole == {pair \in pairs : Comparable(h, pair[1], pair[2])}
           read  == UNION {{pair[1], pair[2]} : pair \in pairs}
       IN  /\ doomed' = [doomed EXCEPT ![h] =
                [nodes |-> UNION {MayReport(h, q[1], q[2]) : q \in pairs},
                 sure |-> UNION {DroppedLinks(q[1], q[2]) : q \in whole},
                 roots |-> old]]
           /\ cached' = [cached EXCEPT ![h] = Remembered(h, Loaded(read))]
    /\ pc' = [pc EXCEPT ![h] = "deleting"]
    /\ UNCHANGED <<blobs, tree, created, source, dirty, before, search, reading, truth, reclaimed,
                   now, vacuums, faults>>

DeleteNode(h, x) ==
    /\ pc[h] = "deleting" /\ x \in doomed[h].nodes
    /\ nodes' = nodes \ {x}
    /\ doomed' = [doomed EXCEPT ![h].nodes = @ \ {x}]
    /\ UNCHANGED <<roots, current, merged, pc, content, before, search, reading, truth,
                   reclaimed, now, vacuums, faults>>

NodesDeleted(h) == doomed[h].nodes \intersect doomed[h].sure = {}

(* Roots are deleted after all nodes. *)
DeleteRoot(h, n) ==
    /\ pc[h] = "deleting" /\ NodesDeleted(h) /\ n \in doomed[h].roots
    /\ merged' = merged \ {n}
    /\ reclaimed' = reclaimed \union {n}
    /\ doomed' = [doomed EXCEPT ![h] = [NoWork EXCEPT !.roots = doomed[h].roots \ {n}]]
    /\ UNCHANGED <<roots, current, nodes, pc, content, before, search, reading, truth, now,
                   vacuums, faults>>

(* An empty version that is old enough goes, too. *)
Superfluous(h) ==
    {n \in current \intersect {source[h]} : tree[h] = EmptyTree /\ roots[n].created < before[h]}

FinishVacuum(h) ==
    /\ pc[h] = "deleting" /\ NodesDeleted(h) /\ doomed[h].roots = {}
    /\ current' = current \ Superfluous(h)
    /\ reclaimed' = reclaimed \union Superfluous(h)
    /\ pc' = [pc EXCEPT ![h] = "open"]
    /\ before' = [before EXCEPT ![h] = 0]
    /\ search' = [search EXCEPT ![h] = NoSearch]
    /\ doomed' = [doomed EXCEPT ![h] = NoWork]
    /\ UNCHANGED <<roots, merged, nodes, content, reading, truth, now, vacuums, faults>>

(* A lookup or a deletion fails: the vacuum ends with an error, the handle stays. *)
VacuumFails(h) ==
    /\ pc[h] \in {"vacuum", "deleting"}
    /\ Fault
    /\ pc' = [pc EXCEPT ![h] = "open"]
    /\ before' = [before EXCEPT ![h] = 0]
    /\ search' = [search EXCEPT ![h] = NoSearch]
    /\ doomed' = [doomed EXCEPT ![h] = NoWork]
    /\ UNCHANGED <<blobs, content, reading, truth, reclaimed, now, vacuums>>

-----------------------------------------------------------------------------
(* Reading versions *)

(* DB.Roots: the versions a handle consists of; it refuses while there are changes. *)
Roots(h) == {n \in {source[h]} \ {0} : dirty[h] = {}}

(* The rest of the system stands still while a query takes a step. *)
QueryStep == UNCHANGED <<blobs, pc, content, work, truth, reclaimed, now, vacuums, faults>>

(* azb_version returns them; a caller keeps two to compare. *)
NoteVersion(h) ==
    /\ pc[h] = "open" /\ queries < MaxQueries
    /\ query.stage = "idle" /\ Len(query.wants) < 2
    /\ \E n \in Roots(h) : query' = [query EXCEPT !.wants = Append(@, n)]
    /\ QueryStep /\ UNCHANGED queries

(* azb_changes opens the version it was given as from, then the other. *)
StartChanges ==
    /\ query.stage = "idle" /\ Len(query.wants) = 2
    /\ queries < MaxQueries /\ queries' = queries + 1
    /\ query' = [query EXCEPT !.stage = "merged"]
    /\ QueryStep

(* crdt.Load of a root that was found reads its top node. *)
Opened(n) ==
    [query EXCEPT
        !.wants = Tail(@),
        !.missed = 0,
        !.stage = IF ~(Top(roots[n].tree) \subseteq nodes) THEN "failed"
                  ELSE IF Len(query.wants) = 1 THEN "found" ELSE "merged"]

(* loadRootFromAny looks for a version under root/merged/ ... *)
LookInMerged ==
    /\ query.stage = "merged"
    /\ LET n == Head(query.wants) IN
         query' = IF n \in merged THEN Opened(n) ELSE [query EXCEPT !.stage = "current"]
    /\ QueryStep /\ UNCHANGED queries

(* ... and then under root/current/. *)
LookInCurrent ==
    /\ query.stage = "current"
    /\ LET n == Head(query.wants) IN
         query' = IF n \in current THEN Opened(n)
                  ELSE [query EXCEPT !.stage = "missed", !.missed = @ + 1]
    /\ QueryStep /\ UNCHANGED queries

(* The caller runs the query again after its version was not found. *)
RetryChanges ==
    /\ query.stage = "missed" /\ query.missed = 1
    /\ query' = [query EXCEPT !.stage = "merged"]
    /\ QueryStep /\ UNCHANGED queries

CloseQuery ==
    /\ query.stage \in {"found", "failed", "missed"}
    /\ query' = Idle
    /\ QueryStep /\ UNCHANGED queries

-----------------------------------------------------------------------------

HandleStep(h) ==
    \/ Open(h) \/ Commit(h) \/ Close(h) \/ Crash(h)
    \/ \E k \in Keys, deleted \in BOOLEAN : Write(h, k, deleted)
    \/ \E cutoff \in Cutoffs : StartVacuum(h, cutoff)
    \/ \E n \in search[h].todo : FindMerged(h, n)
    \/ FindCurrent(h) \/ PlanDeletions(h)
    \/ \E x \in doomed[h].nodes : DeleteNode(h, x)
    \/ \E n \in doomed[h].roots : DeleteRoot(h, n)
    \/ FinishVacuum(h) \/ VacuumFails(h)
    \/ NoteVersion(h)

ChangesStep ==
    \/ StartChanges \/ LookInMerged \/ LookInCurrent \/ RetryChanges \/ CloseQuery

Next == (\E h \in Handles : HandleStep(h)) \/ ChangesStep

Spec == Init /\ [][Next]_vars

-----------------------------------------------------------------------------
(* What a vacuum keeps *)

(* The versions of ns that lead to version n: n itself, and the parents of those that do. *)
History(n, ns) ==
    LET closed == {S \in SUBSET ns : /\ n \in ns => n \in S
                                     /\ \A c \in S : roots[c].parents \intersect ns \subseteq S}
    IN  {m \in ns : \A S \in closed : m \in S}

Ancestors(n) == History(n, DOMAIN roots) \ {n}

(* Version n is no younger than some cutoff that was given. *)
PastCutoff(n) == \E i \in DOMAIN vacuums : roots[n].created <= vacuums[i]

(* What handle h looked for and did not find while it searched. *)
Unfound(h) ==
    ({source[h]} \union UNION {roots[c].parents : c \in search[h].found}) \ ({0} \union search[h].found)

(* Version c led to the handle's by way of a version that it missed while that was moved. *)
BehindMoved(h, c) == \E d \in Unfound(h) \intersect merged : c \in History(d, DOMAIN roots)

(* What was made of version n, and what handle h has was made of, is past a cutoff. *)
ChildrenPast(h, n) ==
    \A c \in DOMAIN roots :
        n \in roots[c].parents =>
            PastCutoff(c) \/ c \notin History(source[h], DOMAIN roots) \/ BehindMoved(h, c)

(* Version p was followed by one as old as a cutoff. *)
Replaced(p) == \E c \in DOMAIN roots : p \in roots[c].parents /\ PastCutoff(c)

(* One of the versions ns had node x, and was replaced. *)
Outdated(x, ns) == \E p \in ns : x \in NodesOf(roots[p].tree) /\ Replaced(p)

(***************************************************************************)
(* Whoever vacuums when, whatever its comparisons report and wherever it   *)
(* breaks off: no stored version misses a node, unless a version had it    *)
(* that was followed by one as old as a cutoff.                            *)
(***************************************************************************)
OnlyOutdatedGone == \A x \in AllNodes \ nodes : Outdated(x, DOMAIN roots)

(***************************************************************************)
(* A vacuum that starts alone takes no node from the current versions,     *)
(* however it is interrupted and whoever opens and writes the table        *)
(* meanwhile, unless a version that led to the current one had the node    *)
(* and was followed by one as old as a cutoff.  Such nodes do go: parents  *)
(* are compared to children only, and comparisons report too much.         *)
(***************************************************************************)
LossOnlyOfOutdated ==
    \A n \in current :
        LET line == History(n, DOMAIN roots)
        IN  \A x \in NodesOf(roots[n].tree) \ nodes : Outdated(x, line)

(***************************************************************************)
(* "any nodes from those versions that are no longer necessary for reading *)
(* later versions" (kv.go:816): the current versions keep all their nodes. *)
(***************************************************************************)
CurrentReadable == \A n \in current : NodesOf(roots[n].tree) \subseteq nodes

(***************************************************************************)
(* What the current versions add up to is what was committed: no row is    *)
(* lost, and none that was deleted comes back, although RemoveTombstones   *)
(* forgets deletions and an empty version is deleted altogether.           *)
(***************************************************************************)
TableAsCommitted ==
    \A k \in Keys :
        \/ Joined(current)[k] = truth[k]
        \/ truth[k].deleted /\ Joined(current)[k] = Absent

(***************************************************************************)
(* A vacuum deletes a version only if it is as old as the cutoff, and once *)
(* every version that was made from the deleted one, and that its handle's *)
(* version was made from, is as old as this or an earlier cutoff - those   *)
(* it does not find any more included.  The age of a version is that of    *)
(* the handle it was committed by.  Versions that other handles made of    *)
(* the deleted one may be newer, and so may those that loadRootGraph did   *)
(* not see behind a version that another handle was moving ("delayed       *)
(* root", kv.go:583).                                                      *)
(***************************************************************************)
OnlyOldVersionsGo ==
    [][\A n \in reclaimed' \ reclaimed : \E h \in Handles :
         roots[n].created <= before[h] /\ ChildrenPast(h, n)]_vars

(***************************************************************************)
(* A version that azb_version named is missed at most once: if it is moved *)
(* between the two places the second try finds it, unless a vacuum has     *)
(* deleted it (loadRootFromAny, moveMergedRoots).                          *)
(***************************************************************************)
MissedAtMostOnce ==
    query.stage = "missed" /\ query.missed = 2 => Head(query.wants) \in reclaimed

(* The nodes that a Get of key k reads. *)
Path(t, k) == Top(t) \union (NodesOf(t) \intersect {Leaf(k, t[k])})

(* Opening version n by its name, and reading key k of it. *)
Reads(h, n, k) == n \in merged \union current /\ Path(roots[n].tree, k) \subseteq Visible(h)

(***************************************************************************)
(* TraceHistory from version n back: the times of the values of key k      *)
(* before a cutoff.  No value has time 0; it stands for the error that     *)
(* ends the trace when a version, or a node of it, cannot be read.         *)
(***************************************************************************)
Back(h, k) ==
    LET back[n \in 0..Len(roots)] ==
          [cutoff \in 0..(MaxTime + 1) |->
              LET r == roots[n].tree[k]
              IN  IF n = 0 THEN <<>>
                  ELSE IF ~Reads(h, n, k) THEN <<0>>
                  ELSE IF r = Absent \/ r.mod >= cutoff THEN <<>>
                  ELSE <<r.mod>> \o back[r.prev][r.mod]]
    IN  back

(* The version before is opened, and then left out if its name is that of the handle's own. *)
Earlier(h, k, r) ==
    IF r.prev # source[h] THEN Back(h, k)[r.prev][r.mod]
    ELSE IF r.prev = 0 \/ Reads(h, r.prev, k) THEN <<>>
    ELSE <<0>>

(* TraceHistory: the times of the values of key k, from handle h's back to the first. *)
Trace(h, k) ==
    LET r == tree[h][k]
    IN  IF ~Readable(h, k) THEN <<0>>
        ELSE IF r = Absent THEN <<>>
        ELSE <<r.mod>> \o Earlier(h, k, r)

(* The values of key k that the versions of handle h had since the row last did not exist. *)
ValuesSince(h, k) ==
    LET line == Ancestors(source[h]) \union {source[h]} IN
    {roots[n].tree[k].mod : n \in {m \in line : \A c \in line : c >= m => roots[c].tree[k] # Absent}}

(***************************************************************************)
(* In a history without forks, if TraceHistory gives no error, it tells    *)
(* every value of a committed row back to its first or to its last         *)
(* removal, each once and the newest first - also while vacuums delete the *)
(* versions and nodes that it needs, the trace's own error apart.  (Of a   *)
(* row with a change that is not committed it tells that change only: the  *)
(* version before has the handle's own name, and kv.go:923 drops it.)      *)
(***************************************************************************)
TraceComplete ==
    \A h \in Handles : \A k \in Keys \ dirty[h] :
        LET line == Ancestors(source[h]) \union {source[h]}
            told == Trace(h, k)
        IN  /\ pc[h] = "open" /\ source[h] # 0 /\ tree[h][k] # Absent
            /\ \A n \in line : Cardinality(roots[n].parents) <= 1
            /\ \A i \in DOMAIN told : told[i] # 0
            => /\ {told[i] : i \in DOMAIN told} = ValuesSince(h, k)
               /\ \A i, j \in DOMAIN told : i < j => told[i] > told[j]

-----------------------------------------------------------------------------
(* The inductive invariant behind these properties *)

(* What a handle has for key k of the version it consists of. *)
SourceRow(h, k) == IF source[h] = 0 THEN Absent ELSE roots[source[h]].tree[k]

(* The rows of key k: stored, in memory, or promised. *)
RowsOf(k) ==
    {Absent, truth[k]} \union {roots[n].tree[k] : n \in DOMAIN roots}
                       \union {tree[h][k] : h \in Handles}

(* A row is known by the time it was written. *)
RowsOK ==
    \A k \in Keys :
        /\ \A r \in RowsOf(k) : r.mod <= now
        /\ \A r, s \in RowsOf(k) : r.mod = s.mod => r = s
        /\ \A n \in DOMAIN roots : roots[n].tree[k].mod <= truth[k].mod

(* Parents are older than their children, and roots are nowhere but where they belong. *)
NamesOK ==
    /\ \A n \in DOMAIN roots :
         /\ roots[n].created <= now
         /\ \A p \in roots[n].parents : p < n /\ roots[p].created <= roots[n].created
    /\ DOMAIN roots \subseteq merged \union current \union reclaimed

(* A tree is what was opened or committed last, but for rows written since, by nobody else. *)
ContentOK(h) ==
    /\ created[h] <= now
    /\ source[h] # 0 => roots[source[h]].created <= created[h]
    /\ pc[h] = "closed" => source[h] = 0
    /\ pc[h] # "open" => dirty[h] = {}
    /\ \A k \in Keys \ dirty[h] : tree[h][k] = SourceRow(h, k)
    /\ \A k \in dirty[h] :
         /\ tree[h][k].mod > SourceRow(h, k).mod
         /\ \A n \in DOMAIN roots : roots[n].tree[k].mod # tree[h][k].mod
         /\ \A g \in Handles \ {h} : tree[g][k].mod # tree[h][k].mod

(* A search goes back from the handle's version, and misses what was moved or deleted. *)
SearchOK(h) ==
    /\ pc[h] \notin {"vacuum", "deleting"} => search[h] = NoSearch
    /\ pc[h] = "deleting" => search[h].todo = {}
    /\ search[h].at # 0 => search[h].at \in search[h].todo
    /\ search[h].found \union search[h].todo \subseteq History(source[h], DOMAIN roots)
    /\ pc[h] \in {"vacuum", "deleting"} =>
         Unfound(h) \subseteq search[h].todo \union merged \union reclaimed

(* What is about to be deleted is old, and so is what was deleted. *)
AgeOK ==
    /\ \A n \in reclaimed : PastCutoff(n)
    /\ \A h \in Handles :
         /\ pc[h] \in {"vacuum", "deleting"} => \E i \in DOMAIN vacuums : vacuums[i] = before[h]
         /\ pc[h] # "deleting" => doomed[h] = NoWork
         /\ \A n \in doomed[h].roots : roots[n].created <= before[h] /\ ChildrenPast(h, n)

(* A version that was missed has been moved, or deleted. *)
LookupOK ==
    /\ query.stage \in {"merged", "current", "missed"} => query.wants # <<>>
    /\ query.stage \notin {"merged", "current", "missed"} => query.missed = 0
    /\ query.stage = "missed" => query.missed # 0
    /\ query.missed # 0 => Head(query.wants) \in merged \union reclaimed
    /\ query.stage = "current" /\ query.missed = 1 => Head(query.wants) \in reclaimed
    /\ query.stage # "missed" => query.missed # 2
    /\ query.missed = 2 => Head(query.wants) \in reclaimed

(* What was deleted is outdated; and what is about to be was so before the handle's version. *)
NodesOK ==
    /\ OnlyOutdatedGone
    /\ \A h \in Handles : \A x \in doomed[h].nodes : Outdated(x, Ancestors(source[h]))

(* A current version has the row that was promised; or it was deleted, and is gone everywhere. *)
PromiseOK ==
    \A k \in Keys :
        \/ \E n \in current : roots[n].tree[k] = truth[k]
        \/ /\ truth[k].deleted
           /\ \A n \in current : roots[n].tree[k] = Absent
           /\ \A h \in Handles : tree[h][k] = Absent \/ tree[h][k].mod > truth[k].mod

(* Row r of key k was written over the row of version p. *)
Follows(r, p, k) ==
    /\ r.mod > roots[p].tree[k].mod
    /\ \/ r.prev = p
       \/ r.prev = 0 /\ roots[p].tree[k] = Absent

(***************************************************************************)
(* The link of a row leads to the version it was written over, or to none  *)
(* if that did not have the row, unless the row is from another branch.    *)
(***************************************************************************)
LinksOK ==
    /\ \A n \in DOMAIN roots, k \in Keys :
         LET r == roots[n].tree[k]
         IN  r # Absent =>
                /\ r.prev < n
                /\ roots[n].parents = {} => r.prev = 0
                /\ \A p \in roots[n].parents :
                     roots[n].parents = {p} => r = roots[p].tree[k] \/ Follows(r, p, k)
    /\ \A h \in Handles : \A k \in dirty[h] :
         \/ tree[h][k].prev = source[h]
         \/ tree[h][k].prev = 0 /\ SourceRow(h, k) = Absent

VersionInv ==
    /\ TypeOK /\ RowsOK /\ NamesOK /\ LinksOK /\ \A h \in Handles : ContentOK(h)
    /\ AgeOK /\ NodesOK /\ LookupOK /\ \A h \in Handles : SearchOK(h)
    /\ Careful => PromiseOK

(* Versions that are read or built upon. *)
InUse == current \union ({source[h] : h \in Handles} \ {0})

(* All that version s was made of led to version n, too, or n has no row of any of it. *)
Kin(s, n) ==
    LET line == History(s, DOMAIN roots)
    IN  \/ line \ {s} \subseteq History(n, DOMAIN roots)
        \/ \A p \in line, m \in History(n, DOMAIN roots), k \in Keys :
               roots[m].tree[k] = roots[p].tree[k] => roots[m].tree[k] = Absent

(***************************************************************************)
(* What is lost to a version in use, or to the cache of a handle, is       *)
(* outdated in its own history, because while a vacuum goes on the         *)
(* versions in use are kin.  What is cached comes from the handle's own    *)
(* history: that it is not stored again is no other loss.                  *)
(***************************************************************************)
LossOK ==
    /\ \A n \in InUse :
         LET line == History(n, DOMAIN roots)
         IN  \A x \in NodesOf(roots[n].tree) \ nodes : Outdated(x, line)
    /\ \A h \in Handles :
         /\ LET line == History(source[h], DOMAIN roots)
            IN  \A x \in cached[h] : /\ \E p \in line : x \in NodesOf(roots[p].tree)
                                     /\ x \notin nodes => Outdated(x, line)
         /\ pc[h] \in {"vacuum", "deleting"} => \A n \in InUse \ {source[h]} : Kin(source[h], n)

VacuumInv == VersionInv /\ (Careful => LossOK)
=============================================================================
