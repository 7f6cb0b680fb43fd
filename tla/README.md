# TLA+ models of AZBDB

AZBDB keeps SQLite virtual tables in Azure Blob Storage. Any number of processes
write the same table without a lock or a coordinator: each commits immutable
versions, and whoever opens the table merges the versions it finds. These modules
model that design, TLC checks them on small instances, and TLAPS proves the central
results for every value of the constants. All source paths are relative to `src/`.

## The system

| Component | State it keeps | Operations | Talks to |
|---|---|---|---|
| Versioned store, `pkg/kv/kv.go` | per handle: tree, merged roots, source, creation time; shared: the container | Open, Get, Set, Tombstone, Commit, Cancel, Clone, RemoveTombstones, DeleteHistoricVersions, TraceHistory, Diff | tree of `crdt`, blob client |
| Entries and merge, `pkg/kv/crdt`, `pkg/kv/internal/crdt` | per key: modification time, tombstone time, value, previous root | Set, Tombstone, update, Merge, MakeRoot, Load | search tree |
| Search tree `mast` (vendored) | nodes in memory (dirty, shared) or linked by content hash | Insert, Delete, Get, flush, Clone, DiffIter, DiffLinks, Cursor | node prefix of the container, node cache |
| Blob client, `pkg/kv/azure_persist.go` | none | StoreBlob, LoadBlob, DeleteBlob, ListBlobs | Azure SDK |
| Row merge, `pkg/azb/vtable_common.go` | per row: deleted flag and time, per column value and time | MergeRows, mergeValues | called by Insert, Update, Delete and by every merge |
| Virtual table, `pkg/azb`, `pkg/sqlite/vtable.go` | current tree, tree at the start of the transaction | Insert, Update, Delete, Begin, Sync, Commit, Rollback, cursors | store, SQLite |
| Table functions, `pkg/sqlite/azb_*.go`, `vacuum.go` | none of their own | azb_refresh, azb_version, azb_changes, azb_vacuum, azb_conn | virtual table, store |
| Connection settings, `pkg/sqlite/azb_conn.go`, `internal/writetime` | deadline, write time, defaults | update of azb_conn | context of every call |
| Keys, `pkg/azb/key.go` | none | order and layer of SQLite values | search tree |
| Encryption, encoding, `pkg/kv/crypto.go`, `encode_gob.go` | none | Encrypt, Decrypt | blob client |
| SQL parsing, `internal/sql/...` | none | parse schemas and expressions | virtual table |
| Metrics, `internal/azbmetrics` | counters | Record, exposition | blob client wrapper |
| Driver, command line tool, entry points, examples | none | open, flags | the above |

**How they interact.** A version is a *root* blob under `root/current/` that links to
immutable, content-addressed *nodes* under `node/`. `Open` lists `root/current/`, loads
the roots one by one in random order, merges the trees and, unless read-only, commits
the merge. `Commit` stores the new nodes (up to 40 at a time), then the root, then for
every root it had merged a copy under `root/merged/`, and only then deletes that root
from `root/current/`. The only communication between processes is through these blobs.

**What is hard.** Every blob call of one handle interleaves with those of all the
others; a root listed may be gone when it is loaded; two handles merge and move the same
roots at the same time; a process can die between any two calls; a call can fail after
it took effect; stores of one flush fail partially; the merge must be insensitive to the
order and to merging the same history twice; vacuum deletes what it believes nobody
needs; SQLite drives tables through a two-phase commit with one write time per
transaction. `PROJECT.json` lists these as hazards at the lines where they bite.

**What makes it correct.**

* Store: a promised write is never lost; a published version is always complete; history
  is kept; an Open sees what was committed before it; a merge loses nothing.
* Merge: result independent of order, never behind any input, the first tombstone wins.
* Row merge: last write wins per column, deletes win over what they deleted.
* Virtual table: a transaction is committed or rolled back as a whole, and reads what it wrote.
* Search tree: every key is where a lookup goes; equal tables have equal nodes.
* Scans: exactly the rows of the query, in order, each once; what was committed can be read.
* Vacuum: deletes no node of a version that is still needed and revives no deleted row.
* History: a version that was published can be looked up while it is being moved.
* Connection: one write time per transaction, a context that lives as long as it should,
  and nothing of a transaction left when the next begins.
* Keys: one order for the tree and for SQLite, over values of several types.

## Modules

| Module | Content |
|---|---|
| `LWW` | entries, `LastWriteWins`, merge of two trees, the order the merge climbs |
| `KVStore` | handles and the container: Open, Set, Tombstone, Commit, failures; safety, liveness, inductive invariant |
| `DurableMap` | what the store promises: one map that only climbs, and never falls behind a promised write |
| `KVStoreProofs` | the merge supersedes both its arguments, for any trees; type correctness of `KVStore` |
| `KVSafetyProofs` | the inductive invariant of `KVStore`, the safety properties that follow, and the refinement of `DurableMap` |
| `MCKVStore` | small instances of `KVStore` for TLC |
| `RowMerge` | rows, `MergeRows`, `mergeValues`, as pure functions |
| `SharedRow` | one row written in transactions on several connections, committed, rolled back and merged; safety, inductive invariant |
| `SharedRowProofs` | the inductive invariant of `SharedRow` and the safety properties that follow |
| `MCSharedRow` | small instances of `SharedRow` for TLC |
| `SearchTree` | the search tree, as pure operators on nodes: Get, Insert, Delete, storing and loading |
| `KeyOrder` | SQLite values as keys: `Key.Order`, and the order SQLite has |
| `KeyOrderProofs` | the order of keys is a strict order, and SQLite's; the bounds of a scan lose no row |
| `TreeCursor` | the moves of a cursor on a search tree: Min, Max, Ceil, Forward, Backward |
| `ScanBounds` | the bounds of a scan: `Filter` folds constraints, `Next` tests keys |
| `TreeDiff` | the differences of two search trees, entries and links: `diffOne` and its callers |
| `Table` | the rows of a table in its search tree: INSERT, DELETE, vacuum, Commit with a reload |
| `TableProofs` | the operations keep the shape of the tree, and lookups are right |
| `TableScan` | `SELECT`s on a table whose rows come and go, and its versions compared |
| `MCTableScan` | small instances of `TableScan` for TLC |
| `Vacuum` | the versions of a table, azb_vacuum, azb_version, azb_changes, TraceHistory |
| `VacuumProofs` | the inductive invariants of `Vacuum` and the properties that follow |
| `MCVacuum` | small instances of `Vacuum` for TLC |
| `Connection` | one SQLite connection: transactions over several tables, azb_conn, azb_refresh, azb_vacuum |
| `ConnectionProofs` | types, durability and cleanliness of `Connection` |
| `ConnectionTxProofs` | on top of it: reads, rollbacks, atomicity, times and the context of `Connection` |
| `MCConnection` | small instances of `Connection` for TLC |

`SearchTree` and `ScanBounds` extend `KeyOrder`; `Table`, `TreeCursor` and `TreeDiff` extend `SearchTree`;
`TableScan` composes them, and its steps leave the table alone or are those of `Table` (`Change`). `KVStore`, `SharedRow`, `Vacuum` and `Connection` look at the same program from four
sides, each atomic where another is detailed: the steps of Open and Commit, the merge of a
row, the life of versions, and the calls of SQLite.

### LWW

An entry is the pair of timestamps that decides a merge (`mod`, `tomb`); the value it
carries decides nothing in `MergeModeLWW` and is left out, as is `PreviousRoot`. `Live`
and `Dead` are what `Tree.Set` and `Tree.Tombstone` write. `MergeEntry` follows the merge
callback `LWW` of `crdt.go` (added, removed, changed), `UpdateWins` the method `update`.
`AtLeast` is the order of the merge: the earliest tombstone is on top, live entries are
below all tombstones, ordered by time.

### KVStore

| Code | Model |
|---|---|
| `root/current/`, `root/merged/`, `node/` | `current`, `merged` (names), `roots` (what a name stands for), `nodes` |
| `DB.crdt.Mast`, dirty nodes | `tree`, `dirty` (keys whose leaf is not stored) |
| `crdt.Created`, `Source`, `MergeSources` with `mergedRoots`, `unmergeableRoots` | `created`, `source`, `sources`, `unmerged` |
| where a call of Open or Commit is | `pc`, `todo`, `opening`, `toMove`, `moving` |
| what the callers were told | `pending`, `committed`, `expected` |
| `Open`: list | `ListRoots` |
| `mergeRoots`, one iteration | `SkipRoot`, `LoadFirstRoot`, `MergeRoot`, `MergeFails` |
| `mergeRoots`, end; `Open` going on to Commit | `FinishMerge` |
| `DB.Set`, `DB.Tombstone` | `Update` with a live or dead entry |
| `Commit`: early return, node stores, root store | `CommitNothing`, `StoreNodes`/`StoreNodesFails`, `StoreRoot`/`StoreRootFails` |
| `moveMergedRoots`, one root | `CopyMerged` then `DeleteMerged`; `MoveFails` for the silent return |
| `Cancel`, `Rollback`, a dying process | `Close`, `Crash` |
| a caller that retries Commit | `Retry`, only if `RetryFailed` |

The tree is represented by one leaf per present key and a top node linking to them. That
keeps what the store relies on: equal content is the same node, a change rewrites the
path to it and nothing else, the difference of two trees reads only where they differ.
Roots are named by content: storing a root equal to an earlier one is storing the same
blob. A failed call may have taken effect or not. The first error of `moveMergedRoots`
ends it without being reported, as in the code.

### DurableMap

`KVStore` implements it with the join of the readable current roots as the map and
`committed` as the promised writes (`ImplementsDurableMap`): deleting a merged root is a
stutter, and publishing one can only climb.

### RowMerge

A row is an entry of the custom merge mode: its modification time, whether and when it
was last inserted, updated or deleted (`deleted`, `since`), and a time and value per
column. The code stores these times as offsets to the modification time and rebases them
with `adj`; the model keeps the absolute times, and a column that is absent from the map
is a cell written at time 0. `MergeRows` keeps the code's comparisons one by one, with
their different treatment of ties: the second row wins for the delete flag
(`LaterStatus`), the first cell wins for a column (`LaterCell`). `Merge` is what a merge
of trees does with a key of one or both trees.

### SharedRow

| Code | Model |
|---|---|
| entry of the row in `table.Tree.Root` | `row` |
| `writeTime` of the connection, fixed by Begin | `tx` |
| `txStart`, the clone | `txStart` |
| the versions of the store, as far as this row goes | `stored` |
| what statements reported, per open and per stored transaction | `inTx`, `log` |
| `Begin`, `Sync` followed by `Commit`, `Rollback` | `Begin`, `Sync`, `Rollback` |
| `Sync` that reports an error, then `Rollback` | `SyncFails`: the version may have been stored |
| `Insert`, `Update`, `Delete` with `MergeRows` and `Tree.update` | the actions of the same names; `Written`, `Set` |
| opening: fresh handle, merge of what is listed, commit of the merge | `Reopen`, `MergeStored`, `StoreMerged` |

An SQL `UPDATE` writes every column. `VirtualTable.Update` would leave out values for
which `NoChange()` holds, but SQLite reports that only if `Cursor.Column` left the result
unset, and `Cursor.Column` always sets it. A transaction of one connection is a step per
statement; Sync is one step here, because `KVStore` is about what happens inside it.

All statements of a transaction have one time and the earlier cell wins a tie
(`pkg/azb/vtable_common.go:759`), so an `UPDATE` of a row inserted or updated in the same
transaction is lost without an error. `UpdateTakesEffect` says exactly when an `UPDATE` takes
effect, and that otherwise it changes nothing.

### KeyOrder

A key is a SQLite value: a type and a position, which stands for a number, or for a text
or blob among those of its type. `Order` is `Key.Order`, with `orderType`, `typeIndex` and
the flip of `order`; integers meet reals as float64, and `Float` is that conversion. NULL is
no key but may be an operand, and `typeIndex` panics on it. `Precedes` is the order
SQLite has, on which the answers of queries are defined, so that scans are compared with
what SQLite expects and not with the code's own comparison.

### SearchTree

`go.mod` requires mast by version; the modules follow the copy of it in
`internal/third_party/mast`. A node is a value: a sequence of keys and one more link than
keys, each a node, `Nil`, or `Blank`. `Blank` is the empty string that `unmarshalProto`
puts where the stored node had a nil link; loading it asks the store for a blob without
a name. The key's `layer` is its number of trailing zeros in base `entries_per_node`, for
integers, and of a hash for other values (`Key.Layer`): here any function of the key. Values, sharing
and dirtiness of nodes are left out; so are the checks of invariants that only return
errors on trees that no sequence of operations builds.

`TreesOf[h]` is the set of trees of at most `h` nodes one below the other, and `Tree` those up to the
bound `MaxHeight`. What is recursion in the code is a function on `Tree`, or one of the levels still to go,
defined by itself; no operator of the module is `RECURSIVE`, so that it can be proved about.

| Code | Model |
|---|---|
| `findNode`, `Get` | `Slot`, `Descend`, `Get` |
| `Insert`, `split`, `grow` | `InsertKey`, `Split`, `Grown`; `InsertFails` where a `Blank` is on the way |
| `deleteEntry`, `mergeNodes`, `shrink` | `DeleteKey`, `MergeLinks`, `Shrunk` |
| `savePathForRoot`: an empty node becomes a nil link | `LinkTo` |
| `marshalProto` and `unmarshalProto` | `Loaded` |

`Canonical` is the reference: the node of a given height for a given set of keys, defined
from keys and layers alone.

### Table

| Code | Model |
|---|---|
| the rows of the table; entries of deleted rows | `live`; `entries` |
| `Insert`, `Delete` of `VirtualTable`, `VacuumTable` | `Insert`, `Delete`, `Vacuum` |
| Commit and open, `azb_refresh` | `Reload` |

`entries` is what the tree should hold, and is not read by any operation on the tree. A statement that fails
leaves the tree as it was; it is a guard here. `Vacuum` reads the whole
tree before it removes anything, so a tree with a `Blank` makes it fail. Two assumptions
narrow the keys: no two are equal in the order (`KeysDiffer`), and float64 holds the integers
among them (`FloatsExact`). Outside of them the code has behaviours that no property here
speaks of: an integer and a real of equal value may have different layers, so inserting the
second panics ("dunno why we didn't land in the right layer"), and a bound that is a real
takes several large integers for equal to it, so rows that SQLite wants are passed over.

### TreeCursor, ScanBounds and TableScan

| Code | Model |
|---|---|
| `mast.Cursor.path` | a sequence of nodes and indices |
| `Cursor.Min`, `Max`, `Ceil`, `Forward`, `Backward` | `MoveMin`, `MoveMax`, `MoveCeil`, `MoveForward`, `MoveBackward` |
| `azb.Cursor` | `cursor`, with `status` for eof, a row, an error or a panic |
| `mapOp`, `BestIndex` of both layers | `Ops`, `Used`, `BestIndex`; `Prepared` |
| `Filter` | `Filter` with `Bind`, `Clashes` and `FirstPosition` |
| `Next` | `NextRow`; Filter also calls it once (`Advance`, with `PastEnd` and `Excluded`) |
| `Close`, or a further `Filter` of the same cursor | `EndScan`; `gtMin` and `ltMax` are not reset |

`BestIndex` takes the usable constraints on the key and the direction of `ORDER BY`, and
does not set `Omit`, so SQLite checks all constraints again on each row (`Take`). It numbers
the arguments like the constraints (`ArgvIndex: i + 1`, `pkg/sqlite/vtable.go:150`); SQLite
rejects numbers with gaps, so a query whose ignored constraint comes before one on the
key cannot be prepared, which is the guard `Prepared`. Operands may be of other types than
the keys, and NULL: such an operand is compared when there is a second bound on the same
side or a row to compare with, and the comparison panics. An `ORDER BY` of two terms is
refused by `BestIndex` ("order specified multiple times"); the model has one direction.

A cursor works on the nodes of a clone, so `TableScan` lets rows change between scans only.

Behaviours of scans that the model has and the properties allow for:

* `marshalProto` writes a nil link as an empty string, and `unmarshalProto`
  (`pkg/azb/vtable_common.go:874`) does not turn it back into nil, as mast's own reader
  does (`mast/store.go:137`). A node with a missing child beside others fails when a scan,
  lookup or insert goes there after it was stored.
* `Max` puts a cursor on an empty root at index -1 and `Get` checks the upper end only, so
  `ORDER BY key DESC` on an empty table panics (`mast/pub.go:774`).
* Filter starts a descending scan at `Ceil(max)`, which is the end of the tree if the bound
  is above all keys (`pkg/azb/vtable_common.go:535`): rows are missing.
* `Backward` (`mast/pub.go:847`) tests link 0 and loads the link at the index, so it fails on
  a nil link that it need not follow, or passes a child over.
* A vacuum of all rows leaves nil in place of the empty root, and a scan from a lower bound
  then indexes an empty path (`mast/pub.go`, `search1`).

So an ascending scan is held to be exact and to fail only for a reason
(`ForwardScanExact`, `ForwardScanSucceeds`), a descending one only not to repeat, reorder or
invent rows (`BackwardScanOrdered`).

### TreeDiff

| Code | Model |
|---|---|
| `diffState`: two stacks of links to consider and entries to yield | a record with `old`, `new`, and what was reported |
| `pushNode`, `pushLink`, `pop` | `Items`, `Opened`, `Pop` |
| `diffOne`: two links, a link and an entry, two entries, one stack empty | `DiffOne` with `DiffLinkPair`, `OpenOld`, `OpenNew`, `DiffEntryPair` |
| a load that fails: what was popped is lost | `Fail` |
| `DiffIter`, `DiffLinks`: to the first error | `Diff` |
| `NextEntry` under `ChangesCursor.Next`, which ignores errors | `Changes` |

Links are compared by name and nodes are named by content, so two nodes are equal if their keys,
links and values are; values are left out of the trees, and `changed` is the set of keys whose
values differ. `alreadyNotified` only keeps a link from being reported again, and what is
reported is a set here. The links of the new tree are reported as added; nobody uses them.

`TableScan` compares each of its trees, as Commit would store it, to every version that inserts
alone make (`Version`), with every choice of changed rows. Entries are exact and in order
unless the walk fails, which takes a link that cannot be loaded (`DiffExact`): the walk opens
the empty link of `unmarshalProto` where it meets something else in the other tree. An error
ends a merge and the comparison of a vacuum. `azb_changes` goes on after it; what both stacks
had on top is lost, so rows that did not change are shown, and rows that did are not, if the
trees have different keys. What remains true is `ChangesShown`.

`DiffLinks` reports every node that is gone, and nodes that are not: a link is reported whenever
it is opened, and it is opened whenever the other stack has no equal link on top at that moment.
An `INSERT` of one row whose layer puts it in the root, to the left of the keys there, is enough. The old
root (first key `t`) is compared to the new root (first key `k < t`), only the new one is opened,
and its left child, the same node as the old root's left child, comes up while the old root is
still closed. That child is reported as removed. `LinksReported` therefore promises only for
versions with the same keys and height that no other node is reported; without that premise TLC
finds the insert above. `DeleteHistoricVersions` deletes what is reported, which is why `Vacuum` lets a comparison report
any nodes of the older version.

### Vacuum

| Code | Model |
|---|---|
| `root/current/`, `root/merged/`, `node/` | `current`, `merged`, `roots`, `nodes` |
| handle of a table: tree, `Created`, `Source` | `tree`, `created`, `source`, `dirty` |
| node cache (`node_cache_entries`) | `cached`, if `CacheNodes` |
| Open with the merge and its commit | `Open`, with `Found`, `Mergeable`, `Joined`, `Publish` |
| Insert, Update, Delete; `PreviousRoot` | `Write`; `Previous` |
| Commit; nodes already in the cache are not stored | `Commit`, `Save`, `NewNodes` |
| `VacuumTable`: clone, `RemoveTombstones`, Commit | `StartVacuum`, `Old`, `Kept` |
| `loadRootGraph`, one look under `root/merged/` or `root/current/` at a time | `search`; `FindMerged`, `FindCurrent`, `FoundVersion` |
| the rest of `getHistoricRootsAndNodes`, with `getDependents` | `PlanDeletions`, `Children`, `Deletable`, `MayReport`, `DroppedLinks`, `Comparable` |
| `DeleteHistoricVersions`: nodes, then roots, then an empty version | `DeleteNode`, `DeleteRoot`, `FinishVacuum`; `VacuumFails`, `Crash` |
| `azb_version` | `NoteVersion` with `Roots` |
| `azb_changes`: open two versions by name | `StartChanges`, `LookInMerged`, `LookInCurrent`; what it shows of them: `ChangesShown` in `TreeDiff` |
| `TraceHistory` | `Trace`, with `Back`, `Earlier`, `Reads`, `Readable` |

Open and Commit are one step here, because `KVStore` has theirs; a moving that fails part way
is kept, since a vacuum depends on where the roots are. The times of opens and writes are
ticks of one clock. `Careful` stands for whoever runs azb_vacuum: with it, a vacuum starts
only on a handle that is alone, with everything merged and committed; others may open and
write as soon as it has started. `vacuums` is the sequence of cutoffs that were given.

A tree has a leaf per row and a top node over them. A tree without rows has no top node, since
mast keeps a nil link for it; only a merge of several versions that are all without rows stores a node with
nothing in it, and the model leaves that node out. The shape of the trees above the leaves is not
modelled; what it does to a vacuum is. `MayReport` is the set of nodes that a comparison of a parent
with a child may report as removed: with `Flat` the nodes that the child does not have, as in trees of
one shape, without it any nodes of the parent that can be read, those that are in the child
included. Which of them it was shows when they are deleted: `doomed.nodes` may be deleted, and only those in
`doomed.sure`, which there are with `Flat` alone, must be before the roots are. So the passing runs and
the proofs cover whatever trees do when they grow, split and shrink, and what `Vacuum_loss` shows
does not depend on it. A handle caches all that it has read or stored, by its merges, its
commits, and the comparisons of a vacuum.

`loadRootGraph` starts from the version of the handle and looks for each version in two calls. One
that another handle moves in between is in neither place, and is passed over with all that only it
leads to. `History` is what a version was made of, as the least set of versions that is closed
under parents; `Unfound` are the versions that a search ran into and did not find.

`OnlyOldVersionsGo` says what the cutoff means: a version goes if it is as old as the cutoff and so
is every version made from it that led to the vacuuming handle's (`ChildrenPast`). A branch that this
handle does not know, of a writer that has forked, may be newer; and so may a version that led to the handle's
only by way of one that was passed over while it was moved (`BehindMoved`). That takes two handles, a
move that failed at first, and a move between the two calls: TLC reaches it in 21 steps with one key and
seven ticks, which is outside the bounds of `Vacuum_versions` and inside the theorem.

What nodes a vacuum may take is the other half. `Outdated` is a node of a version that was followed by
one as old as a cutoff (`Replaced`). Nothing else is ever deleted (`OnlyOutdatedGone`), and of a
current version, if vacuums start alone, only nodes that are outdated in its own history
(`LossOnlyOfOutdated`). That a current version keeps all its nodes is not true
(`Vacuum_loss`). That a node goes only if some version really dropped it is true with `Flat`
and not without.

`Trace` tells the times of the values that `TraceHistory` calls back with, and 0 for the error that ends
it: when a version it goes back to, or a node on the way to the key, is not there
(`pkg/kv/kv.go:873`, `894`). `TraceComplete` says that a trace without an error is complete.

What the model has that the properties allow for:

* The comment at `pkg/kv/kv.go:791` asks that no merges affect the entries whose tombstones go.
  Without `Careful`, `TableAsCommitted` fails: a root that is still
  current, because a move failed, or a handle that is still open brings a deleted row back.
* After a failed move, a vacuum leaves a superseded root under `root/current/` whose leaf is
  gone; a handle that opens meanwhile merges it, or builds on it.
* A node of an outdated version is lost to others that have it still, have it again, or have it in a
  fork, and the flush skips nodes in the cache although their blobs were deleted.
* A crash between the deletions of roots orphans older roots: the graph is loaded from the
  newest down, and ends where a root is missing.
* A lookup of a version may miss it while it is moved; trying again finds it
  (`MissedAtMostOnce`).
* `azb_changes` goes on silently after a node that it cannot load, deleted or `Blank`, so nothing is
  promised here of what it shows; `ChangesShown` says what remains.
* A row that was changed and not committed has the handle's own version as the one before, and
  `TraceHistory` drops a version of that name (`pkg/kv/kv.go:923`): of such a row it tells
  the last value only, although the comment at `pkg/kv/kv.go:860` says "each historic value".
  `TraceComplete` speaks of committed rows; no run is spent on it.
* A version that is opened by its name has itself as its only merge source, so the part of
  `TraceHistory` that follows merge sources finds nothing new; values that only another parent
  of a merge had are not told (`TraceComplete` speaks of histories without forks).
* The creation time of a root is the time its handle was opened, not that of the commit;
  `OnlyOldVersionsGo` is about that time.

### Connection

| Code | Model |
|---|---|
| `AZBConn`: `writeTime`, `txFixedWriteTime`, `deadline`, `ctx`, `ctxCancel`, `tables` | variables of these names |
| `azb.VirtualTable`: `Tree.Root`, `txStart` | `tree`, `txStart` |
| `VirtualTable.Begin`: fix the time, take a clone | `StartStatement` with `FixTime`, `BeginTable` |
| `Insert`, `Update`, `Delete`; `updateTime` | `WriteRow`; `UpdateTime` |
| `Sync` of one table; `Commit`, `Rollback` of all | `SyncTable`; `CommitTables`, `RollbackTables` with `ReleaseTime`, `Restored` |
| `ConnModule.Update` | `UpdateConn`, also failing half way |
| `ResetContext` | `ResetContext`, `Context` |
| `azb_refresh`, `azb_vacuum` | `Refresh`, `Vacuum` |
| `CREATE VIRTUAL TABLE`, `DROP TABLE` | `Connect`, `Disconnect` |
| what SQLite does around these calls | `BeginTransaction`, `EndStatement`, `FailStatement`, `EndTransaction` |

The rows of a table are the set of writes to it, and a write is known by its transaction and
number. What was promised is kept beside: which transactions were committed or rolled back,
what they wrote (`accepted`), and the times they gave to rows (`stamps`). Four sets record
where a promise ends: `vacuumed`, `dropped`, `retimed`, `refused`.

What the model has that the properties allow for:

* `Sync` of a read-only table returns early (`pkg/sqlite/vtable.go:355`), so its `txStart`
  stays and the next Begin fails with "transaction already in progress", after it may have
  fixed a write time that no transaction releases: it goes to the next one (`refused`).
* A commit over several tables is partial when a later table fails; `AllOrNothing` is per table.
* `azb_refresh` in a transaction drops its writes although COMMIT succeeds.
* `azb_vacuum` in a transaction commits what was written so far, and Rollback then puts the
  older handle back.
* There are no savepoints: what a failed statement wrote stays in an explicit transaction.
* An update of `azb_conn` writes every column: it makes a write time that Begin fixed
  permanent and cuts it to whole seconds. One that fails half way leaves settings and context in
  disagreement (`unsettled`).
* `DROP TABLE` cancels the context of all tables and does not reset it.

## Runs

| Run | Question | Result |
|---|---|---|
| `KV_safety` | two writers, two keys set and deleted at two times, two creation times, a crash or failed call | `IInv` (with `TypeOK`), `DurableCommits`, `PublishedReadable`, `HistoryKept`, `CompleteOpen`, `DeletedIsSuperseded`, `ImplementsDurableMap` hold |
| `KV_live` | a reader that keeps refreshing | `VisibleOnceWritersRest` holds |
| `KV_retry` | callers retry failed Commits | `HistoryKept`, `DeletedIsSuperseded` hold |
| `KV_open_race` | does an Open see everything committed before it? | violated: `OpenSeesCommits` |
| `KV_retry_lost` | is a retried Commit durable? | violated: `DurableCommits` |
| `Row_safety` | two connections write one row of two columns at three times, two statements a transaction, commits fail, versions are merged in any order | `MergeOrderIrrelevant`, `NoMixedRows`, `OnlyStoredTransactions`, `NothingNewerMissing`, `RowInv` (with `TypeOK`), `UpdateTakesEffect` hold |
| `Row_documented` | do merges of a row do what the README of the program says? | violated: `MergesAsDocumented` |
| `Scan_safety` | trees of three levels with five keys of four types that split, merge, grow, shrink, are stored and loaded; scans with up to two constraints in both directions, operands of other types and NULL; each tree compared to every version made by inserts | `TypeOK`, `ShapeCanonical`, `LookupsAgree`, `ForwardScanExact`, `ForwardScanSucceeds`, `BackwardScanOrdered`, `DiffExact`, `LinksReported`, `ChangesShown` hold |
| `Vacuum_safety` | two handles with node caches write two keys and vacuum twice, alone; others open and write meanwhile; comparisons report any nodes; a crash, failed move or failed deletion | `VacuumInv` (with `TypeOK`), `LossOnlyOfOutdated`, `TableAsCommitted` hold |
| `Vacuum_versions` | two handles vacuum at any time, beside each other's commits and moves; comparisons report any nodes; versions are looked up and traced | `MissedAtMostOnce`, `TraceComplete`, `OnlyOutdatedGone`, `OnlyOldVersionsGo` hold |
| `Vacuum_loss` | does a vacuum by a single careful handle leave the current version whole? | violated: `CurrentReadable` |
| `Conn_safety` | transactions over two tables and a read-only one, failing statements and commits, a call of azb_conn, azb_refresh, azb_vacuum or DROP TABLE anywhere, a dying process | `TypeOK`, `CommittedIsStored`, `ReadsItsCommits`, `AllOrNothing`, `RolledBackIsGone`, `OneTimePerTransaction`, `IdleIsClean`, `ContextLives` hold |

**Bounds.** `MaxRoots`, `MaxWrites` and `MaxFaults` bound versions ever stored, calls of
Set and Tombstone, and crashes and failed calls; they appear only in guards. `RootsLeft`
admits an Open or Commit only while a name is left for its root, so no bound stops a
call half way. Three roots are enough for two writers to fork a version and a third root
to merge both; two keys for a merge that takes each key from another side; two times for
an older write to lose and two tombstones to compete. The interesting cases do happen:
each property is violated by a small change of a definition (the `Variant` operators
that stand before the definitions they vary).

Two writes are needed in `KV_live` so that a root the reader listed gets merged and moved.
`MaxRoots` and `MaxWrites` make all its writers come to rest in the end, finished or dead anywhere
in a commit, so the premise of `VisibleOnceWritersRest` is met in every behaviour; of
writers that go on for ever it says nothing, and they may keep a reader from a write for ever.

In `SharedRow` the write times are the bound: a transaction takes one, no two take the
same (`time.Now()` has nanoseconds; a time set in `azb_conn` is for retries and not
modelled), and `MaxInTx` bounds the statements of a transaction. Three times are an
insert and two writes that compete, or three versions for the merge to be associative
on. In `Row_safety` one value per column is enough, since the time of a cell tells who
wrote it. `CommitsFail` is off in the run that shows a violation, so that nothing but
the merge is to blame for it.

In `TableScan` the keys are the bound. With `BranchFactor` 2 a tree grows at two entries and
again at four, provided a key of a higher layer is there: five keys reach three levels. The
five are the numbers 1, 2 (a real) and 3, a text and a blob. `MaxHeight` is 3
and never reached. `MCTwoLayers` gives them the
layers that consecutive integers have, and high keys side by side at one end. Single constraints name keys, values beyond both ends and between the types, and an
integer key as a real. Pairs of constraints are on one key, ranges, contradictions, two
bounds of one kind, or a bound and NULL; of these only ranges are scanned in descending order
too, since the direction matters to single bounds.

In `Vacuum`, `MaxTime` bounds opens and writes together, `MaxVacuums`, `MaxQueries` and `MaxFaults`
the calls they are named for, and `Cutoffs` has a time within a history and one after it (in
`Vacuum_safety` one, just before the last tick; in `Vacuum_versions` also
the first tick, which only the oldest version is past). Node caches are on where the current versions are
looked at, since it is commits that skip cached nodes;
the properties of `Vacuum_versions` look at roots and at nodes that are stored. Five
ticks are two opens and three writes: a row is written, deleted and written again around a
vacuum, or by the other handle; four, in `Vacuum_versions`, are a fork, its merge and a vacuum beside them,
or three versions of a row. `Vacuum_loss` needs six for a row to return with the same
content; it has `Flat`, so that nothing but this is to blame. The second vacuum of `Vacuum_safety`
works on what a first, interrupted one left.

In `Connection`, `MaxTx` is 2 so that one transaction can suffer from the one before, `MaxRows` 2
so that a transaction can be torn, `MaxTime` leaves one tick for two rows to get different
times in, and `MaxCalls` and `MaxFaults` admit one call of azb_conn, azb_refresh, azb_vacuum
or DROP TABLE and one failure, at any point.

**Symmetry** is used for writers, keys, connections, handles and writable tables in the safety runs only; the actions do not
tell them apart, and `CHOOSE` is applied to singletons and to names, never to handles
or keys (in `Vacuum`, to rows, which differ in their times, and to names).

**Deadlock** checking is off: once the bounds are used up and every handle is closed or
open, or all write times are taken and nothing is left to merge, the system may stop. In
`TableScan` a panic ends the process, and in `Connection` and `Vacuum` the bounds do.

**Fairness.** `FairSpec` assumes only that a reader goes on: it opens, loads what it
listed, finishes, and closes to open again, as `azb_refresh` does. No fairness is assumed of
writers, which may stop or die between any two calls. But the property is about behaviours
in which they rest from some time on (`WritersRest`: the current roots change no more). A writer that
commits for ever can move each root between the reader's list and its load (`pkg/kv/kv.go:337`), and a
fair reader then misses it every time. No fairness is needed between the roots
that a reader loads: each step takes one off its list.

## Proofs

All for any handles, keys, times and bounds. `TypeCorrect` needs no assumption beyond the
named ones. The others assume `~RetryFailed`, that is, callers drop a handle whose Commit
failed; `pkg/azb` does (Rollback goes back to the clone it took in Begin), and
`KV_retry_lost` shows that the assumption is needed.

`DurableCommits` is not inductive: that a root may be deleted depends on what the deleting
handle stored before. `IInv` adds

* `Superseded`: for every root ever stored there is a current root, no older, that
  supersedes it on every key. "No older" makes it survive a deletion: the root that goes
  is older than the one its handle stored, so the root that supersedes *that* one is
  another root;
* `MovingOK`: the roots a handle has yet to move are older than and superseded by the root it stored;
* `MemoryOK`, `CleanOK`: the tree in memory supersedes everything it was merged from, and what
  is not dirty is stored, so that skipping the store of a clean node is right;
* `PhaseOK`, `ExpectedOK`, `NamesOK`, `VersionsOK`: what each phase of Open and Commit relies on.

The proof has one lemma per action. A step of one handle can disturb the invariant of
another only through the container, which only grows as far as those invariants look at
it (`StoreGrows`, `OtherHandles`), so each lemma is about the handle that moves and the
roots. From `IInv` follow `CommitsAreDurable`, `VersionsAreReadable`, `VersionsAreKept`,
`CompleteOpensMissNothing` and, with `StoreGrows`, the action property
`DeletionsAreSuperseded`.

For `SharedRow` all properties of `Row_safety` are proved for any connections,
columns, values and times, with no assumption beyond the named ones. None is inductive,
because the merge of arbitrary rows is neither associative nor free of mixtures. `RowInv`
says that only *whole* rows are held outside of transactions: every cell of a live row
has the time of the row, a deleted row has none, and the time identifies the row. Between
such rows the merge is the maximum by time (`MergeIsLater`), and a statement makes a whole
row of a whole row (`WrittenIsWhole`), because `Tree.update` drops it when the row is newer
and `UPDATE` writes all columns. `UpdateStep` is where the proof depends on the latter: with partial updates
`RowInv` fails, and the merges would have to be shown associative for rows with cells of
several times. `UpdateTakesEffect` is an
action property: `UpdateEffect` derives it for one step from `RowInv`, because writing over an
older whole row gives what was written (`WrittenOverOlder`) and writing twice in a transaction
what was written first (`WrittenOverSame`). A consequence is that the per-column part of `MergeRows` never decides
anything for rows written through SQL in this way.

For `Connection`, `ConnTypeOK`, `ConnCommittedIsStored` and `ConnIdleIsClean` are proved for any
tables, times and bounds. That a committed transaction is stored is not inductive: what a
transaction wrote is, until its Sync, in a dirty tree only. The invariant adds

* `StartInv`: clones are clean, a dirty table has a clone, is in the transaction and waits for
  its Sync (which is why Rollback restores it and Sync cannot pass it over);
* `JoinedInv`, `TxInv`: the tables in a transaction have a clone, and the transaction under way
  is the last and not committed, so a later one cannot add writes to it;
* `KeptInv`: what the transaction under way wrote is stored, or in a dirty tree, unless a
  refresh dropped it;
* `FixedInv`: only a Begin that failed leaves a fixed write time without a table to release it.

`ConnectionTxProofs` proves the other five invariants of `Conn_safety`, each from an invariant
of its own on top of this one:

* `SeenInv` (`ConnRolledBackIsGone`): clones hold only what is stored, and a tree nothing more
  unless it is dirty with writes of the transaction under way;
* `ReadsInv` (`ConnReadsItsCommits`): trees have what was committed and what is being written,
  clones what was committed, or else a rollback would take a commit away;
* `TornInv` (`ConnAllOrNothing`): before its Sync nothing of a transaction is stored, and a
  commit stores nothing but what the transaction under way wrote (`StoresOfNow`, from `SeenInv`);
* `TimeInv` (`ConnOneTimePerTransaction`): the rows written so far have the time that is set,
  and from the first table on one is set, so that no later Begin changes it;
* `LiveInv` (`ConnContextLives`): a context without a deadline is alive.

For `KeyOrder`: the comparison is antisymmetric (`OrderAntisymmetric`), strictly ordered without
cycles as long as the conversion to float64 is monotone (`BeforeIsTransitive`; "equal" is not
transitive, which is why the keys of a table must differ), and SQLite's own where the
conversion is exact (`BeforeIsPrecedes`). Positions of reals are integers there, as in the
model: only their order matters.

For `ScanBounds`: `NoMatchIsLost`, for any number of constraints, in any order and of any types. Its
invariant says that a key which satisfies all constraints so far is `Within` the bounds and flags so
far; one more constraint keeps that (`BindKeeps`), whichever of the four it replaces. The fold of
`Filter` is a sequence of cursors, one after each constraint, and the first cursor out of line stands in
for induction (`BoundsKeepMatches`). A key within the bounds is neither before the start of the
scan nor excluded, and no key the scan reaches before it is past the end (`PastEndIsFinal`, by
`BeforeIsTransitive`). Operands and keys are exact as float64 (`Exact`), as the keys in
`TableScan` are: an integer that float64 rounds to an excluded bound would be skipped. `ForwardScanExact`
checks the same on whole scans, together with the moves on the tree.

For `Table`, type correctness, `ShapeCanonical` and `LookupsAgree` are proved for any
keys that differ in the order and that float64 holds exactly (`KeysDiffer`, `FloatsExact`), and any
layers, branch factor and bound on the height. None of them is inductive: that a lookup is right
depends on where inserts put the key, and that an insert is right on the shape of the whole tree. `TableInv`
says what that shape is, one level at a time. `NodeOf(n, K, layer, h, B)`: the node `n` of height
`h` has the keys of `K` of layer `h` and above, in order, and each link is to a `NodeOf` height
`h - 1` with the keys of `K` between its two neighbours, or is one of `B` if there are none. `B` is
`{Nil, Blank}` for trees that may have been loaded and `{Nil}` for one that a vacuum has read to the end
(`ReadableFits`), which matters to `MergeLinks` and to an empty tree. For each operation `TableProofs`
shows first that the function which defines it exists (the lemmas `...Is`: a function up to a height, made
one longer each time), and then what it does to a node with given keys (the lemmas `...Fits`):

* `Split` of a node of `K` gives nodes of the keys before and after the new key; `PutBelow` one of
  `K` and the key, if no `Blank` is in the way; `MergeLinks` and `CutBelow` are the reverse;
* `Grow` and `Shrink` turn a node of height `h` into one of height `h + 1` or `h - 1` with the same keys.
  `Shrink` reads the links of the root, so a deletion at a height above 0 must leave a key. It does, as
  such a tree has a size of at least 2 (a part of `Counted`), and keeps that because a tree of one key shrinks to height 0;
* `Loaded` puts `Blank` for `Nil` and changes nothing else;
* a lookup at the depth of a key's layer finds it exactly if it is there (`GetIs`), and what it cannot read
  an insert could not either, so `InsertKey` never takes a key for absent that is there;
* a node of `K` is, but for `Blank`, `Canonical(K, layer, h)` (`CanonicalFits`), so two tables with equal
  entries and heights have equal nodes.

Induction is over heights, by a set of good numbers that is closed under successors (`UpTo`), and over
the keys that a vacuum deletes. `TableInv` speaks of the infinite set `Tree`, so
TLC cannot evaluate it; `Scan_safety` checks the three properties that follow from it.

For `Vacuum`, two invariants are proved for any handles, keys, cutoffs and bounds. `VersionInv`
holds whatever handles do:

* `RowsOK`: the time of a row tells which row it is, wherever it is held, and none is
  later than the promised one, so merges choose between known rows only;
* `ContentOK`: a handle has the rows of its version but for those it wrote, which are nowhere else;
* `NamesOK`: parents are older than their children, so histories have an order, and a root that
  is not found any more was deleted;
* `LinksOK`: the link of a row leads to the version that the row was written over, or to none if
  that version did not have the row - except of rows that came from another branch, of which only
  is known that their links lead to older versions. Commits, merges and vacuums copy rows with their links;
* `SearchOK`: a search finds versions of its handle's history only, and each that it ran into is
  found, still to do, moved to `root/merged/`, or deleted. So what it did not reach at the end lies
  behind one of the last two;
* `AgeOK`: what is marked for deletion is past a cutoff together with what was made of it, as far as it
  is not behind a version that was being moved. What is behind a deleted one was made before it, hence is past
  a cutoff too, which is how `VacuumsDeleteOldVersions` covers it;
* `NodesOK`: nodes that are gone are outdated, and those about to go are outdated before the handle's
  own version. No commit makes that untrue, because what is replaced stays so (`ReplacedStays`), and a
  commit stores all nodes of its rows that were never stored (`NodesAreStored`);
* `LookupOK`: what a reader missed has been moved or deleted;
* `PromiseOK`, if vacuums are `Careful`: for each key a current version has the promised row, or
  that row was a deletion and no current version and no handle has anything as old any more. The second half
  is what an old deletion turns into when a vacuum forgets it, and needs that the vacuum is alone.

From it follow `CommittedRowsStay`, `VacuumsDeleteOldVersions`, `OnlyOutdatedNodesGo`, `MissedOnlyOnce`
and `TracesAreComplete`. The last is about a recursive function, `Back`: it exists
(`BackExists`) because links lead to older versions, and what it says of a version without forks
before it (`LineTold`) follows from what it says of the parent (`RowTold`), unless it ends with an error,
which stays to the end (`ErrorStays`); by least counterexample,
which stands in for induction (`LeastNumber`). `LossOK`, again for `Careful` vacuums, says what happens to the
nodes of versions in use, current ones and those of handles. What a
vacuum deletes is outdated in the history of its handle's version (`NodesOK`). For another version in use that
is a reason only if it was made of the same versions. So, while a vacuum goes on, every version in use is
*kin* to the handle's (`Kin`): all that the handle's version was made of led to it too, or it has no
row of any of that, and then no node either (`SharedNode`). The first is how it starts, a single version being in use;
`PublishedLoss` shows that whatever is merged and committed meanwhile is kin again, and
`DoomedIsOutdated` that nothing more is needed. Commits skip
nodes in the cache, so what is cached must be of the handle's own history, and outdated there if it is
not stored any more (`CacheSafe`): then leaving it out (`SaveLoss`) loses
nothing but outdated nodes. `VacuumsStayInOrder` is the whole invariant, `CurrentLosesOnlyOutdated` the
property. The assumption `Careful` is needed: TLC finds a lost node without it, when two handles forget
the same old deletion beside each other, which gives equal trees, and one of them vacuums again.

Histories are defined as least closed sets, not by recursion: `HistoryLeast` and `HistoryClosed`
are all that is used of them.

`StoreImplementsDurableMap` shows that the store implements `DurableMap`, step by step, under
`~RetryFailed`. The abstract map is a join over the readable current roots. That such a join has an
entry for each key which supersedes all others is shown by a smallest counterexample among the finite
sets of entries (`SmallestSubset`, `GreatestEntry`). Publishing adds a root to the join, which
can only climb; deleting a merged root is a stutter, because `Superseded` names a current
root that is above it; and promised writes stay below by `DurableCommits`.

Only model-checked, and why:

* `VisibleOnceWritersRest`: liveness under fairness is beyond the prover.
* The properties of scans and of differences (`TypeOK` of `TableScan`, `ForwardScanExact`, `ForwardScanSucceeds`,
  `BackwardScanOrdered`, `DiffExact`, `LinksReported`, `ChangesShown`): cursors and comparisons walk trees with
  stacks, and `TreeCursor`, `TreeDiff` and `TableScan` declare these walks `RECURSIVE`, which is out of the
  prover's reach. What could be taken out of them, the bounds of a scan, is proved, and so is the shape
  of the trees that they walk.

## Disagreements between code and documentation

* `KV_open_race`: `Commit`'s comment (`pkg/kv/kv.go:460`) promises that committed entries
  are accessible on subsequent Opens. `mergeRoots` skips a listed root that is gone when
  it gets to it, and its successor was not listed; `unmergeableRoots` is recorded and
  never consulted. An Open after the writers have come to rest sees it (`KV_live`).
* `KV_retry_lost`: nodes are marked clean when their store is queued
  (`mast/store.go:262`), so after a failed flush `IsDirty` is false and a retried Commit
  returns success without storing anything.
* `Row_documented`: README.md:145 says "last-write-wins per column". An `UPDATE` writes all
  columns, so of two concurrent updates of different columns only the later survives; this
  is what the run shows (`LastWriteWinsPerColumn`). The same line says that deletes hide
  later updates until another insert. An update counts like an insert in `MergeRows`, so
  one that is later than a delete it has not seen brings the row back: the other part of
  the property, `DeletesHideUpdates`, is violated as well when it is checked alone.
* `Vacuum_loss`: `DeleteHistoricVersions` is documented to delete "any nodes from those
  versions that are no longer necessary for reading later versions" (`pkg/kv/kv.go:816`).
  `getHistoricRootsAndNodes` takes every node that a parent has and one child has not, and
  does not look further: a node that comes back with the same content in a later version is
  deleted although that version links to it. Where trees change their shape, nodes that never
  went away are lost as well (`TreeDiff`).

`crdt.MergeError` is an interface with the methods of `error`, so the assertion at
`pkg/kv/kv.go:385` holds for every error, and the branch that skips a root that cannot be
merged is dead: one such root blocks every Open. `MergeFails` of `KVStore` and `Mergeable` of
`Vacuum` have it; no run is spent on it.

## Not modelled

* `KVStore`: branch factors and node formats, encryption and encodings, `OnConflictMerged`, and
  `Diff` with a callback, which reads only. The node cache, `PreviousRoot`, `RemoveTombstones`,
  `DeleteHistoricVersions`, `OnlyVersions` and `TraceHistory` are in `Vacuum`.
* `SharedRow`: a write time set in `azb_conn` that transactions share (the merge of rows of one
  time depends on the order), updates of some columns through the Go API, and row ids.
* `TableScan`: values other than keys, and constraints on other columns, which SQLite checks.
* `SearchTree`: nodes shared between clones and the node cache. `follow` creates a missing child in
  the parent before the parent is copied (`mast/lib.go:250`), so others may see it.
* `Vacuum`: the shape of its trees, a leaf per row. Which nodes `DiffLinks` reports beyond those that
  are gone depends on it, and is any set of the older version's nodes here; when it reports what is in
  `TreeDiff`. What `azb_changes` shows after its lookups is there, too.
* `TreeDiff`: a merge inserts into the clone that it is comparing; the walk holds the nodes of before.
* `Connection`: open cursors, whose context an update of `azb_conn` or a reset cancels, and the
  columns of `azb_conn` that are defaults for tables opened later.
* Metrics: counters behind a channel of 4096 events; a blob call waits while it is full, and
  nothing else depends on them.
* Encryption, encodings, SQL and schema parsing, driver glue, the command line tool, examples:
  sequential conversions or pure I/O. Generated code.

## Plan

1. `LWW`, `KVStore`, `DurableMap` and their proofs: done.
2. `RowMerge`, `SharedRow` and its proofs: done. Left: write times shared by several
   transactions, and rows with partial updates.
3. `KeyOrder`, `SearchTree`, `TreeCursor`, `TreeDiff`, `ScanBounds`, `Table`, `TableScan`: done; `KeyOrder`, `ScanBounds`, `SearchTree` and
   `Table` proved. Left: the moves of a cursor and the walk of a difference, as functions on their paths.
4. `Vacuum`: done, all properties of its runs proved. Left: the nodes of real trees in place of leaves and
   tops, so that what a vacuum loses by the links that `DiffLinks` reports beyond those that are gone could be said exactly.
5. `Connection`: done, all invariants of its run proved.
6. Nodes on a heap, shared by clones and the node cache.
7. Proof that the store implements `DurableMap`: done. Left: `Vacuum` and `KVStore` share no proofs; that the
   single step of `Open` or `Commit` in `Vacuum` is what `KVStore` does in many is argued, not proved.
