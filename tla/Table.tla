-------------------------------- MODULE Table --------------------------------
(***************************************************************************)
(* The rows of a table in its search tree: INSERT and DELETE of            *)
(* pkg/azb/vtable_common.go, what the vacuum does to the tree, and the     *)
(* tree after Commit and a reload, on one connection.                      *)
(***************************************************************************)
EXTENDS SearchTree

CONSTANTS Key,      \* the primary keys
          Layers    \* the functions that may give keys their layers

ASSUME Keys == Key \subseteq SQLiteValue /\ Layers \subseteq [Key -> Nat]

(* An integer and a real that are equal would be one key with two layers, and *)
(* integers that float64 rounds would equal several reals.                    *)
ASSUME KeysDiffer  == \A j, k \in Key : Same(j, k) => j = k
ASSUME FloatsExact == \A k \in Key : Exact(k)

VARIABLES tree,      \* the tree of the table
          entries,   \* the keys it should hold, deleted rows included
          live       \* the keys of rows that are not deleted

tableVars == <<tree, entries, live>>

EmptyTree(layer) == [layer |-> layer, root |-> EmptyNode, height |-> 0, size |-> 0]

TableInit ==
    /\ \E layer \in Layers : tree = EmptyTree(layer)
    /\ entries = {} /\ live = {}

(* INSERT, also of a row that was deleted; it fails where a Blank link is in the way. *)
Insert(k) ==
    /\ k \notin live
    /\ ~InsertFails(tree, k)
    /\ tree' = InsertKey(tree, k)
    /\ entries' = entries \union {k}
    /\ live' = live \union {k}

(* DELETE: the entry of the row stays. *)
Delete(k) ==
    /\ k \in live
    /\ Get(tree, k) = "found"
    /\ live' = live \ {k}
    /\ UNCHANGED <<tree, entries>>

(* azb_vacuum, with a time before which the rows of `dead` were deleted. *)
Vacuum(dead) ==
    /\ Readable(tree.root)
    /\ tree' = DeleteAll(tree, Ascending(dead))
    /\ entries' = entries \ dead
    /\ UNCHANGED live

Committed(t) == [t EXCEPT !.root = Loaded(RootNode(t))]

(* Commit, and azb_refresh: the nodes are loaded again. *)
Reload ==
    /\ tree' = Committed(tree)
    /\ UNCHANGED <<entries, live>>

TableNext ==
    \/ \E k \in Key : Insert(k) \/ Delete(k)
    \/ \E dead \in (SUBSET (entries \ live)) \ {{}} : Vacuum(dead)
    \/ Reload

TableSpec == TableInit /\ [][TableNext]_tableVars

-----------------------------------------------------------------------------
(* TableTypeOK: the variables have their types. *)
TableTypeOK ==
    /\ tree \in [layer : Layers, root : Tree \ {Blank}, height : 0..MaxHeight, size : Nat]
    /\ live \subseteq entries /\ entries \subseteq Key

(* ShapeCanonical: whatever the order of inserts and deletes, splits, merges, *)
(* growing and shrinking, the nodes of a tree are determined by its keys and  *)
(* its height; tables with equal rows share their nodes in the store.         *)
ShapeCanonical ==
    /\ tree.size = Cardinality(entries)
    /\ IF entries = {} THEN tree.root \in {Nil, EmptyNode}
       ELSE Cleared(tree.root) = Canonical(entries, tree.layer, tree.height)

(* LookupsAgree: Get, which goes straight to the layer of a key, finds a key *)
(* exactly if it is there, or reports that it could not read a node.         *)
LookupsAgree ==
    \A k \in Key : Get(tree, k) \in {"unreadable", IF k \in entries THEN "found" ELSE "absent"}
=============================================================================
