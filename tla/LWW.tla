-------------------------------- MODULE LWW --------------------------------
(***************************************************************************)
(* Last-write-wins entries of a key-value tree and their merge:            *)
(* pkg/kv/crdt/value.go and the LWW merge function of                      *)
(* pkg/kv/internal/crdt/crdt.go.                                           *)
(*                                                                         *)
(* An entry keeps the two timestamps that decide who wins; the value it    *)
(* carries decides nothing and is left out.  PreviousRoot is left out too. *)
(* A tree is a total function from keys to entries in which a key that is  *)
(* not in the search tree maps to Absent.                                  *)
(***************************************************************************)
EXTENDS Naturals

CONSTANTS Keys,   \* the keys of the tree
          Times   \* the write times callers pass, as positive epoch nanos

ASSUME TimesAssumption == Times \subseteq Nat \ {0}

Absent  == [mod |-> 0, tomb |-> 0]
Live(t) == [mod |-> t, tomb |-> 0]    \* what Tree.Set writes at time t
Dead(t) == [mod |-> t, tomb |-> t]    \* what Tree.Tombstone writes at time t

Entry == {Absent} \union {Live(t) : t \in Times} \union {Dead(t) : t \in Times}

Tree == [Keys -> Entry]
EmptyTree == [k \in Keys |-> Absent]

Tombstoned(v) == v.tomb # 0

(***************************************************************************)
(* Whether the new value wins: once a tombstone is involved the earliest   *)
(* tombstone does, otherwise the later write does, the new one on a tie.   *)
(***************************************************************************)
NewWins(newValue, oldValue) ==
    \/ Tombstoned(newValue) /\ (Tombstoned(oldValue) => newValue.tomb < oldValue.tomb)
    \/ /\ ~Tombstoned(newValue) /\ ~Tombstoned(oldValue)
       /\ newValue.mod >= oldValue.mod

(* Variant of LastWriteWins: a tombstone is a write like any other. *)
LaterWins(newValue, oldValue) ==
    IF newValue.mod >= oldValue.mod THEN newValue ELSE oldValue

LastWriteWins(newValue, oldValue) ==
    IF NewWins(newValue, oldValue) THEN newValue ELSE oldValue

(* Variant of MergeEntry: what is merged in wins. *)
GraftWins(primary, graft) == IF graft = Absent THEN primary ELSE graft

(***************************************************************************)
(* crdt.Tree.Merge in MergeModeLWW: the difference of the two trees drives *)
(* one callback per key, "added" (only in primary), "removed" (only in     *)
(* graft) or changed.                                                      *)
(***************************************************************************)
MergeEntry(primary, graft) ==
    IF graft = Absent THEN primary
    ELSE IF primary = Absent THEN graft
    ELSE LastWriteWins(primary, graft)

MergeTrees(primary, graft) ==
    [k \in Keys |-> MergeEntry(primary[k], graft[k])]

(* Variant of UpdateWins: the update overwrites whatever there is. *)
Overwrites(cv, existing) == TRUE

(* crdt.Tree.update writes cv over existing unless existing wins. *)
UpdateWins(cv, existing) == existing = Absent \/ NewWins(cv, existing)

(***************************************************************************)
(* The order the merge climbs.  AtLeast(v, w): v supersedes w or equals it.*)
(* A tombstone supersedes every live entry and every later tombstone; a    *)
(* live entry supersedes the older live ones.                              *)
(***************************************************************************)
AtLeast(v, w) ==
    \/ Tombstoned(v) /\ (Tombstoned(w) => v.tomb <= w.tomb)
    \/ ~Tombstoned(v) /\ ~Tombstoned(w) /\ v.mod >= w.mod

Dominates(t, u) == \A k \in Keys : AtLeast(t[k], u[k])
=============================================================================
