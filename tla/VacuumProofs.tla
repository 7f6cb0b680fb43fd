---------------------------- MODULE VacuumProofs ----------------------------
(***************************************************************************)
(* Proofs about Vacuum, for any handles, keys and cutoffs, any bounds, and *)
(* with or without a node cache: VersionInv is an inductive invariant.     *)
(*                                                                         *)
(* Its parts are proved one after the other, because each needs the ones   *)
(* before it: types, rows and names, the content of handles and the links  *)
(* between rows, then lookups, what a search of the history finds and how  *)
(* old it is, which nodes are gone, and last what was promised, which only *)
(* holds of careful vacuums.  What nodes careful vacuums leave is told     *)
(* after that, by VacuumInv, which has VersionInv as a part.               *)
(***************************************************************************)
EXTENDS Vacuum, FiniteSetTheorems, NaturalsInduction, WellFoundedInduction,
        SequenceTheorems, TLAPS

-----------------------------------------------------------------------------
(* Facts about rows and versions *)

(* The bounds are numbers. *)
LEMMA BoundsAre ==
    /\ MaxTime \in Nat /\ MaxVacuums \in Nat /\ MaxQueries \in Nat /\ MaxFaults \in Nat
    /\ Cutoffs \subseteq Nat
  BY BoundsAssumption

(* No row. *)
LEMMA AbsentIsRow == Absent \in Row /\ Absent.mod = 0 /\ Absent.deleted
  BY DEF Absent, Row

(* A set of numbers has a least one. *)
LEMMA LeastNumber ==
    ASSUME NEW ns, ns \subseteq Nat, ns # {}
    PROVE  \E n \in ns : \A m \in ns : n <= m
  <1> DEFINE R == OpToRel(<, Nat)
  <1>1. PICK n \in ns : \A m \in ns : ~(<<m, n>> \in R)
    <2>1. IsWellFoundedOn(R, Nat)
      BY NatLessThanWellFounded
    <2> HIDE DEF R
    <2>2. QED
      BY <2>1, WFMin
  <1>2. \A m \in ns : ~(m < n)
    BY <1>1 DEF OpToRel
  <1>3. QED
    BY <1>2

(* Of rows that are not from the future one is the latest. *)
LEMMA LatestOfRows ==
    ASSUME NEW rs, rs \subseteq Row, rs # {}, NEW b \in Nat, \A r \in rs : r.mod <= b
    PROVE  Latest(rs) \in rs /\ \A s \in rs : s.mod <= Latest(rs).mod
  <1> DEFINE Bounds == {n \in Nat : \A r \in rs : r.mod <= n}
  <1>1. b \in Bounds /\ Bounds \subseteq Nat
    OBVIOUS
  <1>2. PICK n \in Bounds : \A m \in Bounds : n <= m
    <2> HIDE DEF Bounds
    <2>1. QED
      BY <1>1, LeastNumber
  <1>3. \A r \in rs : r.mod \in Nat
    BY DEF Row
  <1>4. \E r \in rs : r.mod = n
    <2> SUFFICES ASSUME \A r \in rs : r.mod # n
                 PROVE  FALSE
      OBVIOUS
    <2>1. PICK r \in rs : TRUE
      OBVIOUS
    <2>2. r.mod < n
      BY <1>2, <1>3
    <2>3. n - 1 \in Bounds /\ n - 1 < n
      BY <1>2, <1>3, <2>2
    <2>4. QED
      BY <1>2, <1>3, <2>2, <2>3
  <1>5. \E r \in rs : \A s \in rs : s.mod <= r.mod
    BY <1>2, <1>4
  <1>6. QED
    BY <1>5 DEF Latest

(* A stored version is a root record, and its name a position. *)
LEMMA RootType ==
    ASSUME TypeOK, NEW n \in DOMAIN roots
    PROVE  /\ roots[n] \in RootRecord
           /\ roots[n].tree \in [Keys -> Row]
           /\ \A k \in Keys : roots[n].tree[k] \in Row
           /\ roots[n].parents \subseteq Name
           /\ roots[n].created \in Nat
           /\ n \in Nat /\ n # 0 /\ n <= Len(roots)
  <1>1. roots \in Seq(RootRecord)
    BY DEF TypeOK
  <1>2. n \in 1..Len(roots)
    BY <1>1
  <1>3. roots[n] \in RootRecord
    BY <1>1, <1>2
  <1>4. QED
    BY <1>2, <1>3 DEF RootRecord

(* A bound of what was stored for a key: nothing is newer than now. *)
LEMMA JoinedFacts ==
    ASSUME TypeOK, RowsOK, NEW ns, ns \subseteq DOMAIN roots, NEW k \in Keys
    PROVE  /\ Joined(ns) \in [Keys -> Row]
           /\ Joined(ns)[k] \in {Absent} \union {roots[n].tree[k] : n \in ns}
           /\ \A n \in ns : roots[n].tree[k].mod <= Joined(ns)[k].mod
  <1> DEFINE rows(j) == {Absent} \union {roots[n].tree[j] : n \in ns}
  <1>1. ASSUME NEW j \in Keys
        PROVE  /\ Latest(rows(j)) \in rows(j)
               /\ \A s \in rows(j) : s.mod <= Latest(rows(j)).mod
               /\ rows(j) \subseteq Row
    <2>1. rows(j) \subseteq Row
      BY AbsentIsRow, RootType
    <2>2. \A r \in rows(j) : r.mod <= now
      BY DEF RowsOK, RowsOf
    <2>3. now \in Nat /\ rows(j) # {}
      BY BoundsAre DEF TypeOK
    <2> HIDE DEF rows
    <2>4. QED
      BY <2>1, <2>2, <2>3, LatestOfRows
  <1>2. Joined(ns) = [j \in Keys |-> Latest(rows(j))]
    BY DEF Joined
  <1>3. Joined(ns)[k] = Latest(rows(k))
    BY <1>2
  <1>4. Joined(ns) \in [Keys -> Row]
    <2> HIDE DEF rows
    <2>1. QED
      BY <1>1, <1>2
  <1>5. QED
    BY <1>1, <1>3, <1>4

(* A row is what its time says; nothing stored is later than what was promised. *)
LEMMA JoinedRow ==
    ASSUME TypeOK, RowsOK, NEW ns, ns \subseteq DOMAIN roots, NEW k \in Keys
    PROVE  Joined(ns)[k] \in RowsOf(k) /\ Joined(ns)[k].mod <= truth[k].mod
  <1>1. Joined(ns)[k] \in {Absent} \union {roots[n].tree[k] : n \in ns}
    BY JoinedFacts
  <1>2. truth[k].mod \in Nat
    BY DEF TypeOK, Row
  <1>3. QED
    BY <1>1, <1>2, AbsentIsRow DEF RowsOK, RowsOf

(* The nodes of a tree are told apart: a top node from leaves, a leaf by its key and row. *)
LEMMA NodesDiffer ==
    /\ \A t, k, r : Leaf(k, r) \notin Top(t)
    /\ \A k, r, j, s : Leaf(k, r) = Leaf(j, s) => k = j /\ r = s
  <1>1. \A t, k, r : Leaf(k, r) \notin Top(t)
    <2> TAKE t, k, r
    <2>1. DOMAIN [links |-> t] = {"links"} /\ DOMAIN Leaf(k, r) = {"key", "row"}
      BY DEF Leaf
    <2>2. Top(t) \subseteq {[links |-> t]}
      BY DEF Top
    <2>3. QED
      BY <2>1, <2>2
  <1>2. \A k, r, j, s : Leaf(k, r) = Leaf(j, s) => k = j /\ r = s
    <2> TAKE k, r, j, s
    <2>1. Leaf(k, r).key = k /\ Leaf(k, r).row = r /\ Leaf(j, s).key = j /\ Leaf(j, s).row = s
      BY DEF Leaf
    <2>2. QED
      BY <2>1
  <1>3. QED
    BY <1>1, <1>2

-----------------------------------------------------------------------------
(* Storing versions *)

(* Publish adds one version, the handle's new source, and moves some of its parents. *)
Published(h, t, parents, when) ==
    LET new == Len(roots) + 1 IN
    /\ roots' \in Seq(RootRecord)
    /\ new \in DOMAIN roots' /\ new \notin DOMAIN roots
    /\ DOMAIN roots' = DOMAIN roots \union {new}
    /\ \A n \in DOMAIN roots : roots'[n] = roots[n] /\ n < new
    /\ roots'[new] = [tree |-> t, parents |-> parents, created |-> when]
    /\ current' \subseteq current \union {new} /\ new \in current'
    /\ \A n \in current : n \notin parents => n \in current'
    /\ merged \subseteq merged' /\ merged' \subseteq merged \union parents
    /\ \A n \in current : n \in current' \/ n \in merged'
    /\ source' \in [Handles -> DOMAIN roots' \union {0}]
    /\ source'[h] = new /\ \A g \in Handles \ {h} : source'[g] = source[g]
    /\ faults' \in 0..MaxFaults

(* That is what Publish does. *)
LEMMA PublishFacts ==
    ASSUME TypeOK, NEW h \in Handles, NEW t \in [Keys -> Row],
           NEW parents, parents \subseteq DOMAIN roots, NEW when \in Nat,
           Publish(h, t, parents, when)
    PROVE  Published(h, t, parents, when)
  <1> DEFINE new == Len(roots) + 1
             r == [tree |-> t, parents |-> parents, created |-> when]
  <1>1. roots \in Seq(RootRecord) /\ r \in RootRecord
    <2>1. parents \in SUBSET Name
      BY RootType DEF Name
    <2>2. QED
      BY <2>1 DEF TypeOK, RootRecord
  <1>2. roots' = Append(roots, r)
    BY DEF Publish
  <1>3. /\ roots' \in Seq(RootRecord)
        /\ DOMAIN roots' = DOMAIN roots \union {new}
        /\ new \in DOMAIN roots' /\ new \notin DOMAIN roots
        /\ roots'[new] = r
        /\ \A n \in DOMAIN roots : roots'[n] = roots[n] /\ n < new
    <2> HIDE DEF r
    <2>1. QED
      BY <1>1, <1>2
  <1>4. PICK moved \in SUBSET parents :
          /\ current' = (current \ moved) \union {new}
          /\ merged' = merged \union moved
    BY DEF Publish
  <1>5. current \subseteq DOMAIN roots
    BY DEF TypeOK
  <1>6. source' = [source EXCEPT ![h] = new] /\ source \in [Handles -> DOMAIN roots \union {0}]
    BY DEF Publish, TypeOK
  <1>7. faults' \in 0..MaxFaults
    <2>1. faults \in 0..MaxFaults /\ MaxFaults \in Nat
      BY BoundsAre DEF TypeOK
    <2>2. faults' = faults \/ (faults < MaxFaults /\ faults' = faults + 1)
      BY DEF Publish, Fault
    <2>3. QED
      BY <2>1, <2>2
  <1>8. source' \in [Handles -> DOMAIN roots' \union {0}]
        /\ source'[h] = new /\ \A g \in Handles \ {h} : source'[g] = source[g]
    BY <1>3, <1>6
  <1>9. /\ current' \subseteq current \union {new} /\ new \in current'
        /\ \A n \in current : n \notin parents => n \in current'
        /\ merged \subseteq merged' /\ merged' \subseteq merged \union parents
        /\ \A n \in current : n \in current' \/ n \in merged'
    BY <1>4
  <1>10. QED
    BY <1>3, <1>7, <1>8, <1>9 DEF Published

(* What is true of the store after every step but the forgetting of names. *)
StoreGrows ==
    /\ DOMAIN roots \subseteq DOMAIN roots'
    /\ \A n \in DOMAIN roots : roots'[n] = roots[n]

(* All nodes of the versions stored before are nodes of those stored now. *)
LEMMA AllNodesGrow ==
    ASSUME StoreGrows
    PROVE  AllNodes \subseteq AllNodes'
  <1> SUFFICES ASSUME NEW n \in DOMAIN roots, NEW x \in NodesOf(roots[n].tree)
               PROVE  x \in AllNodes'
    BY DEF AllNodes
  <1>1. n \in DOMAIN roots' /\ roots'[n] = roots[n]
    BY DEF StoreGrows
  <1>2. x \in NodesOf(roots'[n].tree)
    BY <1>1
  <1>3. QED
    BY <1>1, <1>2 DEF AllNodes, NodesOf

(* Save and Open with a merge store the nodes of the new version only. *)
LEMMA NewNodesKnown ==
    ASSUME NEW t \in [Keys -> Row], NEW ks \in SUBSET Keys,
           NEW n \in DOMAIN roots', roots'[n].tree = t
    PROVE  NewNodes(t, ks) \subseteq AllNodes'
  <1>1. NewNodes(t, ks) \subseteq NodesOf(t)
    BY DEF NewNodes, NodesOf
  <1>2. NodesOf(t) \subseteq AllNodes'
    BY DEF AllNodes, NodesOf
  <1>3. QED
    BY <1>1, <1>2

(* A commit publishes the handle's rows as a child of the version it consists of. *)
LEMMA SaveFacts ==
    ASSUME TypeOK, NEW h \in Handles, NEW t \in [Keys -> Row], NEW ks \in SUBSET Keys,
           Save(h, t, ks)
    PROVE  Published(h, t, {source[h]} \ {0}, created[h])
  <1>1. {source[h]} \ {0} \subseteq DOMAIN roots /\ created[h] \in Nat
    BY BoundsAre DEF TypeOK
  <1>2. Publish(h, t, {source[h]} \ {0}, created[h])
    BY DEF Save
  <1>3. QED
    BY <1>1, <1>2, PublishFacts

(* A commit keeps the types of what it changes. *)
LEMMA SaveType ==
    ASSUME TypeOK, NEW h \in Handles, NEW t \in [Keys -> Row], NEW ks \in SUBSET Keys,
           Save(h, t, ks)
    PROVE  /\ current' \union merged' \union reclaimed \subseteq DOMAIN roots'
           /\ nodes' \subseteq AllNodes'
           /\ tree' \in [Handles -> [Keys -> Row]]
           /\ dirty' \in [Handles -> SUBSET Keys]
           /\ cached' \in [Handles -> SUBSET AllNodes']
           /\ truth' \in [Keys -> Row]
           /\ AllNodes \subseteq AllNodes'
  <1> DEFINE new == Len(roots) + 1
  <1>1. /\ DOMAIN roots' = DOMAIN roots \union {new}
        /\ \A n \in DOMAIN roots : roots'[n] = roots[n]
        /\ roots'[new].tree = t
        /\ current' \subseteq current \union {new}
        /\ merged' \subseteq merged \union ({source[h]} \ {0})
    <2>1. Published(h, t, {source[h]} \ {0}, created[h])
      BY SaveFacts
    <2>2. QED
      BY <2>1 DEF Published
  <1>2. AllNodes \subseteq AllNodes'
    BY <1>1, AllNodesGrow DEF StoreGrows
  <1>3. NewNodes(t, ks) \subseteq AllNodes'
    <2> HIDE DEF new
    <2>1. new \in DOMAIN roots'
      BY <1>1
    <2>2. QED
      BY <1>1, <2>1, NewNodesKnown
  <1>4. current' \union merged' \union reclaimed \subseteq DOMAIN roots'
    BY <1>1 DEF TypeOK
  <1>5. nodes' \subseteq AllNodes'
    BY <1>2, <1>3 DEF Save, TypeOK
  <1>6. cached' \in [Handles -> SUBSET AllNodes']
    BY <1>2, <1>3 DEF Save, TypeOK, Remembered
  <1>7. tree' \in [Handles -> [Keys -> Row]] /\ dirty' \in [Handles -> SUBSET Keys]
    BY DEF Save, TypeOK
  <1>8. truth' \in [Keys -> Row]
    <2>1. ASSUME NEW k \in Keys
          PROVE  Latest({truth[k], tree[h][k]}) \in Row
      <3>1. truth[k] \in Row /\ tree[h][k] \in Row
        BY DEF TypeOK
      <3>2. PICK b \in Nat : truth[k].mod <= b /\ tree[h][k].mod <= b
        <4>1. truth[k].mod \in Nat /\ tree[h][k].mod \in Nat
          BY <3>1 DEF Row
        <4>2. truth[k].mod + tree[h][k].mod \in Nat
              /\ truth[k].mod <= truth[k].mod + tree[h][k].mod
              /\ tree[h][k].mod <= truth[k].mod + tree[h][k].mod
          BY <4>1
        <4>3. QED
          BY <4>2
      <3>3. QED
        BY <3>1, <3>2, LatestOfRows
    <2>2. truth \in [Keys -> Row]
      BY DEF TypeOK
    <2>3. QED
      BY <2>1, <2>2 DEF Save
  <1>9. QED
    BY <1>2, <1>4, <1>5, <1>6, <1>7, <1>8

(* What RemoveTombstones leaves is a tree. *)
LEMMA KeptFacts ==
    ASSUME TypeOK, NEW h \in Handles, NEW cutoff
    PROVE  /\ Kept(h, cutoff) \in [Keys -> Row]
           /\ \A k \in Keys : \/ Kept(h, cutoff)[k] = tree[h][k]
                              \/ /\ Kept(h, cutoff)[k] = Absent
                                 /\ tree[h][k].deleted
  <1>1. \A k \in Keys : tree[h][k] \in Row
    BY DEF TypeOK
  <1>2. QED
    BY <1>1, AbsentIsRow DEF Kept, Old

(* The versions that Open merges are stored. *)
LEMMA FoundStored ==
    ASSUME TypeOK
    PROVE  Found \subseteq current /\ Found \subseteq DOMAIN roots
  BY DEF Found, TypeOK

(* Parents were stored before. *)
LEMMA ParentsStored ==
    ASSUME TypeOK, NamesOK
    PROVE  \A n \in DOMAIN roots : roots[n].parents \subseteq DOMAIN roots
  <1>1. roots \in Seq(RootRecord)
    BY DEF TypeOK
  <1>2. DOMAIN roots = 1..Len(roots) /\ Len(roots) \in Nat
    BY <1>1
  <1>3. QED
    BY <1>2, RootType DEF NamesOK, Name

-----------------------------------------------------------------------------
(* Types *)

(* While no version is stored, the nodes of all versions are the same. *)
LEMMA SameNodes ==
    ASSUME roots' = roots
    PROVE  AllNodes' = AllNodes
  BY DEF AllNodes, NodesOf, Top, Leaf

(* The work of vacuums, and a query. *)
Searches == [found : SUBSET DOMAIN roots, todo : SUBSET DOMAIN roots, at : DOMAIN roots \union {0}]
Deletions == [nodes : SUBSET AllNodes, sure : SUBSET AllNodes, roots : SUBSET DOMAIN roots]
QueryRecord == [stage : Stages, wants : Seq(DOMAIN roots), missed : 0..2]

(* They are of their types, and no work is. *)
LEMMA WorkTypes ==
    ASSUME TypeOK
    PROVE  /\ search \in [Handles -> Searches] /\ doomed \in [Handles -> Deletions]
           /\ query \in QueryRecord
           /\ NoSearch \in Searches /\ NoWork \in Deletions /\ Idle \in QueryRecord
  <1>1. search \in [Handles -> Searches]
    BY DEF TypeOK, Searches
  <1>2. doomed \in [Handles -> Deletions]
    BY DEF TypeOK, Deletions
  <1>3. query \in QueryRecord
    BY DEF TypeOK, QueryRecord
  <1>4. NoSearch \in Searches /\ NoWork \in Deletions /\ Idle \in QueryRecord
    BY DEF NoSearch, NoWork, Idle, Searches, Deletions, QueryRecord, Stages
  <1>5. QED
    BY <1>1, <1>2, <1>3, <1>4

(* One lookup of loadRootGraph. *)
Searching(h) == FindCurrent(h) \/ \E n \in search[h].todo : FindMerged(h, n)

(* It only reads. *)
LEMMA SearchingReads ==
    ASSUME NEW h, Searching(h)
    PROVE  SearchStep /\ pc[h] = "vacuum"
  BY DEF Searching, FindMerged, FindCurrent

(* They remain so while versions are stored. *)
LEMMA WorkTypesStay ==
    ASSUME TypeOK, DOMAIN roots \subseteq DOMAIN roots', AllNodes \subseteq AllNodes'
    PROVE  /\ search \in [Handles -> Searches'] /\ doomed \in [Handles -> Deletions']
           /\ query \in QueryRecord'
  <1>1. Searches \subseteq Searches'
    BY DEF Searches
  <1>2. Deletions \subseteq Deletions'
    BY DEF Deletions
  <1>3. QueryRecord \subseteq QueryRecord'
    <2>1. Seq(DOMAIN roots) \subseteq Seq(DOMAIN roots')
      OBVIOUS
    <2>2. QED
      BY <2>1 DEF QueryRecord
  <1>4. QED
    BY <1>1, <1>2, <1>3, WorkTypes

(* The rows of a key are rows. *)
LEMMA RowsAreRows ==
    ASSUME TypeOK, NEW k \in Keys
    PROVE  /\ RowsOf(k) \subseteq Row
           /\ \A r \in RowsOf(k) : r.mod \in Nat
           /\ truth[k] \in RowsOf(k) /\ Absent \in RowsOf(k)
           /\ \A n \in DOMAIN roots : roots[n].tree[k] \in RowsOf(k)
           /\ \A h \in Handles : tree[h][k] \in RowsOf(k) /\ SourceRow(h, k) \in RowsOf(k)
  <1>1. RowsOf(k) \subseteq Row
    BY AbsentIsRow, RootType DEF RowsOf, TypeOK
  <1>2. \A h \in Handles : SourceRow(h, k) \in RowsOf(k)
    BY DEF SourceRow, RowsOf, TypeOK
  <1>3. QED
    BY <1>1, <1>2 DEF RowsOf, Row

(* Two rows of a key with one time are one row, and none is later than now. *)
LEMMA RowsFacts ==
    ASSUME TypeOK, RowsOK, NEW k \in Keys
    PROVE  /\ \A r \in RowsOf(k) : r.mod <= now
           /\ \A r \in RowsOf(k), s \in RowsOf(k) : r.mod = s.mod => r = s
           /\ \A r \in RowsOf(k) : r.mod = 0 => r = Absent
           /\ \A n \in DOMAIN roots : roots[n].tree[k].mod <= truth[k].mod
           /\ \A h \in Handles : SourceRow(h, k).mod <= truth[k].mod
  <1>1. truth[k].mod \in Nat
    BY RowsAreRows
  <1>2. \A h \in Handles : SourceRow(h, k).mod <= truth[k].mod
    BY <1>1, AbsentIsRow DEF SourceRow, RowsOK, TypeOK
  <1>3. \A r \in RowsOf(k) : r.mod = 0 => r = Absent
    BY AbsentIsRow, RowsAreRows DEF RowsOK
  <1>4. QED
    BY <1>2, <1>3 DEF RowsOK

(* What was merged from at most one version is that version. *)
LEMMA JoinedOfOne ==
    ASSUME TypeOK, RowsOK, NEW ns, ns \subseteq DOMAIN roots, NEW n, ns \subseteq {n},
           NEW k \in Keys
    PROVE  Joined(ns)[k] = IF ns = {} THEN Absent ELSE roots[n].tree[k]
  <1>1. /\ Joined(ns)[k] \in {Absent} \union {roots[m].tree[k] : m \in ns}
        /\ \A m \in ns : roots[m].tree[k].mod <= Joined(ns)[k].mod
    BY JoinedFacts
  <1>2. CASE ns = {}
    BY <1>1, <1>2
  <1>3. CASE ns # {}
    <2>1. n \in ns /\ n \in DOMAIN roots
      BY <1>3
    <2>2. roots[n].tree[k] \in RowsOf(k) /\ roots[n].tree[k].mod \in Nat
      BY <2>1, RowsAreRows
    <2>3. CASE Joined(ns)[k] = Absent
      <3>1. roots[n].tree[k].mod <= 0
        BY <1>1, <2>1, <2>3, AbsentIsRow
      <3>2. roots[n].tree[k] = Absent
        BY <2>2, <3>1, RowsFacts
      <3>3. QED
        BY <1>3, <2>3, <3>2
    <2>4. CASE Joined(ns)[k] # Absent
      BY <1>1, <1>3, <2>4
    <2>5. QED
      BY <2>3, <2>4
  <1>4. QED
    BY <1>2, <1>3

(* If at most one version is found, then it is the one that is chosen. *)
LEMMA FoundOne ==
    ASSUME TypeOK, ~(Cardinality(Found) > 1)
    PROVE  Found \subseteq {CHOOSE n \in Found : TRUE}
  <1> SUFFICES ASSUME Found # {}
               PROVE  Found \subseteq {CHOOSE n \in Found : TRUE}
    OBVIOUS
  <1>1. (CHOOSE n \in Found : TRUE) \in Found
    OBVIOUS
  <1>2. IsFiniteSet(Found)
    <2>1. roots \in Seq(RootRecord) /\ Found \subseteq DOMAIN roots
      BY FoundStored DEF TypeOK
    <2>2. Len(roots) \in Int /\ Found \subseteq 1..Len(roots)
      BY <2>1
    <2>3. IsFiniteSet(1..Len(roots))
      BY <2>2, FS_Interval
    <2>4. QED
      BY <2>2, <2>3, FS_Subset
  <1>3. Cardinality(Found) = 0 \/ Cardinality(Found) = 1
    BY <1>2, FS_CardinalityType
  <1>4. CASE Cardinality(Found) = 0
    BY <1>2, <1>4, FS_EmptySet
  <1>5. CASE Cardinality(Found) = 1
    <2>1. PICK x : Found = {x}
      BY <1>2, <1>5, FS_Singleton
    <2>2. QED
      BY <1>1, <2>1
  <1>6. QED
    BY <1>3, <1>4, <1>5

(* The tree of a handle that opens one version, or none, has a top that is stored, or none. *)
LEMMA JoinedTop ==
    ASSUME TypeOK, RowsOK, ~(Cardinality(Found) > 1)
    PROVE  Top(Joined(Found)) \subseteq AllNodes
  <1>1. Found \subseteq DOMAIN roots
    BY FoundStored
  <1>2. PICK n : Found \subseteq {n}
    BY FoundOne
  <1>3. \A k \in Keys : Joined(Found)[k] = IF Found = {} THEN Absent ELSE roots[n].tree[k]
    BY <1>1, <1>2, JoinedOfOne
  <1>4. CASE Found = {}
    <2>1. Joined(Found) = EmptyTree
      BY <1>3, <1>4 DEF Joined, EmptyTree
    <2>2. QED
      BY <2>1 DEF Top
  <1>5. CASE Found # {}
    <2>1. n \in DOMAIN roots
      BY <1>1, <1>2, <1>5
    <2>2. roots[n].tree \in [Keys -> Row]
      BY <2>1, RootType
    <2>3. Joined(Found) = [k \in Keys |-> Joined(Found)[k]]
      BY DEF Joined
    <2>4. Joined(Found) = roots[n].tree
      BY <1>3, <1>5, <2>2, <2>3
    <2>5. Top(roots[n].tree) \subseteq AllNodes
      BY <2>1 DEF AllNodes, NodesOf
    <2>6. QED
      BY <2>4, <2>5
  <1>6. QED
    BY <1>4, <1>5

(* Open merges what is current, and stores a version if that was several. *)
LEMMA OpenFacts ==
    ASSUME TypeOK, RowsOK, NEW h \in Handles, Open(h)
    PROVE  /\ Joined(Found) \in [Keys -> Row]
           /\ now' = now + 1 /\ now' \in 0..MaxTime
           /\ \/ Published(h, Joined(Found), Found, now + 1)
              \/ /\ UNCHANGED <<blobs, faults>>
                 /\ source' \in [Handles -> DOMAIN roots \union {0}]
                 /\ \A g \in Handles \ {h} : source'[g] = source[g]
                 /\ source'[h] \in Found \union {0}
                 /\ source'[h] = 0 => Found = {}
                 /\ Found \subseteq {source'[h]}
  <1>1. Found \subseteq DOMAIN roots
    BY FoundStored
  <1>2. now \in Nat /\ now' = now + 1 /\ now < MaxTime /\ MaxTime \in Nat
    BY BoundsAre DEF TypeOK, Open
  <1>3. Joined(Found) \in [Keys -> Row]
    <2>1. CASE Keys = {}
      BY <2>1 DEF Joined
    <2>2. CASE Keys # {}
      BY <1>1, <2>2, JoinedFacts
    <2>3. QED
      BY <2>1, <2>2
  <1>4. CASE Cardinality(Found) > 1
    <2>1. Publish(h, Joined(Found), Found, now + 1)
      BY <1>4 DEF Open
    <2>2. now + 1 \in Nat
      BY <1>2
    <2>3. Published(h, Joined(Found), Found, now + 1)
      BY <1>1, <1>3, <2>1, <2>2, PublishFacts
    <2>4. QED
      BY <1>2, <1>3, <2>3
  <1>5. CASE ~(Cardinality(Found) > 1)
    <2>1. source' = [source EXCEPT ![h] = IF Found = {} THEN 0 ELSE CHOOSE n \in Found : TRUE]
          /\ UNCHANGED <<blobs, faults>>
      BY <1>5 DEF Open
    <2>2. source \in [Handles -> DOMAIN roots \union {0}]
      BY DEF TypeOK
    <2>3. Found # {} => (CHOOSE n \in Found : TRUE) \in Found
      OBVIOUS
    <2>4. Found \subseteq {CHOOSE n \in Found : TRUE}
      BY <1>5, FoundOne
    <2>5. 0 \notin Found
      BY <1>1, RootType
    <2>6. QED
      BY <1>1, <1>2, <1>3, <2>1, <2>2, <2>3, <2>4, <2>5
  <1>6. QED
    BY <1>4, <1>5

(* Types after an Open, *)
LEMMA OpenType ==
    ASSUME TypeOK, RowsOK, NEW h \in Handles, Open(h)
    PROVE  TypeOK'
  <1>1. /\ Joined(Found) \in [Keys -> Row]
        /\ now' = now + 1 /\ now' \in 0..MaxTime
    BY OpenFacts
  <1>2. Found \subseteq current /\ Found \subseteq DOMAIN roots
    BY FoundStored
  <1>3. /\ roots' \in Seq(RootRecord)
        /\ DOMAIN roots \subseteq DOMAIN roots'
        /\ current' \union merged' \union reclaimed \subseteq DOMAIN roots'
        /\ AllNodes \subseteq AllNodes' /\ nodes' \subseteq AllNodes'
        /\ source' \in [Handles -> DOMAIN roots' \union {0}]
        /\ faults' \in 0..MaxFaults
    <2>1. CASE Cardinality(Found) > 1
      <3>1. Publish(h, Joined(Found), Found, now + 1) /\ now + 1 \in Nat
            /\ nodes' = nodes \union Top(Joined(Found))
        BY <1>1, <2>1, BoundsAre DEF Open, TypeOK
      <3>2. Published(h, Joined(Found), Found, now + 1)
        BY <1>1, <1>2, <3>1, PublishFacts
      <3>3. AllNodes \subseteq AllNodes'
        BY <3>2, AllNodesGrow DEF Published, StoreGrows
      <3>4. Top(Joined(Found)) \subseteq AllNodes'
        <4>1. PICK n \in DOMAIN roots' : roots'[n].tree = Joined(Found)
          BY <3>2 DEF Published
        <4>2. Top(Joined(Found)) \subseteq NodesOf(Joined(Found))
          BY DEF NodesOf
        <4>3. QED
          BY <4>1, <4>2 DEF AllNodes, NodesOf
      <3>5. nodes' \subseteq AllNodes'
        BY <3>1, <3>3, <3>4 DEF TypeOK
      <3>6. current' \union merged' \union reclaimed \subseteq DOMAIN roots'
        BY <1>2, <3>2 DEF Published, TypeOK
      <3>7. QED
        BY <3>2, <3>3, <3>5, <3>6 DEF Published
    <2>2. CASE ~(Cardinality(Found) > 1)
      <3>1. source' = [source EXCEPT ![h] = IF Found = {} THEN 0 ELSE CHOOSE n \in Found : TRUE]
            /\ UNCHANGED <<blobs, faults>>
        BY <2>2 DEF Open
      <3>2. Found # {} => (CHOOSE n \in Found : TRUE) \in Found
        OBVIOUS
      <3>3. roots' = roots /\ current' = current /\ merged' = merged /\ nodes' = nodes
            /\ faults' = faults
        BY <3>1 DEF blobs
      <3>4. AllNodes' = AllNodes
        BY <3>3, SameNodes
      <3>5. source' \in [Handles -> DOMAIN roots' \union {0}]
        BY <1>2, <3>1, <3>2, <3>3 DEF TypeOK
      <3>6. QED
        BY <3>3, <3>4, <3>5 DEF TypeOK
    <2>3. QED
      BY <2>1, <2>2
  <1>4. cached' \in [Handles -> SUBSET AllNodes']
    <2>1. Loaded(Found) \union Top(Joined(Found)) \subseteq AllNodes'
      <3>1. Loaded(Found) \subseteq AllNodes'
        BY <1>3 DEF Loaded, TypeOK
      <3>2. CASE Cardinality(Found) > 1
        <4>1. Top(Joined(Found)) \subseteq nodes'
          BY <3>2 DEF Open
        <4>2. QED
          BY <1>3, <3>1, <4>1
      <3>3. CASE ~(Cardinality(Found) > 1)
        BY <1>3, <3>1, <3>3, JoinedTop
      <3>4. QED
        BY <3>2, <3>3
    <2>2. QED
      BY <1>3, <2>1 DEF TypeOK, Open, Remembered
  <1>5. /\ pc' \in [Handles -> {"closed", "open", "vacuum", "deleting"}]
        /\ tree' \in [Handles -> [Keys -> Row]]
        /\ created' \in [Handles -> 0..MaxTime]
    BY <1>1 DEF TypeOK, Open
  <1>6. UNCHANGED <<dirty, before, search, doomed, query, truth, reclaimed, vacuums, queries>>
    BY DEF Open, work, reading
  <1>7. /\ search \in [Handles -> Searches'] /\ doomed \in [Handles -> Deletions']
        /\ query \in QueryRecord'
    BY <1>3, WorkTypesStay
  <1>8. QED
    BY <1>1, <1>3, <1>4, <1>5, <1>6, <1>7 DEF TypeOK, Searches, Deletions, QueryRecord

(* ... after a commit, ... *)
LEMMA CommitType ==
    ASSUME TypeOK, NEW h \in Handles, NEW t \in [Keys -> Row], NEW ks \in SUBSET Keys,
           Save(h, t, ks), pc' \in [Handles -> {"closed", "open", "vacuum", "deleting"}],
           before' \in [Handles -> Nat], search' \in [Handles -> Searches'],
           vacuums' \in Seq(Cutoffs), Len(vacuums') <= MaxVacuums,
           UNCHANGED <<created, doomed, reading, reclaimed, now>>
    PROVE  TypeOK'
  <1>1. Published(h, t, {source[h]} \ {0}, created[h])
    BY SaveFacts
  <1>2. /\ roots' \in Seq(RootRecord)
        /\ DOMAIN roots \subseteq DOMAIN roots'
        /\ source' \in [Handles -> DOMAIN roots' \union {0}]
        /\ faults' \in 0..MaxFaults
    BY <1>1 DEF Published
  <1>3. /\ current' \union merged' \union reclaimed \subseteq DOMAIN roots'
        /\ nodes' \subseteq AllNodes'
        /\ tree' \in [Handles -> [Keys -> Row]]
        /\ dirty' \in [Handles -> SUBSET Keys]
        /\ cached' \in [Handles -> SUBSET AllNodes']
        /\ truth' \in [Keys -> Row]
        /\ AllNodes \subseteq AllNodes'
    BY SaveType
  <1>4. UNCHANGED <<query, queries>>
    BY DEF reading
  <1>5. doomed \in [Handles -> Deletions'] /\ query \in QueryRecord'
    BY <1>2, <1>3, WorkTypesStay
  <1>6. QED
    BY <1>2, <1>3, <1>4, <1>5 DEF TypeOK, Searches, Deletions, QueryRecord

(* ... after a lookup of a search, ... *)
LEMMA SearchTypes ==
    ASSUME TypeOK, NamesOK, NEW h \in Handles, Searching(h)
    PROVE  search' \in [Handles -> Searches]
  <1>1. search \in [Handles -> Searches]
    BY WorkTypes
  <1>2. ASSUME NEW n \in DOMAIN roots, FoundVersion(h, n)
        PROVE  search' \in [Handles -> Searches]
    <2>1. roots[n].parents \subseteq DOMAIN roots
      BY ParentsStored
    <2> DEFINE s == [found |-> search[h].found \union {n},
                     todo |-> (search[h].todo \union (roots[n].parents \ search[h].found)) \ {n},
                     at |-> 0]
    <2>2. s \in Searches
      BY <1>1, <2>1 DEF Searches
    <2>3. search' = [search EXCEPT ![h] = s]
      BY <1>2 DEF FoundVersion
    <2> HIDE DEF s
    <2>4. QED
      BY <1>1, <2>2, <2>3
  <1>3. ASSUME NEW n \in search[h].todo, FindMerged(h, n)
        PROVE  search' \in [Handles -> Searches]
    <2>1. n \in DOMAIN roots
      BY <1>1 DEF Searches
    <2>2. FoundVersion(h, n) \/ search' = [search EXCEPT ![h].at = n]
      BY <1>3 DEF FindMerged
    <2>3. ASSUME search' = [search EXCEPT ![h].at = n]
          PROVE  search' \in [Handles -> Searches]
      BY <1>1, <2>1, <2>3 DEF Searches
    <2>4. QED
      BY <1>2, <2>1, <2>2, <2>3
  <1>4. ASSUME FindCurrent(h)
        PROVE  search' \in [Handles -> Searches]
    <2>1. search[h].at # 0 /\ search[h].at \in DOMAIN roots
      BY <1>1, <1>4 DEF FindCurrent, Searches
    <2>2. \/ FoundVersion(h, search[h].at)
          \/ search' = [search EXCEPT ![h].todo = @ \ {search[h].at}, ![h].at = 0]
      BY <1>4 DEF FindCurrent
    <2>3. ASSUME search' = [search EXCEPT ![h].todo = @ \ {search[h].at}, ![h].at = 0]
          PROVE  search' \in [Handles -> Searches]
      BY <1>1, <2>3 DEF Searches
    <2>4. QED
      BY <1>2, <2>1, <2>2, <2>3
  <1>5. QED
    BY <1>3, <1>4 DEF Searching

(* ... after the other steps of handles, none of which stores a version, ... *)
LEMMA HandleType ==
    ASSUME TypeOK, NamesOK, NEW h \in Handles,
           \/ Close(h) \/ Crash(h) \/ Searching(h) \/ PlanDeletions(h)
           \/ \E k \in Keys, deleted \in BOOLEAN : Write(h, k, deleted)
           \/ \E x \in doomed[h].nodes : DeleteNode(h, x)
           \/ \E n \in doomed[h].roots : DeleteRoot(h, n)
           \/ FinishVacuum(h) \/ VacuumFails(h) \/ NoteVersion(h)
    PROVE  TypeOK'
  <1> DEFINE Faulted == faults' \in 0..MaxFaults
  <1>1. roots' = roots
    BY SearchingReads DEF Close, Crash, Forget, SearchStep, PlanDeletions, Write, DeleteNode,
           DeleteRoot, FinishVacuum, VacuumFails, NoteVersion, QueryStep, blobs
  <1>2. AllNodes' = AllNodes
    BY <1>1, SameNodes
  <1>3. (faults < MaxFaults /\ faults' = faults + 1) \/ faults' = faults => Faulted
    BY BoundsAre DEF TypeOK
  <1>4. ASSUME Close(h) \/ Crash(h)
        PROVE  TypeOK'
    <2>1. EmptyTree \in [Keys -> Row]
      BY AbsentIsRow DEF EmptyTree
    <2>2. /\ NoWork \in [nodes : SUBSET AllNodes, sure : SUBSET AllNodes, roots : SUBSET DOMAIN roots]
          /\ NoSearch \in [found : SUBSET DOMAIN roots, todo : SUBSET DOMAIN roots,
                           at : DOMAIN roots \union {0}]
      BY WorkTypes DEF Deletions, Searches
    <2>3. Faulted
      BY <1>3, <1>4 DEF Close, Crash, Fault
    <2>4. Forget(h)
      BY <1>4 DEF Close, Crash
    <2>5. 0 \in 0..MaxTime
      BY BoundsAre
    <2>6. QED
      BY <1>1, <1>2, <2>1, <2>2, <2>3, <2>4, <2>5 DEF TypeOK, Forget, blobs, reading
  <1>5. ASSUME NEW k \in Keys, NEW deleted \in BOOLEAN, Write(h, k, deleted)
        PROVE  TypeOK'
    <2>1. now' \in 0..MaxTime /\ now + 1 \in Nat
      BY <1>5, BoundsAre DEF TypeOK, Write
    <2>2. Previous(h, k) \in Nat
      <3>1. source[h] \in DOMAIN roots \union {0}
        BY DEF TypeOK
      <3>2. source[h] \in Nat
        BY <3>1, RootType
      <3>3. QED
        BY <3>2 DEF Previous
    <2>3. [mod |-> now + 1, deleted |-> deleted, prev |-> Previous(h, k)] \in Row
      BY <2>1, <2>2 DEF Row
    <2>4. tree' \in [Handles -> [Keys -> Row]]
      BY <1>5, <2>3 DEF Write, TypeOK
    <2>5. dirty' \in [Handles -> SUBSET Keys]
      BY <1>5 DEF Write, TypeOK
    <2>6. QED
      BY <1>1, <1>2, <1>5, <2>1, <2>4, <2>5 DEF TypeOK, Write, blobs, work, reading
  <1>6. ASSUME PlanDeletions(h)
        PROVE  TypeOK'
    <2> DEFINE graph == search[h].found
               old   == Deletable(graph, before[h])
               pairs == {pair \in (old \intersect graph) \X graph : pair[1] \in roots[pair[2]].parents}
               whole == {pair \in pairs : Comparable(h, pair[1], pair[2])}
               read  == UNION {{pair[1], pair[2]} : pair \in pairs}
    <2>1. /\ UNCHANGED <<blobs, tree, created, source, dirty, before, search, reading, truth, reclaimed,
                         now, vacuums, faults>>
          /\ pc' = [pc EXCEPT ![h] = "deleting"]
          /\ cached' = [cached EXCEPT ![h] = Remembered(h, Loaded(read))]
          /\ doomed' = [doomed EXCEPT ![h] =
                [nodes |-> UNION {MayReport(h, q[1], q[2]) : q \in pairs},
                 sure |-> UNION {DroppedLinks(q[1], q[2]) : q \in whole},
                 roots |-> old]]
      BY <1>6 DEF PlanDeletions
    <2>2. doomed' \in [Handles -> Deletions]
      <3>1. old \subseteq DOMAIN roots
        BY DEF Deletable
      <3>2. \A q \in pairs : NodesOf(roots[q[1]].tree) \subseteq AllNodes
        BY <3>1 DEF AllNodes
      <3>3. \A q \in pairs : MayReport(h, q[1], q[2]) \subseteq AllNodes
        BY <3>2 DEF MayReport, DroppedLinks
      <3>4. \A q \in pairs : DroppedLinks(q[1], q[2]) \subseteq AllNodes
        BY <3>2 DEF DroppedLinks
      <3>5. whole \subseteq pairs
        OBVIOUS
      <3> HIDE DEF pairs, whole, old
      <3>6. /\ UNION {MayReport(h, q[1], q[2]) : q \in pairs} \subseteq AllNodes
            /\ UNION {DroppedLinks(q[1], q[2]) : q \in whole} \subseteq AllNodes
        BY <3>3, <3>4, <3>5
      <3>7. QED
        BY <2>1, <3>1, <3>6, WorkTypes DEF Deletions
    <2>3. cached' \in [Handles -> SUBSET AllNodes]
      <3> HIDE DEF read
      <3>1. QED
        BY <2>1 DEF Loaded, Remembered, TypeOK
    <2>4. QED
      BY <1>1, <1>2, <2>1, <2>2, <2>3 DEF TypeOK, blobs, reading, Deletions
  <1>7. ASSUME NEW x \in doomed[h].nodes, DeleteNode(h, x)
        PROVE  TypeOK'
    <2>1. doomed' \in [Handles -> Deletions]
      <3>1. doomed \in [Handles -> Deletions] /\ doomed' = [doomed EXCEPT ![h].nodes = @ \ {x}]
        BY <1>7, WorkTypes DEF DeleteNode
      <3>2. QED
        BY <3>1 DEF Deletions
    <2>2. QED
      BY <1>1, <1>2, <1>7, <2>1 DEF TypeOK, DeleteNode, content, reading, Deletions
  <1>8. ASSUME NEW n \in doomed[h].roots, DeleteRoot(h, n)
        PROVE  TypeOK'
    <2>1. doomed' \in [Handles -> Deletions] /\ n \in DOMAIN roots
      <3>1. doomed \in [Handles -> Deletions]
            /\ doomed' = [doomed EXCEPT ![h] = [NoWork EXCEPT !.roots = doomed[h].roots \ {n}]]
        BY <1>8, WorkTypes DEF DeleteRoot
      <3>2. [NoWork EXCEPT !.roots = doomed[h].roots \ {n}] \in Deletions
        BY <3>1 DEF Deletions, NoWork
      <3>3. n \in DOMAIN roots
        BY <3>1 DEF Deletions
      <3>4. QED
        BY <3>1, <3>2, <3>3
    <2>2. QED
      BY <1>1, <1>2, <1>8, <2>1 DEF TypeOK, DeleteRoot, content, reading, Deletions
  <1>9. ASSUME FinishVacuum(h)
        PROVE  TypeOK'
    <2>1. Superfluous(h) \subseteq DOMAIN roots
      BY DEF Superfluous, TypeOK
    <2>2. search' \in [Handles -> Searches] /\ doomed' \in [Handles -> Deletions]
      BY <1>9, WorkTypes DEF FinishVacuum
    <2>3. QED
      BY <1>1, <1>2, <1>9, <2>1, <2>2 DEF TypeOK, FinishVacuum, content, reading, Searches, Deletions
  <1>10. ASSUME VacuumFails(h)
         PROVE  TypeOK'
    <2>1. search' \in [Handles -> Searches] /\ doomed' \in [Handles -> Deletions]
      BY <1>10, WorkTypes DEF VacuumFails
    <2>2. Faulted
      BY <1>3, <1>10 DEF VacuumFails, Fault
    <2>3. QED
      BY <1>1, <1>2, <1>10, <2>1, <2>2 DEF TypeOK, VacuumFails, blobs, content, reading, Searches,
         Deletions
  <1>11. ASSUME NoteVersion(h)
         PROVE  TypeOK'
    <2>1. queries' = queries
      BY <1>11 DEF NoteVersion
    <2>2. query' \in QueryRecord
      <3>1. PICK n \in Roots(h) : query' = [query EXCEPT !.wants = Append(query.wants, n)]
        BY <1>11 DEF NoteVersion
      <3>2. n \in DOMAIN roots
        BY <3>1 DEF Roots, TypeOK
      <3>3. query \in QueryRecord
        BY WorkTypes
      <3>4. Append(query.wants, n) \in Seq(DOMAIN roots)
        BY <3>2, <3>3 DEF QueryRecord
      <3>5. QED
        BY <3>1, <3>3, <3>4 DEF QueryRecord
    <2>3. QED
      BY <1>1, <1>2, <1>11, <2>1, <2>2
      DEF TypeOK, NoteVersion, QueryStep, QueryRecord, blobs, content, work
  <1>12. ASSUME Searching(h)
         PROVE  TypeOK'
    <2>1. SearchStep
      BY <1>12, SearchingReads
    <2>2. search' \in [Handles -> Searches]
      BY <1>12, SearchTypes
    <2>3. QED
      BY <1>1, <1>2, <2>1, <2>2 DEF TypeOK, SearchStep, blobs, content, reading, Searches
  <1>13. QED
    BY <1>4, <1>5, <1>6, <1>7, <1>8, <1>9, <1>10, <1>11, <1>12

(* Only the query changes when it reads; noting a version is not part of it. *)
LEMMA QueriesOnlyRead ==
    ASSUME ChangesStep \/ UNCHANGED vars
    PROVE  QueryStep
  <1>1. CASE ChangesStep
    BY <1>1, Zenon DEF ChangesStep, StartChanges, LookInMerged, LookInCurrent, RetryChanges,
                       CloseQuery
  <1>2. CASE UNCHANGED vars
    BY <1>2 DEF vars, reading, QueryStep
  <1>3. QED
    BY <1>1, <1>2

(* Opening a version leaves a query that waits for the next, that is done, or that failed. *)
LEMMA OpenedFacts ==
    ASSUME TypeOK, NEW n, query.wants # <<>>
    PROVE  LET q == Opened(n) IN
           /\ q \in QueryRecord
           /\ q.missed = 0
           /\ \/ q.stage = "merged" /\ q.wants # <<>>
              \/ q.stage \in {"found", "failed"}
  <1> DEFINE stage == IF ~(Top(roots[n].tree) \subseteq nodes) THEN "failed"
                      ELSE IF Len(query.wants) = 1 THEN "found" ELSE "merged"
  <1>1. query \in QueryRecord
    BY WorkTypes
  <1>2. query.wants \in Seq(DOMAIN roots) /\ query.wants # <<>>
    BY <1>1 DEF QueryRecord
  <1>3. Tail(query.wants) \in Seq(DOMAIN roots)
        /\ (Len(query.wants) # 1 => Tail(query.wants) # <<>>)
    <2> SUFFICES ASSUME NEW w \in Seq(DOMAIN roots), w # <<>>
                 PROVE  Tail(w) \in Seq(DOMAIN roots) /\ (Len(w) # 1 => Tail(w) # <<>>)
      BY <1>2
    <2>1. Len(w) \in Nat /\ Len(w) # 0
      BY EmptySeq
    <2>2. Tail(w) \in Seq(DOMAIN roots) /\ Len(Tail(w)) = Len(w) - 1
      BY HeadTailProperties
    <2>3. \A u \in Seq(DOMAIN roots) : Len(u) = Len(w) - 1 /\ Len(w) # 1 => u # <<>>
      BY <2>1, EmptySeq
    <2>4. QED
      BY <2>2, <2>3, Zenon
  <1>4. stage \in Stages /\ stage \in {"merged", "found", "failed"}
        /\ (stage = "merged" => Len(query.wants) # 1)
    BY DEF Stages
  <1>5. Opened(n) = [query EXCEPT !.wants = Tail(query.wants), !.missed = 0, !.stage = stage]
    BY DEF Opened
  <1> HIDE DEF stage
  <1>6. Opened(n).stage = stage /\ Opened(n).wants = Tail(query.wants) /\ Opened(n).missed = 0
    BY <1>1, <1>5 DEF QueryRecord
  <1>7. Opened(n) \in QueryRecord
    <2>1. ASSUME NEW s \in Stages, NEW w \in Seq(DOMAIN roots)
          PROVE  [query EXCEPT !.wants = w, !.missed = 0, !.stage = s] \in QueryRecord
      <3>1. 0 \in 0..2
        OBVIOUS
      <3>2. QED
        BY <1>1, <3>1 DEF QueryRecord
    <2>2. QED
      BY <1>3, <1>4, <1>5, <2>1, Zenon
  <1>8. QED
    BY <1>3, <1>4, <1>6, <1>7

(* ... and after the steps of a query. *)
LEMMA ChangesType ==
    ASSUME TypeOK, LookupOK, ChangesStep
    PROVE  TypeOK'
  <1>1. query \in QueryRecord /\ Idle \in QueryRecord
    BY WorkTypes
  <1>2. QueryStep
    BY QueriesOnlyRead
  <1>3. roots' = roots
    BY <1>2 DEF QueryStep, blobs
  <1>4. queries' \in 0..MaxQueries
    <2>1. queries \in 0..MaxQueries /\ MaxQueries \in Nat
      BY BoundsAre DEF TypeOK
    <2>2. queries' = queries \/ (queries < MaxQueries /\ queries' = queries + 1)
      BY Zenon DEF ChangesStep, StartChanges, LookInMerged, LookInCurrent, RetryChanges, CloseQuery
    <2>3. QED
      BY <2>1, <2>2
  <1>5. query' \in QueryRecord
    <2>1. CASE StartChanges \/ RetryChanges
      BY <1>1, <2>1 DEF StartChanges, RetryChanges, QueryRecord, Stages
    <2>2. CASE LookInMerged
      <3>1. query.wants # <<>>
        BY <2>2 DEF LookInMerged, LookupOK
      <3>2. QED
        BY <1>1, <2>2, <3>1, OpenedFacts DEF LookInMerged, QueryRecord, Stages
    <2>3. CASE LookInCurrent
      <3>1. query.wants # <<>> /\ query.missed # 2
        BY <2>3 DEF LookInCurrent, LookupOK
      <3>2. query.missed + 1 \in 0..2
        BY <1>1, <3>1 DEF QueryRecord
      <3>3. QED
        BY <1>1, <2>3, <3>1, <3>2, OpenedFacts DEF LookInCurrent, QueryRecord, Stages
    <2>4. CASE CloseQuery
      BY <1>1, <2>4 DEF CloseQuery
    <2>5. QED
      BY <2>1, <2>2, <2>3, <2>4 DEF ChangesStep
  <1>6. AllNodes' = AllNodes
    BY <1>3, SameNodes
  <1>7. QED
    BY <1>2, <1>3, <1>4, <1>5, <1>6
    DEF TypeOK, QueryStep, QueryRecord, blobs, content, work

(* Every step keeps the types. *)
LEMMA TypeStep ==
    ASSUME VersionInv, [Next]_vars
    PROVE  TypeOK'
  <1>1. TypeOK /\ RowsOK /\ NamesOK /\ LookupOK
    BY DEF VersionInv
  <1>2. ASSUME NEW h \in Handles, Commit(h)
        PROVE  TypeOK'
    <2>1. tree[h] \in [Keys -> Row] /\ dirty[h] \in SUBSET Keys
      BY <1>1 DEF TypeOK
    <2>2. Save(h, tree[h], dirty[h]) /\ UNCHANGED <<pc, created, work, reading, reclaimed, now,
                                                    vacuums>>
      BY <1>2 DEF Commit
    <2>3. search' \in [Handles -> Searches']
      <3>1. Published(h, tree[h], {source[h]} \ {0}, created[h]) /\ AllNodes \subseteq AllNodes'
        BY <1>1, <2>1, <2>2, SaveFacts, SaveType
      <3>2. search \in [Handles -> Searches']
        BY <1>1, <3>1, WorkTypesStay DEF Published
      <3>3. QED
        BY <2>2, <3>2 DEF work
    <2>4. QED
      BY <1>1, <2>1, <2>2, <2>3, CommitType DEF TypeOK, work
  <1>3. ASSUME NEW h \in Handles, NEW cutoff \in Cutoffs, StartVacuum(h, cutoff)
        PROVE  TypeOK'
    <2> DEFINE kept == Kept(h, cutoff)
               changed == dirty[h] \union {k \in Keys : kept[k] # tree[h][k]}
    <2>1. /\ UNCHANGED <<created, doomed, reading, reclaimed, now>>
          /\ pc' \in [Handles -> {"closed", "open", "vacuum", "deleting"}]
          /\ before' \in [Handles -> Nat]
          /\ search' = [search EXCEPT ![h] = [NoSearch EXCEPT !.todo = {source'[h]} \ {0}]]
          /\ vacuums' \in Seq(Cutoffs) /\ Len(vacuums') <= MaxVacuums
      BY <1>1, <1>3, BoundsAre DEF StartVacuum, TypeOK
    <2>2. kept \in [Keys -> Row] /\ changed \in SUBSET Keys
      BY <1>1, KeptFacts DEF TypeOK
    <2>3. CASE changed # {}
      <3>1. Save(h, kept, changed)
        BY <1>3, <2>3 DEF StartVacuum
      <3> HIDE DEF kept, changed
      <3>2. search' \in [Handles -> Searches']
        <4>1. Published(h, kept, {source[h]} \ {0}, created[h]) /\ AllNodes \subseteq AllNodes'
          BY <1>1, <2>2, <3>1, SaveFacts, SaveType
        <4>2. search \in [Handles -> Searches']
          BY <1>1, <4>1, WorkTypesStay DEF Published
        <4>3. source'[h] \in DOMAIN roots' \union {0}
          BY <4>1 DEF Published
        <4>4. [NoSearch EXCEPT !.todo = {source'[h]} \ {0}] \in Searches'
          BY <4>3 DEF Searches, NoSearch
        <4>5. QED
          BY <2>1, <4>2, <4>4
      <3>3. QED
        BY <1>1, <2>1, <2>2, <3>1, <3>2, CommitType
    <2>4. CASE changed = {}
      <3>1. UNCHANGED <<blobs, tree, source, dirty, cached, truth, faults>>
        BY <1>3, <2>4 DEF StartVacuum
      <3>2. AllNodes' = AllNodes
        BY <3>1, SameNodes DEF blobs
      <3>3. search' \in [Handles -> Searches]
        <4>1. source'[h] \in DOMAIN roots \union {0}
          BY <1>1, <3>1 DEF TypeOK
        <4>2. [NoSearch EXCEPT !.todo = {source'[h]} \ {0}] \in Searches
          BY <4>1 DEF Searches, NoSearch
        <4>3. QED
          BY <1>1, <2>1, <4>2, WorkTypes
      <3>4. QED
        BY <1>1, <2>1, <3>1, <3>2, <3>3 DEF TypeOK, blobs, reading, Searches
    <2>5. QED
      BY <2>3, <2>4
  <1>4. CASE UNCHANGED vars
    <2>1. AllNodes' = AllNodes
      BY <1>4, SameNodes DEF vars, blobs
    <2>2. QED
      BY <1>1, <1>4, <2>1 DEF vars, TypeOK, blobs, content, work, reading
  <1>5. QED
    BY <1>1, <1>2, <1>3, <1>4, OpenType, HandleType, ChangesType DEF Next, HandleStep, Searching

-----------------------------------------------------------------------------
(* Rows, names, and the content of handles *)

(* Rows stay in order while no new one is made. *)
LEMMA RowsShrink ==
    ASSUME TypeOK, RowsOK, TypeOK', now <= now',
           \A k \in Keys : RowsOf(k)' \subseteq RowsOf(k),
           \A k \in Keys : \A n \in DOMAIN roots' : roots'[n].tree[k].mod <= truth'[k].mod
    PROVE  RowsOK'
  <1>1. now \in Nat /\ now' \in Nat
    BY BoundsAre DEF TypeOK
  <1>2. \A k \in Keys : \A r \in RowsOf(k) : r.mod \in Nat /\ r.mod <= now
    BY RowsAreRows, RowsFacts
  <1>3. \A k \in Keys : \A r \in RowsOf(k)' : r.mod <= now'
    BY <1>1, <1>2
  <1>4. \A k \in Keys : \A r \in RowsOf(k)', s \in RowsOf(k)' : r.mod = s.mod => r = s
    BY RowsFacts
  <1>5. QED
    BY <1>3, <1>4 DEF RowsOK

(* While nothing is stored or written the rows stay what they are. *)
LEMMA RowsSame ==
    ASSUME TypeOK, RowsOK, TypeOK', now <= now', roots' = roots, truth' = truth,
           \A h \in Handles, k \in Keys : tree'[h][k] \in RowsOf(k)
    PROVE  RowsOK'
  <1>1. \A k \in Keys : RowsOf(k)' \subseteq RowsOf(k)
    BY DEF RowsOf
  <1>2. \A k \in Keys : \A n \in DOMAIN roots' : roots'[n].tree[k].mod <= truth'[k].mod
    BY RowsFacts
  <1>3. QED
    BY <1>1, <1>2, RowsShrink

(* A commit stores rows that the handle has, and promises them. *)
LEMMA SaveRows ==
    ASSUME TypeOK, RowsOK, TypeOK', NEW h \in Handles, ContentOK(h),
           NEW t \in [Keys -> Row], NEW ks \in SUBSET Keys, Save(h, t, ks),
           \A k \in Keys : t[k] = tree[h][k] \/ t[k] = Absent,
           now' = now
    PROVE  RowsOK'
  <1> DEFINE new == Len(roots) + 1
  <1>1. Published(h, t, {source[h]} \ {0}, created[h])
    BY SaveFacts
  <1>2. /\ DOMAIN roots' = DOMAIN roots \union {new}
        /\ \A n \in DOMAIN roots : roots'[n] = roots[n]
        /\ roots'[new].tree = t
    BY <1>1 DEF Published
  <1>3. tree' = [tree EXCEPT ![h] = t]
        /\ truth' = [k \in Keys |-> IF k \in dirty[h] THEN Latest({truth[k], tree[h][k]})
                                    ELSE truth[k]]
    BY DEF Save
  <1>4. ASSUME NEW k \in Keys
        PROVE  /\ truth'[k] \in {truth[k], tree[h][k]}
               /\ truth[k].mod <= truth'[k].mod
               /\ k \in dirty[h] => tree[h][k].mod <= truth'[k].mod
    <2>1. {truth[k], tree[h][k]} \subseteq Row
          /\ truth[k].mod \in Nat /\ tree[h][k].mod \in Nat
          /\ truth[k].mod <= now /\ tree[h][k].mod <= now
      BY RowsAreRows, RowsFacts
    <2>2. now \in Nat
      BY BoundsAre DEF TypeOK
    <2>3. Latest({truth[k], tree[h][k]}) \in {truth[k], tree[h][k]}
          /\ \A r \in {truth[k], tree[h][k]} : r.mod <= Latest({truth[k], tree[h][k]}).mod
      <3>1. \A r \in {truth[k], tree[h][k]} : r.mod <= now
        BY <2>1
      <3>2. {truth[k], tree[h][k]} # {}
        OBVIOUS
      <3>3. QED
        BY <2>1, <2>2, <3>1, <3>2, LatestOfRows
    <2>4. truth'[k] = IF k \in dirty[h] THEN Latest({truth[k], tree[h][k]}) ELSE truth[k]
      BY <1>3
    <2>5. QED
      BY <2>1, <2>3, <2>4
  <1>5. ASSUME NEW k \in Keys
        PROVE  RowsOf(k)' \subseteq RowsOf(k)
    <2>1. t[k] \in RowsOf(k)
      BY RowsAreRows
    <2>2. truth'[k] \in RowsOf(k)
      BY <1>4, RowsAreRows
    <2>3. \A g \in Handles : tree'[g][k] \in RowsOf(k)
      BY <1>3, <2>1, RowsAreRows DEF TypeOK
    <2>4. \A n \in DOMAIN roots' : roots'[n].tree[k] \in RowsOf(k)
      BY <1>2, <2>1, RowsAreRows
    <2>5. Absent \in RowsOf(k)
      BY RowsAreRows
    <2>6. QED
      BY <2>2, <2>3, <2>4, <2>5 DEF RowsOf
  <1>6. ASSUME NEW k \in Keys, NEW n \in DOMAIN roots'
        PROVE  roots'[n].tree[k].mod <= truth'[k].mod
    <2>1. truth[k].mod \in Nat /\ truth'[k].mod \in Nat
          /\ truth[k].mod <= truth'[k].mod
      BY <1>4, RowsAreRows
    <2>2. CASE n \in DOMAIN roots
      <3>1. roots[n].tree[k].mod <= truth[k].mod /\ roots[n].tree[k].mod \in Nat
        BY <2>2, RowsFacts, RowsAreRows
      <3>2. QED
        BY <1>2, <2>1, <2>2, <3>1
    <2>3. CASE n = new
      <3>1. t[k].mod <= truth'[k].mod
        <4>1. CASE t[k] = Absent
          BY <2>1, <4>1, AbsentIsRow
        <4>2. CASE t[k] = tree[h][k] /\ k \in dirty[h]
          BY <1>4, <4>2
        <4>3. CASE t[k] = tree[h][k] /\ k \notin dirty[h]
          <5>1. t[k] = SourceRow(h, k)
            BY <4>3 DEF ContentOK
          <5>2. SourceRow(h, k).mod <= truth[k].mod /\ SourceRow(h, k).mod \in Nat
            BY RowsFacts, RowsAreRows
          <5>3. QED
            BY <2>1, <5>1, <5>2
        <4>4. QED
          BY <4>1, <4>2, <4>3
      <3>2. QED
        BY <1>2, <2>3, <3>1
    <2>4. QED
      BY <1>2, <2>2, <2>3
  <1>7. now <= now'
    BY BoundsAre DEF TypeOK
  <1>8. QED
    BY <1>5, <1>6, <1>7, RowsShrink

(* An Open that merged stores the merged rows. *)
LEMMA OpenRows ==
    ASSUME TypeOK, RowsOK, TypeOK', NEW h \in Handles, Open(h)
    PROVE  /\ RowsOK'
           /\ StoreGrows
           /\ \A k \in Keys : \A n \in DOMAIN roots' :
                roots'[n].tree[k] \in {Absent} \union {roots[m].tree[k] : m \in DOMAIN roots}
           /\ \A k \in Keys :
                tree'[h][k] \in {Absent} \union {roots[m].tree[k] : m \in DOMAIN roots}
  <1>1. /\ now' = now + 1 /\ Joined(Found) \in [Keys -> Row]
        /\ tree' = [tree EXCEPT ![h] = Joined(Found)] /\ truth' = truth
    BY OpenFacts DEF Open
  <1>2. ASSUME NEW k \in Keys
        PROVE  /\ Joined(Found)[k] \in {Absent} \union {roots[m].tree[k] : m \in DOMAIN roots}
               /\ Joined(Found)[k] \in RowsOf(k)
               /\ Joined(Found)[k].mod <= truth[k].mod
    <2>1. Found \subseteq DOMAIN roots
      BY FoundStored
    <2>2. Joined(Found)[k] \in {Absent} \union {roots[m].tree[k] : m \in Found}
      BY <2>1, JoinedFacts
    <2>3. QED
      BY <2>1, <2>2, JoinedRow
  <1>3. StoreGrows /\ \A n \in DOMAIN roots' \ DOMAIN roots : roots'[n].tree = Joined(Found)
    <2>1. CASE Published(h, Joined(Found), Found, now + 1)
      BY <2>1 DEF Published, StoreGrows
    <2>2. CASE UNCHANGED blobs
      BY <2>2 DEF blobs, StoreGrows
    <2>3. QED
      BY <2>1, <2>2, OpenFacts
  <1>4. \A k \in Keys : tree'[h][k] = Joined(Found)[k]
    BY <1>1 DEF TypeOK
  <1>5. ASSUME NEW k \in Keys
        PROVE  RowsOf(k)' \subseteq RowsOf(k)
    <2>1. \A g \in Handles : tree'[g][k] \in RowsOf(k)
      BY <1>1, <1>2, RowsAreRows DEF TypeOK
    <2>2. \A n \in DOMAIN roots' : roots'[n].tree[k] \in RowsOf(k)
      BY <1>2, <1>3, RowsAreRows DEF StoreGrows
    <2>3. Absent \in RowsOf(k) /\ truth'[k] \in RowsOf(k)
      BY <1>1, RowsAreRows
    <2>4. QED
      BY <2>1, <2>2, <2>3 DEF RowsOf
  <1>6. \A k \in Keys : \A n \in DOMAIN roots' : roots'[n].tree[k].mod <= truth'[k].mod
    BY <1>1, <1>2, <1>3, RowsFacts DEF StoreGrows
  <1>7. now <= now'
    BY <1>1, BoundsAre DEF TypeOK
  <1>8. RowsOK'
    BY <1>5, <1>6, <1>7, RowsShrink
  <1>9. \A k \in Keys : \A n \in DOMAIN roots' :
          roots'[n].tree[k] \in {Absent} \union {roots[m].tree[k] : m \in DOMAIN roots}
    BY <1>2, <1>3 DEF StoreGrows
  <1>10. QED
    BY <1>2, <1>3, <1>4, <1>8, <1>9

(* A row that is written is newer than all others. *)
LEMMA WriteRows ==
    ASSUME TypeOK, RowsOK, TypeOK', NEW h \in Handles, NEW k \in Keys, NEW deleted \in BOOLEAN,
           Write(h, k, deleted)
    PROVE  RowsOK'
  <1> DEFINE row == [mod |-> now + 1, deleted |-> deleted, prev |-> Previous(h, k)]
  <1>1. now \in Nat /\ now' = now + 1 /\ row.mod = now + 1
        /\ roots' = roots /\ truth' = truth
    BY BoundsAre DEF TypeOK, Write, blobs
  <1>2. tree' = [tree EXCEPT ![h][k] = row]
    BY DEF Write
  <1> HIDE DEF row
  <1>3. \A j \in Keys : \A g \in Handles : tree'[g][j] = tree[g][j] \/ (j = k /\ tree'[g][j] = row)
    BY <1>2 DEF TypeOK
  <1>4. \A j \in Keys : RowsOf(j)' \subseteq RowsOf(j) \union {row}
    <2> TAKE j \in Keys
    <2>1. \A g \in Handles : tree'[g][j] \in RowsOf(j) \union {row}
      BY <1>3, RowsAreRows
    <2>2. QED
      BY <1>1, <2>1 DEF RowsOf
  <1>5. \A j \in Keys : \A r \in RowsOf(j) : r.mod \in Nat /\ r.mod <= now
    BY RowsAreRows, RowsFacts
  <1>6. \A j \in Keys : \A r \in RowsOf(j)' : r.mod <= now'
    BY <1>1, <1>4, <1>5
  <1>7. ASSUME NEW j \in Keys, NEW r \in RowsOf(j)', NEW s \in RowsOf(j)', r.mod = s.mod
        PROVE  r = s
    <2>1. CASE r = row /\ s = row
      BY <2>1
    <2>2. CASE r \in RowsOf(j) /\ s \in RowsOf(j)
      BY <1>7, <2>2, RowsFacts
    <2>3. CASE r = row /\ s \in RowsOf(j)
      BY <1>1, <1>5, <1>7, <2>3
    <2>4. CASE s = row /\ r \in RowsOf(j)
      BY <1>1, <1>5, <1>7, <2>4
    <2>5. QED
      BY <1>4, <2>1, <2>2, <2>3, <2>4
  <1>8. \A j \in Keys : \A n \in DOMAIN roots' : roots'[n].tree[j].mod <= truth'[j].mod
    BY <1>1, RowsFacts
  <1>9. QED
    BY <1>6, <1>7, <1>8 DEF RowsOK

(* A vacuum starts by committing what RemoveTombstones leaves, or changes no version. *)
LEMMA StartFacts ==
    ASSUME TypeOK, NEW h \in Handles, NEW cutoff \in Cutoffs, StartVacuum(h, cutoff)
    PROVE  /\ pc[h] = "open" /\ (Careful => Alone(h))
           /\ Kept(h, cutoff) \in [Keys -> Row]
           /\ \/ \E ks \in SUBSET Keys :
                   /\ Save(h, Kept(h, cutoff), ks)
                   /\ \A k \in ks : Kept(h, cutoff)[k] # Absent => k \in dirty[h]
                   /\ \A k \in Keys \ ks : Kept(h, cutoff)[k] = tree[h][k] /\ k \notin dirty[h]
              \/ /\ UNCHANGED <<blobs, tree, source, dirty, cached, truth, faults>>
                 /\ dirty[h] = {}
           /\ pc' = [pc EXCEPT ![h] = "vacuum"]
           /\ before' = [before EXCEPT ![h] = cutoff]
           /\ search' = [search EXCEPT ![h] = [NoSearch EXCEPT !.todo = {source'[h]} \ {0}]]
           /\ vacuums' = Append(vacuums, cutoff)
           /\ UNCHANGED <<created, doomed, reading, reclaimed, now>>
  <1> DEFINE kept == Kept(h, cutoff)
             changed == dirty[h] \union {k \in Keys : kept[k] # tree[h][k]}
  <1>1. kept \in [Keys -> Row] /\ changed \in SUBSET Keys
    BY KeptFacts DEF TypeOK
  <1>2. /\ \A k \in changed : kept[k] # Absent => k \in dirty[h]
        /\ \A k \in Keys \ changed : kept[k] = tree[h][k] /\ k \notin dirty[h]
    BY KeptFacts
  <1>3. changed = {} => dirty[h] = {}
    OBVIOUS
  <1>4. IF changed # {} THEN Save(h, kept, changed)
        ELSE UNCHANGED <<blobs, tree, source, dirty, cached, truth, faults>>
    BY DEF StartVacuum
  <1>5. /\ pc[h] = "open" /\ (Careful => Alone(h))
        /\ pc' = [pc EXCEPT ![h] = "vacuum"]
        /\ before' = [before EXCEPT ![h] = cutoff]
        /\ search' = [search EXCEPT ![h] = [NoSearch EXCEPT !.todo = {source'[h]} \ {0}]]
        /\ vacuums' = Append(vacuums, cutoff)
        /\ UNCHANGED <<created, doomed, reading, reclaimed, now>>
    BY DEF StartVacuum
  <1> HIDE DEF kept, changed
  <1>6. QED
    BY <1>1, <1>2, <1>3, <1>4, <1>5 DEF kept

(* A step that neither stores a version nor touches what a handle has. *)
Quiet == UNCHANGED <<roots, tree, source, dirty, created, truth, now>>

(* Every other step opens, writes, commits or forgets. *)
LEMMA StepKinds ==
    ASSUME [Next]_vars
    PROVE  \/ \E h \in Handles :
                \/ Open(h) \/ Commit(h)
                \/ \E k \in Keys, deleted \in BOOLEAN : Write(h, k, deleted)
                \/ \E cutoff \in Cutoffs : StartVacuum(h, cutoff)
                \/ Forget(h)
           \/ Quiet
  <1>1. CASE UNCHANGED vars
    BY <1>1 DEF vars, Quiet, blobs, content
  <1>2. CASE ChangesStep
    <2>1. QueryStep
      BY <1>2, QueriesOnlyRead
    <2>2. QED
      BY <2>1 DEF QueryStep, Quiet, blobs, content
  <1>3. ASSUME NEW h \in Handles,
               \/ Searching(h) \/ PlanDeletions(h) \/ FinishVacuum(h) \/ VacuumFails(h)
               \/ NoteVersion(h) \/ \E x \in doomed[h].nodes : DeleteNode(h, x)
               \/ \E n \in doomed[h].roots : DeleteRoot(h, n)
        PROVE  Quiet
    BY <1>3, SearchingReads
    DEF SearchStep, PlanDeletions, FinishVacuum, VacuumFails, NoteVersion, QueryStep, DeleteNode,
        DeleteRoot, Quiet, blobs, content
  <1>4. QED
    BY <1>1, <1>2, <1>3 DEF Next, HandleStep, Searching, Close, Crash

(* Rows stay in order at every step. *)
LEMMA RowsStep ==
    ASSUME VersionInv, TypeOK', [Next]_vars
    PROVE  RowsOK'
  <1>1. TypeOK /\ RowsOK /\ \A h \in Handles : ContentOK(h)
    BY DEF VersionInv
  <1>2. now \in Nat /\ now <= now
    BY <1>1, BoundsAre DEF TypeOK
  <1>3. ASSUME NEW h \in Handles, Commit(h)
        PROVE  RowsOK'
    <2>1. Save(h, tree[h], dirty[h]) /\ now' = now
      BY <1>3 DEF Commit
    <2>2. tree[h] \in [Keys -> Row] /\ dirty[h] \in SUBSET Keys
      BY <1>1 DEF TypeOK
    <2>3. QED
      BY <1>1, <2>1, <2>2, SaveRows
  <1>4. ASSUME NEW h \in Handles, NEW cutoff \in Cutoffs, StartVacuum(h, cutoff)
        PROVE  RowsOK'
    <2>1. now' = now
      BY <1>1, <1>4, StartFacts
    <2>2. CASE \E ks \in SUBSET Keys : Save(h, Kept(h, cutoff), ks)
      <3>1. Kept(h, cutoff) \in [Keys -> Row]
            /\ \A k \in Keys : Kept(h, cutoff)[k] = tree[h][k] \/ Kept(h, cutoff)[k] = Absent
        BY <1>1, KeptFacts
      <3>2. QED
        BY <1>1, <2>1, <2>2, <3>1, SaveRows
    <2>3. CASE UNCHANGED <<blobs, tree, source, dirty, cached, truth, faults>>
      <3>1. \A g \in Handles, k \in Keys : tree'[g][k] \in RowsOf(k)
        BY <1>1, <2>3, RowsAreRows
      <3>2. roots' = roots /\ truth' = truth
        BY <2>3 DEF blobs
      <3>3. QED
        BY <1>1, <1>2, <2>1, <3>1, <3>2, RowsSame
    <2>4. QED
      BY <1>1, <1>4, <2>2, <2>3, StartFacts
  <1>5. ASSUME NEW h \in Handles, Forget(h)
        PROVE  RowsOK'
    <2>1. roots' = roots /\ truth' = truth /\ now' = now
          /\ tree' = [tree EXCEPT ![h] = EmptyTree]
      BY <1>5 DEF Forget, blobs
    <2>2. \A g \in Handles, k \in Keys : tree'[g][k] \in RowsOf(k)
      BY <1>1, <2>1, RowsAreRows DEF TypeOK, EmptyTree
    <2>3. QED
      BY <1>1, <1>2, <2>1, <2>2, RowsSame
  <1>6. CASE Quiet
    <2>1. \A g \in Handles, k \in Keys : tree'[g][k] \in RowsOf(k)
      BY <1>1, <1>6, RowsAreRows DEF Quiet
    <2>2. QED
      BY <1>1, <1>2, <1>6, <2>1, RowsSame DEF Quiet
  <1>7. QED
    BY <1>1, <1>3, <1>4, <1>5, <1>6, OpenRows, WriteRows, StepKinds

(* A name leaves root/current/ for root/merged/, and either for good. *)
NamesMove ==
    /\ reclaimed \subseteq reclaimed'
    /\ merged \union reclaimed \subseteq merged' \union reclaimed'
    /\ current \subseteq current' \union merged' \union reclaimed'

(* A vacuum commits a child of the version it started from. *)
LEMMA StartSaves ==
    ASSUME TypeOK, NEW h \in Handles, NEW cutoff \in Cutoffs, StartVacuum(h, cutoff)
    PROVE  \/ Published(h, Kept(h, cutoff), {source[h]} \ {0}, created[h])
           \/ UNCHANGED <<blobs, tree, source, dirty, cached, truth, faults>>
  <1>1. CASE \E ks \in SUBSET Keys : Save(h, Kept(h, cutoff), ks)
    <2>1. Kept(h, cutoff) \in [Keys -> Row]
      BY KeptFacts
    <2>2. QED
      BY <1>1, <2>1, SaveFacts
  <1>2. QED
    BY <1>1, StartFacts

(* The versions stored so far stay what they are. *)
LEMMA StoreStep ==
    ASSUME TypeOK, RowsOK, [Next]_vars
    PROVE  StoreGrows
  <1>1. ASSUME NEW h \in Handles, Commit(h)
        PROVE  StoreGrows
    <2>1. tree[h] \in [Keys -> Row] /\ dirty[h] \in SUBSET Keys /\ Save(h, tree[h], dirty[h])
      BY <1>1 DEF TypeOK, Commit
    <2>2. Published(h, tree[h], {source[h]} \ {0}, created[h])
      BY <2>1, SaveFacts
    <2>3. QED
      BY <2>2 DEF Published, StoreGrows
  <1>2. ASSUME NEW h \in Handles, NEW cutoff \in Cutoffs, StartVacuum(h, cutoff)
        PROVE  StoreGrows
    <2>1. CASE Published(h, Kept(h, cutoff), {source[h]} \ {0}, created[h])
      BY <2>1 DEF Published, StoreGrows
    <2>2. CASE UNCHANGED <<blobs, tree, source, dirty, cached, truth, faults>>
      BY <2>2 DEF blobs, StoreGrows
    <2>3. QED
      BY <1>2, <2>1, <2>2, StartSaves
  <1>3. ASSUME NEW h \in Handles, Open(h)
        PROVE  StoreGrows
    <2>1. CASE Published(h, Joined(Found), Found, now + 1)
      BY <2>1 DEF Published, StoreGrows
    <2>2. CASE UNCHANGED <<blobs, faults>>
      BY <2>2 DEF blobs, StoreGrows
    <2>3. QED
      BY <1>3, <2>1, <2>2, OpenFacts
  <1>4. ASSUME NEW h \in Handles,
               (\E k \in Keys, deleted \in BOOLEAN : Write(h, k, deleted)) \/ Forget(h)
        PROVE  StoreGrows
    BY <1>4 DEF Write, Forget, blobs, StoreGrows
  <1>5. CASE Quiet
    BY <1>5 DEF Quiet, StoreGrows
  <1>6. QED
    BY <1>1, <1>2, <1>3, <1>4, <1>5, StepKinds

(* No step loses a name. *)
LEMMA NamesMoveStep ==
    ASSUME TypeOK, RowsOK, [Next]_vars
    PROVE  NamesMove
  <1>1. ASSUME NEW h \in Handles, NEW t, NEW parents, NEW when,
               Published(h, t, parents, when), reclaimed' = reclaimed
        PROVE  NamesMove
    BY <1>1 DEF Published, NamesMove
  <1>2. ASSUME NEW h \in Handles, Commit(h)
        PROVE  NamesMove
    <2>1. tree[h] \in [Keys -> Row] /\ dirty[h] \in SUBSET Keys /\ Save(h, tree[h], dirty[h])
          /\ reclaimed' = reclaimed
      BY <1>2 DEF TypeOK, Commit
    <2>2. Published(h, tree[h], {source[h]} \ {0}, created[h])
      BY <2>1, SaveFacts
    <2>3. QED
      BY <1>1, <2>1, <2>2
  <1>3. ASSUME NEW h \in Handles, NEW cutoff \in Cutoffs, StartVacuum(h, cutoff)
        PROVE  NamesMove
    <2>1. reclaimed' = reclaimed
      BY <1>3 DEF StartVacuum
    <2>2. CASE UNCHANGED <<blobs, tree, source, dirty, cached, truth, faults>>
      BY <2>1, <2>2 DEF blobs, NamesMove
    <2>3. QED
      BY <1>1, <1>3, <2>1, <2>2, StartSaves
  <1>4. ASSUME NEW h \in Handles, Open(h)
        PROVE  NamesMove
    <2>1. reclaimed' = reclaimed
      BY <1>4 DEF Open
    <2>2. CASE UNCHANGED <<blobs, faults>>
      BY <2>1, <2>2 DEF blobs, NamesMove
    <2>3. QED
      BY <1>1, <1>4, <2>1, <2>2, OpenFacts
  <1>5. ASSUME NEW h \in Handles,
               \/ Close(h) \/ Crash(h)
               \/ \E k \in Keys, deleted \in BOOLEAN : Write(h, k, deleted)
               \/ Searching(h) \/ PlanDeletions(h) \/ VacuumFails(h) \/ NoteVersion(h)
               \/ \E x \in doomed[h].nodes : DeleteNode(h, x)
        PROVE  NamesMove
    <2>1. UNCHANGED <<current, merged, reclaimed>>
      BY <1>5, SearchingReads
      DEF Close, Crash, Forget, Write, SearchStep, PlanDeletions, VacuumFails, NoteVersion,
          QueryStep, DeleteNode, blobs
    <2>2. QED
      BY <2>1 DEF NamesMove
  <1>6. ASSUME NEW h \in Handles,
               FinishVacuum(h) \/ \E n \in doomed[h].roots : DeleteRoot(h, n)
        PROVE  NamesMove
    BY <1>6 DEF FinishVacuum, DeleteRoot, NamesMove
  <1>7. CASE ChangesStep
    <2>1. QueryStep
      BY <1>7, QueriesOnlyRead
    <2>2. QED
      BY <2>1 DEF QueryStep, blobs, NamesMove
  <1>8. CASE UNCHANGED vars
    BY <1>8 DEF vars, blobs, NamesMove
  <1>9. QED
    BY <1>2, <1>3, <1>4, <1>5, <1>6, <1>7, <1>8 DEF Next, HandleStep, Searching

(* A version that is stored is as old as its handle, and younger than its parents. *)
LEMMA PublishedNames ==
    ASSUME TypeOK, NamesOK, NamesMove, NEW h \in Handles, NEW t,
           NEW parents, parents \subseteq DOMAIN roots, NEW when \in Nat,
           Published(h, t, parents, when), now' \in Nat, now <= now', when <= now',
           \A p \in parents : roots[p].created <= when
    PROVE  NamesOK'
  <1> DEFINE new == Len(roots) + 1
  <1>1. /\ DOMAIN roots' = DOMAIN roots \union {new}
        /\ \A n \in DOMAIN roots : roots'[n] = roots[n] /\ n < new
        /\ roots'[new].parents = parents /\ roots'[new].created = when
        /\ new \in current'
    BY DEF Published
  <1>2. \A n \in DOMAIN roots : roots[n].parents \subseteq DOMAIN roots
    BY ParentsStored
  <1>3. ASSUME NEW n \in DOMAIN roots'
        PROVE  /\ roots'[n].created <= now'
               /\ \A p \in roots'[n].parents : p < n /\ roots'[p].created <= roots'[n].created
    <2>1. CASE n \in DOMAIN roots
      <3>1. roots[n].created <= now /\ roots[n].created \in Nat /\ now \in Nat
        <4>1. roots[n].created \in Nat
          BY <2>1, RootType
        <4>2. now \in Nat
          BY BoundsAre DEF TypeOK
        <4>3. roots[n].created <= now
          BY <2>1 DEF NamesOK
        <4>4. QED
          BY <4>1, <4>2, <4>3
      <3>2. \A p \in roots[n].parents :
                p \in DOMAIN roots /\ p < n /\ roots[p].created <= roots[n].created
        BY <1>2, <2>1 DEF NamesOK
      <3>3. roots'[n] = roots[n] /\ \A p \in roots[n].parents : roots'[p] = roots[p]
        BY <1>1, <2>1, <3>2
      <3>4. QED
        BY <3>1, <3>2, <3>3
    <2>2. CASE n = new
      BY <1>1, <2>2
    <2>3. QED
      BY <1>1, <2>1, <2>2
  <1>4. DOMAIN roots' \subseteq merged' \union current' \union reclaimed'
    BY <1>1 DEF NamesOK, NamesMove
  <1>5. QED
    BY <1>3, <1>4 DEF NamesOK

(* Names stay in order at every step. *)
LEMMA NamesStep ==
    ASSUME VersionInv, TypeOK', [Next]_vars
    PROVE  NamesOK'
  <1>1. TypeOK /\ RowsOK /\ NamesOK /\ \A h \in Handles : ContentOK(h)
    BY DEF VersionInv
  <1>2. NamesMove /\ now \in Nat /\ now <= now
    <2>1. NamesMove
      BY <1>1, NamesMoveStep
    <2>2. now \in Nat
      BY <1>1, BoundsAre DEF TypeOK
    <2>3. QED
      BY <2>1, <2>2
  <1>3. ASSUME NEW h \in Handles, NEW t, Published(h, t, {source[h]} \ {0}, created[h]),
               now' = now
        PROVE  NamesOK'
    <2>1. {source[h]} \ {0} \subseteq DOMAIN roots /\ created[h] \in Nat
      BY <1>1, BoundsAre DEF TypeOK
    <2>2. created[h] <= now' /\ \A p \in {source[h]} \ {0} : roots[p].created <= created[h]
      BY <1>1, <1>3 DEF ContentOK
    <2>3. QED
      BY <1>1, <1>2, <1>3, <2>1, <2>2, PublishedNames
  <1>4. ASSUME roots' = roots, now' \in Nat, now <= now'
        PROVE  NamesOK'
    <2>1. \A n \in DOMAIN roots : roots[n].created \in Nat
      BY <1>1, RootType
    <2>2. QED
      BY <1>1, <1>2, <1>4, <2>1 DEF NamesOK, NamesMove
  <1>5. ASSUME NEW h \in Handles, Commit(h)
        PROVE  NamesOK'
    <2>1. tree[h] \in [Keys -> Row] /\ dirty[h] \in SUBSET Keys /\ Save(h, tree[h], dirty[h])
          /\ now' = now
      BY <1>1, <1>5 DEF TypeOK, Commit
    <2>2. Published(h, tree[h], {source[h]} \ {0}, created[h])
      BY <1>1, <2>1, SaveFacts
    <2>3. QED
      BY <1>3, <2>1, <2>2
  <1>6. ASSUME NEW h \in Handles, NEW cutoff \in Cutoffs, StartVacuum(h, cutoff)
        PROVE  NamesOK'
    <2>1. now' = now
      BY <1>6 DEF StartVacuum
    <2>2. CASE UNCHANGED <<blobs, tree, source, dirty, cached, truth, faults>>
      BY <1>2, <1>4, <2>1, <2>2 DEF blobs
    <2>3. QED
      BY <1>1, <1>3, <1>6, <2>1, <2>2, StartSaves
  <1>7. ASSUME NEW h \in Handles, Open(h)
        PROVE  NamesOK'
    <2>1. now' = now + 1 /\ now' \in Nat /\ now <= now' /\ now + 1 \in Nat /\ now + 1 <= now'
      BY <1>2, <1>7 DEF Open
    <2>2. CASE UNCHANGED <<blobs, faults>>
      BY <1>4, <2>1, <2>2 DEF blobs
    <2>3. CASE Published(h, Joined(Found), Found, now + 1)
      <3>1. Found \subseteq DOMAIN roots
        BY <1>1, FoundStored
      <3>2. \A p \in Found : roots[p].created <= now + 1
        BY <1>1, <1>2, <3>1, RootType DEF NamesOK
      <3>3. QED
        BY <1>1, <1>2, <2>1, <2>3, <3>1, <3>2, PublishedNames
    <2>4. QED
      BY <1>1, <1>7, <2>2, <2>3, OpenFacts
  <1>8. ASSUME NEW h \in Handles, NEW k \in Keys, NEW deleted \in BOOLEAN, Write(h, k, deleted)
        PROVE  NamesOK'
    BY <1>2, <1>4, <1>8 DEF Write, blobs
  <1>9. ASSUME NEW h \in Handles, Forget(h)
        PROVE  NamesOK'
    BY <1>2, <1>4, <1>9 DEF Forget, blobs
  <1>10. CASE Quiet
    BY <1>2, <1>4, <1>10 DEF Quiet
  <1>11. QED
    BY <1>5, <1>6, <1>7, <1>8, <1>9, <1>10, StepKinds

(* A handle that does not move keeps its content, if nobody makes a row of its time. *)
LEMMA OtherContent ==
    ASSUME TypeOK, RowsOK, NEW g \in Handles, ContentOK(g), StoreGrows, now' \in Nat, now <= now',
           tree'[g] = tree[g], source'[g] = source[g], dirty'[g] = dirty[g],
           created'[g] = created[g],
           pc'[g] = "closed" => pc[g] = "closed", pc'[g] # "open" => pc[g] # "open",
           \A k \in dirty[g] : \A n \in DOMAIN roots' \ DOMAIN roots :
             roots'[n].tree[k].mod # tree[g][k].mod,
           \A k \in dirty[g] : \A f \in Handles \ {g} : tree'[f][k].mod # tree[g][k].mod
    PROVE  ContentOK(g)'
  <1>1. source[g] # 0 => source[g] \in DOMAIN roots
    BY DEF TypeOK
  <1>3. \A k \in Keys : SourceRow(g, k)' = SourceRow(g, k)
    BY <1>1 DEF SourceRow, StoreGrows
  <1>4. created[g] \in Nat /\ now \in Nat
    BY BoundsAre DEF TypeOK
  <1>5. dirty[g] \subseteq Keys
    BY DEF TypeOK
  <1>6. created'[g] <= now'
    BY <1>4 DEF ContentOK
  <1>7. source'[g] # 0 => roots'[source'[g]].created <= created'[g]
    BY <1>1 DEF ContentOK, StoreGrows
  <1>8. /\ pc'[g] = "closed" => source'[g] = 0
        /\ pc'[g] # "open" => dirty'[g] = {}
        /\ \A k \in Keys \ dirty'[g] : tree'[g][k] = SourceRow(g, k)'
    BY <1>3 DEF ContentOK
  <1>9. \A k \in dirty'[g] :
          /\ tree'[g][k].mod > SourceRow(g, k)'.mod
          /\ \A n \in DOMAIN roots' : roots'[n].tree[k].mod # tree'[g][k].mod
          /\ \A f \in Handles \ {g} : tree'[f][k].mod # tree'[g][k].mod
    BY <1>3, <1>5 DEF ContentOK, StoreGrows
  <1>10. QED
    BY <1>6, <1>7, <1>8, <1>9 DEF ContentOK

(* The time of a row that is not committed is positive. *)
LEMMA DirtyFacts ==
    ASSUME TypeOK, NEW g \in Handles, ContentOK(g), NEW k \in dirty[g]
    PROVE  k \in Keys /\ tree[g][k].mod \in Nat /\ tree[g][k].mod # 0 /\ tree[g][k] # Absent
  <1>1. k \in Keys
    BY DEF TypeOK
  <1>2. SourceRow(g, k).mod \in Nat /\ tree[g][k].mod \in Nat
    BY <1>1, RowsAreRows
  <1>3. tree[g][k].mod > SourceRow(g, k).mod
    BY DEF ContentOK
  <1>4. QED
    BY <1>1, <1>2, <1>3, AbsentIsRow

(* A commit leaves the handle with what it stored. *)
LEMMA SaveContent ==
    ASSUME VersionInv, TypeOK', NEW h \in Handles, NEW t \in [Keys -> Row],
           NEW ks \in SUBSET Keys, Save(h, t, ks), pc[h] = "open",
           \A k \in Keys : t[k] = tree[h][k] \/ t[k] = Absent,
           now' = now, created' = created, pc' = pc \/ pc' = [pc EXCEPT ![h] = "vacuum"]
    PROVE  \A g \in Handles : ContentOK(g)'
  <1> DEFINE new == Len(roots) + 1
  <1>1. TypeOK /\ RowsOK /\ \A g \in Handles : ContentOK(g)
    BY DEF VersionInv
  <1>2. Published(h, t, {source[h]} \ {0}, created[h])
    BY <1>1, SaveFacts
  <1>3. /\ DOMAIN roots' = DOMAIN roots \union {new} /\ new # 0
        /\ \A n \in DOMAIN roots : roots'[n] = roots[n]
        /\ roots'[new].tree = t /\ roots'[new].created = created[h]
        /\ source'[h] = new /\ \A g \in Handles \ {h} : source'[g] = source[g]
    <2>1. new # 0
      <3>1. roots \in Seq(RootRecord)
        BY <1>1 DEF TypeOK
      <3>2. QED
        BY <3>1
    <2>2. QED
      BY <1>2, <2>1 DEF Published
  <1>4. /\ tree'[h] = t /\ \A g \in Handles \ {h} : tree'[g] = tree[g]
        /\ dirty'[h] = {} /\ \A g \in Handles \ {h} : dirty'[g] = dirty[g]
    BY <1>1 DEF Save, TypeOK
  <1>5. now \in Nat /\ created[h] \in Nat /\ created[h] <= now
    BY <1>1, BoundsAre DEF TypeOK, ContentOK
  <1>6. /\ pc'[h] # "closed"
        /\ \A g \in Handles \ {h} : pc'[g] = pc[g]
    BY <1>1 DEF TypeOK
  <1>7. ASSUME NEW g \in Handles
        PROVE  ContentOK(g)'
    <2>1. CASE g = h
      <3>1. \A k \in Keys : SourceRow(h, k)' = t[k]
        BY <1>3 DEF SourceRow
      <3>2. created'[h] <= now' /\ roots'[source'[h]].created <= created'[h]
        BY <1>3, <1>5
      <3>3. ContentOK(h)'
        BY <1>4, <1>6, <3>1, <3>2 DEF ContentOK
      <3>4. QED
        BY <2>1, <3>3
    <2>2. CASE g # h
      <3>1. ASSUME NEW k \in dirty[g]
            PROVE  t[k].mod # tree[g][k].mod
        <4>1. k \in Keys /\ tree[g][k].mod # 0
          BY <1>1, DirtyFacts
        <4>2. tree[h][k].mod # tree[g][k].mod
          BY <1>1, <2>2 DEF ContentOK
        <4>3. QED
          BY <4>1, <4>2, AbsentIsRow
      <3>2. \A k \in dirty[g] : \A n \in DOMAIN roots' \ DOMAIN roots :
              roots'[n].tree[k].mod # tree[g][k].mod
        BY <1>3, <3>1
      <3>3. \A k \in dirty[g] : \A f \in Handles \ {g} : tree'[f][k].mod # tree[g][k].mod
        BY <1>1, <1>4, <3>1 DEF ContentOK
      <3>4. StoreGrows
        BY <1>3 DEF StoreGrows
      <3>5. /\ now' \in Nat /\ now <= now'
            /\ tree'[g] = tree[g] /\ source'[g] = source[g] /\ dirty'[g] = dirty[g]
            /\ created'[g] = created[g] /\ pc'[g] = pc[g]
        BY <1>3, <1>4, <1>5, <1>6, <2>2
      <3>6. QED
        BY <1>1, <3>2, <3>3, <3>4, <3>5, OtherContent
    <2>3. QED
      BY <2>1, <2>2
  <1>8. QED
    BY <1>7

(* A handle that opens has what the version has that it opened, or stored. *)
LEMMA OpenContent ==
    ASSUME VersionInv, TypeOK', NEW h \in Handles, Open(h)
    PROVE  \A g \in Handles : ContentOK(g)'
  <1>1. TypeOK /\ RowsOK /\ NamesOK /\ \A g \in Handles : ContentOK(g)
    BY DEF VersionInv
  <1>2. /\ pc[h] = "closed" /\ pc' = [pc EXCEPT ![h] = "open"]
        /\ tree' = [tree EXCEPT ![h] = Joined(Found)] /\ dirty' = dirty
        /\ created' = [created EXCEPT ![h] = now + 1]
    BY DEF Open, content
  <1>3. /\ now \in Nat /\ now' = now + 1
        /\ Found \subseteq DOMAIN roots
    <2>1. now' = now + 1 /\ Found \subseteq DOMAIN roots
      BY <1>1, OpenFacts, FoundStored
    <2>2. now \in Nat
      BY <1>1, BoundsAre DEF TypeOK
    <2>3. QED
      BY <2>1, <2>2
  <1>4. StoreGrows
    BY <1>1, OpenRows
  <1>5. ContentOK(h)'
    <2>1. dirty'[h] = {} /\ tree'[h] = Joined(Found) /\ created'[h] = now' /\ pc'[h] = "open"
      BY <1>1, <1>2, <1>3 DEF ContentOK, TypeOK
    <2>2. CASE Published(h, Joined(Found), Found, now + 1)
      <3>1. source'[h] # 0 => roots'[source'[h]].created = now'
        BY <1>3, <2>2 DEF Published
      <3>2. \A k \in Keys : SourceRow(h, k)' = Joined(Found)[k]
        <4>1. source'[h] \in DOMAIN roots' /\ roots'[source'[h]].tree = Joined(Found)
          BY <2>2 DEF Published
        <4>2. source'[h] # 0
          <5>1. roots' \in Seq(RootRecord)
            BY DEF TypeOK
          <5>2. QED
            BY <4>1, <5>1
        <4>3. QED
          BY <4>1, <4>2 DEF SourceRow
      <3>3. QED
        BY <1>3, <2>1, <3>1, <3>2 DEF ContentOK
    <2>3. CASE /\ UNCHANGED <<blobs, faults>>
               /\ source'[h] \in Found \union {0}
               /\ source'[h] = 0 => Found = {}
               /\ Found \subseteq {source'[h]}
      <3>1. roots' = roots
        BY <2>3 DEF blobs
      <3>2. source'[h] # 0 => roots'[source'[h]].created <= now'
        <4>1. source'[h] # 0 => source'[h] \in DOMAIN roots
          BY <1>3, <2>3
        <4>2. \A n \in DOMAIN roots : roots[n].created <= now /\ roots[n].created \in Nat
          BY <1>1, RootType DEF NamesOK
        <4>3. QED
          BY <1>3, <3>1, <4>1, <4>2
      <3>3. \A k \in Keys : SourceRow(h, k)' = Joined(Found)[k]
        BY <1>1, <1>3, <2>3, <3>1, JoinedOfOne DEF SourceRow
      <3>4. created'[h] <= now'
        BY <1>3, <2>1
      <3>5. QED
        BY <2>1, <3>2, <3>3, <3>4 DEF ContentOK
    <2>4. QED
      BY <1>1, <2>2, <2>3, OpenFacts
  <1>6. ASSUME NEW g \in Handles, g # h
        PROVE  ContentOK(g)'
    <2>1. \A k \in dirty[g] : k \in Keys /\ tree[g][k].mod # 0
          /\ \A n \in DOMAIN roots : roots[n].tree[k].mod # tree[g][k].mod
      BY <1>1, DirtyFacts DEF ContentOK
    <2>2. \A k \in dirty[g] : \A n \in DOMAIN roots' : roots'[n].tree[k].mod # tree[g][k].mod
      BY <1>1, <2>1, OpenRows, AbsentIsRow
    <2>3. \A k \in dirty[g] : tree'[h][k].mod # tree[g][k].mod
      BY <1>1, <2>1, OpenRows, AbsentIsRow
    <2>4. \A k \in dirty[g] : \A f \in Handles \ {g} : tree'[f][k].mod # tree[g][k].mod
      <3>1. \A f \in Handles \ {h} : tree'[f] = tree[f]
        BY <1>1, <1>2 DEF TypeOK
      <3>2. QED
        BY <1>1, <2>3, <3>1 DEF ContentOK
    <2>5. /\ now' \in Nat /\ now <= now'
          /\ tree'[g] = tree[g] /\ dirty'[g] = dirty[g] /\ created'[g] = created[g]
          /\ pc'[g] = pc[g]
      BY <1>1, <1>2, <1>3, <1>6 DEF TypeOK
    <2>6. source'[g] = source[g]
      BY <1>1, <1>6, OpenFacts DEF Published
    <2>7. QED
      BY <1>1, <1>4, <2>2, <2>4, <2>5, <2>6, OtherContent
  <1>7. QED
    BY <1>5, <1>6

(* A row that is written has a time of its own. *)
LEMMA WriteContent ==
    ASSUME VersionInv, TypeOK', NEW h \in Handles, NEW k \in Keys, NEW deleted \in BOOLEAN,
           Write(h, k, deleted)
    PROVE  \A g \in Handles : ContentOK(g)'
  <1> DEFINE row == [mod |-> now + 1, deleted |-> deleted, prev |-> Previous(h, k)]
  <1>1. TypeOK /\ RowsOK /\ NamesOK /\ \A g \in Handles : ContentOK(g)
    BY DEF VersionInv
  <1>2. /\ now \in Nat /\ now' = now + 1 /\ row.mod = now + 1 /\ pc[h] = "open" /\ pc' = pc
        /\ roots' = roots /\ source' = source /\ created' = created
        /\ dirty' = [dirty EXCEPT ![h] = @ \union {k}]
    BY <1>1, BoundsAre DEF TypeOK, Write, blobs
  <1>3. tree' = [tree EXCEPT ![h][k] = row]
    BY DEF Write
  <1> HIDE DEF row
  <1>4. /\ tree'[h][k] = row /\ \A j \in Keys \ {k} : tree'[h][j] = tree[h][j]
        /\ \A g \in Handles \ {h} : tree'[g] = tree[g]
        /\ dirty'[h] = dirty[h] \union {k} /\ \A g \in Handles \ {h} : dirty'[g] = dirty[g]
    BY <1>1, <1>2, <1>3 DEF TypeOK
  <1>5. \A j \in Keys : \A r \in RowsOf(j) : r.mod \in Nat /\ r.mod <= now
    BY <1>1, RowsAreRows, RowsFacts
  <1>6. \A g \in Handles, j \in Keys : SourceRow(g, j)' = SourceRow(g, j)
    BY <1>2 DEF SourceRow
  <1>7. ContentOK(h)'
    <2>1. /\ created'[h] <= now'
          /\ source'[h] # 0 => roots'[source'[h]].created <= created'[h]
          /\ pc'[h] = "open"
      <3>1. created[h] \in Nat /\ created[h] <= now
        BY <1>1, BoundsAre DEF TypeOK, ContentOK
      <3>2. QED
        BY <1>1, <1>2, <3>1 DEF ContentOK
    <2>2. \A j \in Keys \ dirty'[h] : tree'[h][j] = SourceRow(h, j)'
      BY <1>1, <1>4, <1>6 DEF ContentOK
    <2>3. ASSUME NEW j \in dirty'[h]
          PROVE  /\ tree'[h][j].mod > SourceRow(h, j)'.mod
                 /\ \A n \in DOMAIN roots' : roots'[n].tree[j].mod # tree'[h][j].mod
                 /\ \A g \in Handles \ {h} : tree'[g][j].mod # tree'[h][j].mod
      <3>1. CASE j = k
        <4>1. SourceRow(h, k).mod \in Nat /\ SourceRow(h, k).mod <= now
          BY <1>1, <1>5, RowsAreRows
        <4>2. \A n \in DOMAIN roots : roots[n].tree[k].mod \in Nat /\ roots[n].tree[k].mod <= now
          BY <1>1, <1>5, RowsAreRows
        <4>3. \A g \in Handles : tree[g][k].mod \in Nat /\ tree[g][k].mod <= now
          BY <1>1, <1>5, RowsAreRows
        <4>4. QED
          BY <1>2, <1>4, <1>6, <3>1, <4>1, <4>2, <4>3
      <3>2. CASE j # k
        <4>1. j \in dirty[h] /\ j \in Keys
          BY <1>1, <1>4, <3>2 DEF TypeOK
        <4>2. /\ tree[h][j].mod > SourceRow(h, j).mod
              /\ \A n \in DOMAIN roots : roots[n].tree[j].mod # tree[h][j].mod
              /\ \A g \in Handles \ {h} : tree[g][j].mod # tree[h][j].mod
          BY <1>1, <4>1 DEF ContentOK
        <4>3. tree'[h][j] = tree[h][j] /\ SourceRow(h, j)' = SourceRow(h, j)
          BY <1>4, <1>6, <3>2, <4>1
        <4>4. QED
          BY <1>2, <1>4, <4>2, <4>3
      <3>3. QED
        BY <3>1, <3>2
    <2>4. QED
      BY <2>1, <2>2, <2>3 DEF ContentOK
  <1>8. ASSUME NEW g \in Handles, g # h
        PROVE  ContentOK(g)'
    <2>1. \A j \in dirty[g] : j \in Keys /\ tree[g][j].mod \in Nat /\ tree[g][j].mod <= now
      BY <1>1, <1>5, RowsAreRows DEF TypeOK
    <2>2. \A j \in dirty[g] : \A f \in Handles \ {g} : tree'[f][j].mod # tree[g][j].mod
      <3> TAKE j \in dirty[g]
      <3> TAKE f \in Handles \ {g}
      <3>1. tree[f][j].mod # tree[g][j].mod
        BY <1>1 DEF ContentOK
      <3>2. CASE f = h /\ j = k
        BY <1>2, <1>4, <2>1, <3>2
      <3>3. CASE ~(f = h /\ j = k)
        BY <1>4, <2>1, <3>1, <3>3
      <3>4. QED
        BY <3>2, <3>3
    <2>3. StoreGrows /\ DOMAIN roots' \ DOMAIN roots = {} /\ now' \in Nat /\ now <= now'
      BY <1>2 DEF StoreGrows
    <2>4. tree'[g] = tree[g] /\ dirty'[g] = dirty[g]
      BY <1>4, <1>8
    <2>5. QED
      BY <1>1, <1>2, <2>2, <2>3, <2>4, OtherContent
  <1>9. QED
    BY <1>7, <1>8

(* A handle that forgets everything is in order, and disturbs no other. *)
LEMMA ForgetContent ==
    ASSUME VersionInv, NEW h \in Handles, Forget(h)
    PROVE  \A g \in Handles : ContentOK(g)'
  <1>1. TypeOK /\ RowsOK /\ \A g \in Handles : ContentOK(g)
    BY DEF VersionInv
  <1>2. roots' = roots /\ now' = now /\ now \in Nat /\ now <= now
    BY <1>1, BoundsAre DEF Forget, blobs, TypeOK
  <1>3. /\ pc'[h] = "closed" /\ tree'[h] = EmptyTree /\ created'[h] = 0 /\ source'[h] = 0
        /\ dirty'[h] = {}
        /\ \A g \in Handles \ {h} :
             /\ pc'[g] = pc[g] /\ tree'[g] = tree[g] /\ created'[g] = created[g]
             /\ source'[g] = source[g] /\ dirty'[g] = dirty[g]
    BY <1>1 DEF Forget, TypeOK
  <1>4. ContentOK(h)'
    <2>1. \A k \in Keys : tree'[h][k] = SourceRow(h, k)'
      BY <1>3 DEF SourceRow, EmptyTree
    <2>2. QED
      BY <1>2, <1>3, <2>1 DEF ContentOK
  <1>5. ASSUME NEW g \in Handles, g # h
        PROVE  ContentOK(g)'
    <2>1. \A k \in dirty[g] : k \in Keys /\ tree[g][k].mod # 0
      BY <1>1, DirtyFacts
    <2>2. \A k \in dirty[g] : tree'[h][k].mod = 0
      BY <1>3, <2>1, AbsentIsRow DEF EmptyTree
    <2>3. \A k \in dirty[g] : \A f \in Handles \ {g} : tree'[f][k].mod # tree[g][k].mod
      BY <1>1, <1>3, <2>1, <2>2 DEF ContentOK
    <2>4. StoreGrows /\ DOMAIN roots' \ DOMAIN roots = {}
      BY <1>2 DEF StoreGrows
    <2>5. QED
      BY <1>1, <1>2, <1>3, <1>5, <2>3, <2>4, OtherContent
  <1>6. QED
    BY <1>4, <1>5

(* Quiet steps leave handles what they have. *)
LEMMA QuietContent ==
    ASSUME VersionInv, Quiet,
           \A g \in Handles : /\ pc'[g] = "closed" => pc[g] = "closed"
                              /\ pc'[g] # "open" => pc[g] # "open"
    PROVE  \A g \in Handles : ContentOK(g)'
  <1>1. TypeOK /\ RowsOK /\ \A g \in Handles : ContentOK(g)
    BY DEF VersionInv
  <1>2. /\ roots' = roots /\ now' = now /\ now \in Nat /\ now <= now
        /\ tree' = tree /\ source' = source /\ dirty' = dirty /\ created' = created
    BY <1>1, BoundsAre DEF Quiet, TypeOK
  <1>3. StoreGrows /\ DOMAIN roots' \ DOMAIN roots = {}
    BY <1>2 DEF StoreGrows
  <1>4. QED
    BY <1>1, <1>2, <1>3, OtherContent DEF ContentOK

(* Handles stay in order at every step. *)
LEMMA ContentStep ==
    ASSUME VersionInv, TypeOK', [Next]_vars
    PROVE  \A g \in Handles : ContentOK(g)'
  <1>1. TypeOK /\ RowsOK /\ \A g \in Handles : ContentOK(g)
    BY DEF VersionInv
  <1>2. ASSUME NEW h \in Handles, Commit(h)
        PROVE  \A g \in Handles : ContentOK(g)'
    <2>1. tree[h] \in [Keys -> Row] /\ dirty[h] \in SUBSET Keys /\ Save(h, tree[h], dirty[h])
          /\ pc[h] = "open" /\ now' = now /\ created' = created /\ pc' = pc
      BY <1>1, <1>2 DEF TypeOK, Commit
    <2>2. QED
      BY <2>1, SaveContent
  <1>3. ASSUME NEW h \in Handles, NEW cutoff \in Cutoffs, StartVacuum(h, cutoff)
        PROVE  \A g \in Handles : ContentOK(g)'
    <2>1. /\ pc[h] = "open" /\ pc' = [pc EXCEPT ![h] = "vacuum"]
          /\ now' = now /\ created' = created
      BY <1>3 DEF StartVacuum
    <2>2. CASE \E ks \in SUBSET Keys : Save(h, Kept(h, cutoff), ks)
      <3>1. Kept(h, cutoff) \in [Keys -> Row]
            /\ \A k \in Keys : Kept(h, cutoff)[k] = tree[h][k] \/ Kept(h, cutoff)[k] = Absent
        BY <1>1, KeptFacts
      <3>2. QED
        BY <2>1, <2>2, <3>1, SaveContent
    <2>3. CASE /\ UNCHANGED <<blobs, tree, source, dirty, cached, truth, faults>>
               /\ dirty[h] = {}
      <3>1. /\ roots' = roots /\ now' = now /\ now \in Nat /\ now <= now
            /\ tree' = tree /\ source' = source /\ dirty' = dirty /\ created' = created
        BY <1>1, <2>1, <2>3, BoundsAre DEF TypeOK, blobs
      <3>2. /\ pc'[h] = "vacuum" /\ \A g \in Handles \ {h} : pc'[g] = pc[g]
        BY <1>1, <2>1 DEF TypeOK
      <3>3. \A g \in Handles, k \in Keys : SourceRow(g, k)' = SourceRow(g, k)
        BY <3>1 DEF SourceRow
      <3>4. \A g \in Handles : dirty[g] \subseteq Keys
        BY <1>1 DEF TypeOK
      <3>5. QED
        BY <1>1, <2>3, <3>1, <3>2, <3>3, <3>4 DEF ContentOK
    <2>4. QED
      BY <1>1, <1>3, <2>2, <2>3, StartFacts
  <1>4. ASSUME NEW h \in Handles,
               \/ Searching(h) \/ PlanDeletions(h) \/ FinishVacuum(h) \/ VacuumFails(h)
               \/ NoteVersion(h) \/ \E x \in doomed[h].nodes : DeleteNode(h, x)
               \/ \E n \in doomed[h].roots : DeleteRoot(h, n)
        PROVE  \A g \in Handles : ContentOK(g)'
    <2>1. Quiet
      BY <1>4, SearchingReads
      DEF SearchStep, PlanDeletions, FinishVacuum, VacuumFails, NoteVersion, QueryStep, DeleteNode,
          DeleteRoot, Quiet, blobs, content
    <2>2. \/ pc' = pc
          \/ pc[h] = "vacuum" /\ pc' = [pc EXCEPT ![h] = "deleting"]
          \/ pc[h] \in {"vacuum", "deleting"} /\ pc' = [pc EXCEPT ![h] = "open"]
      BY <1>4, SearchingReads
      DEF SearchStep, PlanDeletions, FinishVacuum, VacuumFails, NoteVersion, QueryStep, DeleteNode,
          DeleteRoot
    <2>3. \A g \in Handles : /\ pc'[g] = "closed" => pc[g] = "closed"
                             /\ pc'[g] # "open" => pc[g] # "open"
      BY <1>1, <2>2 DEF TypeOK
    <2>4. QED
      BY <2>1, <2>3, QuietContent
  <1>5. ASSUME ChangesStep \/ UNCHANGED vars
        PROVE  \A g \in Handles : ContentOK(g)'
    <2>1. Quiet /\ pc' = pc
      BY <1>5, QueriesOnlyRead DEF QueryStep, Quiet, blobs, content
    <2>2. QED
      BY <2>1, QuietContent
  <1>6. QED
    BY <1>2, <1>3, <1>4, <1>5, OpenContent, WriteContent, ForgetContent
    DEF Next, HandleStep, Searching, Close, Crash

-----------------------------------------------------------------------------
(* Links between rows *)

(* LinksOK, for one row of one version, and for what one handle has not committed. *)
RowLinked(n, k) ==
    LET r == roots[n].tree[k]
    IN  r # Absent =>
           /\ r.prev < n
           /\ roots[n].parents = {} => r.prev = 0
           /\ \A p \in roots[n].parents :
                roots[n].parents = {p} => r = roots[p].tree[k] \/ Follows(r, p, k)

DirtyLinked(h) ==
    \A k \in dirty[h] :
        \/ tree[h][k].prev = source[h]
        \/ tree[h][k].prev = 0 /\ SourceRow(h, k) = Absent

(* That is all of it, before a step and after. *)
LEMMA LinkParts ==
    /\ LinksOK <=> /\ \A n \in DOMAIN roots, k \in Keys : RowLinked(n, k)
                   /\ \A h \in Handles : DirtyLinked(h)
    /\ LinksOK' <=> /\ \A n \in DOMAIN roots', k \in Keys : RowLinked(n, k)'
                    /\ \A h \in Handles : DirtyLinked(h)'
  BY DEF LinksOK, RowLinked, DirtyLinked

(* What is stored stays linked; what is new has to be, and what a handle changes. *)
LEMMA LinksStay ==
    ASSUME VersionInv, StoreGrows,
           \A n \in DOMAIN roots' \ DOMAIN roots : \A k \in Keys : RowLinked(n, k)',
           \A g \in Handles :
             \/ tree'[g] = tree[g] /\ source'[g] = source[g] /\ dirty'[g] = dirty[g]
             \/ DirtyLinked(g)'
    PROVE  LinksOK'
  <1>1. TypeOK /\ NamesOK /\ LinksOK
    BY DEF VersionInv
  <1>2. \A n \in DOMAIN roots : n \in DOMAIN roots' /\ roots'[n] = roots[n]
    BY DEF StoreGrows
  <1>3. ASSUME NEW n \in DOMAIN roots, NEW k \in Keys
        PROVE  RowLinked(n, k)'
    <2>1. RowLinked(n, k)
      BY <1>1, LinkParts
    <2>2. roots[n].parents \subseteq DOMAIN roots
      BY <1>1, ParentsStored
    <2>3. \A p \in roots[n].parents : roots'[p] = roots[p]
      BY <1>2, <2>2
    <2>4. QED
      BY <1>2, <2>1, <2>3 DEF RowLinked, Follows
  <1>4. ASSUME NEW g \in Handles, tree'[g] = tree[g], source'[g] = source[g], dirty'[g] = dirty[g]
        PROVE  DirtyLinked(g)'
    <2>1. DirtyLinked(g)
      BY <1>1, LinkParts
    <2>2. source[g] # 0 => roots'[source[g]] = roots[source[g]]
      BY <1>1, <1>2 DEF TypeOK
    <2>3. \A k : SourceRow(g, k)' = SourceRow(g, k)
      BY <1>4, <2>2 DEF SourceRow
    <2>4. QED
      BY <1>4, <2>1, <2>3 DEF DirtyLinked
  <1>5. QED
    BY <1>3, <1>4, LinkParts

(* A commit links the rows that were written to the version they were written over. *)
LEMMA SaveLinks ==
    ASSUME VersionInv, TypeOK', NEW h \in Handles, NEW t \in [Keys -> Row],
           NEW ks \in SUBSET Keys, Save(h, t, ks),
           \A k \in Keys : t[k] = tree[h][k] \/ t[k] = Absent
    PROVE  LinksOK'
  <1>1. TypeOK /\ NamesOK /\ LinksOK /\ \A g \in Handles : ContentOK(g)
    BY DEF VersionInv
  <1> SUFFICES ASSUME NEW new, new = Len(roots) + 1
               PROVE  LinksOK'
    OBVIOUS
  <1>2. Published(h, t, {source[h]} \ {0}, created[h])
    BY <1>1, SaveFacts
  <1>3. /\ DOMAIN roots' = DOMAIN roots \union {new}
        /\ \A n \in DOMAIN roots : roots'[n] = roots[n] /\ n < new
        /\ roots'[new].tree = t /\ roots'[new].parents = {source[h]} \ {0}
        /\ \A g \in Handles \ {h} : source'[g] = source[g]
    BY <1>2 DEF Published
  <1>4. /\ dirty'[h] = {}
        /\ \A g \in Handles \ {h} : tree'[g] = tree[g] /\ dirty'[g] = dirty[g]
    BY <1>1 DEF Save, TypeOK
  <1>5. \A n \in DOMAIN roots : n \in Nat
    BY <1>1, RootType
  <1>6. new \in Nat /\ 0 < new
    <2>1. roots \in Seq(RootRecord)
      BY <1>1 DEF TypeOK
    <2>2. QED
      BY <2>1
  <1>7. ASSUME NEW k \in Keys
        PROVE  RowLinked(new, k)'
    <2> SUFFICES ASSUME NEW r, r = t[k], NEW s, s = source[h]
                 PROVE  RowLinked(new, k)'
      OBVIOUS
    <2> SUFFICES ASSUME r # Absent
                 PROVE  /\ r.prev < new
                        /\ s = 0 => r.prev = 0
                        /\ s # 0 => r = roots[s].tree[k] \/ Follows(r, s, k)
      <3>1. s # 0 => roots'[s] = roots[s]
        BY <1>1, <1>3 DEF TypeOK
      <3>2. s # 0 => (Follows(r, s, k)' <=> Follows(r, s, k))
        BY <3>1 DEF Follows
      <3>3. QED
        BY <1>3, <3>1, <3>2 DEF RowLinked
    <2>1. r = tree[h][k]
      OBVIOUS
    <2>2. CASE k \notin dirty[h]
      <3>1. r = SourceRow(h, k)
        BY <1>1, <2>1, <2>2 DEF ContentOK
      <3>2. s # 0 /\ r = roots[s].tree[k] /\ s \in DOMAIN roots
        BY <1>1, <2>1, <3>1 DEF SourceRow, TypeOK
      <3>3. r.prev < s /\ s < new /\ r.prev \in Nat
        BY <1>1, <1>3, <2>1, <3>2 DEF LinksOK, TypeOK, Row
      <3>4. QED
        BY <1>5, <1>6, <3>2, <3>3
    <2>3. CASE k \in dirty[h]
      <3>1. r.prev = s \/ (r.prev = 0 /\ SourceRow(h, k) = Absent)
        BY <1>1, <2>1, <2>3, LinkParts DEF DirtyLinked
      <3>2. r.mod > SourceRow(h, k).mod
        BY <1>1, <2>1, <2>3 DEF ContentOK
      <3>3. s # 0 => Follows(r, s, k)
        BY <3>1, <3>2 DEF Follows, SourceRow
      <3>4. s # 0 => s < new
        BY <1>1, <1>3 DEF TypeOK
      <3>5. QED
        BY <1>6, <3>1, <3>3, <3>4
    <2>4. QED
      BY <2>2, <2>3
  <1>8. StoreGrows
    BY <1>3 DEF StoreGrows
  <1>9. DirtyLinked(h)'
    BY <1>4 DEF DirtyLinked
  <1>10. QED
    BY <1>3, <1>4, <1>7, <1>8, <1>9, LinksStay

(* An Open that merges links no row to a version that is not older. *)
LEMMA OpenLinks ==
    ASSUME VersionInv, TypeOK', NEW h \in Handles, Open(h)
    PROVE  LinksOK'
  <1>1. TypeOK /\ RowsOK /\ NamesOK /\ LinksOK /\ \A g \in Handles : ContentOK(g)
    BY DEF VersionInv
  <1> SUFFICES ASSUME NEW new, new = Len(roots) + 1
               PROVE  LinksOK'
    OBVIOUS
  <1>2. /\ \A g \in Handles \ {h} : tree'[g] = tree[g] /\ source'[g] = source[g]
        /\ dirty' = dirty
    BY <1>1, OpenFacts DEF Open, content, Published, TypeOK
  <1>3. DirtyLinked(h)'
    <2>1. pc[h] = "closed" /\ dirty[h] = {}
      BY <1>1 DEF Open, ContentOK
    <2>2. QED
      BY <1>2, <2>1 DEF DirtyLinked
  <1>4. StoreGrows
    BY <1>1, OpenRows
  <1>5. CASE roots' = roots
    BY <1>2, <1>3, <1>4, <1>5, LinksStay
  <1>6. CASE roots' # roots
    <2>1. Cardinality(Found) > 1 /\ Published(h, Joined(Found), Found, now + 1)
      BY <1>1, <1>6, OpenFacts DEF Open, blobs
    <2>2. \A p : Found # {} /\ Found # {p}
      <3>1. \A ns : ns = {} => ~(Cardinality(ns) > 1)
        BY FS_EmptySet
      <3>2. \A ns, p : ns = {p} => ~(Cardinality(ns) > 1)
        <4> TAKE ns, p
        <4>1. ns = {p} => Cardinality(ns) = 1
          BY FS_Singleton, Zenon
        <4>2. QED
          BY <4>1
      <3>3. QED
        BY <2>1, <3>1, <3>2
    <2>3. /\ DOMAIN roots' = DOMAIN roots \union {new}
          /\ \A n \in DOMAIN roots : n < new
          /\ roots'[new].tree = Joined(Found) /\ roots'[new].parents = Found
      BY <2>1 DEF Published
    <2>4. ASSUME NEW k \in Keys
          PROVE  RowLinked(new, k)'
      <3> DEFINE r == Joined(Found)[k]
      <3> SUFFICES ASSUME r # Absent
                   PROVE  r.prev < new
        BY <2>2, <2>3 DEF RowLinked
      <3>1. Found \subseteq DOMAIN roots
        BY <1>1, FoundStored
      <3>2. PICK m \in DOMAIN roots : r = roots[m].tree[k]
        BY <1>1, <3>1, JoinedFacts
      <3>3. m \in Nat /\ r.prev \in Nat
        BY <1>1, <3>2, RootType DEF Row
      <3>4. r.prev < m /\ m < new
        BY <1>1, <2>3, <3>2 DEF LinksOK
      <3>5. new \in Nat
        <4>1. roots \in Seq(RootRecord)
          BY <1>1 DEF TypeOK
        <4>2. QED
          BY <4>1
      <3>6. QED
        BY <3>3, <3>4, <3>5
    <2>5. QED
      BY <1>2, <1>3, <1>4, <2>3, <2>4, LinksStay
  <1>7. QED
    BY <1>5, <1>6

(* A row is linked to the version it is written over, if that has the row. *)
LEMMA WriteLinks ==
    ASSUME VersionInv, NEW h \in Handles, NEW k \in Keys, NEW deleted \in BOOLEAN,
           Write(h, k, deleted)
    PROVE  LinksOK'
  <1>1. TypeOK /\ LinksOK /\ ContentOK(h)
    BY DEF VersionInv
  <1>2. /\ roots' = roots /\ source' = source
        /\ dirty' = [dirty EXCEPT ![h] = @ \union {k}]
        /\ tree' = [tree EXCEPT ![h][k] =
                       [mod |-> now + 1, deleted |-> deleted, prev |-> Previous(h, k)]]
    BY DEF Write, blobs
  <1>3. /\ dirty'[h] = dirty[h] \union {k}
        /\ tree'[h][k].prev = Previous(h, k)
        /\ \A j \in Keys \ {k} : tree'[h][j] = tree[h][j]
        /\ \A g \in Handles \ {h} : tree'[g] = tree[g] /\ dirty'[g] = dirty[g]
    BY <1>1, <1>2 DEF TypeOK
  <1>4. \A j : SourceRow(h, j)' = SourceRow(h, j)
    BY <1>2 DEF SourceRow
  <1>5. DirtyLinked(h)'
    <2>1. \A j \in dirty[h] \ {k} : j \in Keys
      BY <1>1 DEF TypeOK
    <2>2. ASSUME NEW j \in dirty[h] \ {k}
          PROVE  tree'[h][j].prev = source'[h] \/ (tree'[h][j].prev = 0 /\ SourceRow(h, j)' = Absent)
      <3>1. tree[h][j].prev = source[h] \/ (tree[h][j].prev = 0 /\ SourceRow(h, j) = Absent)
        BY <1>1, <2>2, LinkParts DEF DirtyLinked
      <3>2. tree'[h][j] = tree[h][j]
        BY <1>3, <2>1
      <3>3. source'[h] = source[h]
        BY <1>2
      <3>4. QED
        BY <1>4, <3>1, <3>2, <3>3
    <2>3. tree'[h][k].prev = source'[h] \/ (tree'[h][k].prev = 0 /\ SourceRow(h, k)' = Absent)
      <3>1. CASE tree[h][k] = Absent
        <4>1. k \notin dirty[h]
          BY <1>1, <3>1, DirtyFacts
        <4>2. SourceRow(h, k) = Absent
          BY <1>1, <3>1, <4>1 DEF ContentOK
        <4>3. QED
          BY <1>3, <1>4, <3>1, <4>2 DEF Previous
      <3>2. CASE tree[h][k] # Absent
        <4>1. Previous(h, k) = source[h] /\ source' = source
          BY <1>2, <3>2 DEF Previous
        <4>2. QED
          BY <1>3, <4>1
      <3>3. QED
        BY <3>1, <3>2
    <2>4. QED
      BY <1>3, <2>2, <2>3 DEF DirtyLinked
  <1>6. StoreGrows /\ DOMAIN roots' \ DOMAIN roots = {}
    BY <1>2 DEF StoreGrows
  <1>7. QED
    BY <1>2, <1>3, <1>5, <1>6, LinksStay

(* Rows stay linked at every step. *)
LEMMA LinksStep ==
    ASSUME VersionInv, TypeOK', [Next]_vars
    PROVE  LinksOK'
  <1>1. TypeOK /\ RowsOK
    BY DEF VersionInv
  <1>2. ASSUME NEW h \in Handles, Commit(h)
        PROVE  LinksOK'
    <2>1. tree[h] \in [Keys -> Row] /\ dirty[h] \in SUBSET Keys /\ Save(h, tree[h], dirty[h])
      BY <1>1, <1>2 DEF TypeOK, Commit
    <2>2. QED
      BY <2>1, SaveLinks
  <1>3. ASSUME NEW h \in Handles, NEW cutoff \in Cutoffs, StartVacuum(h, cutoff)
        PROVE  LinksOK'
    <2>1. CASE \E ks \in SUBSET Keys : Save(h, Kept(h, cutoff), ks)
      <3>1. Kept(h, cutoff) \in [Keys -> Row]
            /\ \A k \in Keys : Kept(h, cutoff)[k] = tree[h][k] \/ Kept(h, cutoff)[k] = Absent
        BY <1>1, KeptFacts
      <3>2. QED
        BY <2>1, <3>1, SaveLinks
    <2>2. CASE UNCHANGED <<blobs, tree, source, dirty, cached, truth, faults>>
      <3>1. StoreGrows /\ DOMAIN roots' \ DOMAIN roots = {}
        BY <2>2 DEF StoreGrows, blobs
      <3>2. QED
        BY <2>2, <3>1, LinksStay
    <2>3. QED
      BY <1>1, <1>3, <2>1, <2>2, StartFacts
  <1>4. ASSUME NEW h \in Handles, Forget(h)
        PROVE  LinksOK'
    <2>1. /\ roots' = roots /\ dirty'[h] = {}
          /\ \A g \in Handles \ {h} :
               tree'[g] = tree[g] /\ source'[g] = source[g] /\ dirty'[g] = dirty[g]
      BY <1>1, <1>4 DEF Forget, blobs, TypeOK
    <2>2. StoreGrows /\ DOMAIN roots' \ DOMAIN roots = {} /\ DirtyLinked(h)'
      BY <2>1 DEF StoreGrows, DirtyLinked
    <2>3. QED
      BY <2>1, <2>2, LinksStay
  <1>5. CASE Quiet
    <2>1. StoreGrows /\ DOMAIN roots' \ DOMAIN roots = {}
      BY <1>5 DEF StoreGrows, Quiet
    <2>2. QED
      BY <1>5, <2>1, LinksStay DEF Quiet
  <1>6. QED
    BY <1>2, <1>3, <1>4, <1>5, OpenLinks, WriteLinks, StepKinds

-----------------------------------------------------------------------------
(* Looking up versions *)

(* Whatever is moved or deleted meanwhile, a lookup stays in order. *)
LEMMA LookupUnmoved ==
    ASSUME LookupOK, NamesMove, query' = query
    PROVE  LookupOK'
  BY DEF LookupOK, NamesMove

(* Lookups stay in order at every step. *)
LEMMA LookupStep ==
    ASSUME VersionInv, [Next]_vars
    PROVE  LookupOK'
  <1>1. TypeOK /\ RowsOK /\ NamesOK /\ LookupOK
    BY DEF VersionInv
  <1>2. query \in QueryRecord
    BY <1>1, WorkTypes
  <1>3. query.wants # <<>> => Head(query.wants) \in DOMAIN roots
    <2> SUFFICES ASSUME NEW w \in Seq(DOMAIN roots), w # <<>>
                 PROVE  Head(w) \in DOMAIN roots
      BY <1>2 DEF QueryRecord
    <2>1. QED
      BY HeadTailProperties
  <1>4. ASSUME NEW h \in Handles, HandleStep(h)
        PROVE  LookupOK'
    <2>1. NamesMove
      BY <1>1, <1>4, NamesMoveStep DEF Next
    <2>2. CASE NoteVersion(h)
      <3>1. query.stage = "idle" /\ query'.stage = query.stage /\ query'.missed = query.missed
        BY <1>2, <2>2 DEF NoteVersion, QueryRecord
      <3>2. QED
        BY <1>1, <3>1 DEF LookupOK
    <2>3. CASE ~NoteVersion(h)
      <3>1. query' = query
        BY <1>4, <2>3
        DEF HandleStep, Open, Commit, Close, Crash, Forget, Write, StartVacuum, FindMerged,
            FindCurrent, SearchStep, PlanDeletions, DeleteNode, DeleteRoot, FinishVacuum,
            VacuumFails, reading
      <3>2. QED
        BY <1>1, <2>1, <3>1, LookupUnmoved
    <2>4. QED
      BY <2>2, <2>3
  <1>5. CASE UNCHANGED vars
    <2>1. query' = query
      BY <1>5 DEF vars, reading
    <2>2. NamesMove
      BY <1>1, <1>5, NamesMoveStep
    <2>3. QED
      BY <1>1, <2>1, <2>2, LookupUnmoved
  <1>6. ASSUME ChangesStep
        PROVE  LookupOK'
    <2>1. QueryStep
      BY <1>6, QueriesOnlyRead
    <2>2. current' = current /\ merged' = merged /\ reclaimed' = reclaimed
      BY <2>1 DEF QueryStep, blobs
    <2>3. ASSUME StartChanges
          PROVE  LookupOK'
      <3>1. query'.stage = "merged" /\ query'.wants = query.wants /\ query'.missed = query.missed
            /\ query.stage = "idle" /\ Len(query.wants) = 2
        BY <1>2, <2>3 DEF StartChanges, QueryRecord
      <3>2. query.wants # <<>>
        <4>1. query.wants \in Seq(DOMAIN roots)
          BY <1>2 DEF QueryRecord
        <4>2. query.wants = <<>> => Len(query.wants) = 0
          BY <4>1, EmptySeq
        <4>3. QED
          BY <3>1, <4>2
      <3>3. QED
        BY <1>1, <3>1, <3>2 DEF LookupOK
    <2>4. ASSUME LookInMerged
          PROVE  LookupOK'
      <3>1. query.stage = "merged" /\ query.wants # <<>>
        BY <1>1, <2>4 DEF LookInMerged, LookupOK
      <3>2. CASE Head(query.wants) \in merged
        <4>1. query' = Opened(Head(query.wants))
          BY <2>4, <3>2 DEF LookInMerged
        <4>2. /\ query'.missed = 0
              /\ \/ query'.stage = "merged" /\ query'.wants # <<>>
                 \/ query'.stage \in {"found", "failed"}
          BY <1>1, <3>1, <4>1, OpenedFacts
        <4>3. QED
          BY <4>2 DEF LookupOK
      <3>3. CASE Head(query.wants) \notin merged
        <4>1. query' = [query EXCEPT !.stage = "current"]
          BY <2>4, <3>3 DEF LookInMerged
        <4>2. query'.stage = "current" /\ query'.wants = query.wants
              /\ query'.missed = query.missed
          BY <1>2, <4>1 DEF QueryRecord
        <4>3. QED
          BY <1>1, <2>2, <3>1, <3>3, <4>2 DEF LookupOK
      <3>4. QED
        BY <3>2, <3>3
    <2>5. ASSUME LookInCurrent
          PROVE  LookupOK'
      <3>1. query.stage = "current" /\ query.wants # <<>>
        BY <1>1, <2>5 DEF LookInCurrent, LookupOK
      <3>2. CASE Head(query.wants) \in current
        <4>1. query' = Opened(Head(query.wants))
          BY <2>5, <3>2 DEF LookInCurrent
        <4>2. /\ query'.missed = 0
              /\ \/ query'.stage = "merged" /\ query'.wants # <<>>
                 \/ query'.stage \in {"found", "failed"}
          BY <1>1, <3>1, <4>1, OpenedFacts
        <4>3. QED
          BY <4>2 DEF LookupOK
      <3>3. CASE Head(query.wants) \notin current
        <4>1. query' = [query EXCEPT !.stage = "missed", !.missed = @ + 1]
          BY <2>5, <3>3 DEF LookInCurrent
        <4>2. /\ query'.stage = "missed" /\ query'.wants = query.wants
              /\ query'.missed = query.missed + 1 /\ query.missed \in 0..2
          BY <1>2, <4>1 DEF QueryRecord
        <4>3. Head(query.wants) \in merged \union reclaimed
          BY <1>1, <1>3, <3>1, <3>3 DEF NamesOK
        <4>4. query.missed \in {0, 1} /\ (query.missed = 1 => Head(query.wants) \in reclaimed)
          BY <1>1, <3>1, <4>2 DEF LookupOK
        <4>5. QED
          BY <2>2, <3>1, <4>2, <4>3, <4>4 DEF LookupOK
      <3>4. QED
        BY <3>2, <3>3
    <2>6. ASSUME RetryChanges
          PROVE  LookupOK'
      <3>1. query'.stage = "merged" /\ query'.wants = query.wants /\ query'.missed = query.missed
            /\ query.stage = "missed" /\ query.missed = 1
        BY <1>2, <2>6 DEF RetryChanges, QueryRecord
      <3>2. QED
        BY <1>1, <2>2, <3>1 DEF LookupOK
    <2>7. ASSUME CloseQuery
          PROVE  LookupOK'
      BY <2>7 DEF CloseQuery, Idle, LookupOK
    <2>8. QED
      BY <1>6, <2>3, <2>4, <2>5, <2>6, <2>7 DEF ChangesStep
  <1>7. QED
    BY <1>4, <1>5, <1>6 DEF Next

-----------------------------------------------------------------------------
(* Histories *)

(* A set of versions that has a version and is closed under parents has its history. *)
LEMMA HistoryLeast ==
    ASSUME NEW n, NEW ns, NEW S, n \in ns => n \in S,
           \A c \in S \intersect ns : roots[c].parents \intersect ns \subseteq S
    PROVE  History(n, ns) \subseteq S
  <1> DEFINE T == S \intersect ns
  <1>1. T \in SUBSET ns
    OBVIOUS
  <1>2. n \in ns => n \in T
    OBVIOUS
  <1>3. \A c \in T : roots[c].parents \intersect ns \subseteq T
    OBVIOUS
  <1>4. History(n, ns) \subseteq T
    <2> HIDE DEF T
    <2>1. QED
      BY <1>1, <1>2, <1>3 DEF History
  <1>5. QED
    BY <1>4

(* A history has its version, and the parents of its versions. *)
LEMMA HistoryClosed ==
    ASSUME NEW n, NEW ns
    PROVE  /\ History(n, ns) \subseteq ns
           /\ n \in ns => n \in History(n, ns)
           /\ \A c \in History(n, ns) : roots[c].parents \intersect ns \subseteq History(n, ns)
  <1>1. History(n, ns) \subseteq ns /\ (n \in ns => n \in History(n, ns))
    BY DEF History
  <1>2. ASSUME NEW c \in History(n, ns), NEW p \in roots[c].parents \intersect ns
        PROVE  p \in History(n, ns)
    <2> SUFFICES ASSUME NEW S \in SUBSET ns, n \in ns => n \in S,
                        \A d \in S : roots[d].parents \intersect ns \subseteq S
                 PROVE  p \in S
      BY DEF History
    <2>1. c \in S
      BY DEF History
    <2>2. QED
      BY <2>1
  <1>3. QED
    BY <1>1, <1>2

(* No version, no history. *)
LEMMA NoHistory ==
    ASSUME NEW n, NEW ns, n \notin ns
    PROVE  History(n, ns) = {}
  <1> DEFINE S == {}
  <1>1. /\ n \in ns => n \in S
        /\ \A c \in S \intersect ns : roots[c].parents \intersect ns \subseteq S
    OBVIOUS
  <1>2. History(n, ns) \subseteq S
    <2> HIDE DEF S
    <2>1. QED
      BY <1>1, HistoryLeast
  <1>3. QED
    BY <1>2

(* The same of the state after a step. *)
LEMMA NoHistoryAfterwards == 0 \notin DOMAIN roots' => History(0, DOMAIN roots)' = {}
  <1> SUFFICES ASSUME 0 \notin DOMAIN roots', NEW m \in History(0, DOMAIN roots)'
               PROVE  FALSE
    OBVIOUS
  <1>1. {} \in SUBSET DOMAIN roots'
    OBVIOUS
  <1>2. \A c \in {} : roots'[c].parents \intersect DOMAIN roots' \subseteq {}
    OBVIOUS
  <1>3. m \in {}
    BY <1>1, <1>2, Zenon DEF History
  <1>4. QED
    BY <1>3

(* A version is younger than all others of its history. *)
LEMMA HistoryOlder ==
    ASSUME TypeOK, NamesOK, NEW n \in DOMAIN roots
    PROVE  \A m \in History(n, DOMAIN roots) : m <= n
  <1> DEFINE S == {m \in DOMAIN roots : m <= n}
  <1>1. n \in S
    BY RootType
  <1>2. \A c \in S : roots[c].parents \subseteq S
    <2>1. \A c \in DOMAIN roots : c \in Nat
      BY RootType
    <2>2. QED
      BY <2>1, ParentsStored DEF NamesOK
  <1>3. History(n, DOMAIN roots) \subseteq S
    <2> HIDE DEF S
    <2>1. QED
      BY <1>1, <1>2, HistoryLeast
  <1>4. QED
    BY <1>3

(* The history of a stored version does not change any more. *)
LEMMA HistoryStays ==
    ASSUME TypeOK, NamesOK, StoreGrows, NEW n \in DOMAIN roots
    PROVE  History(n, DOMAIN roots)' = History(n, DOMAIN roots)
  <1> DEFINE H == History(n, DOMAIN roots)
             G == {m \in DOMAIN roots' : \A S \in SUBSET DOMAIN roots' :
                     /\ n \in DOMAIN roots' => n \in S
                     /\ \A c \in S : roots'[c].parents \intersect DOMAIN roots' \subseteq S
                     => m \in S}
  <1>1. History(n, DOMAIN roots)' = G
    BY DEF History
  <1>2. /\ H \subseteq DOMAIN roots /\ n \in H
        /\ \A c \in H : roots[c].parents \intersect DOMAIN roots \subseteq H
    BY HistoryClosed
  <1>3. \A c \in H : roots'[c].parents = roots[c].parents /\ roots[c].parents \subseteq H
    BY <1>2, ParentsStored DEF StoreGrows
  <1>4. H \in SUBSET DOMAIN roots'
    BY <1>2 DEF StoreGrows
  <1>5. G \subseteq H
    <2> HIDE DEF H
    <2>1. QED
      BY <1>2, <1>3, <1>4
  <1>6. H \subseteq G
    <2> SUFFICES ASSUME NEW S \in SUBSET DOMAIN roots', n \in DOMAIN roots' => n \in S,
                        \A c \in S : roots'[c].parents \intersect DOMAIN roots' \subseteq S
                 PROVE  H \subseteq S
      BY <1>4
    <2>1. n \in S
      BY DEF StoreGrows
    <2>2. \A c \in S \intersect DOMAIN roots : roots[c].parents \intersect DOMAIN roots \subseteq S
      BY DEF StoreGrows
    <2>3. QED
      BY <2>1, <2>2, HistoryLeast
  <1>7. QED
    BY <1>1, <1>5, <1>6

(* A cutoff that was given stays given. *)
LEMMA PastCutoffStays ==
    ASSUME TypeOK, StoreGrows, NEW n \in DOMAIN roots, PastCutoff(n),
           vacuums' = vacuums \/ \E c \in Cutoffs : vacuums' = Append(vacuums, c)
    PROVE  PastCutoff(n)'
  <1>1. PICK i \in DOMAIN vacuums : roots[n].created <= vacuums[i]
    BY DEF PastCutoff
  <1>2. i \in DOMAIN vacuums' /\ vacuums'[i] = vacuums[i]
    <2>1. vacuums \in Seq(Cutoffs)
      BY DEF TypeOK
    <2>2. QED
      BY <2>1
  <1>3. QED
    BY <1>1, <1>2 DEF PastCutoff, StoreGrows


(* The history of a version, or of none, is settled. *)
LEMMA LineStays ==
    ASSUME TypeOK, NamesOK, TypeOK', StoreGrows
    PROVE  \A s \in DOMAIN roots \union {0} : History(s, DOMAIN roots)' = History(s, DOMAIN roots)
  <1>1. 0 \notin DOMAIN roots /\ 0 \notin DOMAIN roots'
    <2>1. roots \in Seq(RootRecord) /\ roots' \in Seq(RootRecord)
      BY DEF TypeOK
    <2>2. QED
      BY <2>1
  <1>2. History(0, DOMAIN roots) = {} /\ History(0, DOMAIN roots)' = {}
    BY <1>1, NoHistory, NoHistoryAfterwards
  <1>3. \A s \in DOMAIN roots : History(s, DOMAIN roots)' = History(s, DOMAIN roots)
    BY HistoryStays
  <1>4. QED
    BY <1>2, <1>3
-----------------------------------------------------------------------------
(* Searching the history of a version *)

(* A handle that does not vacuum searches nothing. *)
LEMMA NoSearchIsOK ==
    ASSUME NEW g \in Handles, pc'[g] \in {"closed", "open"}, search'[g] = NoSearch
    PROVE  SearchOK(g)'
  <1>1. search'[g].at = 0 /\ search'[g].found = {} /\ search'[g].todo = {}
    BY DEF NoSearch
  <1>2. QED
    BY <1>1 DEF SearchOK

(* Versions that were moved or deleted before a search found them stay so. *)
LEMMA SearchStays ==
    ASSUME TypeOK, NamesOK, TypeOK', StoreGrows, NamesMove, NEW g \in Handles, SearchOK(g),
           search'[g] = search[g], source'[g] = source[g],
           \/ pc'[g] = pc[g]
           \/ pc[g] = "vacuum" /\ pc'[g] = "deleting" /\ search[g].todo = {}
    PROVE  SearchOK(g)'
  <1>1. source[g] \in DOMAIN roots \union {0} /\ search[g].found \subseteq DOMAIN roots
    <2>1. search[g] \in Searches /\ source[g] \in DOMAIN roots \union {0}
      BY WorkTypes DEF TypeOK
    <2>2. QED
      BY <2>1 DEF Searches
  <1>2. \A s : s = source[g] => History(s, DOMAIN roots)' = History(s, DOMAIN roots)
    BY <1>1, LineStays
  <1>3. Unfound(g)' = Unfound(g)
    <2>1. \A c \in search[g].found : roots'[c] = roots[c]
      BY <1>1 DEF StoreGrows
    <2>2. QED
      BY <2>1 DEF Unfound
  <1>4. Unfound(g)' \subseteq search[g].todo \union merged' \union reclaimed'
        \/ pc'[g] \notin {"vacuum", "deleting"}
    BY <1>3 DEF SearchOK, NamesMove
  <1>5. search'[g].found \union search'[g].todo \subseteq History(source[g], DOMAIN roots)
    BY DEF SearchOK
  <1>6. QED
    BY <1>2, <1>4, <1>5 DEF SearchOK

(* One lookup finds a version and its parents, or misses one that is not there. *)
LEMMA SearchGoesOn ==
    ASSUME TypeOK, NamesOK, NEW h \in Handles, SearchOK(h), Searching(h)
    PROVE  SearchOK(h)'
  <1> DEFINE s == source[h]
             H == History(s, DOMAIN roots)
             v == search[h]
  <1>1. /\ pc[h] = "vacuum" /\ pc' = pc /\ roots' = roots /\ source' = source
        /\ merged' = merged /\ current' = current /\ reclaimed' = reclaimed
    BY SearchingReads DEF SearchStep, blobs, content
  <1>2. /\ v \in Searches /\ search \in [Handles -> Searches]
        /\ v.found \subseteq DOMAIN roots /\ v.todo \subseteq DOMAIN roots
    <2>1. v \in Searches /\ search \in [Handles -> Searches]
      BY WorkTypes
    <2>2. QED
      BY <2>1 DEF Searches
  <1>3. /\ v.at # 0 => v.at \in v.todo
        /\ v.found \union v.todo \subseteq H
        /\ Unfound(h) \subseteq v.todo \union merged \union reclaimed
    BY <1>1 DEF SearchOK
  <1>4. H \subseteq DOMAIN roots /\ \A c \in H : roots[c].parents \subseteq H
    BY HistoryClosed, ParentsStored
  <1>5. ASSUME NEW f, NEW d, NEW a, f \union d \subseteq H, a # 0 => a \in d,
               search'[h] = [found |-> f, todo |-> d, at |-> a],
               ({s} \union UNION {roots[c].parents : c \in f}) \ ({0} \union f)
                 \subseteq d \union merged \union reclaimed
        PROVE  SearchOK(h)'
    <2>1. search'[h].found = f /\ search'[h].todo = d /\ search'[h].at = a
      BY <1>5
    <2>2. Unfound(h)' = ({s} \union UNION {roots[c].parents : c \in f}) \ ({0} \union f)
      BY <1>1, <2>1 DEF Unfound
    <2>3. \A m : m = s => History(m, DOMAIN roots)' = History(m, DOMAIN roots)
      BY <1>1 DEF History
    <2>4. QED
      BY <1>1, <1>5, <2>1, <2>2, <2>3 DEF SearchOK
  <1>6. ASSUME NEW n \in v.todo, FoundVersion(h, n)
        PROVE  SearchOK(h)'
    <2> DEFINE f == v.found \union {n}
               d == (v.todo \union (roots[n].parents \ v.found)) \ {n}
    <2>1. search'[h] = [found |-> f, todo |-> d, at |-> 0]
      BY <1>2, <1>6 DEF FoundVersion
    <2>2. f \union d \subseteq H
      BY <1>3, <1>4
    <2>3. ({s} \union UNION {roots[c].parents : c \in f}) \ ({0} \union f)
            \subseteq d \union merged \union reclaimed
      BY <1>3 DEF Unfound
    <2>4. QED
      <3> HIDE DEF f, d, H
      <3>1. QED
        BY <1>5, <2>1, <2>2, <2>3
  <1>7. ASSUME NEW n \in v.todo, FindMerged(h, n)
        PROVE  SearchOK(h)'
    <2>1. CASE n \in merged
      BY <1>6, <1>7, <2>1 DEF FindMerged
    <2>2. CASE n \notin merged
      <3>1. search' = [search EXCEPT ![h].at = n]
        BY <1>7, <2>2 DEF FindMerged
      <3>2. search'[h] = [found |-> v.found, todo |-> v.todo, at |-> n]
        BY <1>2, <3>1 DEF Searches
      <3>3. QED
        <4> HIDE DEF H
        <4>1. QED
          BY <1>3, <1>5, <3>2 DEF Unfound
    <2>3. QED
      BY <2>1, <2>2
  <1>8. ASSUME FindCurrent(h)
        PROVE  SearchOK(h)'
    <2>1. v.at \in v.todo
      BY <1>3, <1>8 DEF FindCurrent
    <2>2. CASE v.at \in current
      BY <1>6, <1>8, <2>1, <2>2 DEF FindCurrent
    <2>3. CASE v.at \notin current
      <3>1. search' = [search EXCEPT ![h].todo = @ \ {v.at}, ![h].at = 0]
        BY <1>8, <2>3 DEF FindCurrent
      <3>2. search'[h] = [found |-> v.found, todo |-> v.todo \ {v.at}, at |-> 0]
        BY <1>2, <3>1 DEF Searches
      <3>3. v.at \in merged \union reclaimed
        BY <1>2, <2>1, <2>3 DEF NamesOK
      <3>4. Unfound(h) \subseteq (v.todo \ {v.at}) \union merged \union reclaimed
        BY <1>3, <3>3
      <3>5. QED
        <4> HIDE DEF H
        <4>1. QED
          BY <1>3, <1>5, <3>2, <3>4 DEF Unfound
    <2>4. QED
      BY <2>2, <2>3
  <1>9. QED
    BY <1>7, <1>8 DEF Searching

(* Searches stay in order at every step. *)
LEMMA SearchesStep ==
    ASSUME VersionInv, TypeOK', [Next]_vars
    PROVE  \A g \in Handles : SearchOK(g)'
  <1>1. TypeOK /\ RowsOK /\ NamesOK /\ \A g \in Handles : SearchOK(g)
    BY DEF VersionInv
  <1>2. StoreGrows /\ NamesMove
    BY <1>1, StoreStep, NamesMoveStep
  <1>3. ASSUME NEW h \in Handles, SearchOK(h)',
               \A g \in Handles \ {h} : /\ pc'[g] = pc[g] /\ search'[g] = search[g]
                                        /\ source'[g] = source[g]
        PROVE  \A g \in Handles : SearchOK(g)'
    <2>1. ASSUME NEW g \in Handles, g # h
          PROVE  SearchOK(g)'
      BY <1>1, <1>2, <1>3, <2>1, SearchStays
    <2>2. QED
      BY <1>3, <2>1
  <1>4. ASSUME pc' = pc, search' = search, source' = source
        PROVE  \A g \in Handles : SearchOK(g)'
    BY <1>1, <1>2, <1>4, SearchStays
  <1>5. ASSUME NEW h \in Handles, pc[h] \in {"closed", "open"}
        PROVE  search[h] = NoSearch
    BY <1>1, <1>5 DEF SearchOK
  <1>6. ASSUME NEW h \in Handles, Open(h)
        PROVE  \A g \in Handles : SearchOK(g)'
    <2>1. pc[h] = "closed" /\ pc' = [pc EXCEPT ![h] = "open"] /\ search' = search
      BY <1>6 DEF Open, work
    <2>2. \A g \in Handles \ {h} : source'[g] = source[g]
      BY <1>1, <1>6, OpenFacts DEF Published
    <2>3. pc'[h] = "open" /\ \A g \in Handles \ {h} : pc'[g] = pc[g]
      BY <1>1, <2>1 DEF TypeOK
    <2>4. SearchOK(h)'
      BY <1>5, <2>1, <2>3, NoSearchIsOK
    <2>5. QED
      BY <1>3, <2>1, <2>2, <2>3, <2>4
  <1>7. ASSUME NEW h \in Handles, Commit(h)
        PROVE  \A g \in Handles : SearchOK(g)'
    <2>1. pc[h] = "open" /\ pc' = pc /\ search' = search
      BY <1>7 DEF Commit, work
    <2>2. \A g \in Handles \ {h} : source'[g] = source[g]
      <3>1. tree[h] \in [Keys -> Row] /\ dirty[h] \in SUBSET Keys /\ Save(h, tree[h], dirty[h])
        BY <1>1, <1>7 DEF TypeOK, Commit
      <3>2. Published(h, tree[h], {source[h]} \ {0}, created[h])
        BY <1>1, <3>1, SaveFacts
      <3>3. QED
        BY <3>2 DEF Published
    <2>3. SearchOK(h)'
      BY <1>5, <2>1, NoSearchIsOK
    <2>4. QED
      BY <1>3, <2>1, <2>2, <2>3
  <1>8. ASSUME NEW h \in Handles, Forget(h)
        PROVE  \A g \in Handles : SearchOK(g)'
    <2>1. /\ pc'[h] = "closed" /\ search'[h] = NoSearch
          /\ \A g \in Handles \ {h} : /\ pc'[g] = pc[g] /\ search'[g] = search[g]
                                      /\ source'[g] = source[g]
      BY <1>1, <1>8 DEF Forget, TypeOK
    <2>2. QED
      BY <1>3, <2>1, NoSearchIsOK
  <1>9. ASSUME NEW h \in Handles, NEW cutoff \in Cutoffs, StartVacuum(h, cutoff)
        PROVE  \A g \in Handles : SearchOK(g)'
    <2>1. /\ pc' = [pc EXCEPT ![h] = "vacuum"]
          /\ search' = [search EXCEPT ![h] = [NoSearch EXCEPT !.todo = {source'[h]} \ {0}]]
      BY <1>1, <1>9, StartFacts
    <2>2. \A g \in Handles \ {h} : source'[g] = source[g]
      BY <1>1, <1>9, StartSaves DEF Published
    <2>3. /\ pc'[h] = "vacuum" /\ \A g \in Handles \ {h} : pc'[g] = pc[g] /\ search'[g] = search[g]
          /\ search'[h].found = {} /\ search'[h].todo = {source'[h]} \ {0} /\ search'[h].at = 0
      BY <1>1, <2>1 DEF TypeOK, NoSearch
    <2>4. Unfound(h)' \subseteq search'[h].todo
      BY <2>3 DEF Unfound
    <2>5. \A s \in DOMAIN roots' : s \in History(s, DOMAIN roots)'
      BY DEF History
    <2>6. source'[h] \in DOMAIN roots' \union {0}
      BY DEF TypeOK
    <2>7. SearchOK(h)'
      BY <2>3, <2>4, <2>5, <2>6 DEF SearchOK
    <2>8. QED
      BY <1>3, <2>2, <2>3, <2>7
  <1>10. ASSUME NEW h \in Handles, Searching(h)
         PROVE  \A g \in Handles : SearchOK(g)'
    <2>1. pc' = pc /\ source' = source
      BY <1>10, SearchingReads DEF SearchStep, content
    <2>2. \A g \in Handles \ {h} : search'[g] = search[g]
      BY <1>1, <1>10 DEF Searching, FindMerged, FindCurrent, FoundVersion, TypeOK
    <2>3. SearchOK(h)'
      BY <1>1, <1>10, SearchGoesOn
    <2>4. QED
      BY <1>3, <2>1, <2>2, <2>3
  <1>11. ASSUME NEW h \in Handles, PlanDeletions(h)
         PROVE  \A g \in Handles : SearchOK(g)'
    <2>1. /\ pc[h] = "vacuum" /\ search[h].todo = {} /\ pc' = [pc EXCEPT ![h] = "deleting"]
          /\ source' = source /\ search' = search
      BY <1>11 DEF PlanDeletions
    <2>2. pc'[h] = "deleting" /\ \A g \in Handles \ {h} : pc'[g] = pc[g]
      BY <1>1, <2>1 DEF TypeOK
    <2>3. SearchOK(h)'
      BY <1>1, <1>2, <2>1, <2>2, SearchStays
    <2>4. QED
      BY <1>3, <2>1, <2>2, <2>3
  <1>12. ASSUME NEW h \in Handles, FinishVacuum(h) \/ VacuumFails(h)
         PROVE  \A g \in Handles : SearchOK(g)'
    <2>1. /\ pc' = [pc EXCEPT ![h] = "open"] /\ search' = [search EXCEPT ![h] = NoSearch]
          /\ source' = source
      BY <1>12 DEF FinishVacuum, VacuumFails, content
    <2>2. /\ pc'[h] = "open" /\ search'[h] = NoSearch
          /\ \A g \in Handles \ {h} : pc'[g] = pc[g] /\ search'[g] = search[g]
      BY <1>1, <2>1 DEF TypeOK
    <2>3. QED
      BY <1>3, <2>1, <2>2, NoSearchIsOK
  <1>13. ASSUME \/ \E h \in Handles :
                     \/ \E k \in Keys, deleted \in BOOLEAN : Write(h, k, deleted)
                     \/ \E x \in doomed[h].nodes : DeleteNode(h, x)
                     \/ \E n \in doomed[h].roots : DeleteRoot(h, n)
                     \/ NoteVersion(h)
                \/ ChangesStep \/ UNCHANGED vars
         PROVE  \A g \in Handles : SearchOK(g)'
    <2>1. pc' = pc /\ search' = search /\ source' = source
      BY <1>13, QueriesOnlyRead
      DEF Write, DeleteNode, DeleteRoot, NoteVersion, QueryStep, work, content
    <2>2. QED
      BY <1>4, <2>1
  <1>14. QED
    BY <1>6, <1>7, <1>8, <1>9, <1>10, <1>11, <1>12, <1>13
    DEF Next, HandleStep, Close, Crash, Searching

-----------------------------------------------------------------------------
(* The age of what is deleted *)

(* What an old version was made from is old as well. *)
LEMMA PastHistory ==
    ASSUME TypeOK, NamesOK, NEW n \in DOMAIN roots, PastCutoff(n)
    PROVE  \A m \in History(n, DOMAIN roots) : PastCutoff(m)
  <1> DEFINE S == {c \in DOMAIN roots : PastCutoff(c)}
  <1>1. ASSUME NEW c \in DOMAIN roots, PastCutoff(c), NEW p \in roots[c].parents
        PROVE  p \in DOMAIN roots /\ PastCutoff(p)
    <2>1. PICK i \in DOMAIN vacuums : roots[c].created <= vacuums[i]
      BY <1>1 DEF PastCutoff
    <2>2. p \in DOMAIN roots /\ roots[p].created <= roots[c].created
      BY <1>1, ParentsStored DEF NamesOK
    <2>3. vacuums[i] \in Nat
      <3>1. vacuums \in Seq(Cutoffs)
        BY DEF TypeOK
      <3>2. vacuums[i] \in Cutoffs
        BY <3>1
      <3>3. QED
        BY <3>2, BoundsAre
    <2>4. roots[p].created \in Nat /\ roots[c].created \in Nat
      BY <2>2, RootType
    <2>5. QED
      BY <2>1, <2>2, <2>3, <2>4 DEF PastCutoff
  <1>2. n \in S /\ \A c \in S : roots[c].parents \subseteq S
    BY <1>1
  <1>3. History(n, DOMAIN roots) \subseteq S
    <2> HIDE DEF S
    <2>1. QED
      BY <1>2, HistoryLeast
  <1>4. QED
    BY <1>3

(* The children of n in the history of a handle's version are past a cutoff, or not seen. *)
LEMMA PastChildren ==
    ASSUME NEW h, NEW n
    PROVE  /\ ChildrenPast(h, n) <=>
                \A c \in History(source[h], DOMAIN roots) :
                    n \in roots[c].parents => PastCutoff(c) \/ BehindMoved(h, c)
           /\ ChildrenPast(h, n)' <=>
                \A c \in History(source[h], DOMAIN roots)' :
                    n \in roots'[c].parents => PastCutoff(c)' \/ BehindMoved(h, c)'
  <1>1. /\ History(source[h], DOMAIN roots) \subseteq DOMAIN roots
        /\ History(source[h], DOMAIN roots)' \subseteq DOMAIN roots'
    BY DEF History
  <1>2. QED
    BY <1>1 DEF ChildrenPast

(* What leads to a version that was missed is still so, or it is old by now. *)
LEMMA BehindStays ==
    ASSUME TypeOK, NamesOK, TypeOK', StoreGrows, NEW h \in Handles,
           source'[h] = source[h], search'[h] = search[h],
           \A d \in merged \ merged' : PastCutoff(d),
           NEW c, BehindMoved(h, c)
    PROVE  PastCutoff(c) \/ BehindMoved(h, c)'
  <1>1. PICK d \in Unfound(h) \intersect merged : c \in History(d, DOMAIN roots)
    BY DEF BehindMoved
  <1>2. d \in DOMAIN roots
    BY <1>1 DEF TypeOK
  <1>3. CASE d \in merged'
    <2>1. search[h].found \subseteq DOMAIN roots
      <3>1. search[h] \in Searches
        BY WorkTypes
      <3>2. QED
        BY <3>1 DEF Searches
    <2>2. \A b \in search[h].found : roots'[b] = roots[b]
      BY <2>1 DEF StoreGrows
    <2>3. Unfound(h)' = Unfound(h)
      BY <2>2 DEF Unfound
    <2>4. c \in History(d, DOMAIN roots)'
      BY <1>1, <1>2, HistoryStays
    <2>5. QED
      BY <1>1, <1>3, <2>3, <2>4 DEF BehindMoved
  <1>4. CASE d \notin merged'
    BY <1>1, <1>2, <1>4, PastHistory
  <1>5. QED
    BY <1>3, <1>4

(* The part of AgeOK that is about one handle. *)
AgeOf(h) ==
    /\ pc[h] \in {"vacuum", "deleting"} => \E i \in DOMAIN vacuums : vacuums[i] = before[h]
    /\ pc[h] # "deleting" => doomed[h] = NoWork
    /\ \A n \in doomed[h].roots : roots[n].created <= before[h] /\ ChildrenPast(h, n)

(* Those parts and the age of what was deleted make up the whole. *)
LEMMA AgeParts ==
    AgeOK <=> (\A n \in reclaimed : PastCutoff(n)) /\ \A h \in Handles : AgeOf(h)
  BY DEF AgeOK, AgeOf

(* The same of the state after a step. *)
LEMMA AgePartsAfterwards ==
    AgeOK' <=> (\A n \in reclaimed' : PastCutoff(n)') /\ \A h \in Handles : AgeOf(h)'
  BY DEF AgeOK, AgeOf

(* What is true of vacuums at every step. *)
VacuumsGrow == vacuums' = vacuums \/ \E c \in Cutoffs : vacuums' = Append(vacuums, c)

(* Cutoffs given stay given, and a child that was past a cutoff stays so. *)
LEMMA ChildrenStayPast ==
    ASSUME TypeOK, NamesOK, TypeOK', StoreGrows, VacuumsGrow, NEW h \in Handles, NEW n,
           source'[h] = source[h], search'[h] = search[h],
           \A d \in merged \ merged' : PastCutoff(d), ChildrenPast(h, n)
    PROVE  ChildrenPast(h, n)'
  <1>1. CASE source[h] = 0
    <2>1. 0 \notin DOMAIN roots'
      <3>1. roots' \in Seq(RootRecord)
        BY DEF TypeOK
      <3>2. QED
        BY <3>1
    <2>2. History(0, DOMAIN roots)' = {}
      BY <2>1, NoHistoryAfterwards
    <2>3. QED
      BY <1>1, <2>2, PastChildren
  <1>2. CASE source[h] # 0
    <2>1. source[h] \in DOMAIN roots
      BY <1>2 DEF TypeOK
    <2> DEFINE s == source[h]
               H == History(s, DOMAIN roots)
    <2>2. ASSUME NEW m \in DOMAIN roots
          PROVE  History(m, DOMAIN roots)' = History(m, DOMAIN roots)
      BY HistoryStays
    <2>3. H \subseteq DOMAIN roots
      BY HistoryClosed
    <2>4. ASSUME NEW c \in H, n \in roots'[c].parents
          PROVE  PastCutoff(c)' \/ BehindMoved(h, c)'
      <3>1. c \in DOMAIN roots /\ n \in roots[c].parents
        BY <2>3, <2>4 DEF StoreGrows
      <3>2. PastCutoff(c) \/ BehindMoved(h, c)
        BY <2>4, <3>1, PastChildren
      <3>3. PastCutoff(c) \/ BehindMoved(h, c)'
        BY <3>2, BehindStays
      <3>4. QED
        BY <3>1, <3>3, PastCutoffStays DEF VacuumsGrow
    <2>5. \A m : m = s => (\A c \in History(m, DOMAIN roots)' :
                              n \in roots'[c].parents => PastCutoff(c)' \/ BehindMoved(h, c)')
      BY <2>1, <2>2, <2>4
    <2>6. QED
      BY <2>5, PastChildren
  <1>3. QED
    BY <1>1, <1>2

(***************************************************************************)
(* What loadRootGraph does not find was deleted, so it is old, and so is   *)
(* all it was made from; or it is being moved, and nothing behind it is    *)
(* seen.  The versions found, the old ones and these together are closed   *)
(* under parents, and have all of the handle's history.                    *)
(***************************************************************************)
LEMMA PlannedAge ==
    ASSUME TypeOK, NamesOK, \A n \in reclaimed : PastCutoff(n), NEW h \in Handles,
           pc[h] = "vacuum", SearchOK(h), search[h].todo = {},
           \E i \in DOMAIN vacuums : vacuums[i] = before[h],
           NEW n \in Deletable(search[h].found, before[h])
    PROVE  roots[n].created <= before[h] /\ ChildrenPast(h, n)
  <1> DEFINE found == search[h].found
             S == found \union {c \in DOMAIN roots : PastCutoff(c) \/ BehindMoved(h, c)}
  <1>1. /\ n \in DOMAIN roots /\ found \subseteq DOMAIN roots
        /\ \E c \in found : n \in roots[c].parents
        /\ \A c \in found : n \in roots[c].parents => roots[c].created <= before[h]
    <2>1. found \subseteq DOMAIN roots
      <3>1. search[h] \in Searches
        BY WorkTypes
      <3>2. QED
        BY <3>1 DEF Searches
    <2>2. QED
      BY <2>1 DEF Deletable, Children
  <1>2. before[h] \in Nat
    BY DEF TypeOK
  <1>3. roots[n].created <= before[h]
    <2>1. PICK c \in found : n \in roots[c].parents
      BY <1>1
    <2>2. roots[n].created <= roots[c].created /\ roots[c].created <= before[h]
      BY <1>1, <2>1 DEF NamesOK
    <2>3. roots[n].created \in Nat /\ roots[c].created \in Nat
      BY <1>1, RootType
    <2>4. QED
      BY <1>2, <2>2, <2>3
  <1>4. ASSUME NEW c \in DOMAIN roots, c \in Unfound(h)
        PROVE  PastCutoff(c) \/ BehindMoved(h, c)
    <2>1. c \in merged \union reclaimed
      BY <1>4 DEF SearchOK
    <2>2. c \in History(c, DOMAIN roots)
      BY HistoryClosed
    <2>3. QED
      BY <1>4, <2>1, <2>2 DEF BehindMoved
  <1>5. source[h] \in DOMAIN roots => source[h] \in S
    <2>1. 0 \notin DOMAIN roots
      BY RootType
    <2>2. source[h] \in DOMAIN roots => source[h] \in found \/ source[h] \in Unfound(h)
      BY <2>1 DEF Unfound
    <2>3. QED
      BY <1>4, <2>2
  <1>6. ASSUME NEW c \in S, NEW p \in roots[c].parents
        PROVE  p \in S
    <2>1. c \in DOMAIN roots /\ p \in DOMAIN roots /\ p # 0
      BY <1>1, ParentsStored, RootType
    <2>2. CASE PastCutoff(c)
      <3>1. p \in History(c, DOMAIN roots)
        BY <2>1, HistoryClosed
      <3>2. QED
        BY <2>1, <2>2, <3>1, PastHistory
    <2>3. CASE BehindMoved(h, c)
      <3>1. PICK d \in Unfound(h) \intersect merged : c \in History(d, DOMAIN roots)
        BY <2>3 DEF BehindMoved
      <3>2. p \in History(d, DOMAIN roots)
        BY <2>1, <3>1, HistoryClosed
      <3>3. QED
        BY <2>1, <3>1, <3>2 DEF BehindMoved
    <2>4. CASE c \in found
      <3>1. p \in found \/ p \in Unfound(h)
        BY <2>1, <2>4 DEF Unfound
      <3>2. QED
        BY <1>4, <2>1, <3>1
    <2>5. QED
      BY <2>2, <2>3, <2>4
  <1>7. History(source[h], DOMAIN roots) \subseteq S
    <2>1. \A c \in S \intersect DOMAIN roots :
            roots[c].parents \intersect DOMAIN roots \subseteq S
      BY <1>6
    <2>2. source[h] \in DOMAIN roots => source[h] \in S
      BY <1>5
    <2> HIDE DEF S
    <2>3. \A s : (s \in DOMAIN roots => s \in S) => History(s, DOMAIN roots) \subseteq S
      BY <2>1, HistoryLeast
    <2>4. QED
      BY <2>2, <2>3
  <1>8. ASSUME NEW c \in found, n \in roots[c].parents
        PROVE  PastCutoff(c)
    BY <1>1, <1>8 DEF PastCutoff
  <1>9. ChildrenPast(h, n)
    BY <1>7, <1>8, PastChildren
  <1>10. QED
    BY <1>3, <1>9

(* A handle whose vacuum does not go on keeps its part of AgeOK. *)
LEMMA AgeOfOthers ==
    ASSUME TypeOK, NamesOK, TypeOK', StoreGrows, VacuumsGrow, NEW h \in Handles, AgeOf(h),
           pc'[h] = pc[h], before'[h] = before[h], source'[h] = source[h],
           search'[h] = search[h], \A d \in merged \ merged' : PastCutoff(d),
           doomed'[h].roots \subseteq doomed[h].roots,
           pc[h] # "deleting" => doomed'[h] = doomed[h]
    PROVE  AgeOf(h)'
  <1>1. pc'[h] \in {"vacuum", "deleting"} => \E i \in DOMAIN vacuums' : vacuums'[i] = before'[h]
    <2>1. vacuums \in Seq(Cutoffs)
      BY DEF TypeOK
    <2>2. \A i \in DOMAIN vacuums : i \in DOMAIN vacuums' /\ vacuums'[i] = vacuums[i]
      BY <2>1 DEF VacuumsGrow
    <2>3. QED
      BY <2>2 DEF AgeOf
  <1>2. pc'[h] # "deleting" => doomed'[h] = NoWork
    BY DEF AgeOf
  <1>3. ASSUME NEW n \in doomed'[h].roots
        PROVE  roots'[n].created <= before'[h] /\ ChildrenPast(h, n)'
    <2>1. n \in doomed[h].roots /\ n \in DOMAIN roots
      <3>1. doomed[h] \in Deletions
        BY WorkTypes
      <3>2. QED
        BY <3>1 DEF Deletions
    <2>2. roots'[n].created <= before'[h]
      BY <2>1 DEF AgeOf, StoreGrows
    <2>3. ChildrenPast(h, n)'
      BY <2>1, ChildrenStayPast DEF AgeOf
    <2>4. QED
      BY <2>2, <2>3
  <1>4. QED
    BY <1>1, <1>2, <1>3 DEF AgeOf

(* A handle that does not vacuum has nothing to delete. *)
LEMMA AgeOfReady ==
    ASSUME NEW h \in Handles, pc'[h] \in {"closed", "open"}, doomed'[h] = NoWork
    PROVE  AgeOf(h)'
  BY DEF AgeOf, NoWork

(* Cutoffs are only added. *)
LEMMA VacuumsStep ==
    ASSUME [Next]_vars
    PROVE  VacuumsGrow
  <1>1. CASE ChangesStep \/ UNCHANGED vars
    <2>1. vacuums' = vacuums
      BY <1>1, QueriesOnlyRead DEF QueryStep
    <2>2. QED
      BY <2>1 DEF VacuumsGrow
  <1>2. ASSUME NEW h \in Handles, HandleStep(h)
        PROVE  VacuumsGrow
    <2>1. CASE \E cutoff \in Cutoffs : StartVacuum(h, cutoff)
      BY <2>1 DEF StartVacuum, VacuumsGrow
    <2>2. CASE ~\E cutoff \in Cutoffs : StartVacuum(h, cutoff)
      <3>1. vacuums' = vacuums
        BY <1>2, <2>2
        DEF HandleStep, Open, Commit, Close, Crash, Forget, Write, FindMerged, FindCurrent,
            SearchStep, PlanDeletions, DeleteNode, DeleteRoot, FinishVacuum, VacuumFails,
            NoteVersion, QueryStep
      <3>2. QED
        BY <3>1 DEF VacuumsGrow
    <2>3. QED
      BY <2>1, <2>2
  <1>3. QED
    BY <1>1, <1>2 DEF Next

(* Versions are deleted by DeleteRoot, and by FinishVacuum the handle's own. *)
LEMMA DeletionsAre ==
    ASSUME [Next]_vars, reclaimed' # reclaimed \/ ~(merged \subseteq merged')
    PROVE  \E h \in Handles : \/ FinishVacuum(h)
                              \/ \E n \in doomed[h].roots : DeleteRoot(h, n)
  <1>1. ASSUME ChangesStep \/ UNCHANGED vars
        PROVE  reclaimed' = reclaimed /\ merged' = merged
    BY <1>1, QueriesOnlyRead DEF QueryStep, blobs
  <1>2. ASSUME NEW h \in Handles,
               \/ Open(h) \/ Commit(h) \/ Forget(h) \/ Searching(h)
               \/ \E k \in Keys, deleted \in BOOLEAN : Write(h, k, deleted)
               \/ \E cutoff \in Cutoffs : StartVacuum(h, cutoff)
               \/ PlanDeletions(h) \/ VacuumFails(h) \/ NoteVersion(h)
               \/ \E x \in doomed[h].nodes : DeleteNode(h, x)
        PROVE  reclaimed' = reclaimed /\ merged \subseteq merged'
    BY <1>2, SearchingReads
    DEF Open, Commit, Save, Publish, Forget, SearchStep, Write, StartVacuum, PlanDeletions,
        DeleteNode, VacuumFails, NoteVersion, QueryStep, blobs
  <1>3. QED
    BY <1>1, <1>2 DEF Next, HandleStep, Close, Crash, Searching

(* What is deleted is as old as a cutoff. *)
LEMMA ReclaimedAreOld ==
    ASSUME VersionInv, [Next]_vars
    PROVE  /\ \A n \in reclaimed' : n \in DOMAIN roots /\ PastCutoff(n)
           /\ \A n \in merged \ merged' : n \in DOMAIN roots /\ PastCutoff(n)
  <1>1. TypeOK /\ RowsOK /\ NamesOK /\ AgeOK
    BY DEF VersionInv
  <1>2. reclaimed \subseteq DOMAIN roots /\ \A n \in reclaimed : PastCutoff(n)
    BY <1>1 DEF TypeOK, AgeOK
  <1>3. ASSUME NEW h \in Handles, pc[h] = "deleting"
        PROVE  \E i \in DOMAIN vacuums : vacuums[i] = before[h]
    BY <1>1, <1>3 DEF AgeOK
  <1>4. ASSUME NEW h \in Handles, NEW n \in doomed[h].roots, DeleteRoot(h, n)
        PROVE  n \in DOMAIN roots /\ PastCutoff(n)
    <2>1. doomed[h] \in Deletions
      BY <1>1, WorkTypes
    <2>2. n \in DOMAIN roots /\ roots[n].created <= before[h] /\ pc[h] = "deleting"
      BY <1>1, <1>4, <2>1 DEF Deletions, AgeOK, DeleteRoot
    <2>3. QED
      BY <1>3, <2>2 DEF PastCutoff
  <1>5. ASSUME NEW h \in Handles, FinishVacuum(h), NEW n \in Superfluous(h)
        PROVE  n \in DOMAIN roots /\ PastCutoff(n)
    <2>1. n \in DOMAIN roots /\ roots[n].created < before[h]
      BY <1>1 DEF Superfluous, TypeOK
    <2>2. roots[n].created \in Nat /\ before[h] \in Nat
      BY <1>1, <2>1, RootType DEF TypeOK
    <2>3. PICK i \in DOMAIN vacuums : vacuums[i] = before[h]
      BY <1>3, <1>5 DEF FinishVacuum
    <2>4. QED
      BY <2>1, <2>2, <2>3 DEF PastCutoff
  <1>6. ASSUME NEW n \in reclaimed'
        PROVE  n \in DOMAIN roots /\ PastCutoff(n)
    <2>1. CASE n \in reclaimed
      BY <1>2, <2>1
    <2>2. CASE n \notin reclaimed
      <3>1. reclaimed' # reclaimed
        BY <1>6, <2>2
      <3>2. PICK h \in Handles : \/ FinishVacuum(h)
                                 \/ \E m \in doomed[h].roots : DeleteRoot(h, m)
        BY <3>1, DeletionsAre
      <3>3. CASE FinishVacuum(h)
        BY <1>5, <1>6, <2>2, <3>3 DEF FinishVacuum
      <3>4. CASE \E m \in doomed[h].roots : DeleteRoot(h, m)
        BY <1>4, <1>6, <2>2, <3>4 DEF DeleteRoot
      <3>5. QED
        BY <3>2, <3>3, <3>4
    <2>3. QED
      BY <2>1, <2>2
  <1>7. merged \ merged' \subseteq reclaimed'
    <2>1. NamesMove
      BY <1>1, NamesMoveStep
    <2>2. QED
      BY <2>1 DEF NamesMove
  <1>8. QED
    BY <1>6, <1>7

(* What is deleted stays old at every step. *)
LEMMA AgeStep ==
    ASSUME VersionInv, TypeOK', [Next]_vars
    PROVE  AgeOK'
  <1>1. /\ TypeOK /\ RowsOK /\ NamesOK /\ StoreGrows /\ VacuumsGrow
        /\ \A n \in reclaimed : PastCutoff(n)
        /\ \A h \in Handles : AgeOf(h) /\ SearchOK(h)
    <2>1. TypeOK /\ RowsOK /\ NamesOK /\ AgeOK /\ \A h \in Handles : SearchOK(h)
      BY DEF VersionInv
    <2>2. StoreGrows /\ VacuumsGrow
      BY <2>1, StoreStep, VacuumsStep
    <2>3. QED
      BY <2>1, <2>2, AgeParts
  <1>2. /\ \A n \in reclaimed' : n \in DOMAIN roots /\ PastCutoff(n)
        /\ \A n \in merged \ merged' : PastCutoff(n)
    BY ReclaimedAreOld
  <1>3. ASSUME \A g \in Handles : AgeOf(g)'
        PROVE  AgeOK'
    <2>1. \A n \in reclaimed' : PastCutoff(n)'
      BY <1>1, <1>2, PastCutoffStays DEF VacuumsGrow
    <2>2. QED
      BY <1>3, <2>1, AgePartsAfterwards
  <1>4. ASSUME NEW h \in Handles, AgeOf(h)',
               \A g \in Handles \ {h} : /\ pc'[g] = pc[g] /\ before'[g] = before[g]
                                        /\ source'[g] = source[g] /\ doomed'[g] = doomed[g]
                                        /\ search'[g] = search[g]
        PROVE  AgeOK'
    <2>1. ASSUME NEW g \in Handles, g # h
          PROVE  AgeOf(g)'
      BY <1>1, <1>2, <1>4, <2>1, AgeOfOthers
    <2>2. QED
      BY <1>3, <1>4, <2>1
  <1>5. ASSUME pc' = pc, before' = before, source' = source, search' = search, doomed' = doomed
        PROVE  AgeOK'
    <2>1. \A g \in Handles : AgeOf(g)'
      BY <1>1, <1>2, <1>5, AgeOfOthers
    <2>2. QED
      BY <1>3, <2>1
  <1>6. ASSUME NEW h \in Handles, Open(h)
        PROVE  AgeOK'
    <2>1. pc[h] = "closed" /\ pc' = [pc EXCEPT ![h] = "open"]
          /\ before' = before /\ doomed' = doomed /\ search' = search
      BY <1>6 DEF Open, work
    <2>2. \A g \in Handles \ {h} : source'[g] = source[g]
      BY <1>1, <1>6, OpenFacts DEF Published
    <2>3. pc'[h] = "open" /\ \A g \in Handles \ {h} : pc'[g] = pc[g]
      BY <1>1, <2>1 DEF TypeOK
    <2>4. doomed'[h] = NoWork
      BY <1>1, <2>1 DEF AgeOf
    <2>5. AgeOf(h)'
      BY <2>3, <2>4, AgeOfReady
    <2>6. QED
      BY <1>4, <2>1, <2>2, <2>3, <2>5
  <1>7. ASSUME NEW h \in Handles, Commit(h)
        PROVE  AgeOK'
    <2>1. pc[h] = "open" /\ pc' = pc
          /\ before' = before /\ doomed' = doomed /\ search' = search
      BY <1>7 DEF Commit, work
    <2>2. \A g \in Handles \ {h} : source'[g] = source[g]
      <3>1. tree[h] \in [Keys -> Row] /\ dirty[h] \in SUBSET Keys /\ Save(h, tree[h], dirty[h])
        BY <1>1, <1>7 DEF TypeOK, Commit
      <3>2. Published(h, tree[h], {source[h]} \ {0}, created[h])
        BY <1>1, <3>1, SaveFacts
      <3>3. QED
        BY <3>2 DEF Published
    <2>3. doomed'[h] = NoWork
      BY <1>1, <2>1 DEF AgeOf
    <2>4. AgeOf(h)'
      BY <2>1, <2>3, AgeOfReady
    <2>5. QED
      BY <1>4, <2>1, <2>2, <2>4
  <1>8. ASSUME NEW h \in Handles, Forget(h)
        PROVE  AgeOK'
    <2>1. /\ pc'[h] = "closed" /\ doomed'[h] = NoWork
          /\ \A g \in Handles \ {h} : /\ pc'[g] = pc[g] /\ before'[g] = before[g]
                                      /\ source'[g] = source[g] /\ doomed'[g] = doomed[g]
                                      /\ search'[g] = search[g]
      BY <1>1, <1>8 DEF Forget, TypeOK
    <2>2. AgeOf(h)'
      BY <2>1, AgeOfReady
    <2>3. QED
      BY <1>4, <2>1, <2>2
  <1>9. ASSUME NEW h \in Handles, NEW cutoff \in Cutoffs, StartVacuum(h, cutoff)
        PROVE  AgeOK'
    <2>1. /\ pc[h] = "open" /\ pc' = [pc EXCEPT ![h] = "vacuum"]
          /\ before' = [before EXCEPT ![h] = cutoff] /\ vacuums' = Append(vacuums, cutoff)
          /\ search' = [search EXCEPT ![h] = [NoSearch EXCEPT !.todo = {source'[h]} \ {0}]]
          /\ doomed' = doomed
      BY <1>1, <1>9, StartFacts
    <2>2. \A g \in Handles \ {h} : source'[g] = source[g]
      BY <1>1, <1>9, StartSaves DEF Published
    <2>3. /\ pc'[h] = "vacuum" /\ before'[h] = cutoff
          /\ \A g \in Handles \ {h} : /\ pc'[g] = pc[g] /\ before'[g] = before[g]
                                      /\ search'[g] = search[g]
      BY <1>1, <2>1 DEF TypeOK
    <2>4. doomed'[h] = NoWork
      BY <1>1, <2>1 DEF AgeOf
    <2>5. \E i \in DOMAIN vacuums' : vacuums'[i] = cutoff
      <3>1. vacuums \in Seq(Cutoffs)
        BY <1>1 DEF TypeOK
      <3>2. Len(vacuums) + 1 \in DOMAIN vacuums' /\ vacuums'[Len(vacuums) + 1] = cutoff
        BY <2>1, <3>1
      <3>3. QED
        BY <3>2
    <2>6. AgeOf(h)'
      BY <2>3, <2>4, <2>5 DEF AgeOf, NoWork
    <2>7. QED
      BY <1>4, <2>1, <2>2, <2>3, <2>6
  <1>10. ASSUME NEW h \in Handles, Searching(h)
         PROVE  AgeOK'
    <2>1. /\ pc[h] = "vacuum" /\ pc' = pc /\ before' = before /\ doomed' = doomed
          /\ source' = source /\ vacuums' = vacuums
      BY <1>10, SearchingReads DEF SearchStep, content
    <2>2. \A g \in Handles \ {h} : search'[g] = search[g]
      BY <1>1, <1>10 DEF Searching, FindMerged, FindCurrent, FoundVersion, TypeOK
    <2>3. doomed'[h] = NoWork /\ \E i \in DOMAIN vacuums' : vacuums'[i] = before'[h]
      BY <1>1, <2>1 DEF AgeOf
    <2>4. AgeOf(h)'
      BY <2>1, <2>3 DEF AgeOf, NoWork
    <2>5. QED
      BY <1>4, <2>1, <2>2, <2>4
  <1>11. ASSUME NEW h \in Handles, PlanDeletions(h)
         PROVE  AgeOK'
    <2> DEFINE old == Deletable(search[h].found, before[h])
    <2>1. /\ pc[h] = "vacuum" /\ pc' = [pc EXCEPT ![h] = "deleting"] /\ search[h].todo = {}
          /\ before' = before /\ source' = source /\ search' = search
          /\ roots' = roots /\ vacuums' = vacuums
      BY <1>11 DEF PlanDeletions, blobs
    <2>2. doomed'[h].roots = old /\ \A g \in Handles \ {h} : doomed'[g] = doomed[g]
      <3>1. PICK ns, sure : doomed' = [doomed EXCEPT ![h] = [nodes |-> ns, sure |-> sure,
                                                             roots |-> old]]
        BY <1>11 DEF PlanDeletions
      <3> HIDE DEF old
      <3>2. doomed \in [Handles -> Deletions]
        BY <1>1, WorkTypes
      <3>3. QED
        BY <3>1, <3>2
    <2>3. pc'[h] = "deleting" /\ \A g \in Handles \ {h} : pc'[g] = pc[g]
      BY <1>1, <2>1 DEF TypeOK
    <2>4. \E i \in DOMAIN vacuums : vacuums[i] = before[h]
      BY <1>1, <2>1 DEF AgeOf
    <2>5. ASSUME NEW n \in doomed'[h].roots
          PROVE  roots'[n].created <= before'[h] /\ ChildrenPast(h, n)'
      <3>1. roots[n].created <= before[h] /\ ChildrenPast(h, n)
        BY <1>1, <2>1, <2>2, <2>4, PlannedAge
      <3>2. ChildrenPast(h, n)'
        BY <1>1, <1>2, <2>1, <3>1, ChildrenStayPast
      <3>3. QED
        BY <2>1, <3>1, <3>2
    <2>6. AgeOf(h)'
      BY <2>1, <2>3, <2>4, <2>5 DEF AgeOf
    <2>7. QED
      BY <1>4, <2>1, <2>2, <2>3, <2>6
  <1>12. ASSUME NEW h \in Handles,
                \/ \E x \in doomed[h].nodes : DeleteNode(h, x)
                \/ \E n \in doomed[h].roots : DeleteRoot(h, n)
         PROVE  AgeOK'
    <2>1. /\ pc[h] = "deleting" /\ pc' = pc /\ before' = before /\ source' = source
          /\ search' = search
          /\ \/ \E x : doomed' = [doomed EXCEPT ![h].nodes = @ \ {x}]
             \/ \E n : doomed' = [doomed EXCEPT ![h] = [NoWork EXCEPT !.roots = doomed[h].roots \ {n}]]
      BY <1>12 DEF DeleteNode, DeleteRoot, content
    <2>2. doomed'[h].roots \subseteq doomed[h].roots /\ \A g \in Handles \ {h} : doomed'[g] = doomed[g]
      <3>1. doomed \in [Handles -> Deletions]
        BY <1>1, WorkTypes
      <3>2. QED
        BY <2>1, <3>1 DEF Deletions, NoWork
    <2>3. AgeOf(h)'
      BY <1>1, <1>2, <2>1, <2>2, AgeOfOthers
    <2>4. QED
      BY <1>4, <2>1, <2>2, <2>3
  <1>13. ASSUME NEW h \in Handles, FinishVacuum(h) \/ VacuumFails(h)
         PROVE  AgeOK'
    <2>1. /\ pc' = [pc EXCEPT ![h] = "open"] /\ before' = [before EXCEPT ![h] = 0]
          /\ source' = source /\ search' = [search EXCEPT ![h] = NoSearch]
          /\ doomed' = [doomed EXCEPT ![h] = NoWork]
      BY <1>13 DEF FinishVacuum, VacuumFails, content
    <2>2. /\ pc'[h] = "open" /\ doomed'[h] = NoWork
          /\ \A g \in Handles \ {h} : /\ pc'[g] = pc[g] /\ before'[g] = before[g]
                                      /\ doomed'[g] = doomed[g] /\ search'[g] = search[g]
      BY <1>1, <2>1 DEF TypeOK
    <2>3. AgeOf(h)'
      BY <2>2, AgeOfReady
    <2>4. QED
      BY <1>4, <2>1, <2>2, <2>3
  <1>14. ASSUME \/ \E h \in Handles : NoteVersion(h)
                \/ \E h \in Handles, k \in Keys, deleted \in BOOLEAN : Write(h, k, deleted)
                \/ ChangesStep \/ UNCHANGED vars
         PROVE  AgeOK'
    <2>1. pc' = pc /\ before' = before /\ source' = source /\ doomed' = doomed /\ search' = search
      BY <1>14, QueriesOnlyRead DEF QueryStep, NoteVersion, Write, work, content
    <2>2. QED
      BY <1>5, <2>1
  <1>15. QED
    BY <1>6, <1>7, <1>8, <1>9, <1>10, <1>11, <1>12, <1>13, <1>14
    DEF Next, HandleStep, Close, Crash, Searching

-----------------------------------------------------------------------------
(* What is gone *)

(* A version that was followed by an old one stays so, and a node that is outdated. *)
LEMMA ReplacedStays ==
    ASSUME TypeOK, StoreGrows, VacuumsGrow
    PROVE  /\ \A p : Replaced(p) => Replaced(p)'
           /\ \A ns \in SUBSET DOMAIN roots : \A x : Outdated(x, ns) => Outdated(x, ns)'
  <1>1. ASSUME NEW p, Replaced(p)
        PROVE  Replaced(p)'
    <2>1. PICK c \in DOMAIN roots : p \in roots[c].parents /\ PastCutoff(c)
      BY <1>1 DEF Replaced
    <2>2. PastCutoff(c)' /\ c \in DOMAIN roots' /\ p \in roots'[c].parents
      BY <2>1, PastCutoffStays DEF StoreGrows, VacuumsGrow
    <2>3. QED
      BY <2>2 DEF Replaced
  <1>2. ASSUME NEW ns \in SUBSET DOMAIN roots, NEW x, Outdated(x, ns)
        PROVE  Outdated(x, ns)'
    <2>1. PICK p \in ns : x \in NodesOf(roots[p].tree) /\ Replaced(p)
      BY <1>2 DEF Outdated
    <2>2. roots'[p] = roots[p] /\ Replaced(p)'
      BY <1>1, <2>1 DEF StoreGrows
    <2>3. x \in NodesOf(roots'[p].tree)
      BY <2>1, <2>2
    <2>4. QED
      BY <2>2, <2>3 DEF Outdated, NodesOf, Top, Leaf
  <1>3. QED
    BY <1>1, <1>2

(* The same of the nodes of all versions, and of those that led to a handle's version. *)
LEMMA OutdatedStays ==
    ASSUME TypeOK, NamesOK, TypeOK', StoreGrows, VacuumsGrow
    PROVE  /\ \A x : Outdated(x, DOMAIN roots) => Outdated(x, DOMAIN roots)'
           /\ \A h \in Handles : \A x : /\ source'[h] = source[h]
                                        /\ Outdated(x, Ancestors(source[h]))
                                        => Outdated(x, Ancestors(source[h]))'
  <1>1. ASSUME NEW x, Outdated(x, DOMAIN roots)
        PROVE  Outdated(x, DOMAIN roots)'
    <2>1. PICK ns \in SUBSET DOMAIN roots : ns = DOMAIN roots
      OBVIOUS
    <2>2. Outdated(x, ns)'
      BY <1>1, <2>1, ReplacedStays
    <2>3. ns \subseteq DOMAIN roots'
      BY <2>1 DEF StoreGrows
    <2>4. QED
      BY <2>2, <2>3 DEF Outdated
  <1>2. ASSUME NEW h \in Handles, source'[h] = source[h], NEW x, Outdated(x, Ancestors(source[h])),
               NEW s, s = source[h]
        PROVE  Outdated(x, Ancestors(source[h]))'
    <2>1. s \in DOMAIN roots \union {0}
      BY <1>2 DEF TypeOK
    <2>2. PICK ns : ns = History(s, DOMAIN roots) \ {s}
      OBVIOUS
    <2>3. ns \in SUBSET DOMAIN roots
      BY <2>2, HistoryClosed
    <2>4. Outdated(x, ns)
      BY <1>2, <2>2 DEF Ancestors
    <2>5. Outdated(x, ns)'
      BY <2>3, <2>4, ReplacedStays
    <2>6. ns = History(s, DOMAIN roots)' \ {s}
      BY <2>1, <2>2, LineStays
    <2>7. ns = Ancestors(source[h])'
      BY <1>2, <2>6 DEF Ancestors
    <2>8. QED
      BY <2>5, <2>7 DEF Outdated
  <1>3. QED
    BY <1>1, <1>2

(* The nodes of a merge are its top node and leaves of the versions merged. *)
LEMMA JoinedNodes ==
    ASSUME TypeOK, RowsOK, NEW ns, ns \subseteq DOMAIN roots, NEW x \in NodesOf(Joined(ns))
    PROVE  x \in Top(Joined(ns)) \/ \E p \in ns : x \in NodesOf(roots[p].tree)
  <1> SUFFICES ASSUME x \notin Top(Joined(ns))
               PROVE  \E p \in ns : x \in NodesOf(roots[p].tree)
    OBVIOUS
  <1>1. PICK k \in Keys : x = Leaf(k, Joined(ns)[k]) /\ Joined(ns)[k] # Absent
    BY DEF NodesOf
  <1>2. PICK p \in ns : Joined(ns)[k] = roots[p].tree[k]
    BY <1>1, JoinedFacts
  <1>3. QED
    BY <1>1, <1>2 DEF NodesOf

(* A commit stores what it needs, or takes it from its cache or the version before. *)
LEMMA SaveNodes ==
    ASSUME TypeOK, NEW h \in Handles, NEW t \in [Keys -> Row], NEW ks \in SUBSET Keys,
           Save(h, t, ks),
           \A k \in Keys \ ks : t[k] = SourceRow(h, k)
    PROVE  NodesOf(t) \subseteq nodes' \union AllNodes
  <1> SUFFICES ASSUME NEW x \in NodesOf(t)
               PROVE  x \in nodes' \union AllNodes
    OBVIOUS
  <1>1. nodes' = nodes \union (NewNodes(t, ks) \ cached[h]) /\ cached[h] \subseteq AllNodes
    BY DEF Save, TypeOK
  <1>2. CASE x \in NewNodes(t, ks)
    BY <1>1, <1>2
  <1>3. CASE x \notin NewNodes(t, ks)
    <2>1. PICK k \in Keys \ ks : x = Leaf(k, t[k]) /\ t[k] # Absent
      BY <1>3 DEF NodesOf, NewNodes
    <2>2. source[h] \in DOMAIN roots /\ t[k] = roots[source[h]].tree[k]
      BY <2>1 DEF SourceRow, TypeOK
    <2>3. x \in NodesOf(roots[source[h]].tree)
      BY <2>1, <2>2 DEF NodesOf
    <2>4. QED
      BY <2>2, <2>3 DEF AllNodes
  <1>4. QED
    BY <1>2, <1>3

(* A version whose nodes are stored, or were known, adds no others. *)
LEMMA PublishedNodes ==
    ASSUME TypeOK, NEW h \in Handles, NEW t, NEW parents, NEW when,
           Published(h, t, parents, when), NodesOf(t) \subseteq nodes' \union AllNodes
    PROVE  AllNodes' \ AllNodes \subseteq nodes'
  <1> SUFFICES ASSUME NEW n \in DOMAIN roots', NEW x \in NodesOf(roots'[n].tree)
               PROVE  x \in nodes' \union AllNodes
    BY DEF AllNodes, NodesOf, Top, Leaf
  <1>1. CASE n \in DOMAIN roots
    <2>1. roots'[n] = roots[n]
      BY <1>1 DEF Published
    <2>2. QED
      BY <1>1, <2>1 DEF AllNodes
  <1>2. CASE n \notin DOMAIN roots
    <2>1. roots'[n].tree = t
      BY <1>2 DEF Published
    <2>2. QED
      BY <2>1
  <1>3. QED
    BY <1>1, <1>2

(* Every node that a step adds is stored, and only DeleteNode removes one. *)
LEMMA NodesAreStored ==
    ASSUME VersionInv, [Next]_vars
    PROVE  /\ AllNodes' \ AllNodes \subseteq nodes'
           /\ \A x \in nodes \ nodes' : \E h \in Handles : x \in doomed[h].nodes
  <1>1. TypeOK /\ RowsOK /\ \A h \in Handles : ContentOK(h)
    BY DEF VersionInv
  <1>2. ASSUME roots' = roots, nodes' = nodes
        PROVE  AllNodes' \ AllNodes \subseteq nodes' /\ nodes \ nodes' = {}
    BY <1>2, SameNodes
  <1>3. ASSUME NEW h \in Handles, Open(h)
        PROVE  AllNodes' \ AllNodes \subseteq nodes' /\ nodes \ nodes' = {}
    <2> DEFINE t == Joined(Found)
    <2>1. Found \subseteq DOMAIN roots /\ t \in [Keys -> Row] /\ now + 1 \in Nat
      <3>1. Found \subseteq DOMAIN roots
        BY <1>1, FoundStored
      <3>2. t \in [Keys -> Row]
        BY <1>1, <1>3, OpenFacts
      <3>3. now + 1 \in Nat
        BY <1>1, BoundsAre DEF TypeOK
      <3>4. QED
        BY <3>1, <3>2, <3>3
    <2>2. CASE Publish(h, t, Found, now + 1) /\ nodes' = nodes \union Top(t)
      <3>1. Published(h, t, Found, now + 1)
        BY <1>1, <2>1, <2>2, PublishFacts
      <3>2. NodesOf(t) \subseteq nodes' \union AllNodes
        BY <1>1, <2>1, <2>2, JoinedNodes DEF AllNodes
      <3> HIDE DEF t
      <3>3. AllNodes' \ AllNodes \subseteq nodes'
        BY <1>1, <3>1, <3>2, PublishedNodes
      <3>4. QED
        BY <2>2, <3>3
    <2>3. CASE UNCHANGED blobs
      BY <1>2, <2>3 DEF blobs
    <2>4. QED
      BY <1>3, <2>2, <2>3 DEF Open
  <1>4. ASSUME NEW h \in Handles, NEW t \in [Keys -> Row], NEW ks \in SUBSET Keys,
               Save(h, t, ks), \A k \in Keys \ ks : t[k] = tree[h][k] /\ k \notin dirty[h]
        PROVE  AllNodes' \ AllNodes \subseteq nodes' /\ nodes \ nodes' = {}
    <2>1. \A k \in Keys \ ks : t[k] = SourceRow(h, k)
      BY <1>1, <1>4 DEF ContentOK
    <2>2. Published(h, t, {source[h]} \ {0}, created[h])
      BY <1>1, <1>4, SaveFacts
    <2>3. NodesOf(t) \subseteq nodes' \union AllNodes
      BY <1>1, <1>4, <2>1, SaveNodes
    <2>4. AllNodes' \ AllNodes \subseteq nodes'
      BY <1>1, <2>2, <2>3, PublishedNodes
    <2>5. QED
      BY <1>4, <2>4 DEF Save
  <1>5. ASSUME NEW h \in Handles, Commit(h)
        PROVE  AllNodes' \ AllNodes \subseteq nodes' /\ nodes \ nodes' = {}
    <2>1. tree[h] \in [Keys -> Row] /\ dirty[h] \in SUBSET Keys /\ Save(h, tree[h], dirty[h])
      BY <1>1, <1>5 DEF TypeOK, Commit
    <2>2. QED
      BY <1>4, <2>1
  <1>6. ASSUME NEW h \in Handles, NEW cutoff \in Cutoffs, StartVacuum(h, cutoff)
        PROVE  AllNodes' \ AllNodes \subseteq nodes' /\ nodes \ nodes' = {}
    <2>1. CASE UNCHANGED <<blobs, tree, source, dirty, cached, truth, faults>>
      BY <1>2, <2>1 DEF blobs
    <2>2. CASE ~UNCHANGED <<blobs, tree, source, dirty, cached, truth, faults>>
      <3>1. PICK ks \in SUBSET Keys :
              /\ Save(h, Kept(h, cutoff), ks)
              /\ \A k \in Keys \ ks : Kept(h, cutoff)[k] = tree[h][k] /\ k \notin dirty[h]
        BY <1>1, <1>6, <2>2, StartFacts
      <3>2. Kept(h, cutoff) \in [Keys -> Row]
        BY <1>1, KeptFacts
      <3>3. QED
        BY <1>4, <3>1, <3>2
    <2>3. QED
      BY <2>1, <2>2
  <1>7. ASSUME NEW h \in Handles, NEW x \in doomed[h].nodes, DeleteNode(h, x)
        PROVE  AllNodes' \ AllNodes \subseteq nodes' /\ nodes \ nodes' \subseteq {x}
    <2>1. roots' = roots /\ nodes' = nodes \ {x}
      BY <1>7 DEF DeleteNode
    <2>2. QED
      BY <2>1, SameNodes
  <1>8. ASSUME \/ \E h \in Handles :
                    \/ Forget(h) \/ Searching(h) \/ PlanDeletions(h)
                    \/ FinishVacuum(h) \/ VacuumFails(h) \/ NoteVersion(h)
                    \/ \E k \in Keys, deleted \in BOOLEAN : Write(h, k, deleted)
                    \/ \E n \in doomed[h].roots : DeleteRoot(h, n)
               \/ ChangesStep \/ UNCHANGED vars
        PROVE  AllNodes' \ AllNodes \subseteq nodes' /\ nodes \ nodes' = {}
    <2>1. roots' = roots /\ nodes' = nodes
      BY <1>8, SearchingReads, QueriesOnlyRead
      DEF Forget, SearchStep, PlanDeletions, FinishVacuum, VacuumFails, NoteVersion, QueryStep,
          Write, DeleteRoot, blobs
    <2>2. QED
      BY <1>2, <2>1
  <1>9. QED
    BY <1>3, <1>5, <1>6, <1>7, <1>8 DEF Next, HandleStep, Close, Crash, Searching

(* A vacuum plans to delete nodes of versions before its own that an old one followed. *)
LEMMA PlannedNodes ==
    ASSUME VersionInv, NEW h \in Handles, PlanDeletions(h), NEW x \in doomed'[h].nodes
    PROVE  Outdated(x, Ancestors(source[h]))
  <1> DEFINE graph == search[h].found
             old   == Deletable(graph, before[h])
             line  == History(source[h], DOMAIN roots)
             pairs == {pair \in (old \intersect graph) \X graph : pair[1] \in roots[pair[2]].parents}
  <1>1. /\ TypeOK /\ NamesOK /\ SearchOK(h)
        /\ pc[h] = "vacuum" => \E i \in DOMAIN vacuums : vacuums[i] = before[h]
    BY DEF VersionInv, AgeOK
  <1>2. PICK q \in pairs : x \in MayReport(h, q[1], q[2])
    <2> DEFINE planned == UNION {MayReport(h, q[1], q[2]) : q \in pairs}
    <2>1. doomed \in [Handles -> Deletions]
      BY <1>1, WorkTypes
    <2>2. PICK sure : doomed' = [doomed EXCEPT ![h] = [nodes |-> planned, sure |-> sure,
                                                       roots |-> old]]
      BY DEF PlanDeletions
    <2>3. doomed'[h].nodes = planned
      <3> HIDE DEF planned, old
      <3>1. QED
        BY <2>1, <2>2
    <2>4. QED
      BY <2>3
  <1>3. PICK p \in old \intersect graph, c \in graph : q[1] = p /\ q[2] = c /\ p \in roots[c].parents
    BY <1>2
  <1>4. x \in NodesOf(roots[p].tree)
    BY <1>2, <1>3 DEF MayReport, DroppedLinks
  <1>5. /\ line \subseteq DOMAIN roots /\ p \in line /\ c \in line
        /\ source[h] \in DOMAIN roots \union {0} /\ 0 \notin DOMAIN roots
    <2>1. line \subseteq DOMAIN roots /\ p \in line /\ c \in line
      BY <1>1, <1>3, HistoryClosed DEF SearchOK
    <2>2. source[h] \in DOMAIN roots \union {0} /\ 0 \notin DOMAIN roots
      BY <1>1, RootType DEF TypeOK
    <2>3. QED
      BY <2>1, <2>2
  <1>6. source[h] \in DOMAIN roots
    BY <1>5, NoHistory
  <1>7. p # source[h]
    <2>1. c <= source[h] /\ p < c
      BY <1>1, <1>3, <1>5, <1>6, HistoryOlder DEF NamesOK
    <2>2. c \in Nat /\ p \in Nat /\ source[h] \in Nat
      BY <1>1, <1>5, <1>6, RootType
    <2>3. QED
      BY <2>1, <2>2
  <1>8. roots[c].created <= before[h]
    BY <1>3 DEF Deletable, Children
  <1>9. Replaced(p)
    BY <1>1, <1>3, <1>5, <1>8 DEF Replaced, PastCutoff, PlanDeletions
  <1>10. QED
    BY <1>4, <1>5, <1>7, <1>9 DEF Outdated, Ancestors

(* What is left to delete becomes less, but for a plan, and the handle's version stays. *)
LEMMA DoomedShrinks ==
    ASSUME VersionInv, [Next]_vars, NEW g \in Handles, ~PlanDeletions(g), NEW x \in doomed'[g].nodes
    PROVE  x \in doomed[g].nodes /\ source'[g] = source[g]
  <1>1. TypeOK /\ RowsOK /\ AgeOK /\ doomed \in [Handles -> Deletions]
    BY WorkTypes DEF VersionInv
  <1>2. pc[g] # "deleting" => doomed[g].nodes = {}
    BY <1>1 DEF AgeOK, NoWork
  <1>3. ASSUME NEW h \in Handles, Open(h) \/ Commit(h)
                                  \/ \E cutoff \in Cutoffs : StartVacuum(h, cutoff)
        PROVE  doomed' = doomed /\ pc[h] # "deleting"
    BY <1>3 DEF Open, Commit, StartVacuum, work
  <1>4. ASSUME NEW h \in Handles, h # g, Open(h)
        PROVE  source'[g] = source[g]
    BY <1>1, <1>4, OpenFacts DEF Published
  <1>5. ASSUME NEW h \in Handles, h # g, Commit(h)
        PROVE  source'[g] = source[g]
    <2>1. tree[h] \in [Keys -> Row] /\ dirty[h] \in SUBSET Keys /\ Save(h, tree[h], dirty[h])
      BY <1>1, <1>5 DEF TypeOK, Commit
    <2>2. Published(h, tree[h], {source[h]} \ {0}, created[h])
      BY <1>1, <2>1, SaveFacts
    <2>3. QED
      BY <1>5, <2>2 DEF Published
  <1>6. ASSUME NEW h \in Handles, h # g, NEW cutoff \in Cutoffs, StartVacuum(h, cutoff)
        PROVE  source'[g] = source[g]
    BY <1>1, <1>6, StartSaves DEF Published
  <1>7. ASSUME NEW h \in Handles, Open(h) \/ Commit(h)
                                  \/ \E cutoff \in Cutoffs : StartVacuum(h, cutoff)
        PROVE  x \in doomed[g].nodes /\ source'[g] = source[g]
    BY <1>2, <1>3, <1>4, <1>5, <1>6, <1>7
  <1>8. ASSUME NEW h \in Handles, Forget(h)
        PROVE  x \in doomed[g].nodes /\ source'[g] = source[g]
    BY <1>1, <1>8 DEF Forget, NoWork, TypeOK
  <1>9. ASSUME NEW h \in Handles,
               \/ PlanDeletions(h) \/ FinishVacuum(h) \/ VacuumFails(h)
               \/ \E y \in doomed[h].nodes : DeleteNode(h, y)
               \/ \E n \in doomed[h].roots : DeleteRoot(h, n)
        PROVE  x \in doomed[g].nodes /\ source'[g] = source[g]
    <2>1. source' = source
      BY <1>9 DEF PlanDeletions, FinishVacuum, VacuumFails, DeleteNode, DeleteRoot, content
    <2>2. x \in doomed[g].nodes
      <3>1. CASE PlanDeletions(h)
        <4>1. PICK d : doomed' = [doomed EXCEPT ![h] = d]
          BY <3>1 DEF PlanDeletions
        <4>2. h # g
          BY <3>1
        <4>3. QED
          BY <1>1, <4>1, <4>2
      <3>2. CASE FinishVacuum(h) \/ VacuumFails(h)
        BY <1>1, <3>2 DEF FinishVacuum, VacuumFails, NoWork
      <3>3. CASE \E y \in doomed[h].nodes : DeleteNode(h, y)
        BY <1>1, <3>3 DEF DeleteNode, Deletions
      <3>4. CASE \E n \in doomed[h].roots : DeleteRoot(h, n)
        BY <1>1, <3>4 DEF DeleteRoot, NoWork
      <3>5. QED
        BY <1>9, <3>1, <3>2, <3>3, <3>4
    <2>3. QED
      BY <2>1, <2>2
  <1>10. ASSUME \/ \E h \in Handles : Searching(h) \/ NoteVersion(h)
                \/ \E h \in Handles, k \in Keys, deleted \in BOOLEAN : Write(h, k, deleted)
                \/ ChangesStep \/ UNCHANGED vars
         PROVE  x \in doomed[g].nodes /\ source'[g] = source[g]
    <2>1. doomed' = doomed /\ source' = source
      BY <1>10, SearchingReads, QueriesOnlyRead
      DEF SearchStep, NoteVersion, QueryStep, Write, work, content
    <2>2. QED
      BY <2>1
  <1>11. QED
    BY <1>7, <1>8, <1>9, <1>10 DEF Next, HandleStep, Close, Crash, Searching

(* What is gone stays outdated at every step. *)
LEMMA NodesStep ==
    ASSUME VersionInv, TypeOK', [Next]_vars
    PROVE  NodesOK'
  <1>1. TypeOK /\ RowsOK /\ NamesOK /\ NodesOK
    BY DEF VersionInv
  <1>2. StoreGrows /\ VacuumsGrow
    BY <1>1, StoreStep, VacuumsStep
  <1>3. /\ \A x : Outdated(x, DOMAIN roots) => Outdated(x, DOMAIN roots)'
        /\ \A h \in Handles : \A x : /\ source'[h] = source[h]
                                     /\ Outdated(x, Ancestors(source[h]))
                                     => Outdated(x, Ancestors(source[h]))'
    BY <1>1, <1>2, OutdatedStays
  <1>4. ASSUME NEW x \in AllNodes' \ nodes'
        PROVE  Outdated(x, DOMAIN roots)'
    <2>1. CASE x \in nodes
      <3>1. PICK h \in Handles : x \in doomed[h].nodes
        BY <1>4, <2>1, NodesAreStored
      <3>2. Outdated(x, Ancestors(source[h]))
        BY <1>1, <3>1 DEF NodesOK
      <3>3. Ancestors(source[h]) \subseteq DOMAIN roots
        BY HistoryClosed DEF Ancestors
      <3>4. Outdated(x, DOMAIN roots)
        BY <3>2, <3>3 DEF Outdated
      <3>5. QED
        BY <1>3, <3>4
    <2>2. CASE x \notin nodes
      <3>1. x \in AllNodes
        BY <1>4, NodesAreStored
      <3>2. Outdated(x, DOMAIN roots)
        BY <1>1, <2>2, <3>1 DEF NodesOK, OnlyOutdatedGone
      <3>3. QED
        BY <1>3, <3>2
    <2>3. QED
      BY <2>1, <2>2
  <1>5. ASSUME NEW h \in Handles, NEW x \in doomed'[h].nodes
        PROVE  Outdated(x, Ancestors(source[h]))'
    <2>1. Outdated(x, Ancestors(source[h])) /\ source'[h] = source[h]
      <3>1. CASE PlanDeletions(h)
        BY <3>1, <1>5, PlannedNodes DEF PlanDeletions
      <3>2. CASE ~PlanDeletions(h)
        BY <1>1, <1>5, <3>2, DoomedShrinks DEF NodesOK
      <3>3. QED
        BY <3>1, <3>2
    <2>2. QED
      BY <1>3, <2>1
  <1>6. QED
    BY <1>4, <1>5 DEF NodesOK, OnlyOutdatedGone

-----------------------------------------------------------------------------
(* What was promised *)

(* The parts of PromiseOK, for one key. *)
Carried(k) == \E n \in current : roots[n].tree[k] = truth[k]
Gone(k) ==
    /\ truth[k].deleted
    /\ \A n \in current : roots[n].tree[k] = Absent
    /\ \A h \in Handles : tree[h][k] = Absent \/ tree[h][k].mod > truth[k].mod

(* They make up the whole, before and after a step. *)
LEMMA PromiseParts ==
    /\ PromiseOK <=> \A k \in Keys : Carried(k) \/ Gone(k)
    /\ PromiseOK' <=> \A k \in Keys : Carried(k)' \/ Gone(k)'
  BY DEF PromiseOK, Carried, Gone

(* A merge keeps the rows that were promised, and a row that is gone stays gone. *)
LEMMA OpenPromise ==
    ASSUME VersionInv, PromiseOK, TypeOK', NEW h \in Handles, Open(h)
    PROVE  PromiseOK'
  <1>1. TypeOK /\ RowsOK
    BY DEF VersionInv
  <1>2. /\ Found \subseteq current /\ Found \subseteq DOMAIN roots
        /\ current \subseteq DOMAIN roots
    BY <1>1, FoundStored DEF TypeOK
  <1>3. truth' = truth /\ tree' = [tree EXCEPT ![h] = Joined(Found)]
    BY DEF Open
  <1>4. ASSUME NEW k \in Keys
        PROVE  Carried(k)' \/ Gone(k)'
    <2>1. /\ Joined(Found)[k] \in {Absent} \union {roots[n].tree[k] : n \in Found}
          /\ \A n \in Found : roots[n].tree[k].mod <= Joined(Found)[k].mod
          /\ Joined(Found)[k] \in RowsOf(k) /\ Joined(Found)[k].mod <= truth[k].mod
      BY <1>1, <1>2, JoinedFacts, JoinedRow
    <2>2. truth[k].mod \in Nat /\ Joined(Found)[k].mod \in Nat /\ truth[k] \in RowsOf(k)
      BY <1>1, <2>1, RowsAreRows
    <2>3. ASSUME NEW n \in current, roots[n].tree[k] = truth[k]
          PROVE  Carried(k)'
      <3>1. CASE UNCHANGED <<blobs, faults>>
        BY <1>3, <2>3, <3>1 DEF blobs, Carried
      <3>2. CASE Published(h, Joined(Found), Found, now + 1)
        <4>1. CASE n \in Found
          <5>1. Joined(Found)[k].mod = truth[k].mod
            BY <2>1, <2>2, <2>3, <4>1
          <5>2. Joined(Found)[k] = truth[k]
            BY <1>1, <2>1, <2>2, <5>1, RowsFacts
          <5>3. QED
            BY <1>3, <3>2, <5>2 DEF Published, Carried
        <4>2. CASE n \notin Found
          BY <1>2, <1>3, <2>3, <3>2, <4>2 DEF Published, Carried
        <4>3. QED
          BY <4>1, <4>2
      <3>3. QED
        BY <1>1, <3>1, <3>2, OpenFacts
    <2>4. ASSUME Gone(k)
          PROVE  Gone(k)'
      <3>1. Joined(Found)[k] = Absent
        BY <1>2, <2>1, <2>4 DEF Gone
      <3>2. \A g \in Handles : tree'[g][k] = Absent \/ tree'[g][k].mod > truth'[k].mod
        BY <1>1, <1>3, <2>4, <3>1 DEF TypeOK, Gone
      <3>3. \A n \in current' : roots'[n].tree[k] = Absent
        <4>1. CASE UNCHANGED <<blobs, faults>>
          BY <2>4, <4>1 DEF blobs, Gone
        <4>2. CASE Published(h, Joined(Found), Found, now + 1)
          BY <1>2, <2>4, <3>1, <4>2 DEF Published, Gone
        <4>3. QED
          BY <1>1, <4>1, <4>2, OpenFacts
      <3>4. QED
        BY <1>3, <2>4, <3>2, <3>3 DEF Gone
    <2>5. QED
      BY <2>3, <2>4, PromiseParts DEF Carried
  <1>5. QED
    BY <1>4, PromiseParts

(* A commit stores the rows that it promises, in place of older ones. *)
LEMMA CommitPromise ==
    ASSUME VersionInv, PromiseOK, TypeOK', NEW h \in Handles, Commit(h)
    PROVE  PromiseOK'
  <1> DEFINE new == Len(roots) + 1
  <1>1. TypeOK /\ RowsOK /\ ContentOK(h)
    BY DEF VersionInv
  <1>2. tree[h] \in [Keys -> Row] /\ dirty[h] \in SUBSET Keys /\ Save(h, tree[h], dirty[h])
    BY <1>1 DEF TypeOK, Commit
  <1>3. Published(h, tree[h], {source[h]} \ {0}, created[h])
    BY <1>1, <1>2, SaveFacts
  <1>4. /\ new \in current' /\ current' \subseteq current \union {new}
        /\ roots'[new].tree = tree[h]
        /\ \A n \in DOMAIN roots : roots'[n] = roots[n]
        /\ \A n \in current : n # source[h] => n \in current'
        /\ current \subseteq DOMAIN roots
    <2>1. \A n \in current : n \notin {source[h]} \ {0} => n \in current'
      BY <1>3 DEF Published
    <2>2. /\ new \in current' /\ current' \subseteq current \union {new}
          /\ roots'[new].tree = tree[h]
          /\ \A n \in DOMAIN roots : roots'[n] = roots[n]
      BY <1>3 DEF Published
    <2>3. current \subseteq DOMAIN roots
      BY <1>1 DEF TypeOK
    <2>4. QED
      BY <2>1, <2>2, <2>3
  <1>5. /\ tree' = tree
        /\ truth' = [k \in Keys |-> IF k \in dirty[h] THEN Latest({truth[k], tree[h][k]})
                                    ELSE truth[k]]
    BY <1>1, <1>2 DEF Save, TypeOK
  <1> HIDE DEF new
  <1>6. ASSUME NEW k \in Keys
        PROVE  Carried(k)' \/ Gone(k)'
    <2>1. /\ truth[k] \in RowsOf(k) /\ tree[h][k] \in RowsOf(k) /\ SourceRow(h, k) \in RowsOf(k)
          /\ truth[k].mod \in Nat /\ tree[h][k].mod \in Nat /\ SourceRow(h, k).mod \in Nat
          /\ SourceRow(h, k).mod <= truth[k].mod
      BY <1>1, RowsAreRows, RowsFacts
    <2>2. CASE k \notin dirty[h]
      <3>1. truth'[k] = truth[k] /\ tree[h][k] = SourceRow(h, k)
        BY <1>1, <1>5, <2>2 DEF ContentOK
      <3>2. ASSUME NEW n \in current, roots[n].tree[k] = truth[k]
            PROVE  Carried(k)'
        <4>1. CASE n = source[h]
          <5>1. n # 0
            BY <1>1, <1>4, RootType
          <5>2. tree[h][k] = truth[k]
            BY <3>1, <3>2, <4>1, <5>1 DEF SourceRow
          <5>3. QED
            BY <1>4, <3>1, <5>2 DEF Carried
        <4>2. CASE n # source[h]
          BY <1>4, <3>1, <3>2, <4>2 DEF Carried
        <4>3. QED
          BY <4>1, <4>2
      <3>3. ASSUME Gone(k)
            PROVE  Gone(k)'
        <4>1. tree[h][k] = Absent
          BY <2>1, <3>1, <3>3 DEF Gone
        <4>2. \A n \in current' : roots'[n].tree[k] = Absent
          BY <1>4, <3>3, <4>1 DEF Gone
        <4>3. QED
          BY <1>5, <3>1, <3>3, <4>2 DEF Gone
      <3>4. QED
        BY <3>2, <3>3, PromiseParts DEF Carried
    <2>3. CASE k \in dirty[h]
      <3>1. tree[h][k].mod > SourceRow(h, k).mod /\ tree[h][k] # Absent
        BY <1>1, <2>3, DirtyFacts DEF ContentOK
      <3>2. /\ truth'[k] \in {truth[k], tree[h][k]}
            /\ truth[k].mod <= truth'[k].mod /\ tree[h][k].mod <= truth'[k].mod
        <4>1. {truth[k], tree[h][k]} \subseteq Row /\ {truth[k], tree[h][k]} # {}
              /\ \A r \in {truth[k], tree[h][k]} : r.mod <= now
          BY <1>1, <2>1, RowsFacts, RowsAreRows
        <4>2. now \in Nat
          BY <1>1, BoundsAre DEF TypeOK
        <4>3. Latest({truth[k], tree[h][k]}) \in {truth[k], tree[h][k]}
              /\ \A r \in {truth[k], tree[h][k]} : r.mod <= Latest({truth[k], tree[h][k]}).mod
          BY <4>1, <4>2, LatestOfRows
        <4>4. truth'[k] = Latest({truth[k], tree[h][k]})
          BY <1>5, <2>3
        <4>5. QED
          BY <4>3, <4>4
      <3>3. CASE truth'[k] = tree[h][k]
        BY <1>4, <3>3 DEF Carried
      <3>4. CASE truth'[k] = truth[k] /\ truth[k] # tree[h][k]
        <4>1. tree[h][k].mod <= truth[k].mod /\ tree[h][k].mod # truth[k].mod
          BY <1>1, <2>1, <3>2, <3>4, RowsFacts
        <4>2. ~Gone(k)
          BY <2>1, <3>1, <4>1 DEF Gone
        <4>3. PICK n \in current : roots[n].tree[k] = truth[k]
          BY <4>2, PromiseParts DEF Carried
        <4>4. n # source[h]
          <5>1. n # 0
            BY <1>1, <1>4, RootType
          <5>2. n = source[h] => SourceRow(h, k) = truth[k]
            BY <4>3, <5>1 DEF SourceRow
          <5>3. QED
            BY <2>1, <3>1, <4>1, <5>2
        <4>5. QED
          BY <1>4, <3>4, <4>3, <4>4 DEF Carried
      <3>5. QED
        BY <3>2, <3>3, <3>4
    <2>4. QED
      BY <2>2, <2>3
  <1>7. QED
    BY <1>6, PromiseParts

(***************************************************************************)
(* A vacuum that starts alone stores all rows but old deletions.  Where it *)
(* leaves out a deletion, the only current version that had it is moved -  *)
(* or stays current after a fault, and then it still has it.               *)
(***************************************************************************)
LEMMA StartPromise ==
    ASSUME VersionInv, PromiseOK, Careful, TypeOK', NEW h \in Handles, NEW cutoff \in Cutoffs,
           StartVacuum(h, cutoff)
    PROVE  PromiseOK'
  <1> DEFINE new == Len(roots) + 1
             kept == Kept(h, cutoff)
  <1>1. TypeOK /\ RowsOK /\ \A g \in Handles : ContentOK(g)
    BY DEF VersionInv
  <1>2. Alone(h)
    BY DEF StartVacuum
  <1>3. CASE UNCHANGED <<blobs, tree, source, dirty, cached, truth, faults>>
    BY <1>3 DEF blobs, PromiseOK
  <1>4. ASSUME NEW ks \in SUBSET Keys, Save(h, kept, ks)
        PROVE  PromiseOK'
    <2>1. kept \in [Keys -> Row]
          /\ \A k \in Keys : kept[k] = tree[h][k] \/ (kept[k] = Absent /\ tree[h][k].deleted)
      BY <1>1, KeptFacts
    <2>2. Published(h, kept, {source[h]} \ {0}, created[h])
      BY <1>1, <1>4, <2>1, SaveFacts
    <2>3. /\ new \in current' /\ current' \subseteq current \union {new}
          /\ roots'[new].tree = kept
          /\ \A n \in DOMAIN roots : roots'[n] = roots[n]
      BY <2>2 DEF Published
    <2>4. current \subseteq DOMAIN roots /\ current \subseteq {source[h]} /\ dirty[h] = {}
      BY <1>1, <1>2 DEF TypeOK, Alone
    <2>5. /\ tree' = [tree EXCEPT ![h] = kept]
          /\ \A k \in Keys : truth'[k] = truth[k]
      BY <1>1, <1>4, <2>4 DEF Save, TypeOK
    <2>6. \A g \in Handles \ {h}, k \in Keys : tree[g][k] = Absent
      BY <1>1, <1>2 DEF Alone, ContentOK, SourceRow
    <2> HIDE DEF new, kept
    <2>7. ASSUME NEW k \in Keys
          PROVE  Carried(k)' \/ Gone(k)'
      <3>1. tree[h][k] = SourceRow(h, k) /\ truth'[k] = truth[k]
        BY <1>1, <2>4, <2>5 DEF ContentOK
      <3>2. ASSUME NEW n \in current, roots[n].tree[k] = truth[k]
            PROVE  Carried(k)' \/ Gone(k)'
        <4>1. n # 0 /\ n = source[h] /\ n \in DOMAIN roots
          BY <1>1, <2>4, RootType
        <4>2. tree[h][k] = truth[k]
          BY <3>1, <3>2, <4>1 DEF SourceRow
        <4>3. CASE kept[k] = tree[h][k]
          BY <2>3, <3>1, <4>2, <4>3 DEF Carried
        <4>4. CASE kept[k] = Absent /\ tree[h][k].deleted
          <5>1. CASE n \in current'
            BY <2>3, <3>1, <3>2, <4>1, <5>1 DEF Carried
          <5>2. CASE n \notin current'
            <6>1. current' \subseteq {new}
              BY <2>3, <2>4, <4>1, <5>2
            <6>2. \A m \in current' : roots'[m].tree[k] = Absent
              BY <2>3, <4>4, <6>1
            <6>3. \A g \in Handles : tree'[g][k] = Absent
              BY <1>1, <2>5, <2>6, <4>4 DEF TypeOK
            <6>4. QED
              BY <3>1, <4>2, <4>4, <6>2, <6>3 DEF Gone
          <5>3. QED
            BY <5>1, <5>2
        <4>5. QED
          BY <2>1, <4>3, <4>4
      <3>3. ASSUME Gone(k)
            PROVE  Gone(k)'
        <4>1. SourceRow(h, k).mod <= truth[k].mod
              /\ SourceRow(h, k).mod \in Nat /\ truth[k].mod \in Nat
          BY <1>1, RowsFacts, RowsAreRows
        <4>2. tree[h][k] = Absent
          BY <3>1, <3>3, <4>1 DEF Gone
        <4>3. kept[k] = Absent
          BY <2>1, <4>2
        <4>4. \A m \in current' : roots'[m].tree[k] = Absent
          BY <2>3, <2>4, <3>3, <4>3 DEF Gone
        <4>5. \A g \in Handles : tree'[g][k] = Absent
          BY <1>1, <2>5, <2>6, <4>3 DEF TypeOK
        <4>6. QED
          BY <3>1, <3>3, <4>4, <4>5 DEF Gone
      <3>4. QED
        BY <3>2, <3>3, PromiseParts DEF Carried
    <2>8. QED
      BY <2>7, PromiseParts
  <1>5. QED
    BY <1>1, <1>3, <1>4, StartFacts

(* An empty version that a vacuum deletes had nothing that was promised. *)
LEMMA FinishPromise ==
    ASSUME VersionInv, PromiseOK, NEW h \in Handles, FinishVacuum(h)
    PROVE  PromiseOK'
  <1>1. TypeOK /\ RowsOK /\ ContentOK(h)
    BY DEF VersionInv
  <1>2. /\ pc[h] = "deleting" /\ current' = current \ Superfluous(h)
        /\ roots' = roots /\ truth' = truth /\ tree' = tree
    BY DEF FinishVacuum, content
  <1>3. current \subseteq DOMAIN roots
    BY <1>1 DEF TypeOK
  <1>4. ASSUME NEW k \in Keys
        PROVE  Carried(k)' \/ Gone(k)'
    <2>1. CASE Gone(k)
      BY <1>2, <2>1 DEF Gone
    <2>2. ASSUME NEW n \in current, roots[n].tree[k] = truth[k]
          PROVE  Carried(k)' \/ Gone(k)'
      <3>1. CASE n \notin Superfluous(h)
        BY <1>2, <2>2, <3>1 DEF Carried
      <3>2. CASE n \in Superfluous(h)
        <4>1. n = source[h] /\ n # 0 /\ tree[h][k] = Absent
          BY <1>1, <1>3, <3>2, RootType DEF Superfluous, EmptyTree
        <4>2. tree[h][k] = SourceRow(h, k)
          BY <1>1, <1>2 DEF ContentOK
        <4>3. truth[k] = Absent
          BY <2>2, <4>1, <4>2 DEF SourceRow
        <4>4. \A m \in current : roots[m].tree[k] = Absent
          <5>1. \A m \in DOMAIN roots : /\ roots[m].tree[k].mod <= truth[k].mod
                                        /\ roots[m].tree[k] \in RowsOf(k)
                                        /\ roots[m].tree[k].mod \in Nat
            BY <1>1, RowsFacts, RowsAreRows
          <5>2. truth[k].mod = 0
            BY <4>3, AbsentIsRow
          <5>3. QED
            BY <1>1, <1>3, <5>1, <5>2, RowsFacts
        <4>5. \A g \in Handles : tree[g][k] = Absent \/ tree[g][k].mod > truth[k].mod
          <5>1. \A g \in Handles : tree[g][k] \in RowsOf(k) /\ tree[g][k].mod \in Nat
            BY <1>1, RowsAreRows
          <5>2. \A g \in Handles : tree[g][k].mod = 0 => tree[g][k] = Absent
            BY <1>1, <5>1, RowsFacts
          <5>3. truth[k].mod = 0
            BY <4>3, AbsentIsRow
          <5>4. QED
            BY <5>1, <5>2, <5>3
        <4>6. truth[k].deleted
          BY <4>3, AbsentIsRow
        <4>7. Gone(k)'
          BY <1>2, <4>4, <4>5, <4>6 DEF Gone
        <4>8. QED
          BY <4>7
      <3>3. QED
        BY <3>1, <3>2
    <2>3. QED
      BY <2>1, <2>2, PromiseParts DEF Carried
  <1>5. QED
    BY <1>4, PromiseParts

(* A row that is written is newer than what was promised; forgotten ones do not matter. *)
LEMMA PrivatePromise ==
    ASSUME VersionInv, PromiseOK, NEW h \in Handles,
           Forget(h) \/ \E k \in Keys, deleted \in BOOLEAN : Write(h, k, deleted)
    PROVE  PromiseOK'
  <1>1. TypeOK /\ RowsOK
    BY DEF VersionInv
  <1>2. roots' = roots /\ current' = current /\ truth' = truth
    BY DEF Forget, Write, blobs
  <1>3. ASSUME NEW k \in Keys, NEW g \in Handles
        PROVE  tree'[g][k] = tree[g][k] \/ tree'[g][k] = Absent \/ tree'[g][k].mod > truth[k].mod
    <2>1. CASE Forget(h)
      BY <1>1, <2>1 DEF Forget, EmptyTree, TypeOK
    <2>2. ASSUME NEW j \in Keys, NEW deleted \in BOOLEAN, Write(h, j, deleted)
          PROVE  tree'[g][k] = tree[g][k] \/ tree'[g][k].mod > truth[k].mod
      <3> DEFINE row == [mod |-> now + 1, deleted |-> deleted, prev |-> Previous(h, j)]
      <3>1. tree' = [tree EXCEPT ![h][j] = row]
        BY <2>2 DEF Write
      <3>2. row.mod = now + 1
        OBVIOUS
      <3> HIDE DEF row
      <3>3. tree'[g][k] = tree[g][k] \/ tree'[g][k] = row
        BY <1>1, <3>1 DEF TypeOK
      <3>4. truth[k].mod <= now /\ truth[k].mod \in Nat /\ now \in Nat
        <4>1. now \in Nat
          BY <1>1, BoundsAre DEF TypeOK
        <4>2. QED
          BY <1>1, <4>1, RowsAreRows, RowsFacts
      <3>5. QED
        BY <3>2, <3>3, <3>4
    <2>3. QED
      BY <2>1, <2>2
  <1>4. ASSUME NEW k \in Keys
        PROVE  Carried(k)' \/ Gone(k)'
    <2>1. CASE Carried(k)
      BY <1>2, <2>1 DEF Carried
    <2>2. CASE Gone(k)
      BY <1>2, <1>3, <2>2 DEF Gone
    <2>3. QED
      BY <2>1, <2>2, PromiseParts
  <1>5. QED
    BY <1>4, PromiseParts

(* Promises are kept at every step, if vacuums are careful. *)
LEMMA PromiseStep ==
    ASSUME VersionInv, Careful, TypeOK', [Next]_vars
    PROVE  PromiseOK'
  <1>1. PromiseOK
    BY DEF VersionInv
  <1>2. ASSUME NEW h \in Handles,
               \/ Searching(h) \/ PlanDeletions(h) \/ VacuumFails(h) \/ NoteVersion(h)
               \/ \E x \in doomed[h].nodes : DeleteNode(h, x)
               \/ \E n \in doomed[h].roots : DeleteRoot(h, n)
        PROVE  PromiseOK'
    <2>1. UNCHANGED <<roots, current, truth, tree>>
      BY <1>2, SearchingReads
      DEF SearchStep, PlanDeletions, VacuumFails, NoteVersion, QueryStep, DeleteNode, DeleteRoot,
          blobs, content
    <2>2. QED
      BY <1>1, <2>1 DEF PromiseOK
  <1>3. ASSUME ChangesStep \/ UNCHANGED vars
        PROVE  PromiseOK'
    <2>1. UNCHANGED <<roots, current, truth, tree>>
      BY <1>3, QueriesOnlyRead DEF QueryStep, blobs, content
    <2>2. QED
      BY <1>1, <2>1 DEF PromiseOK
  <1>4. QED
    BY <1>1, <1>2, <1>3, OpenPromise, CommitPromise, StartPromise, FinishPromise, PrivatePromise
    DEF Next, HandleStep, Close, Crash, Searching

-----------------------------------------------------------------------------
(* The invariant, and what follows from it *)

(* A table that does not exist yet is in order. *)
LEMMA VersionInit ==
    ASSUME Init
    PROVE  VersionInv
  <1>1. roots = <<>> /\ DOMAIN roots = {} /\ <<>> \in Seq(RootRecord)
    BY DEF Init
  <1>2. TypeOK
    <2>1. EmptyTree \in [Keys -> Row]
      BY AbsentIsRow DEF EmptyTree
    <2>2. /\ NoWork \in [nodes : SUBSET AllNodes, sure : SUBSET AllNodes, roots : SUBSET DOMAIN roots]
          /\ NoSearch \in [found : SUBSET DOMAIN roots, todo : SUBSET DOMAIN roots,
                           at : DOMAIN roots \union {0}]
      BY DEF NoWork, NoSearch
    <2>3. query \in [stage : Stages, wants : Seq(DOMAIN roots), missed : 0..2]
      BY DEF Init, Idle, Stages
    <2>4. vacuums \in Seq(Cutoffs) /\ Len(vacuums) <= MaxVacuums
      BY BoundsAre DEF Init
    <2>5. 0 \in 0..MaxTime /\ 0 \in 0..MaxQueries /\ 0 \in 0..MaxFaults
      BY BoundsAre
    <2>6. QED
      BY <1>1, <2>1, <2>2, <2>3, <2>4, <2>5 DEF Init, TypeOK
  <1>3. \A k \in Keys : truth[k] = Absent /\ \A h \in Handles : tree[h][k] = Absent
    BY DEF Init, EmptyTree
  <1>4. RowsOK
    BY <1>1, <1>3, AbsentIsRow DEF RowsOK, RowsOf, Init
  <1>5. NamesOK
    BY <1>1 DEF NamesOK
  <1>6. ASSUME NEW h \in Handles
        PROVE  ContentOK(h)
    BY <1>3 DEF Init, ContentOK, SourceRow
  <1>7. AgeOK
    BY DEF Init, AgeOK, NoWork
  <1>8. LookupOK
    BY DEF Init, LookupOK, Idle
  <1>9. PromiseOK
    BY <1>3, AbsentIsRow DEF PromiseOK, Init
  <1>10. LinksOK
    BY <1>1 DEF Init, LinksOK
  <1>11. NodesOK
    <2>1. AllNodes = {} /\ \A h \in Handles : doomed[h].nodes = {}
      BY <1>1 DEF Init, AllNodes, NoWork
    <2>2. QED
      BY <2>1 DEF NodesOK, OnlyOutdatedGone
  <1>12. ASSUME NEW h \in Handles
         PROVE  SearchOK(h)
    <2>1. search[h].found = {} /\ search[h].todo = {} /\ search[h].at = 0 /\ pc[h] = "closed"
          /\ search[h] = NoSearch
      BY DEF Init, NoSearch
    <2>2. QED
      BY <2>1 DEF SearchOK
  <1>13. QED
    BY <1>2, <1>4, <1>5, <1>6, <1>7, <1>8, <1>9, <1>10, <1>11, <1>12 DEF VersionInv

(* Every step keeps a table in order. *)
LEMMA VersionStep ==
    ASSUME VersionInv, [Next]_vars
    PROVE  VersionInv'
  <1>1. TypeOK'
    BY TypeStep
  <1>2. RowsOK' /\ NamesOK' /\ \A h \in Handles : ContentOK(h)'
    BY <1>1, RowsStep, NamesStep, ContentStep
  <1>3. LookupOK' /\ AgeOK' /\ NodesOK' /\ \A h \in Handles : SearchOK(h)'
    BY <1>1, LookupStep, AgeStep, NodesStep, SearchesStep
  <1>4. Careful => PromiseOK'
    BY <1>1, PromiseStep
  <1>5. LinksOK'
    BY <1>1, LinksStep
  <1>6. QED
    BY <1>1, <1>2, <1>3, <1>4, <1>5 DEF VersionInv

(***************************************************************************)
(* The versions of a table stay in order whatever handles open, write,     *)
(* commit and crash, and whatever vacuums delete of them: a row is known   *)
(* by its time, a handle has what its version has but for its own writes,  *)
(* only old versions are marked for deletion, as far as the search for     *)
(* them, which other handles' moves mislead, can tell, and only nodes of   *)
(* versions that an old one followed.                                      *)
(***************************************************************************)
THEOREM VersionsStayInOrder == Spec => []VersionInv
  <1>1. Init => VersionInv
    BY VersionInit
  <1>2. VersionInv /\ [Next]_vars => VersionInv'
    BY VersionStep
  <1>3. QED
    BY <1>1, <1>2, PTL DEF Spec

(* Handles, versions, vacuums and queries have the values that they should. *)
THEOREM VacuumTypes == Spec => []TypeOK
  <1>1. VersionInv => TypeOK
    BY DEF VersionInv
  <1>2. QED
    BY <1>1, VersionsStayInOrder, PTL

(***************************************************************************)
(* loadRootFromAny looks under root/merged/ and then under root/current/.  *)
(* A version can be moved past it once, from the second to the first; so a *)
(* second miss means that a vacuum deleted the version.                    *)
(***************************************************************************)
THEOREM MissedOnlyOnce == Spec => []MissedAtMostOnce
  <1>1. VersionInv => MissedAtMostOnce
    BY DEF VersionInv, LookupOK, MissedAtMostOnce
  <1>2. QED
    BY <1>1, VersionsStayInOrder, PTL

(***************************************************************************)
(* A stored version misses only nodes that some version had which was      *)
(* followed by one as old as a cutoff, whoever vacuums: DiffLinks reports  *)
(* nodes of such a version only, though it may report too many of them,    *)
(* and an interrupted vacuum, or one next to others, deletes no others.    *)
(***************************************************************************)
THEOREM OnlyOutdatedNodesGo == Spec => []OnlyOutdatedGone
  <1>1. VersionInv => OnlyOutdatedGone
    BY DEF VersionInv, NodesOK
  <1>2. QED
    BY <1>1, VersionsStayInOrder, PTL

(* A step deletes versions that were marked for deletion, or a handle's own empty one. *)
LEMMA DeletionStep ==
    ASSUME VersionInv, [Next]_vars, NEW n \in reclaimed' \ reclaimed
    PROVE  \E h \in Handles : roots[n].created <= before[h] /\ ChildrenPast(h, n)
  <1>1. TypeOK /\ RowsOK /\ NamesOK /\ AgeOK
    BY DEF VersionInv
  <1>2. ASSUME NEW h \in Handles, NEW m \in doomed[h].roots, DeleteRoot(h, m)
        PROVE  n = m
    BY <1>2 DEF DeleteRoot
  <1>3. ASSUME NEW h \in Handles, FinishVacuum(h)
        PROVE  roots[n].created <= before[h] /\ ChildrenPast(h, n)
    <2>1. n \in Superfluous(h)
      BY <1>3 DEF FinishVacuum
    <2>2. n = source[h] /\ n \in DOMAIN roots /\ roots[n].created < before[h]
      BY <1>1, <2>1 DEF Superfluous, TypeOK
    <2>3. roots[n].created \in Nat /\ before[h] \in Nat
      BY <1>1, <2>2, RootType DEF TypeOK
    <2>4. ASSUME NEW c \in History(source[h], DOMAIN roots), n \in roots[c].parents
          PROVE  FALSE
      <3>1. c \in DOMAIN roots /\ c <= n
        BY <1>1, <2>2, HistoryClosed, HistoryOlder
      <3>2. n < c
        BY <1>1, <2>4, <3>1 DEF NamesOK
      <3>3. n \in Nat /\ c \in Nat
        BY <1>1, <2>2, <3>1, RootType
      <3>4. QED
        BY <3>1, <3>2, <3>3
    <2>5. ChildrenPast(h, n)
      BY <2>4, PastChildren
    <2>6. QED
      BY <2>2, <2>3, <2>5
  <1>4. \/ \E h \in Handles : FinishVacuum(h)
        \/ \E h \in Handles : \E m \in doomed[h].roots : DeleteRoot(h, m)
    BY DeletionsAre
  <1>5. QED
    BY <1>1, <1>2, <1>3, <1>4 DEF AgeOK

(***************************************************************************)
(* A vacuum deletes only versions that are as old as its cutoff, and whose *)
(* children, as far as its handle descends from them, are as old as a      *)
(* cutoff that was given - although loadRootGraph leaves out the children  *)
(* that earlier vacuums deleted, and all that lies behind them.  What it   *)
(* overlooks is what led to its version only by way of one that was being  *)
(* moved from root/current/ to root/merged/ when it looked there.          *)
(***************************************************************************)
THEOREM VacuumsDeleteOldVersions == Spec => OnlyOldVersionsGo
  <1> DEFINE OldVersions == \A n \in reclaimed' \ reclaimed : \E h \in Handles :
                              roots[n].created <= before[h] /\ ChildrenPast(h, n)
  <1>1. VersionInv /\ [Next]_vars => [OldVersions]_vars
    <2> HIDE DEF OldVersions
    <2>1. VersionInv /\ [Next]_vars => OldVersions
      BY DeletionStep DEF OldVersions
    <2>2. QED
      BY <2>1
  <1>2. QED
    <2> HIDE DEF OldVersions
    <2>1. Spec => [][OldVersions]_vars
      BY <1>1, VersionsStayInOrder, PTL DEF Spec
    <2>2. QED
      BY <2>1 DEF OldVersions, OnlyOldVersionsGo

(* What is carried is the latest that the current versions have. *)
LEMMA PromisesShow ==
    ASSUME VersionInv, Careful
    PROVE  TableAsCommitted
  <1>1. TypeOK /\ RowsOK /\ PromiseOK /\ current \subseteq DOMAIN roots
    BY DEF VersionInv, TypeOK
  <1> SUFFICES ASSUME NEW k \in Keys
               PROVE  \/ Joined(current)[k] = truth[k]
                      \/ truth[k].deleted /\ Joined(current)[k] = Absent
    BY DEF TableAsCommitted
  <1>2. /\ Joined(current)[k] \in {Absent} \union {roots[n].tree[k] : n \in current}
        /\ \A n \in current : roots[n].tree[k].mod <= Joined(current)[k].mod
        /\ Joined(current)[k] \in RowsOf(k) /\ Joined(current)[k].mod <= truth[k].mod
    BY <1>1, JoinedFacts, JoinedRow
  <1>3. CASE Carried(k)
    <2>1. truth[k] \in RowsOf(k) /\ truth[k].mod \in Nat /\ Joined(current)[k].mod \in Nat
      BY <1>1, <1>2, RowsAreRows
    <2>2. Joined(current)[k].mod = truth[k].mod
      BY <1>2, <1>3, <2>1 DEF Carried
    <2>3. Joined(current)[k] = truth[k]
      BY <1>1, <1>2, <2>1, <2>2, RowsFacts
    <2>4. QED
      BY <2>3
  <1>4. CASE Gone(k)
    BY <1>2, <1>4 DEF Gone
  <1>5. QED
    BY <1>1, <1>3, <1>4, PromiseParts

(***************************************************************************)
(* The current versions of a table add up to what was committed, row by    *)
(* row, if every vacuum is started by a handle that has the table to       *)
(* itself and has merged it: then no row is lost and no deleted one comes  *)
(* back, although old deletions are forgotten, empty versions deleted, and *)
(* vacuums and commits break off anywhere.                                 *)
(***************************************************************************)
THEOREM CommittedRowsStay ==
    ASSUME Careful
    PROVE  Spec => []TableAsCommitted
  <1>1. VersionInv => TableAsCommitted
    BY PromisesShow
  <1>2. QED
    BY <1>1, VersionsStayInOrder, PTL

-----------------------------------------------------------------------------
(* The values of a row, traced back *)

(* What Back says of version n, if f says what is said of older ones. *)
BackFrom(f, h, k, n) ==
    [cutoff \in 0..(MaxTime + 1) |->
        LET r == roots[n].tree[k]
        IN  IF n = 0 THEN <<>>
            ELSE IF ~Reads(h, n, k) THEN <<0>>
            ELSE IF r = Absent \/ r.mod >= cutoff THEN <<>>
            ELSE <<r.mod>> \o f[r.prev][r.mod]]

(* Only what f says of older versions counts, since links lead to older ones. *)
LEMMA BackLooksBack ==
    ASSUME VersionInv, NEW h, NEW k \in Keys, NEW n \in 0..Len(roots), NEW f, NEW g,
           \A j \in 0..Len(roots) : j < n => f[j] = g[j]
    PROVE  BackFrom(f, h, k, n) = BackFrom(g, h, k, n)
  <1> DEFINE r == roots[n].tree[k]
  <1>1. TypeOK /\ LinksOK
    BY DEF VersionInv
  <1>2. Len(roots) \in Nat /\ DOMAIN roots = 1..Len(roots)
    <2>1. roots \in Seq(RootRecord)
      BY <1>1 DEF TypeOK
    <2>2. QED
      BY <2>1
  <1>3. ASSUME Reads(h, n, k), r # Absent
        PROVE  f[r.prev] = g[r.prev]
    <2>1. n \in DOMAIN roots
      BY <1>1, <1>3 DEF TypeOK, Reads
    <2>2. r.prev < n
      BY <1>1, <1>3, <2>1 DEF LinksOK
    <2>3. r.prev \in Nat
      BY <1>1, <2>1, RootType DEF Row
    <2>4. r.prev \in 0..Len(roots)
      BY <1>2, <2>2, <2>3
    <2>5. QED
      BY <2>2, <2>4
  <1>4. ASSUME NEW cutoff \in 0..(MaxTime + 1)
        PROVE  (IF n = 0 THEN <<>>
                ELSE IF ~Reads(h, n, k) THEN <<0>>
                ELSE IF r = Absent \/ r.mod >= cutoff THEN <<>>
                ELSE <<r.mod>> \o f[r.prev][r.mod])
             = (IF n = 0 THEN <<>>
                ELSE IF ~Reads(h, n, k) THEN <<0>>
                ELSE IF r = Absent \/ r.mod >= cutoff THEN <<>>
                ELSE <<r.mod>> \o g[r.prev][r.mod])
    <2>1. CASE Reads(h, n, k) /\ r # Absent
      <3>1. f[r.prev][r.mod] = g[r.prev][r.mod]
        BY <1>3, <2>1
      <3> HIDE DEF r
      <3>2. QED
        BY <3>1
    <2>2. CASE ~(Reads(h, n, k) /\ r # Absent)
      <3> HIDE DEF r
      <3>1. QED
        BY <2>2
    <2>3. QED
      BY <2>1, <2>2
  <1>5. QED
    BY <1>4, Zenon DEF BackFrom

(* So there is a function that says what Back is to say. *)
LEMMA BackExists ==
    ASSUME VersionInv, NEW h, NEW k \in Keys
    PROVE  \E f : f = [n \in 0..Len(roots) |-> BackFrom(f, h, k, n)]
  <1> DEFINE Says(f, m) == \A n \in 0..m : f[n] = BackFrom(f, h, k, n)
             Fails == {m \in 0..Len(roots) : \A f : ~Says(f, m)}
  <1>1. Len(roots) \in Nat
    <2>1. roots \in Seq(RootRecord)
      BY DEF VersionInv, TypeOK
    <2>2. QED
      BY <2>1
  <1>2. Fails = {}
    <2> SUFFICES ASSUME Fails # {}
                 PROVE  FALSE
      OBVIOUS
    <2>1. Fails \subseteq Nat
      OBVIOUS
    <2>2. PICK m \in Fails : \A l \in Fails : m <= l
      <3> HIDE DEF Fails
      <3>1. QED
        BY <2>1, LeastNumber
    <2>3. m \in 0..Len(roots) /\ m \in Nat /\ \A f : ~Says(f, m)
      OBVIOUS
    <2>4. PICK g : \A n \in 0..(m - 1) : g[n] = BackFrom(g, h, k, n)
      <3>1. CASE m = 0
        BY <3>1
      <3>2. CASE m # 0
        <4>1. m - 1 \in 0..Len(roots) /\ ~(m <= m - 1)
          BY <1>1, <2>3, <3>2
        <4>2. m - 1 \notin Fails
          BY <2>2, <4>1
        <4>3. \E f : Says(f, m - 1)
          BY <4>1, <4>2
        <4>4. QED
          BY <4>3
      <3>3. QED
        BY <3>1, <3>2
    <2> DEFINE f == [n \in 0..m |-> IF n = m THEN BackFrom(g, h, k, m) ELSE g[n]]
    <2>5. \A j \in 0..Len(roots) : j < m => f[j] = g[j]
      BY <2>3
    <2>6. f[m] = BackFrom(g, h, k, m)
      BY <2>3
    <2> HIDE DEF f
    <2>7. ASSUME NEW n \in 0..m
          PROVE  f[n] = BackFrom(f, h, k, n)
      <3>1. n \in 0..Len(roots) /\ \A j \in 0..Len(roots) : j < n => f[j] = g[j]
        BY <2>3, <2>5, <2>7
      <3>2. BackFrom(f, h, k, n) = BackFrom(g, h, k, n)
        BY <3>1, BackLooksBack
      <3>3. CASE n = m
        BY <2>6, <3>2, <3>3
      <3>4. CASE n # m
        <4>1. n \in 0..(m - 1) /\ n < m
          BY <2>3, <2>7, <3>4
        <4>2. QED
          BY <2>4, <2>5, <3>1, <3>2, <4>1
      <3>5. QED
        BY <3>3, <3>4
    <2>8. QED
      BY <2>3, <2>7
  <1>3. PICK g : Says(g, Len(roots))
    BY <1>1, <1>2
  <1> DEFINE f == [n \in 0..Len(roots) |-> g[n]]
  <1>4. \A n \in 0..Len(roots) : f[n] = g[n]
    OBVIOUS
  <1>5. \A n \in 0..Len(roots) : f[n] = BackFrom(f, h, k, n)
    <2> HIDE DEF f
    <2> TAKE n \in 0..Len(roots)
    <2>1. BackFrom(f, h, k, n) = BackFrom(g, h, k, n)
      BY <1>4, BackLooksBack
    <2>2. QED
      BY <1>3, <1>4, <2>1
  <1>6. f = [n \in 0..Len(roots) |-> BackFrom(f, h, k, n)]
    <2>1. f = [n \in 0..Len(roots) |-> f[n]]
      OBVIOUS
    <2> HIDE DEF f
    <2>2. QED
      BY <1>5, <2>1
  <1>7. QED
    BY <1>6

(* What Back says of version n and the times before a cutoff. *)
BackSays(h, k, n, cutoff) ==
    /\ n = 0 => Back(h, k)[n][cutoff] = <<>>
    /\ n # 0 /\ ~Reads(h, n, k) => Back(h, k)[n][cutoff] = <<0>>
    /\ n # 0 /\ Reads(h, n, k) /\ roots[n].tree[k] = Absent => Back(h, k)[n][cutoff] = <<>>
    /\ n # 0 /\ Reads(h, n, k) /\ roots[n].tree[k] # Absent
          /\ ~(roots[n].tree[k].mod >= cutoff)
         => Back(h, k)[n][cutoff] = <<roots[n].tree[k].mod>> \o
                                    Back(h, k)[roots[n].tree[k].prev][roots[n].tree[k].mod]

(* It does say so. *)
LEMMA BackIs ==
    ASSUME VersionInv, NEW h, NEW k \in Keys, NEW n \in 0..Len(roots),
           NEW cutoff \in 0..(MaxTime + 1)
    PROVE  BackSays(h, k, n, cutoff)
  <1>1. Back(h, k) = CHOOSE f : f = [m \in 0..Len(roots) |-> BackFrom(f, h, k, m)]
    BY DEF Back, BackFrom
  <1>2. Back(h, k) = [m \in 0..Len(roots) |-> BackFrom(Back(h, k), h, k, m)]
    BY <1>1, BackExists, Zenon
  <1>3. Back(h, k)[n] = BackFrom(Back(h, k), h, k, n)
    BY <1>2
  <1>4. QED
    BY <1>3, Zenon DEF BackFrom, BackSays

(* A list of times has the values it should, each once and the newest first. *)
Tells(list, vs) ==
    /\ list \in Seq(Nat)
    /\ {list[i] : i \in DOMAIN list} = vs
    /\ \A i, j \in DOMAIN list : i < j => list[i] > list[j]

LEMMA TellsNothing == Tells(<<>>, {})
  BY DEF Tells

(* A newer value comes first. *)
LEMMA TellsMore ==
    ASSUME NEW list, NEW vs, Tells(list, vs), NEW v \in Nat, \A w \in vs : w < v
    PROVE  Tells(<<v>> \o list, {v} \union vs)
  <1> DEFINE more == <<v>> \o list
  <1>1. list \in Seq(Nat) /\ Len(list) \in Nat /\ DOMAIN list = 1..Len(list)
    BY DEF Tells
  <1>2. /\ more \in Seq(Nat) /\ DOMAIN more = 1..(Len(list) + 1)
        /\ more[1] = v /\ \A i \in 1..Len(list) : more[i + 1] = list[i]
    BY <1>1
  <1> HIDE DEF more
  <1>3. \A i \in DOMAIN more : i = 1 \/ (i - 1 \in DOMAIN list /\ more[i] = list[i - 1])
    BY <1>1, <1>2
  <1>4. \A i \in DOMAIN list : i + 1 \in DOMAIN more /\ more[i + 1] = list[i]
    BY <1>1, <1>2
  <1>5. \A i \in DOMAIN list : list[i] \in vs
    BY DEF Tells
  <1>6. {more[i] : i \in DOMAIN more} = {v} \union vs
    <2>1. 1 \in DOMAIN more
      BY <1>1, <1>2
    <2>2. \A i \in DOMAIN more : more[i] \in {v} \union vs
      BY <1>2, <1>3, <1>5
    <2>3. \A w \in vs : \E i \in DOMAIN more : more[i] = w
      <3> TAKE w \in vs
      <3>1. PICK i \in DOMAIN list : list[i] = w
        BY DEF Tells
      <3>2. QED
        BY <1>4, <3>1
    <2>4. QED
      BY <1>2, <2>1, <2>2, <2>3
  <1>7. ASSUME NEW i \in DOMAIN more, NEW j \in DOMAIN more, i < j
        PROVE  more[i] > more[j]
    <2>1. i \in Nat /\ j \in Nat /\ j # 1 /\ j - 1 \in DOMAIN list /\ more[j] = list[j - 1]
      BY <1>1, <1>2, <1>3, <1>7
    <2>2. CASE i = 1
      <3>1. list[j - 1] < v /\ list[j - 1] \in Nat
        BY <1>1, <1>5, <2>1
      <3>2. QED
        BY <1>2, <2>1, <2>2, <3>1
    <2>3. CASE i # 1
      <3>1. i - 1 \in DOMAIN list /\ more[i] = list[i - 1] /\ i - 1 < j - 1
        BY <1>3, <1>7, <2>1, <2>3
      <3>2. QED
        BY <2>1, <3>1 DEF Tells
    <2>4. QED
      BY <2>2, <2>3
  <1>8. QED
    BY <1>2, <1>6, <1>7 DEF Tells, more

(* A list that ends with an error. *)
Errs(list) == list \in Seq(Nat) /\ \E i \in DOMAIN list : list[i] = 0

LEMMA ErrorTold == Errs(<<0>>)
  <1>1. <<0>> \in Seq(Nat) /\ 1 \in DOMAIN <<0>> /\ <<0>>[1] = 0
    OBVIOUS
  <1>2. QED
    BY <1>1 DEF Errs

(* It still does with a value before it. *)
LEMMA ErrorStays ==
    ASSUME NEW list, Errs(list), NEW v \in Nat
    PROVE  Errs(<<v>> \o list)
  <1> DEFINE more == <<v>> \o list
  <1>1. list \in Seq(Nat) /\ Len(list) \in Nat /\ DOMAIN list = 1..Len(list)
    BY DEF Errs
  <1>2. /\ more \in Seq(Nat) /\ DOMAIN more = 1..(Len(list) + 1)
        /\ \A i \in 1..Len(list) : more[i + 1] = list[i]
    BY <1>1
  <1> HIDE DEF more
  <1>3. PICK i \in DOMAIN list : list[i] = 0
    BY DEF Errs
  <1>4. i + 1 \in DOMAIN more /\ more[i + 1] = 0
    BY <1>1, <1>2, <1>3
  <1>5. QED
    BY <1>2, <1>4 DEF Errs, more

(* The values of key k on the way to version n, since the row last did not exist. *)
ValuesUpTo(n, k) ==
    LET line == History(n, DOMAIN roots)
    IN  {roots[m].tree[k].mod :
            m \in {m \in line : \A c \in line : c >= m => roots[c].tree[k] # Absent}}

(* Traced back from the row of version n, they are told, or an error is. *)
Told(h, n, k) ==
    LET r    == roots[n].tree[k]
        rest == Back(h, k)[r.prev][r.mod]
    IN  /\ \A v \in ValuesUpTo(n, k) : v <= r.mod
        /\ r # Absent => Errs(rest) \/ Tells(<<r.mod>> \o rest, ValuesUpTo(n, k))

(* A version with the row has its value; one without it has none. *)
LEMMA OwnValue ==
    ASSUME VersionInv, NEW k \in Keys, NEW n \in DOMAIN roots
    PROVE  /\ roots[n].tree[k] = Absent => ValuesUpTo(n, k) = {}
           /\ roots[n].tree[k] # Absent => roots[n].tree[k].mod \in ValuesUpTo(n, k)
           /\ \A v \in ValuesUpTo(n, k) : v \in Nat
  <1> DEFINE line == History(n, DOMAIN roots)
  <1>1. TypeOK /\ NamesOK
    BY DEF VersionInv
  <1>2. n \in line /\ line \subseteq DOMAIN roots
    BY HistoryClosed
  <1>3. \A m \in line : m <= n
    BY <1>1, HistoryOlder
  <1>4. \A m \in DOMAIN roots : m \in Nat
    BY <1>1, RootType
  <1>5. \A m \in line : n >= m /\ (m >= n => m = n)
    <2> HIDE DEF line
    <2>1. QED
      BY <1>2, <1>3, <1>4
  <1>6. \A v \in ValuesUpTo(n, k) : v \in Nat
    BY <1>1, <1>2, RowsAreRows DEF ValuesUpTo
  <1>7. QED
    BY <1>2, <1>5, <1>6, Zenon DEF ValuesUpTo

(* A history is a version, and the history of its only parent. *)
LEMMA ParentLine ==
    ASSUME TypeOK, NamesOK, NEW n \in DOMAIN roots
    PROVE  /\ roots[n].parents = {} => History(n, DOMAIN roots) = {n}
           /\ \A p : roots[n].parents = {p} =>
                History(n, DOMAIN roots) = {n} \union History(p, DOMAIN roots)
  <1> DEFINE line(m) == History(m, DOMAIN roots)
  <1>1. n \in line(n) /\ \A p \in roots[n].parents : p \in line(n) /\ p \in line(p)
    BY HistoryClosed, ParentsStored
  <1>2. ASSUME roots[n].parents = {}
        PROVE  line(n) = {n}
    <2>1. \A c \in {n} \intersect DOMAIN roots : roots[c].parents \intersect DOMAIN roots \subseteq {n}
      BY <1>2
    <2>2. line(n) \subseteq {n}
      <3> SUFFICES ASSUME NEW S, S = {n}
                   PROVE  line(n) \subseteq S
        OBVIOUS
      <3>1. n \in S /\ \A c \in S \intersect DOMAIN roots :
              roots[c].parents \intersect DOMAIN roots \subseteq S
        BY <2>1
      <3>2. QED
        BY <3>1, HistoryLeast
    <2>3. QED
      BY <1>1, <2>2
  <1>3. ASSUME NEW p, roots[n].parents = {p}
        PROVE  line(n) = {n} \union line(p)
    <2> DEFINE S == {n} \union line(p)
    <2>1. \A c \in S \intersect DOMAIN roots : roots[c].parents \intersect DOMAIN roots \subseteq S
      BY <1>1, <1>3, HistoryClosed
    <2>2. line(n) \subseteq S
      <3> HIDE DEF S
      <3>1. n \in S
        BY DEF S
      <3>2. QED
        BY <2>1, <3>1, HistoryLeast
    <2>3. \A c \in line(n) : roots[c].parents \intersect DOMAIN roots \subseteq line(n)
      BY HistoryClosed
    <2>4. line(p) \subseteq line(n)
      BY <1>1, <1>3, <2>3, HistoryLeast
    <2>5. QED
      BY <1>1, <2>2, <2>4
  <1>4. QED
    BY <1>2, <1>3

(* A row that is that of version p, or was written over it, is told with what p was told. *)
LEMMA RowTold ==
    ASSUME VersionInv, NEW h, NEW k \in Keys, NEW p \in DOMAIN roots,
           Told(h, p, k), NEW r \in Row, r # Absent, r.mod <= now,
           r = roots[p].tree[k] \/ Follows(r, p, k)
    PROVE  /\ \/ Errs(Back(h, k)[r.prev][r.mod])
              \/ Tells(<<r.mod>> \o Back(h, k)[r.prev][r.mod], {r.mod} \union ValuesUpTo(p, k))
           /\ \A v \in ValuesUpTo(p, k) : v <= r.mod
  <1> SUFFICES ASSUME NEW q, q = roots[p].tree[k], NEW vs, vs = ValuesUpTo(p, k)
               PROVE  /\ \/ Errs(Back(h, k)[r.prev][r.mod])
                         \/ Tells(<<r.mod>> \o Back(h, k)[r.prev][r.mod], {r.mod} \union vs)
                      /\ \A v \in vs : v <= r.mod
    OBVIOUS
  <1>1. TypeOK
    BY DEF VersionInv
  <1>2. /\ p \in 0..Len(roots) /\ 0 \in 0..Len(roots) /\ p # 0
        /\ r.mod \in Nat /\ r.mod \in 0..(MaxTime + 1)
    <2>1. roots \in Seq(RootRecord)
      BY <1>1 DEF TypeOK
    <2>2. Len(roots) \in Nat /\ DOMAIN roots = 1..Len(roots)
      BY <2>1
    <2>3. MaxTime \in Nat /\ now \in 0..MaxTime
      BY <1>1, BoundsAre DEF TypeOK
    <2>4. r.mod \in Nat
      BY DEF Row
    <2>5. QED
      BY <2>2, <2>3, <2>4
  <1>3. q \in Row /\ q.mod \in Nat
    BY <1>1, RowsAreRows DEF Row
  <1>4. /\ \A v \in vs : v \in Nat /\ v <= q.mod
        /\ q = Absent => vs = {}
        /\ q # Absent => q.mod \in vs
    BY OwnValue DEF Told
  <1>5. q # Absent => \/ Errs(Back(h, k)[q.prev][q.mod])
                      \/ Tells(<<q.mod>> \o Back(h, k)[q.prev][q.mod], vs)
    BY Zenon DEF Told
  <1>6. BackSays(h, k, p, r.mod)
    BY <1>2, BackIs
  <1>7. CASE r = q
    <2>1. {r.mod} \union vs = vs
      BY <1>4, <1>7
    <2>2. QED
      BY <1>4, <1>5, <1>7, <2>1, Zenon
  <1>8. CASE Follows(r, p, k)
    <2>1. r.mod > q.mod /\ (r.prev = p \/ (r.prev = 0 /\ q = Absent))
      BY <1>8 DEF Follows
    <2>2. \A v \in vs : v < r.mod /\ v <= r.mod
      BY <1>2, <1>3, <1>4, <2>1
    <2>3. Errs(Back(h, k)[r.prev][r.mod]) \/ Tells(Back(h, k)[r.prev][r.mod], vs)
      <3>1. CASE r.prev = 0 /\ q = Absent
        <4>1. Back(h, k)[0][r.mod] = <<>>
          <5>1. BackSays(h, k, 0, r.mod)
            BY <1>2, BackIs
          <5>2. QED
            BY <5>1 DEF BackSays
        <4>2. QED
          BY <1>4, <3>1, <4>1, TellsNothing
      <3>2. CASE r.prev = p /\ ~Reads(h, p, k)
        <4>1. Back(h, k)[p][r.mod] = <<0>>
          BY <1>2, <1>6, <3>2, Zenon DEF BackSays
        <4>2. QED
          BY <3>2, <4>1, ErrorTold
      <3>3. CASE r.prev = p /\ Reads(h, p, k) /\ q = Absent
        <4>1. Back(h, k)[p][r.mod] = <<>>
          BY <1>2, <1>6, <3>3, Zenon DEF BackSays
        <4>2. QED
          BY <1>4, <3>3, <4>1, TellsNothing
      <3>4. CASE r.prev = p /\ Reads(h, p, k) /\ q # Absent
        <4>1. ~(roots[p].tree[k].mod >= r.mod) /\ roots[p].tree[k] # Absent
          BY <1>2, <1>3, <2>1, <3>4
        <4>2. Back(h, k)[p][r.mod] = <<roots[p].tree[k].mod>> \o
                  Back(h, k)[roots[p].tree[k].prev][roots[p].tree[k].mod]
          BY <1>2, <1>6, <3>4, <4>1, Zenon DEF BackSays
        <4>3. Back(h, k)[r.prev][r.mod] = <<q.mod>> \o Back(h, k)[q.prev][q.mod]
          BY <3>4, <4>2, Zenon
        <4>4. QED
          BY <1>3, <1>5, <3>4, <4>3, ErrorStays
      <3>5. QED
        BY <2>1, <3>1, <3>2, <3>3, <3>4
    <2>4. Tells(Back(h, k)[r.prev][r.mod], vs) =>
              Tells(<<r.mod>> \o Back(h, k)[r.prev][r.mod], {r.mod} \union vs)
      BY <1>2, <2>2, TellsMore
    <2>5. QED
      BY <2>2, <2>3, <2>4
  <1>9. QED
    BY <1>7, <1>8


(* Without forks, what led to a version is told. *)
LEMMA LineTold ==
    ASSUME VersionInv, NEW h, NEW k \in Keys, NEW s \in DOMAIN roots,
           \A n \in History(s, DOMAIN roots) : Cardinality(roots[n].parents) <= 1
    PROVE  \A n \in History(s, DOMAIN roots) : Told(h, n, k)
  <1> DEFINE line == History(s, DOMAIN roots)
             Untold == {n \in line : ~Told(h, n, k)}
  <1>1. TypeOK /\ RowsOK /\ NamesOK /\ LinksOK
    BY DEF VersionInv
  <1>2. line \subseteq DOMAIN roots /\ \A n \in line : roots[n].parents \subseteq line
    BY <1>1, HistoryClosed, ParentsStored
  <1>3. DOMAIN roots = 1..Len(roots) /\ Len(roots) \in Nat
    <2>1. roots \in Seq(RootRecord)
      BY <1>1 DEF TypeOK
    <2>2. QED
      BY <2>1
  <1> SUFFICES ASSUME Untold # {}
               PROVE  FALSE
    OBVIOUS
  <1>4. PICK n \in Untold : \A m \in Untold : n <= m
    <2>1. Untold \subseteq Nat
      BY <1>2, <1>3
    <2> HIDE DEF Untold
    <2>2. QED
      BY <2>1, LeastNumber
  <1>5. n \in line /\ n \in DOMAIN roots
    BY <1>2
  <1> SUFFICES ASSUME NEW r, r = roots[n].tree[k]
               PROVE  Told(h, n, k)
    BY <1>4
  <1>6. r \in Row /\ r.mod \in Nat /\ r.mod <= now
    <2>1. r \in RowsOf(k)
      BY <1>1, <1>5, RowsAreRows
    <2>2. r \in Row /\ r.mod \in Nat
      BY <1>1, <2>1, RowsAreRows
    <2>3. r.mod <= now
      BY <1>1, <2>1 DEF RowsOK
    <2>4. QED
      BY <2>2, <2>3
  <1>7. \A p \in roots[n].parents : p \in DOMAIN roots /\ p < n /\ Told(h, p, k)
    <2> TAKE p \in roots[n].parents
    <2>1. p \in line /\ p \in DOMAIN roots /\ p < n /\ p \in Nat /\ n \in Nat
      BY <1>1, <1>2, <1>3, <1>5 DEF NamesOK
    <2>2. p \notin Untold
      BY <1>4, <2>1
    <2>3. QED
      BY <2>1, <2>2
  <1>8. roots[n].parents = {} \/ \E p : roots[n].parents = {p}
    <2>1. IsFiniteSet(roots[n].parents)
      <3>1. IsFiniteSet(1..Len(roots))
        BY <1>3, FS_Interval
      <3>2. roots[n].parents \in SUBSET (1..Len(roots))
        BY <1>2, <1>3, <1>5
      <3>3. QED
        BY <3>1, <3>2, FS_Subset
    <2>2. Cardinality(roots[n].parents) = 0 \/ Cardinality(roots[n].parents) = 1
      BY <1>5, <2>1, FS_CardinalityType
    <2>3. QED
      BY <2>1, <2>2, FS_EmptySet, FS_Singleton
  <1>9. CASE r = Absent
    <2>1. ValuesUpTo(n, k) = {}
      BY <1>5, <1>9, OwnValue
    <2>2. QED
      BY <1>9, <2>1 DEF Told
  <1>10. ASSUME r # Absent,
                NEW vs, ValuesUpTo(n, k) = {r.mod} \union vs,
                \A v \in vs : v <= r.mod,
                \/ Errs(Back(h, k)[r.prev][r.mod])
                \/ Tells(<<r.mod>> \o Back(h, k)[r.prev][r.mod], {r.mod} \union vs)
         PROVE  Told(h, n, k)
    <2>1. \A v \in ValuesUpTo(n, k) : v <= r.mod
      BY <1>6, <1>10
    <2>2. QED
      BY <1>10, <2>1, Zenon DEF Told
  <1>11. CASE r # Absent /\ roots[n].parents = {}
    <2>1. r.prev = 0
      BY <1>1, <1>5, <1>11 DEF LinksOK
    <2>2. Back(h, k)[0][r.mod] = <<>>
      <3>1. r.mod \in 0..(MaxTime + 1) /\ 0 \in 0..Len(roots)
        BY <1>1, <1>3, <1>6, BoundsAre DEF TypeOK
      <3>2. BackSays(h, k, 0, r.mod)
        BY <3>1, BackIs
      <3>3. QED
        BY <3>2 DEF BackSays
    <2>3. Tells(<<r.mod>> \o Back(h, k)[r.prev][r.mod], {r.mod} \union {})
      BY <1>6, <2>1, <2>2, TellsNothing, TellsMore
    <2>4. ValuesUpTo(n, k) = {r.mod} \union {}
      <3>1. History(n, DOMAIN roots) = {n}
        BY <1>1, <1>5, <1>11, ParentLine
      <3>2. QED
        BY <1>11, <3>1 DEF ValuesUpTo
    <2>5. QED
      BY <1>10, <1>11, <2>3, <2>4, Zenon
  <1>12. ASSUME r # Absent, NEW p, roots[n].parents = {p}
         PROVE  Told(h, n, k)
    <2>1. p \in DOMAIN roots /\ p < n /\ Told(h, p, k)
      BY <1>7, <1>12
    <2>2. r = roots[p].tree[k] \/ Follows(r, p, k)
      BY <1>1, <1>5, <1>12 DEF LinksOK
    <2>3. /\ \/ Errs(Back(h, k)[r.prev][r.mod])
             \/ Tells(<<r.mod>> \o Back(h, k)[r.prev][r.mod], {r.mod} \union ValuesUpTo(p, k))
          /\ \A v \in ValuesUpTo(p, k) : v <= r.mod
      BY <1>6, <1>12, <2>1, <2>2, RowTold
    <2>4. ValuesUpTo(n, k) = {r.mod} \union ValuesUpTo(p, k)
      <3> DEFINE ln == History(n, DOMAIN roots)
                 lp == History(p, DOMAIN roots)
                 Since(l) == {m \in l : \A c \in l : c >= m => roots[c].tree[k] # Absent}
      <3>1. ln = {n} \union lp
        BY <1>1, <1>5, <1>12, ParentLine
      <3>2. \A m \in lp : m < n /\ ~(m >= n)
        BY <1>1, <1>3, <1>5, <2>1, HistoryOlder, HistoryClosed
      <3>3. Since(ln) = {n} \union Since(lp)
        BY <1>5, <1>12, <3>1, <3>2
      <3>4. QED
        BY <3>3 DEF ValuesUpTo
    <2>5. QED
      BY <1>10, <1>12, <2>3, <2>4, Zenon
  <1>13. QED
    BY <1>8, <1>9, <1>11, <1>12

(* So is what a handle has, as long as it has not changed the row and meets no error. *)
LEMMA TracesTell ==
    ASSUME VersionInv
    PROVE  TraceComplete
  <1> SUFFICES ASSUME NEW h \in Handles, NEW k \in Keys, k \notin dirty[h],
                      NEW s, s = source[h], NEW r, r = tree[h][k],
                      NEW told, told = Trace(h, k),
                      s # 0, r # Absent,
                      \A n \in Ancestors(s) \union {s} : Cardinality(roots[n].parents) <= 1,
                      \A i \in DOMAIN told : told[i] # 0
               PROVE  Tells(told, ValuesSince(h, k))
    BY DEF TraceComplete, Tells
  <1>1. TypeOK /\ RowsOK /\ LinksOK /\ ContentOK(h)
    BY DEF VersionInv
  <1>2. s \in DOMAIN roots
    BY <1>1 DEF TypeOK
  <1>3. s \in History(s, DOMAIN roots) /\ Ancestors(s) \union {s} = History(s, DOMAIN roots)
    BY <1>2, HistoryClosed DEF Ancestors
  <1>4. Told(h, s, k)
    BY <1>2, <1>3, LineTold
  <1>5. r = roots[s].tree[k] /\ r.mod \in Nat
    BY <1>1, RowsAreRows DEF ContentOK, SourceRow
  <1>6. r.prev # s
    <2>1. r.prev < s
      BY <1>1, <1>2, <1>5 DEF LinksOK
    <2>2. r.prev \in Nat /\ s \in Nat
      BY <1>1, <1>2, <1>5, RootType DEF Row
    <2>3. QED
      BY <2>1, <2>2
  <1>7. Readable(h, k)
    <2> SUFFICES ASSUME ~Readable(h, k)
                 PROVE  FALSE
      OBVIOUS
    <2>1. told = <<0>>
      BY DEF Trace
    <2>2. QED
      BY <2>1
  <1>8. told = <<r.mod>> \o Back(h, k)[r.prev][r.mod]
    BY <1>6, <1>7 DEF Trace, Earlier
  <1>9. ~Errs(Back(h, k)[r.prev][r.mod])
    <2>1. ~Errs(told)
      BY DEF Errs
    <2>2. QED
      BY <1>5, <1>8, <2>1, ErrorStays
  <1>10. ValuesSince(h, k) = ValuesUpTo(s, k)
    BY <1>3 DEF ValuesSince, ValuesUpTo
  <1>11. QED
    BY <1>4, <1>5, <1>8, <1>9, <1>10, Zenon DEF Told

(***************************************************************************)
(* DB.TraceHistory follows the links of a row from version to version.  It *)
(* tells all values that a committed row had in a history without forks,   *)
(* or it ends with an error, although clones, commits and vacuums copy     *)
(* rows and their links from one version to the next, and vacuums delete   *)
(* versions and nodes that it needs.                                       *)
(***************************************************************************)
THEOREM TracesAreComplete == Spec => []TraceComplete
  <1>1. VersionInv => TraceComplete
    BY TracesTell
  <1>2. QED
    BY <1>1, VersionsStayInOrder, PTL

-----------------------------------------------------------------------------
(* What a vacuum keeps *)

(* A node of two trees: a leaf is the same row of both, a top node makes them equal. *)
LEMMA NodesMatch ==
    ASSUME NEW t \in [Keys -> Row], NEW u \in [Keys -> Row]
    PROVE  /\ \A k, r : Leaf(k, r) \in NodesOf(t) => k \in Keys /\ t[k] = r /\ r # Absent
           /\ \A x \in Top(t) : x \in NodesOf(u) => t = u /\ t # EmptyTree
           /\ \A x \in NodesOf(t) : x \in Top(t) \/ \E k \in Keys : x = Leaf(k, t[k]) /\ t[k] # Absent
  <1>1. \A x \in NodesOf(t) : x \in Top(t) \/ \E k \in Keys : x = Leaf(k, t[k]) /\ t[k] # Absent
    BY DEF NodesOf
  <1>2. ASSUME NEW k, NEW r, Leaf(k, r) \in NodesOf(t)
        PROVE  k \in Keys /\ t[k] = r /\ r # Absent
    <2>1. PICK j \in Keys : Leaf(k, r) = Leaf(j, t[j]) /\ t[j] # Absent
      BY <1>1, <1>2, NodesDiffer
    <2>2. k = j /\ r = t[j]
      BY <2>1, NodesDiffer
    <2>3. QED
      BY <2>1, <2>2
  <1>3. ASSUME NEW x \in Top(t), x \in NodesOf(u)
        PROVE  t = u /\ t # EmptyTree
    <2>1. x = [links |-> t] /\ t # EmptyTree
      BY DEF Top
    <2>2. \A k \in Keys : x # Leaf(k, u[k])
      BY NodesDiffer
    <2>3. x \in Top(u)
      BY <1>3, <2>2 DEF NodesOf
    <2>4. x = [links |-> u]
      BY <2>3 DEF Top
    <2>5. x.links = t /\ x.links = u
      BY <2>1, <2>4
    <2>6. QED
      BY <2>1, <2>5
  <1>4. QED
    BY <1>1, <1>2, <1>3

(* Trees that share a node share a row. *)
LEMMA SharedNode ==
    ASSUME NEW t \in [Keys -> Row], NEW u \in [Keys -> Row],
           NEW x \in NodesOf(t), x \in NodesOf(u)
    PROVE  \E k \in Keys : t[k] = u[k] /\ t[k] # Absent
  <1>1. CASE x \in Top(t)
    <2>1. t = u /\ t # EmptyTree
      BY <1>1, NodesMatch
    <2>2. EmptyTree \in [Keys -> Row] /\ \A k \in Keys : EmptyTree[k] = Absent
      BY AbsentIsRow DEF EmptyTree
    <2>3. \E k \in Keys : t[k] # EmptyTree[k]
      BY <2>1, <2>2
    <2>4. QED
      BY <2>1, <2>2, <2>3
  <1>2. CASE \E k \in Keys : x = Leaf(k, t[k]) /\ t[k] # Absent
    <2>1. PICK k \in Keys : x = Leaf(k, t[k]) /\ t[k] # Absent
      BY <1>2
    <2>2. u[k] = t[k]
      BY <2>1, NodesMatch
    <2>3. QED
      BY <2>1, <2>2
  <1>3. QED
    BY <1>1, <1>2, NodesMatch

-----------------------------------------------------------------------------
(* Histories while versions are stored *)

(* A version of the history of s has node x; and such a version was replaced. *)
HadNode(x, s)    == \E p \in History(s, DOMAIN roots) : x \in NodesOf(roots[p].tree)
OutdatedIn(x, s) == Outdated(x, History(s, DOMAIN roots))

(* What was said of the history of a stored version, or of none, stays true. *)
LEMMA LossFactsStay ==
    ASSUME TypeOK, NamesOK, TypeOK', StoreGrows, VacuumsGrow
    PROVE  /\ \A s \in DOMAIN roots \union {0} : \A x : HadNode(x, s) => HadNode(x, s)'
           /\ \A s \in DOMAIN roots \union {0} : \A x : OutdatedIn(x, s) => OutdatedIn(x, s)'
           /\ \A s \in DOMAIN roots \union {0}, n \in DOMAIN roots : Kin(s, n) => Kin(s, n)'
  <1>1. /\ \A s \in DOMAIN roots \union {0} : History(s, DOMAIN roots)' = History(s, DOMAIN roots)
        /\ \A s : History(s, DOMAIN roots) \subseteq DOMAIN roots
    BY LineStays, HistoryClosed
  <1>2. DOMAIN roots \subseteq DOMAIN roots' /\ \A n \in DOMAIN roots : roots'[n] = roots[n]
    BY DEF StoreGrows
  <1>3. ASSUME NEW s \in DOMAIN roots \union {0}, NEW x, HadNode(x, s)
        PROVE  HadNode(x, s)'
    <2>1. PICK p \in History(s, DOMAIN roots) : x \in NodesOf(roots[p].tree)
      BY <1>3 DEF HadNode
    <2>2. p \in History(s, DOMAIN roots)' /\ roots'[p] = roots[p]
      BY <1>1, <1>2, <2>1
    <2>3. x \in NodesOf(roots'[p].tree)
      BY <2>1, <2>2
    <2>4. QED
      BY <2>2, <2>3 DEF HadNode, NodesOf, Top, Leaf
  <1>4. ASSUME NEW s \in DOMAIN roots \union {0}, NEW x, OutdatedIn(x, s)
        PROVE  OutdatedIn(x, s)'
    <2>1. PICK ns : ns = History(s, DOMAIN roots)
      OBVIOUS
    <2>2. ns \in SUBSET DOMAIN roots /\ Outdated(x, ns)
      BY <1>1, <1>4, <2>1 DEF OutdatedIn
    <2>3. Outdated(x, ns)'
      BY <2>2, ReplacedStays
    <2>4. ns = History(s, DOMAIN roots)'
      BY <1>1, <2>1
    <2>5. QED
      BY <2>3, <2>4 DEF OutdatedIn, Outdated
  <1>5. ASSUME NEW s \in DOMAIN roots \union {0}, NEW n \in DOMAIN roots, Kin(s, n)
        PROVE  Kin(s, n)'
    <2>1. /\ History(s, DOMAIN roots)' = History(s, DOMAIN roots)
          /\ History(n, DOMAIN roots)' = History(n, DOMAIN roots)
          /\ \A p \in History(s, DOMAIN roots) : roots'[p] = roots[p]
          /\ \A p \in History(n, DOMAIN roots) : roots'[p] = roots[p]
      BY <1>1, <1>2
    <2>2. QED
      BY <1>5, <2>1 DEF Kin
  <1>6. QED
    BY <1>3, <1>4, <1>5

(* The history of a version has those of its parents. *)
LEMMA ChildLine ==
    ASSUME NEW m \in DOMAIN roots'
    PROVE  /\ m \in History(m, DOMAIN roots)'
           /\ History(m, DOMAIN roots)' \subseteq DOMAIN roots'
           /\ \A p \in roots'[m].parents \intersect DOMAIN roots' :
                History(p, DOMAIN roots)' \subseteq History(m, DOMAIN roots)'
  <1>1. /\ m \in History(m, DOMAIN roots)'
        /\ History(m, DOMAIN roots)' \subseteq DOMAIN roots'
    BY DEF History
  <1>2. ASSUME NEW p \in roots'[m].parents \intersect DOMAIN roots',
               NEW q \in History(p, DOMAIN roots)'
        PROVE  q \in History(m, DOMAIN roots)'
    <2> SUFFICES ASSUME NEW S \in SUBSET DOMAIN roots', m \in S,
                        \A c \in S : roots'[c].parents \intersect DOMAIN roots' \subseteq S
                 PROVE  q \in S
      BY <1>2 DEF History
    <2>1. p \in S
      OBVIOUS
    <2>2. QED
      BY <1>2, <2>1 DEF History
  <1>3. QED
    BY <1>1, <1>2

(* And nothing but itself and those. *)
LEMMA ParentLines ==
    ASSUME NEW m \in DOMAIN roots', NEW q \in History(m, DOMAIN roots)', q # m
    PROVE  \E p \in roots'[m].parents : q \in History(p, DOMAIN roots)'
  <1> DEFINE T == {m} \union {c \in DOMAIN roots' : \E p \in roots'[m].parents \intersect DOMAIN roots' :
                                 c \in History(p, DOMAIN roots)'}
  <1>1. \A p \in DOMAIN roots' : p \in History(p, DOMAIN roots)'
    BY DEF History
  <1>2. ASSUME NEW p \in DOMAIN roots', NEW c \in History(p, DOMAIN roots)',
               NEW d \in roots'[c].parents \intersect DOMAIN roots'
        PROVE  d \in History(p, DOMAIN roots)'
    <2> SUFFICES ASSUME NEW S \in SUBSET DOMAIN roots', p \in S,
                        \A b \in S : roots'[b].parents \intersect DOMAIN roots' \subseteq S
                 PROVE  d \in S
      BY DEF History
    <2>1. c \in S
      BY DEF History
    <2>2. QED
      BY <2>1
  <1>3. T \in SUBSET DOMAIN roots' /\ m \in T
    OBVIOUS
  <1>4. \A c \in T : roots'[c].parents \intersect DOMAIN roots' \subseteq T
    <2> TAKE c \in T
    <2>1. CASE c = m
      BY <1>1, <2>1
    <2>2. CASE c # m
      BY <1>2, <2>2
    <2>3. QED
      BY <2>1, <2>2
  <1>5. q \in T
    <2> HIDE DEF T
    <2>1. QED
      BY <1>3, <1>4 DEF History
  <1>6. QED
    BY <1>5

-----------------------------------------------------------------------------
(* Nodes that are lost *)

(* A version in use lacks only nodes that are outdated in its history. *)
NodesSafe(n) == \A x \in NodesOf(roots[n].tree) \ nodes : OutdatedIn(x, n)

(* What a handle caches is of its history, and stored, or outdated there. *)
CacheSafe(h) ==
    \A x \in cached[h] : HadNode(x, source[h]) /\ (x \notin nodes => OutdatedIn(x, source[h]))

(* The part of LossOK that is about one handle. *)
HandleSafe(h) ==
    /\ CacheSafe(h)
    /\ pc[h] \in {"vacuum", "deleting"} => \A n \in InUse \ {source[h]} : Kin(source[h], n)

(* These parts make up the whole, before and after a step. *)
LEMMA LossParts ==
    /\ LossOK <=> (\A n \in InUse : NodesSafe(n)) /\ \A h \in Handles : HandleSafe(h)
    /\ LossOK' <=> (\A n \in InUse' : NodesSafe(n)') /\ \A h \in Handles : HandleSafe(h)'
  BY DEF LossOK, NodesSafe, HandleSafe, CacheSafe, HadNode, OutdatedIn

(* Versions in use are stored. *)
LEMMA InUseStored ==
    ASSUME TypeOK
    PROVE  /\ InUse \subseteq DOMAIN roots
           /\ \A h \in Handles : source[h] \in DOMAIN roots \union {0}
           /\ 0 \notin DOMAIN roots
  <1>1. roots \in Seq(RootRecord)
    BY DEF TypeOK
  <1>2. 0 \notin DOMAIN roots
    BY <1>1
  <1>3. \A h \in Handles : source[h] \in DOMAIN roots \union {0}
    BY DEF TypeOK
  <1>4. current \subseteq DOMAIN roots
    BY DEF TypeOK
  <1>5. QED
    BY <1>2, <1>3, <1>4 DEF InUse

(* What a vacuum is about to delete is outdated in every history that has it. *)
LEMMA DoomedIsOutdated ==
    ASSUME VersionInv, LossOK, NEW h \in Handles, NEW x \in doomed[h].nodes
    PROVE  /\ \A n \in InUse : HadNode(x, n) => OutdatedIn(x, n)
           /\ \A g \in Handles : x \in cached[g] => OutdatedIn(x, source[g])
  <1>1. TypeOK /\ NamesOK /\ AgeOK /\ NodesOK
    BY DEF VersionInv
  <1> SUFFICES ASSUME NEW s, s = source[h]
               PROVE  /\ \A n \in InUse : HadNode(x, n) => OutdatedIn(x, n)
                      /\ \A g \in Handles : x \in cached[g] => OutdatedIn(x, source[g])
    OBVIOUS
  <1>2. pc[h] \in {"vacuum", "deleting"}
    BY <1>1 DEF AgeOK, NoWork
  <1>3. PICK p \in History(s, DOMAIN roots) \ {s} : x \in NodesOf(roots[p].tree) /\ Replaced(p)
    BY <1>1 DEF NodesOK, Outdated, Ancestors
  <1>4. \A n : p \in History(n, DOMAIN roots) => OutdatedIn(x, n)
    BY <1>3 DEF OutdatedIn, Outdated
  <1>5. ASSUME NEW n \in InUse, HadNode(x, n)
        PROVE  OutdatedIn(x, n)
    <2>1. PICK m \in History(n, DOMAIN roots) : x \in NodesOf(roots[m].tree)
      BY <1>5 DEF HadNode
    <2>2. m \in DOMAIN roots /\ p \in DOMAIN roots
      BY <1>3, <2>1, HistoryClosed
    <2>3. CASE n = s
      BY <1>3, <1>4, <2>3
    <2>4. CASE n # s
      <3>1. Kin(s, n)
        BY <1>2, <2>4 DEF LossOK
      <3>2. PICK k \in Keys : roots[m].tree[k] = roots[p].tree[k] /\ roots[m].tree[k] # Absent
        <4>1. roots[m].tree \in [Keys -> Row] /\ roots[p].tree \in [Keys -> Row]
          BY <1>1, <2>2, RootType
        <4>2. QED
          BY <1>3, <2>1, <4>1, SharedNode
      <3>3. History(s, DOMAIN roots) \ {s} \subseteq History(n, DOMAIN roots)
        BY <1>3, <2>1, <3>1, <3>2 DEF Kin
      <3>4. QED
        BY <1>3, <1>4, <3>3
    <2>5. QED
      BY <2>3, <2>4
  <1>6. ASSUME NEW g \in Handles, x \in cached[g], NEW n, n = source[g]
        PROVE  OutdatedIn(x, n)
    <2>1. HadNode(x, n)
      BY <1>6, LossParts DEF HandleSafe, CacheSafe
    <2>2. n \in DOMAIN roots
      BY <2>1, NoHistory DEF HadNode
    <2>3. n \in InUse
      BY <1>1, <1>6, <2>2, InUseStored DEF InUse
    <2>4. QED
      BY <1>5, <2>1, <2>3
  <1>7. QED
    BY <1>5, <1>6

(***************************************************************************)
(* A new version whose rows come from versions in use or are new, and whose *)
(* nodes are stored or outdated for a parent, is in order, and kin to all   *)
(* that its parents are kin to.                                             *)
(***************************************************************************)
LEMMA PublishedLoss ==
    ASSUME NEW h \in Handles, NEW new, NEW t \in [Keys -> Row], NEW parents, NEW when,
           VersionInv, LossOK, TypeOK', VacuumsGrow, new = Len(roots) + 1,
           parents \subseteq InUse,
           Published(h, t, parents, when), nodes \subseteq nodes',
           \A x \in NodesOf(t) \ nodes' : \E p \in parents : OutdatedIn(x, p),
           \A k \in Keys : \/ t[k] = Absent
                           \/ \E p \in parents : t[k] = roots[p].tree[k]
                           \/ \A n \in DOMAIN roots : roots[n].tree[k] # t[k],
           \A g \in Handles \ {h} : cached'[g] = cached[g] /\ pc'[g] = pc[g],
           \A x \in cached'[h] :
             /\ x \in NodesOf(t) \/ \E p \in parents : HadNode(x, p)
             /\ x \notin nodes' => \E p \in parents : OutdatedIn(x, p)
    PROVE  /\ \A n \in InUse' : NodesSafe(n)'
           /\ \A g \in Handles \ {h} : HandleSafe(g)'
           /\ CacheSafe(h)'
  <1>1. TypeOK /\ NamesOK
    BY DEF VersionInv
  <1>2. /\ new \in DOMAIN roots' /\ new \notin DOMAIN roots
        /\ DOMAIN roots' = DOMAIN roots \union {new}
        /\ \A n \in DOMAIN roots : roots'[n] = roots[n]
        /\ roots'[new] = [tree |-> t, parents |-> parents, created |-> when]
        /\ current' \subseteq current \union {new}
        /\ source'[h] = new /\ \A g \in Handles \ {h} : source'[g] = source[g]
    BY DEF Published
  <1>3. StoreGrows
    BY <1>2 DEF StoreGrows
  <1>4. /\ \A s \in DOMAIN roots \union {0} : \A x : HadNode(x, s) => HadNode(x, s)'
        /\ \A s \in DOMAIN roots \union {0} : \A x : OutdatedIn(x, s) => OutdatedIn(x, s)'
        /\ \A s \in DOMAIN roots \union {0}, n \in DOMAIN roots : Kin(s, n) => Kin(s, n)'
    BY <1>1, <1>3, LossFactsStay
  <1>5. /\ InUse \subseteq DOMAIN roots /\ parents \subseteq DOMAIN roots
        /\ \A g \in Handles : source[g] \in DOMAIN roots \union {0}
        /\ InUse' \subseteq InUse \union {new}
    BY <1>1, <1>2, InUseStored DEF InUse
  <1>6. \A p \in parents : /\ p \in DOMAIN roots'
                           /\ History(p, DOMAIN roots)' \subseteq History(new, DOMAIN roots)'
                           /\ roots'[p] = roots[p]
    <2>1. new \in DOMAIN roots' /\ roots'[new].parents = parents /\ parents \subseteq DOMAIN roots'
      BY <1>2, <1>5
    <2>2. \A p \in parents : History(p, DOMAIN roots)' \subseteq History(new, DOMAIN roots)'
      BY <2>1, ChildLine
    <2>3. QED
      BY <1>2, <1>5, <2>1, <2>2
  <1>7. \A x : /\ \A p \in parents : HadNode(x, p) => HadNode(x, new)'
               /\ \A p \in parents : OutdatedIn(x, p) => OutdatedIn(x, new)'
    <2> TAKE x
    <2>1. ASSUME NEW p \in parents, HadNode(x, p)
          PROVE  HadNode(x, new)'
      <3>1. HadNode(x, p)'
        BY <1>4, <1>5, <2>1
      <3>2. QED
        BY <1>6, <3>1 DEF HadNode
    <2>2. ASSUME NEW p \in parents, OutdatedIn(x, p)
          PROVE  OutdatedIn(x, new)'
      <3>1. OutdatedIn(x, p)'
        BY <1>4, <1>5, <2>2
      <3>2. QED
        BY <1>6, <3>1 DEF OutdatedIn, Outdated
    <2>3. QED
      BY <2>1, <2>2
  <1>8. ASSUME NEW n \in InUse'
        PROVE  NodesSafe(n)'
    <2>1. CASE n = new
      <3>1. \A x \in NodesOf(t) \ nodes' : OutdatedIn(x, new)'
        BY <1>7
      <3>2. QED
        BY <1>2, <2>1, <3>1 DEF NodesSafe
    <2>2. CASE n # new
      <3>1. n \in InUse /\ n \in DOMAIN roots /\ roots'[n] = roots[n]
        BY <1>2, <1>5, <2>2
      <3>2. \A x \in NodesOf(roots[n].tree) \ nodes' : OutdatedIn(x, n)
        BY <3>1, LossParts DEF NodesSafe
      <3>3. QED
        BY <1>4, <3>1, <3>2 DEF NodesSafe
    <2>3. QED
      BY <2>1, <2>2
  <1>9. ASSUME NEW s \in DOMAIN roots \union {0}, \A p \in InUse \ {s} : Kin(s, p)
        PROVE  Kin(s, new)'
    <2> DEFINE line == History(s, DOMAIN roots)
    <2>1. History(s, DOMAIN roots)' = line /\ line \subseteq DOMAIN roots
      BY <1>1, <1>3, LineStays, HistoryClosed
    <2>2. \A p \in parents : History(p, DOMAIN roots)' = History(p, DOMAIN roots)
      BY <1>1, <1>3, <1>5, LineStays
    <2>3. CASE \E p \in parents : line \ {s} \subseteq History(p, DOMAIN roots)
      <3>1. PICK p \in parents : line \ {s} \subseteq History(p, DOMAIN roots)
        BY <2>3
      <3>2. line \ {s} \subseteq History(new, DOMAIN roots)'
        BY <1>6, <2>2, <3>1
      <3>3. QED
        BY <2>1, <3>2 DEF Kin
    <2>4. CASE \A p \in parents : ~(line \ {s} \subseteq History(p, DOMAIN roots))
      <3>1. s \notin parents
        <4>1. \A p : p = s => line \ {s} \subseteq History(p, DOMAIN roots)
          OBVIOUS
        <4>2. QED
          BY <2>4, <4>1
      <3>2. \A p \in parents : \A q \in line, m \in History(p, DOMAIN roots), k \in Keys :
                roots[m].tree[k] = roots[q].tree[k] => roots[m].tree[k] = Absent
        BY <1>9, <2>4, <3>1 DEF Kin
      <3>3. \A q \in line, k \in Keys : t[k] = roots[q].tree[k] => t[k] = Absent
        <4>1. \A p \in parents : p \in History(p, DOMAIN roots)
          BY <1>5, HistoryClosed
        <4>2. QED
          BY <2>1, <3>2, <4>1
      <3>4. \A q \in line : roots'[q] = roots[q]
        BY <1>2, <2>1
      <3>5. ASSUME NEW q \in line, NEW m \in History(new, DOMAIN roots)', NEW k \in Keys,
                   roots'[m].tree[k] = roots'[q].tree[k]
            PROVE  roots'[m].tree[k] = Absent
        <4>1. CASE m = new
          BY <1>2, <3>3, <3>4, <3>5, <4>1
        <4>2. CASE m # new
          <5>1. PICK p \in parents : m \in History(p, DOMAIN roots)'
            <6>1. new \in DOMAIN roots' /\ roots'[new].parents = parents
              BY <1>2
            <6>2. \E p \in roots'[new].parents : m \in History(p, DOMAIN roots)'
              BY <3>5, <4>2, <6>1, ParentLines
            <6>3. QED
              BY <6>1, <6>2
          <5>2. m \in History(p, DOMAIN roots)
            BY <2>2, <5>1
          <5>3. m \in DOMAIN roots
            BY <5>2, HistoryClosed
          <5>4. roots'[m] = roots[m]
            BY <1>2, <5>3
          <5>5. QED
            BY <3>2, <3>4, <3>5, <5>2, <5>4
        <4>3. QED
          BY <4>1, <4>2
      <3>6. QED
        BY <2>1, <3>5 DEF Kin
    <2>5. QED
      BY <2>3, <2>4
  <1>10. ASSUME NEW g \in Handles \ {h}, NEW s, s = source[g]
         PROVE  HandleSafe(g)'
    <2>1. source'[g] = s /\ cached'[g] = cached[g] /\ pc'[g] = pc[g]
          /\ s \in DOMAIN roots \union {0}
      BY <1>2, <1>5, <1>10
    <2>2. HandleSafe(g)
      BY LossParts
    <2>3. /\ \A x \in cached[g] : HadNode(x, s) /\ (x \notin nodes => OutdatedIn(x, s))
          /\ pc[g] \in {"vacuum", "deleting"} => \A n \in InUse \ {s} : Kin(s, n)
      BY <1>10, <2>2 DEF HandleSafe, CacheSafe
    <2>4. \A x \in cached'[g] : HadNode(x, s)' /\ (x \notin nodes' => OutdatedIn(x, s)')
      BY <1>4, <2>1, <2>3
    <2>5. pc'[g] \in {"vacuum", "deleting"} => \A n \in InUse' \ {s} : Kin(s, n)'
      BY <1>4, <1>5, <1>9, <2>1, <2>3
    <2>6. CacheSafe(g)'
      BY <2>1, <2>4 DEF CacheSafe, HadNode, OutdatedIn
    <2>7. QED
      BY <2>1, <2>5, <2>6 DEF HandleSafe, Kin
  <1>11. CacheSafe(h)'
    <2>1. \A x \in NodesOf(t) : HadNode(x, new)'
      <3>1. new \in DOMAIN roots' /\ roots'[new].tree = t
        BY <1>2
      <3>2. new \in History(new, DOMAIN roots)'
        BY <3>1, ChildLine
      <3>3. QED
        BY <3>1, <3>2 DEF HadNode
    <2>2. \A x \in cached'[h] : HadNode(x, new)' /\ (x \notin nodes' => OutdatedIn(x, new)')
      BY <1>7, <2>1
    <2>3. QED
      BY <1>2, <2>2 DEF CacheSafe, HadNode, OutdatedIn
  <1>12. QED
    BY <1>8, <1>10, <1>11

(* What a handle that stays with its version keeps, while no version is stored. *)
HandleKeeps(g) ==
    /\ source'[g] = source[g]
    /\ cached'[g] \subseteq cached[g]
    /\ pc'[g] \in {"vacuum", "deleting"} => pc[g] \in {"vacuum", "deleting"}

(* A step that stores no version, and removes only outdated nodes, loses nothing else. *)
LEMMA UnpublishedLoss ==
    ASSUME TypeOK, NamesOK, TypeOK', LossOK, VacuumsGrow, roots' = roots, InUse' \subseteq InUse,
           \A x \in nodes \ nodes' :
             /\ \A n \in InUse : HadNode(x, n) => OutdatedIn(x, n)
             /\ \A g \in Handles : x \in cached[g] => OutdatedIn(x, source[g]),
           \A g \in Handles : HandleKeeps(g) \/ HandleSafe(g)'
    PROVE  LossOK'
  <1>1. StoreGrows
    BY DEF StoreGrows
  <1>2. /\ \A s \in DOMAIN roots \union {0} : \A x : HadNode(x, s) => HadNode(x, s)'
        /\ \A s \in DOMAIN roots \union {0} : \A x : OutdatedIn(x, s) => OutdatedIn(x, s)'
        /\ \A s \in DOMAIN roots \union {0}, n \in DOMAIN roots : Kin(s, n) => Kin(s, n)'
    BY <1>1, LossFactsStay
  <1>3. InUse \subseteq DOMAIN roots /\ \A g \in Handles : source[g] \in DOMAIN roots \union {0}
    BY InUseStored
  <1>4. ASSUME NEW n \in InUse'
        PROVE  NodesSafe(n)'
    <2>1. n \in InUse /\ n \in DOMAIN roots
      BY <1>3
    <2>2. \A x \in NodesOf(roots[n].tree) : HadNode(x, n)
      BY <2>1, HistoryClosed DEF HadNode
    <2>3. \A x \in NodesOf(roots[n].tree) \ nodes' : OutdatedIn(x, n)
      BY <2>1, <2>2, LossParts DEF NodesSafe
    <2>4. QED
      BY <1>2, <2>1, <2>3 DEF NodesSafe
  <1>5. ASSUME NEW g \in Handles, HandleKeeps(g), NEW s, s = source[g]
        PROVE  HandleSafe(g)'
    <2>1. HandleSafe(g)
      BY LossParts
    <2>2. /\ source'[g] = s /\ s \in DOMAIN roots \union {0}
          /\ \A x \in cached'[g] : HadNode(x, s) /\ (x \notin nodes' => OutdatedIn(x, s))
          /\ pc'[g] \in {"vacuum", "deleting"} => \A n \in InUse \ {s} : Kin(s, n)
      BY <1>3, <1>5, <2>1 DEF HandleKeeps, HandleSafe, CacheSafe
    <2>3. /\ \A x \in cached'[g] : HadNode(x, s)' /\ (x \notin nodes' => OutdatedIn(x, s)')
          /\ pc'[g] \in {"vacuum", "deleting"} => \A n \in InUse' \ {s} : Kin(s, n)'
      BY <1>2, <1>3, <2>2
    <2>4. CacheSafe(g)'
      BY <2>2, <2>3 DEF CacheSafe, HadNode, OutdatedIn
    <2>5. QED
      BY <2>2, <2>3, <2>4 DEF HandleSafe, Kin
  <1>6. QED
    BY <1>4, <1>5, LossParts

(* A handle that is forgotten has no version, and nothing of one. *)
LEMMA ForgottenSafe ==
    ASSUME TypeOK, NEW h \in Handles, Forget(h)
    PROVE  HandleSafe(h)'
  <1>1. cached'[h] = {} /\ pc'[h] = "closed"
    BY DEF Forget, TypeOK
  <1>2. QED
    BY <1>1 DEF HandleSafe, CacheSafe

(* The steps of a vacuum and of a query that delete no node, and those of one handle's memory. *)
LEMMA SmallLoss ==
    ASSUME VersionInv, TypeOK', LossOK, VacuumsGrow,
           \/ \E h \in Handles :
                \/ Forget(h) \/ Searching(h) \/ FinishVacuum(h) \/ VacuumFails(h) \/ NoteVersion(h)
                \/ \E k \in Keys, deleted \in BOOLEAN : Write(h, k, deleted)
                \/ \E n \in doomed[h].roots : DeleteRoot(h, n)
           \/ ChangesStep
           \/ UNCHANGED vars
    PROVE  LossOK'
  <1>1. TypeOK /\ NamesOK
    BY DEF VersionInv
  <1>2. CASE ChangesStep \/ UNCHANGED vars \/ \E h \in Handles : NoteVersion(h) \/ Searching(h)
    <2>1. /\ roots' = roots /\ current' = current /\ nodes' = nodes
          /\ pc' = pc /\ source' = source /\ cached' = cached
      BY <1>2, QueriesOnlyRead, SearchingReads
      DEF QueryStep, NoteVersion, SearchStep, blobs, content
    <2>2. InUse' \subseteq InUse /\ \A g \in Handles : HandleKeeps(g)
      BY <2>1 DEF InUse, HandleKeeps
    <2>3. QED
      BY <1>1, <2>1, <2>2, UnpublishedLoss
  <1>3. CASE \E h \in Handles : Forget(h)
    <2>1. PICK h \in Handles : Forget(h)
      BY <1>3
    <2>2. /\ roots' = roots /\ current' = current /\ nodes' = nodes
          /\ source' = [source EXCEPT ![h] = 0]
      BY <2>1 DEF Forget, blobs
    <2>3. \A g \in Handles \ {h} : HandleKeeps(g)
      BY <1>1, <2>1 DEF Forget, TypeOK, HandleKeeps
    <2>4. HandleSafe(h)'
      BY <1>1, <2>1, ForgottenSafe
    <2>5. InUse' \subseteq InUse
      BY <1>1, <2>2 DEF InUse, TypeOK
    <2>6. QED
      BY <1>1, <2>2, <2>3, <2>4, <2>5, UnpublishedLoss
  <1>4. CASE \E h \in Handles : \/ FinishVacuum(h) \/ VacuumFails(h)
                                \/ \E k \in Keys, deleted \in BOOLEAN : Write(h, k, deleted)
                                \/ \E n \in doomed[h].roots : DeleteRoot(h, n)
    <2>1. PICK h \in Handles : \/ FinishVacuum(h) \/ VacuumFails(h)
                               \/ \E k \in Keys, deleted \in BOOLEAN : Write(h, k, deleted)
                               \/ \E n \in doomed[h].roots : DeleteRoot(h, n)
      BY <1>4
    <2>2. /\ roots' = roots /\ current' \subseteq current /\ nodes' = nodes
          /\ source' = source /\ cached' = cached
      BY <2>1 DEF FinishVacuum, VacuumFails, Write, DeleteRoot, blobs, content
    <2>3. ASSUME NEW g \in Handles
          PROVE  HandleKeeps(g)
      <3>1. pc'[g] \in {"vacuum", "deleting"} => pc[g] \in {"vacuum", "deleting"}
        BY <1>1, <2>1 DEF FinishVacuum, VacuumFails, Write, DeleteRoot, TypeOK
      <3>2. QED
        BY <2>2, <3>1 DEF HandleKeeps
    <2>4. InUse' \subseteq InUse
      BY <2>2 DEF InUse
    <2>5. QED
      BY <1>1, <2>2, <2>3, <2>4, UnpublishedLoss
  <1>5. QED
    BY <1>2, <1>3, <1>4

(* A vacuum that plans its deletions caches what it reads of its own history. *)
LEMMA PlanLoss ==
    ASSUME VersionInv, TypeOK', LossOK, VacuumsGrow, NEW h \in Handles, PlanDeletions(h)
    PROVE  LossOK'
  <1>1. TypeOK /\ NamesOK /\ SearchOK(h)
    BY DEF VersionInv
  <1>2. /\ pc[h] = "vacuum" /\ pc' = [pc EXCEPT ![h] = "deleting"]
        /\ roots' = roots /\ current' = current /\ nodes' = nodes /\ source' = source
    BY DEF PlanDeletions, blobs
  <1>3. PICK read \in SUBSET search[h].found :
          cached' = [cached EXCEPT ![h] = Remembered(h, Loaded(read))]
    <2> DEFINE graph == search[h].found
               old   == Deletable(graph, before[h])
               pairs == {pair \in (old \intersect graph) \X graph : pair[1] \in roots[pair[2]].parents}
               read  == UNION {{pair[1], pair[2]} : pair \in pairs}
    <2>1. cached' = [cached EXCEPT ![h] = Remembered(h, Loaded(read))]
      BY DEF PlanDeletions
    <2>2. read \subseteq graph
      OBVIOUS
    <2> HIDE DEF read
    <2>3. QED
      BY <2>1, <2>2
  <1>4. /\ \A g \in Handles \ {h} : cached'[g] = cached[g]
        /\ cached'[h] \subseteq cached[h] \union Loaded(read)
    BY <1>1, <1>3 DEF TypeOK, Remembered
  <1>5. \A g \in Handles \ {h} : HandleKeeps(g)
    BY <1>1, <1>2, <1>4 DEF HandleKeeps, TypeOK
  <1>6. InUse' = InUse
    BY <1>2 DEF InUse
  <1>7. ASSUME NEW s, s = source[h]
        PROVE  HandleSafe(h)'
    <2>1. /\ \A x \in cached[h] : HadNode(x, s) /\ (x \notin nodes => OutdatedIn(x, s))
          /\ \A n \in InUse \ {s} : Kin(s, n)
      BY <1>2, <1>7, LossParts DEF HandleSafe, CacheSafe
    <2>2. \A x \in Loaded(read) : HadNode(x, s) /\ x \in nodes
      BY <1>1, <1>7 DEF SearchOK, Loaded, HadNode
    <2>3. /\ InUse \subseteq DOMAIN roots /\ s \in DOMAIN roots \union {0} /\ StoreGrows
      BY <1>1, <1>2, <1>7, InUseStored DEF StoreGrows
    <2>4. /\ \A x \in cached'[h] : HadNode(x, s)' /\ (x \notin nodes' => OutdatedIn(x, s)')
          /\ \A n \in InUse' \ {s} : Kin(s, n)'
      BY <1>1, <1>2, <1>4, <1>6, <2>1, <2>2, <2>3, LossFactsStay
    <2>5. CacheSafe(h)'
      BY <1>2, <1>7, <2>4 DEF CacheSafe, HadNode, OutdatedIn
    <2>6. QED
      BY <1>2, <1>7, <2>4, <2>5 DEF HandleSafe, Kin
  <1>8. HandleSafe(h)'
    BY <1>7
  <1>9. QED
    BY <1>1, <1>2, <1>5, <1>6, <1>8, UnpublishedLoss

(* A node that a vacuum deletes is outdated in every history in use. *)
LEMMA DeleteNodeLoss ==
    ASSUME VersionInv, TypeOK', LossOK, VacuumsGrow, NEW h \in Handles,
           NEW x \in doomed[h].nodes, DeleteNode(h, x)
    PROVE  LossOK'
  <1>1. TypeOK /\ NamesOK
    BY DEF VersionInv
  <1>2. /\ pc' = pc /\ nodes' = nodes \ {x}
        /\ roots' = roots /\ current' = current /\ source' = source /\ cached' = cached
    BY DEF DeleteNode, content
  <1>3. /\ \A n \in InUse : HadNode(x, n) => OutdatedIn(x, n)
        /\ \A g \in Handles : x \in cached[g] => OutdatedIn(x, source[g])
    BY DoomedIsOutdated
  <1>4. InUse' = InUse /\ \A g \in Handles : HandleKeeps(g)
    BY <1>2 DEF InUse, HandleKeeps
  <1>5. \A y \in nodes \ nodes' : y = x
    BY <1>2
  <1>6. QED
    BY <1>1, <1>2, <1>3, <1>4, <1>5, UnpublishedLoss

(* A handle that is closed has cached nothing. *)
LEMMA ClosedCachesNothing ==
    ASSUME VersionInv, LossOK, NEW h \in Handles, pc[h] = "closed"
    PROVE  cached[h] = {}
  <1>1. TypeOK /\ ContentOK(h)
    BY DEF VersionInv
  <1>2. source[h] = 0 /\ 0 \notin DOMAIN roots
    BY <1>1, InUseStored DEF ContentOK
  <1>3. \A x : ~HadNode(x, source[h])
    BY <1>2, NoHistory DEF HadNode
  <1>4. QED
    BY <1>3, LossParts DEF HandleSafe, CacheSafe

(* An Open caches nodes of what it merged, and stores the top node of it. *)
LEMMA OpenLoss ==
    ASSUME VersionInv, TypeOK', LossOK, VacuumsGrow, NEW h \in Handles, Open(h)
    PROVE  LossOK'
  <1> DEFINE t == Joined(Found)
  <1>1. TypeOK /\ RowsOK /\ NamesOK
    BY DEF VersionInv
  <1>2. /\ pc[h] = "closed" /\ pc' = [pc EXCEPT ![h] = "open"]
        /\ cached' = [cached EXCEPT ![h] = Remembered(h, Loaded(Found) \union Top(t))]
    BY DEF Open
  <1>3. /\ pc'[h] = "open" /\ \A g \in Handles \ {h} : pc'[g] = pc[g] /\ cached'[g] = cached[g]
        /\ cached'[h] \subseteq Loaded(Found) \union Top(t)
    <2>1. cached[h] = {}
      BY <1>2, ClosedCachesNothing
    <2>2. QED
      BY <1>1, <1>2, <2>1 DEF TypeOK, Remembered
  <1>4. Found \subseteq InUse /\ Found \subseteq DOMAIN roots /\ t \in [Keys -> Row]
    BY <1>1, FoundStored, OpenFacts DEF InUse
  <1>5. \A x \in Loaded(Found) : x \in nodes /\ \E p \in Found : HadNode(x, p)
    <2>1. \A p \in Found : p \in History(p, DOMAIN roots)
      BY <1>4, HistoryClosed
    <2>2. QED
      BY <2>1 DEF Loaded, HadNode
  <1>6. CASE Published(h, t, Found, now + 1) /\ nodes' = nodes \union Top(t)
    <2>1. Top(t) \subseteq NodesOf(t)
      BY DEF NodesOf
    <2> HIDE DEF t
    <2>2. \A x \in NodesOf(t) \ nodes' : \E p \in Found : OutdatedIn(x, p)
      <3>1. \A x \in NodesOf(t) \ nodes' : \E p \in Found : x \in NodesOf(roots[p].tree) \ nodes
        BY <1>1, <1>4, <1>6, JoinedNodes DEF t
      <3>2. QED
        BY <1>4, <3>1, LossParts DEF NodesSafe
    <2>3. \A k \in Keys : t[k] = Absent \/ \E p \in Found : t[k] = roots[p].tree[k]
      BY <1>1, <1>4, JoinedFacts DEF t
    <2>4. ASSUME NEW new, new = Len(roots) + 1, NEW when, when = now + 1,
                 NEW u, u = t, NEW parents, parents = Found
          PROVE  /\ \A n \in InUse' : NodesSafe(n)'
                 /\ \A g \in Handles \ {h} : HandleSafe(g)'
                 /\ CacheSafe(h)'
      <3>1. Published(h, u, parents, when) /\ nodes \subseteq nodes'
        BY <1>6, <2>4
      <3>2. /\ u \in [Keys -> Row] /\ parents \subseteq InUse
            /\ \A k \in Keys : \/ u[k] = Absent
                               \/ \E p \in parents : u[k] = roots[p].tree[k]
                               \/ \A n \in DOMAIN roots : roots[n].tree[k] # u[k]
            /\ \A x \in NodesOf(u) \ nodes' : \E p \in parents : OutdatedIn(x, p)
        BY <1>4, <2>2, <2>3, <2>4
      <3>3. /\ \A g \in Handles \ {h} : cached'[g] = cached[g] /\ pc'[g] = pc[g]
            /\ \A x \in cached'[h] :
                 /\ x \in NodesOf(u) \/ \E p \in parents : HadNode(x, p)
                 /\ x \notin nodes' => \E p \in parents : OutdatedIn(x, p)
        BY <1>3, <1>5, <1>6, <2>1, <2>4
      <3>4. QED
        BY <2>4, <3>1, <3>2, <3>3, PublishedLoss
    <2>5. HandleSafe(h)'
      BY <1>3, <2>4 DEF HandleSafe
    <2>6. QED
      BY <2>4, <2>5, LossParts
  <1>7. CASE UNCHANGED blobs /\ ~Published(h, t, Found, now + 1)
    <2>1. /\ \A g \in Handles \ {h} : source'[g] = source[g]
          /\ source'[h] \in Found \union {0}
          /\ source'[h] = 0 => Found = {}
          /\ Found \subseteq {source'[h]}
      BY <1>1, <1>7, OpenFacts
    <2>2. roots' = roots /\ current' = current /\ nodes' = nodes
      BY <1>7 DEF blobs
    <2>3. InUse' \subseteq InUse
      BY <1>4, <2>1, <2>2 DEF InUse
    <2>4. \A g \in Handles \ {h} : HandleKeeps(g)
      BY <1>3, <2>1 DEF HandleKeeps
    <2>5. ASSUME NEW s, s = source'[h]
          PROVE  CacheSafe(h)'
      <3>1. ASSUME NEW x \in Top(t)
            PROVE  s \in Found /\ x \in NodesOf(roots[s].tree) /\ x \in nodes
        <4>1. \A k \in Keys : t[k] = IF Found = {} THEN Absent ELSE roots[s].tree[k]
          BY <1>1, <1>4, <2>1, <2>5, JoinedOfOne
        <4>2. Found # {}
          <5>1. Found = {} => t = EmptyTree
            BY <1>4, <4>1 DEF EmptyTree, Joined
          <5>2. t # EmptyTree
            BY <3>1 DEF Top
          <5>3. QED
            BY <5>1, <5>2
        <4>3. s \in Found
          BY <2>1, <2>5, <4>2
        <4>4. roots[s].tree \in [Keys -> Row]
          BY <1>1, <1>4, <4>3, RootType
        <4>5. t = roots[s].tree
          <5> HIDE DEF t
          <5>1. QED
            BY <1>4, <4>1, <4>2, <4>4
        <4>6. Top(roots[s].tree) \subseteq nodes
          BY <4>3 DEF Found
        <4>7. x \in Top(roots[s].tree)
          BY <3>1, <4>5
        <4>8. QED
          BY <4>3, <4>6, <4>7 DEF NodesOf
      <3>2. \A x \in cached'[h] : HadNode(x, s) /\ x \in nodes
        <4>1. \A x \in Loaded(Found) : HadNode(x, s) /\ x \in nodes
          BY <1>5, <2>1, <2>5
        <4>2. s \in Found => s \in History(s, DOMAIN roots)
          BY <1>4, HistoryClosed
        <4>3. \A x \in Top(t) : HadNode(x, s) /\ x \in nodes
          BY <3>1, <4>2 DEF HadNode
        <4>4. QED
          BY <1>3, <4>1, <4>3
      <3>3. StoreGrows /\ s \in DOMAIN roots \union {0}
        BY <1>4, <2>1, <2>2, <2>5 DEF StoreGrows
      <3>4. \A x \in cached'[h] : HadNode(x, s)' /\ x \in nodes'
        BY <1>1, <2>2, <3>2, <3>3, LossFactsStay
      <3>5. QED
        BY <2>5, <3>4 DEF CacheSafe, HadNode
    <2>6. HandleSafe(h)'
      BY <1>3, <2>5 DEF HandleSafe
    <2>7. QED
      BY <1>1, <2>2, <2>3, <2>4, <2>6, UnpublishedLoss
  <1>8. QED
    <2>1. \/ Publish(h, t, Found, now + 1) /\ nodes' = nodes \union Top(t)
          \/ UNCHANGED blobs
      BY DEF Open
    <2>2. now + 1 \in Nat
      BY <1>1, BoundsAre DEF TypeOK
    <2>3. Publish(h, t, Found, now + 1) => Published(h, t, Found, now + 1)
      BY <1>1, <1>4, <2>2, PublishFacts
    <2>4. UNCHANGED blobs => ~Published(h, t, Found, now + 1)
      BY DEF blobs, Published
    <2>5. QED
      BY <1>6, <1>7, <2>1, <2>3, <2>4


(***************************************************************************)
(* What a commit does not store again is cached, or of the version before: *)
(* it is stored, or outdated there.  The rows are those of that version,   *)
(* or have never been stored.                                              *)
(***************************************************************************)
LEMMA SaveLoss ==
    ASSUME NEW h \in Handles, NEW t \in [Keys -> Row], NEW ks \in SUBSET Keys,
           VersionInv, LossOK, TypeOK', VacuumsGrow, Save(h, t, ks),
           \A k \in Keys : t[k] = tree[h][k] \/ t[k] = Absent,
           \A k \in Keys : k \in ks \/ t[k] = SourceRow(h, k),
           \A g \in Handles \ {h} : pc'[g] = pc[g]
    PROVE  /\ \A n \in InUse' : NodesSafe(n)'
           /\ \A g \in Handles \ {h} : HandleSafe(g)'
           /\ CacheSafe(h)'
  <1>1. TypeOK /\ ContentOK(h)
    BY DEF VersionInv
  <1> SUFFICES ASSUME NEW new, new = Len(roots) + 1,
                      NEW parents, parents = {source[h]} \ {0},
                      NEW when, when = created[h]
               PROVE  /\ \A n \in InUse' : NodesSafe(n)'
                      /\ \A g \in Handles \ {h} : HandleSafe(g)'
                      /\ CacheSafe(h)'
    OBVIOUS
  <1>2. parents \subseteq InUse /\ parents \subseteq DOMAIN roots
    BY <1>1, InUseStored DEF InUse
  <1>3. Published(h, t, parents, when)
    BY <1>1, SaveFacts
  <1>4. /\ nodes' = nodes \union (NewNodes(t, ks) \ cached[h])
        /\ cached' = [cached EXCEPT ![h] = Remembered(h, NewNodes(t, ks))]
    BY DEF Save
  <1>5. \A k \in Keys : t[k] # Absent /\ k \notin ks =>
            \E p \in parents : t[k] = roots[p].tree[k]
    BY <1>1, <1>2 DEF SourceRow
  <1>6. ASSUME NEW x \in cached[h]
        PROVE  \E p \in parents : HadNode(x, p) /\ (x \notin nodes => OutdatedIn(x, p))
    <2>1. CacheSafe(h)
      BY LossParts DEF HandleSafe
    <2>2. HadNode(x, source[h]) /\ (x \notin nodes => OutdatedIn(x, source[h]))
      BY <2>1 DEF CacheSafe
    <2>3. source[h] \in DOMAIN roots
      BY <2>2, NoHistory DEF HadNode
    <2>4. source[h] \in parents
      BY <1>1, <2>3, InUseStored
    <2>5. QED
      BY <2>2, <2>4
  <1>7. ASSUME NEW x \in NodesOf(t) \ nodes'
        PROVE  \E p \in parents : OutdatedIn(x, p)
    <2>1. CASE x \in NewNodes(t, ks)
      BY <1>4, <1>6, <1>7, <2>1
    <2>2. CASE x \notin NewNodes(t, ks)
      <3>1. PICK k \in Keys : x = Leaf(k, t[k]) /\ t[k] # Absent /\ k \notin ks
        BY <1>7, <2>2 DEF NodesOf, NewNodes
      <3>2. PICK p \in parents : t[k] = roots[p].tree[k]
        BY <1>5, <3>1
      <3>3. x \in NodesOf(roots[p].tree) \ nodes
        BY <1>4, <1>7, <3>1, <3>2 DEF NodesOf
      <3>4. NodesSafe(p)
        BY <1>2, LossParts
      <3>5. QED
        BY <3>3, <3>4 DEF NodesSafe
    <2>3. QED
      BY <2>1, <2>2
  <1>8. ASSUME NEW k \in Keys
        PROVE  \/ t[k] = Absent
               \/ \E p \in parents : t[k] = roots[p].tree[k]
               \/ \A n \in DOMAIN roots : roots[n].tree[k] # t[k]
    <2>1. CASE k \in dirty[h]
      BY <1>1, <2>1 DEF ContentOK
    <2>2. CASE k \notin dirty[h]
      <3>1. t[k] = SourceRow(h, k) \/ t[k] = Absent
        BY <1>1, <2>2 DEF ContentOK
      <3>2. QED
        BY <1>1, <1>2, <3>1 DEF SourceRow
    <2>3. QED
      BY <2>1, <2>2
  <1>9. ASSUME NEW x \in cached'[h]
        PROVE  /\ x \in NodesOf(t) \/ \E p \in parents : HadNode(x, p)
               /\ x \notin nodes' => \E p \in parents : OutdatedIn(x, p)
    <2>1. x \in cached[h] \/ x \in NewNodes(t, ks)
      BY <1>1, <1>4 DEF Remembered, TypeOK
    <2>2. CASE x \in cached[h]
      BY <1>4, <1>6, <2>2
    <2>3. CASE x \in NewNodes(t, ks) \ cached[h]
      <3>1. x \in NodesOf(t) /\ x \in nodes'
        BY <1>4, <2>3 DEF NewNodes, NodesOf
      <3>2. QED
        BY <3>1
    <2>4. QED
      BY <2>1, <2>2, <2>3
  <1>10. /\ nodes \subseteq nodes'
         /\ \A g \in Handles \ {h} : cached'[g] = cached[g] /\ pc'[g] = pc[g]
    BY <1>4
  <1>11. QED
    BY <1>2, <1>3, <1>7, <1>8, <1>9, <1>10, PublishedLoss

(* A commit loses nothing else. *)
LEMMA CommitLoss ==
    ASSUME VersionInv, TypeOK', LossOK, VacuumsGrow, NEW h \in Handles, Commit(h)
    PROVE  LossOK'
  <1>1. TypeOK /\ ContentOK(h)
    BY DEF VersionInv
  <1>2. /\ pc[h] = "open" /\ Save(h, tree[h], dirty[h]) /\ pc' = pc
        /\ tree[h] \in [Keys -> Row] /\ dirty[h] \in SUBSET Keys
    BY <1>1 DEF Commit, TypeOK
  <1>3. \A k \in Keys : k \in dirty[h] \/ tree[h][k] = SourceRow(h, k)
    BY <1>1 DEF ContentOK
  <1>4. /\ \A n \in InUse' : NodesSafe(n)'
        /\ \A g \in Handles \ {h} : HandleSafe(g)'
        /\ CacheSafe(h)'
    BY <1>2, <1>3, SaveLoss
  <1>5. HandleSafe(h)'
    BY <1>2, <1>4 DEF HandleSafe
  <1>6. QED
    BY <1>4, <1>5, LossParts

(* A vacuum that starts alone makes a version whose only kin is the one it started from. *)
LEMMA StartLoss ==
    ASSUME VersionInv, TypeOK', LossOK, VacuumsGrow, Careful, NEW h \in Handles,
           NEW cutoff \in Cutoffs, StartVacuum(h, cutoff)
    PROVE  LossOK'
  <1> DEFINE t  == Kept(h, cutoff)
             ks == dirty[h] \union {k \in Keys : t[k] # tree[h][k]}
  <1>1. TypeOK /\ NamesOK /\ \A g \in Handles : ContentOK(g)
    BY DEF VersionInv
  <1>2. /\ pc[h] = "open" /\ Alone(h)
        /\ pc' = [pc EXCEPT ![h] = "vacuum"]
        /\ \A g \in Handles \ {h} : pc'[g] = pc[g]
    BY <1>1 DEF StartVacuum, TypeOK
  <1>3. \A n \in InUse : n = source[h]
    <2>1. \A g \in Handles \ {h} : source[g] = 0
      BY <1>1, <1>2 DEF Alone, ContentOK
    <2>2. QED
      BY <1>2, <2>1 DEF InUse, Alone
  <1>4. CASE Save(h, t, ks)
    <2>1. /\ t \in [Keys -> Row] /\ ks \in SUBSET Keys
          /\ \A k \in Keys : t[k] = tree[h][k] \/ t[k] = Absent
      BY <1>1, KeptFacts DEF TypeOK
    <2>2. \A k \in Keys : k \in ks \/ t[k] = SourceRow(h, k)
      BY <1>1 DEF ContentOK
    <2> HIDE DEF t, ks
    <2>3. /\ \A n \in InUse' : NodesSafe(n)'
          /\ \A g \in Handles \ {h} : HandleSafe(g)'
          /\ CacheSafe(h)'
      BY <1>2, <1>4, <2>1, <2>2, SaveLoss
    <2>4. ASSUME NEW new, new = Len(roots) + 1, NEW s, s = source[h],
                 NEW n \in InUse' \ {new}
          PROVE  source'[h] = new /\ Kin(new, n)'
      <3>1. Published(h, t, {s} \ {0}, created[h])
        BY <1>1, <1>4, <2>1, <2>4, SaveFacts
      <3>2. /\ new \in DOMAIN roots' /\ roots'[new].parents \subseteq {s}
            /\ source'[h] = new /\ \A g \in Handles \ {h} : source'[g] = source[g]
            /\ current' \subseteq current \union {new}
        BY <2>4, <3>1 DEF Published
      <3>3. n = s
        BY <1>3, <2>4, <3>2 DEF InUse
      <3>4. \A q \in History(new, DOMAIN roots)' : q = new \/ q \in History(s, DOMAIN roots)'
        BY <3>2, ParentLines
      <3>5. QED
        BY <3>2, <3>3, <3>4 DEF Kin
    <2>5. \A n \in InUse' \ {source'[h]} : Kin(source[h], n)'
      <3>1. ASSUME NEW new, new = Len(roots) + 1, NEW n \in InUse' \ {source'[h]}
            PROVE  Kin(source[h], n)'
        <4>1. Published(h, t, {source[h]} \ {0}, created[h])
          BY <1>1, <1>4, <2>1, SaveFacts
        <4>2. source'[h] = new
          BY <3>1, <4>1 DEF Published
        <4>3. Kin(new, n)'
          BY <2>4, <3>1, <4>2
        <4>4. QED
          BY <4>2, <4>3 DEF Kin
      <3>2. QED
        BY <3>1
    <2>6. HandleSafe(h)'
      BY <2>3, <2>5 DEF HandleSafe
    <2>7. QED
      BY <2>3, <2>6, LossParts
  <1>5. CASE UNCHANGED <<blobs, tree, source, dirty, cached, truth, faults>>
    <2>1. /\ roots' = roots /\ current' = current /\ nodes' = nodes
          /\ source' = source /\ cached' = cached
      BY <1>5 DEF blobs
    <2>2. InUse' = InUse
      BY <2>1 DEF InUse
    <2>3. \A g \in Handles \ {h} : HandleKeeps(g)
      BY <1>2, <2>1 DEF HandleKeeps
    <2>4. CacheSafe(h)'
      <3>1. source[h] \in DOMAIN roots \union {0} /\ StoreGrows
        BY <1>1, <2>1 DEF TypeOK, StoreGrows
      <3>2. ASSUME NEW s, s = source[h]
            PROVE  \A x \in cached'[h] : HadNode(x, s)' /\ (x \notin nodes' => OutdatedIn(x, s)')
        <4>1. \A x \in cached[h] : HadNode(x, s) /\ (x \notin nodes => OutdatedIn(x, s))
          BY <3>2, LossParts DEF HandleSafe, CacheSafe
        <4>2. QED
          BY <1>1, <2>1, <3>1, <3>2, <4>1, LossFactsStay
      <3>3. QED
        BY <2>1, <3>2 DEF CacheSafe, HadNode, OutdatedIn
    <2>5. HandleSafe(h)'
      <3>1. InUse' \ {source'[h]} = {}
        BY <1>3, <2>1, <2>2
      <3>2. QED
        BY <2>4, <3>1 DEF HandleSafe
    <2>6. QED
      BY <1>1, <2>1, <2>2, <2>3, <2>5, UnpublishedLoss
  <1>6. QED
    <2>1. Save(h, t, ks) \/ UNCHANGED <<blobs, tree, source, dirty, cached, truth, faults>>
      BY DEF StartVacuum
    <2>2. QED
      BY <1>4, <1>5, <2>1

(* Nothing is lost of a table that does not exist yet. *)
LEMMA LossInit ==
    ASSUME Init
    PROVE  LossOK
  <1>1. InUse = {}
    BY DEF Init, InUse
  <1>2. QED
    BY <1>1 DEF Init, LossOK

(* No step loses a node that is not outdated, if vacuums start alone. *)
LEMMA LossStep ==
    ASSUME VersionInv, TypeOK', LossOK, Careful, [Next]_vars
    PROVE  LossOK'
  <1>1. VacuumsGrow
    BY VacuumsStep
  <1>2. ASSUME NEW h \in Handles, HandleStep(h)
        PROVE  LossOK'
    <2>1. CASE Open(h)
      BY <1>1, <2>1, OpenLoss
    <2>2. CASE Commit(h)
      BY <1>1, <2>2, CommitLoss
    <2>3. CASE \E cutoff \in Cutoffs : StartVacuum(h, cutoff)
      BY <1>1, <2>3, StartLoss
    <2>4. CASE PlanDeletions(h)
      BY <1>1, <2>4, PlanLoss
    <2>5. CASE \E x \in doomed[h].nodes : DeleteNode(h, x)
      BY <1>1, <2>5, DeleteNodeLoss
    <2>6. CASE \/ Searching(h) \/ FinishVacuum(h) \/ VacuumFails(h) \/ NoteVersion(h)
               \/ \E k \in Keys, deleted \in BOOLEAN : Write(h, k, deleted)
               \/ \E n \in doomed[h].roots : DeleteRoot(h, n)
      BY <1>1, <2>6, SmallLoss
    <2>7. CASE Close(h) \/ Crash(h)
      BY <1>1, <2>7, SmallLoss DEF Close, Crash
    <2>8. QED
      BY <1>2, <2>1, <2>2, <2>3, <2>4, <2>5, <2>6, <2>7 DEF HandleStep, Searching
  <1>3. CASE ChangesStep \/ UNCHANGED vars
    BY <1>1, <1>3, SmallLoss
  <1>4. QED
    BY <1>2, <1>3 DEF Next

(***************************************************************************)
(* With vacuums that start alone the invariant also tells what happens to  *)
(* nodes: a version that is current or open lacks only nodes that are      *)
(* outdated in its history; what a handle caches is of its own history,    *)
(* and stored or outdated there; and while a vacuum is under way the       *)
(* versions in use have its history, or share no row with it.              *)
(***************************************************************************)
THEOREM VacuumsStayInOrder == Spec => []VacuumInv
  <1>1. Init => VacuumInv
    BY VersionInit, LossInit DEF VacuumInv
  <1>2. VacuumInv /\ [Next]_vars => VacuumInv'
    <2> SUFFICES ASSUME VacuumInv, [Next]_vars
                 PROVE  VacuumInv'
      OBVIOUS
    <2>1. VersionInv /\ VersionInv' /\ TypeOK'
      BY VersionStep DEF VacuumInv, VersionInv
    <2>2. Careful => LossOK'
      BY <2>1, LossStep DEF VacuumInv
    <2>3. QED
      BY <2>1, <2>2 DEF VacuumInv
  <1>3. QED
    BY <1>1, <1>2, PTL DEF Spec

(***************************************************************************)
(* Vacuums that start alone take from a current version only nodes that    *)
(* it shares with a version of its own history that was followed by one as *)
(* old as a cutoff: whatever is opened, written and committed while nodes  *)
(* are deleted one by one (getHistoricRootsAndNodes,                       *)
(* DeleteHistoricVersions), whatever DiffLinks reports beyond what is      *)
(* gone, and wherever a vacuum breaks off.  What a commit stored that no   *)
(* such version had stays.                                                 *)
(***************************************************************************)
THEOREM CurrentLosesOnlyOutdated ==
    ASSUME Careful
    PROVE  Spec => []LossOnlyOfOutdated
  <1>1. VacuumInv => LossOnlyOfOutdated
    BY DEF VacuumInv, LossOK, LossOnlyOfOutdated, InUse
  <1>2. QED
    BY <1>1, VacuumsStayInOrder, PTL
=============================================================================
