------------------------------- MODULE TableScan -------------------------------
(***************************************************************************)
(* SELECT on a table: Cursor.Filter and Cursor.Next of                     *)
(* pkg/azb/vtable_common.go, on a table whose rows come and go.            *)
(*                                                                         *)
(* A query is its constraints and a direction.  BestIndex takes those on   *)
(* the primary key; SQLite calls Filter, then Next until the end or until  *)
(* it has enough, and checks the constraints once more on every row.  Rows *)
(* change only between scans: a scan works on a clone.                     *)
(***************************************************************************)
EXTENDS TreeCursor, TreeDiff, ScanBounds, Table

CONSTANT Queries   \* the queries

Query == [terms : Seq(Term), desc : BOOLEAN]
ASSUME WellFormedQueries == Queries \subseteq Query

VARIABLES query,     \* the query that runs, or None
          cursor,    \* azb.Cursor
          rows       \* the keys of the rows that SQLite took so far

vars == <<tableVars, query, cursor, rows>>

Matches(k, q) == \A i \in DOMAIN q.terms : Satisfies(k, q.terms[i])

(* The rows of the query, in ascending order of SQLite. *)
Answer == SetToSortSeq({k \in live : Matches(k, query)}, Precedes)

Scanning == query # None

-----------------------------------------------------------------------------
NewCursor == [status |-> "open", path |-> <<>>, desc |-> FALSE, key |-> None,
              min |-> None, max |-> None, gtMin |-> FALSE, ltMax |-> FALSE]

Init ==
    /\ TableInit
    /\ query = None /\ cursor = NewCursor /\ rows = <<>>

(* Rows change, but not while a scan goes on. *)
Change ==
    /\ ~Scanning
    /\ TableNext
    /\ UNCHANGED <<query, cursor, rows>>

-----------------------------------------------------------------------------
(* The constraints that BestIndex takes. *)
Used(q) == {i \in DOMAIN q.terms : q.terms[i].op # "IGNORE"}

(* BestIndex numbers arguments like constraints; SQLite takes no numbers with gaps. *)
Prepared(q) == Used(q) = 1..Cardinality(Used(q))

(* The constraints that Filter gets, in the order of their arguments. *)
BestIndex(q) == [i \in Used(q) |-> q.terms[i]]

(* Where the scan starts. *)
FirstPosition(c) ==
    IF c.desc THEN IF c.max # None THEN MoveCeil(Start(tree), c.max) ELSE MoveMax(Start(tree))
    ELSE IF c.min # None THEN MoveCeil(Start(tree), c.min) ELSE MoveMin(Start(tree))

Skipped(c, k) == Excluded(c, k) \/ k \notin live

RECURSIVE Advance(_)

(* The loop of Cursor.Next: the cursor moves on before the row is returned. *)
Advance(c) ==
    IF c.path = <<>> \/ Last(c.path).index >= Len(Last(c.path).node.keys)
    THEN [c EXCEPT !.status = "eof"]
    ELSE IF Last(c.path).index < 0 \/ Null = (IF c.desc THEN c.min ELSE c.max)
    THEN [c EXCEPT !.status = "panic"]
    ELSE LET k     == Last(c.path).node.keys[Last(c.path).index + 1]
             moved == IF c.desc THEN MoveBackward(c.path) ELSE MoveForward(c.path)
             next  == [c EXCEPT !.path  = moved.path,
                                !.gtMin = @ /\ ~(~c.desc /\ Excluded(c, k)),
                                !.ltMax = @ /\ ~(c.desc /\ Excluded(c, k))]
         IN  IF PastEnd(c, k) THEN [c EXCEPT !.status = "eof"]
             ELSE IF moved.end # "ok" THEN [next EXCEPT !.status = moved.end]
             ELSE IF Skipped(c, k) THEN Advance(next)
             ELSE [next EXCEPT !.status = "row", !.key = k]

(* SQLite takes the row if it satisfies the query. *)
Take(c, q) ==
    IF c.status = "row" /\ Matches(c.key, q) THEN Append(rows, c.key) ELSE rows

Filter(q) ==
    /\ ~Scanning
    /\ cursor.status = "open"
    /\ Prepared(q)
    /\ query' = q
    /\ LET bound == FoldLeft(Bind, [cursor EXCEPT !.desc = q.desc, !.min = None, !.max = None],
                             BestIndex(q))
           first == FirstPosition(bound)
       IN  cursor' = IF bound.status = "panic" THEN bound
                     ELSE IF first.end = "ok" THEN Advance([bound EXCEPT !.path = first.path])
                     ELSE [bound EXCEPT !.status = first.end]
    /\ rows' = Take(cursor', q)
    /\ UNCHANGED tableVars

NextRow ==
    /\ cursor.status = "row"
    /\ cursor' = Advance(cursor)
    /\ rows' = Take(cursor', query)
    /\ UNCHANGED <<tableVars, query>>

(* The statement ends, or calls Filter again: the cursor keeps gtMin and ltMax. *)
EndScan ==
    /\ Scanning
    /\ cursor.status # "panic"
    /\ cursor' = [NewCursor EXCEPT !.gtMin = cursor.gtMin, !.ltMax = cursor.ltMax]
    /\ query' = None
    /\ rows' = <<>>
    /\ UNCHANGED tableVars

Next ==
    \/ Change
    \/ \E q \in Queries : Filter(q)
    \/ NextRow
    \/ EndScan

Spec == Init /\ [][Next]_vars

-----------------------------------------------------------------------------
(* TypeOK: the variables have their types, and a cursor that returned a row *)
(* is at a key or a link of every node on its path.                         *)
TypeOK ==
    /\ TableTypeOK
    /\ query \in Queries \union {None}
    /\ cursor.status \in {"open", "row", "eof", "error", "panic"}
    /\ rows \in Seq(Key)
    /\ cursor.status = "row" =>
          \A i \in DOMAIN cursor.path :
              cursor.path[i].index \in 0..Len(cursor.path[i].node.keys)

(* ForwardScanExact: an ascending scan that reports no error returns exactly *)
(* the rows of the query, in order, each once, whatever constraints overlap  *)
(* and whatever was deleted in between.                                      *)
ForwardScanExact ==
    Scanning /\ ~query.desc =>
        /\ cursor.status = "row" => IsPrefix(rows, Answer)
        /\ cursor.status = "eof" => rows = Answer

(* ForwardScanSucceeds: an ascending scan fails only on a tree with a link    *)
(* that cannot be loaded, and panics only on one that a vacuum left empty, or *)
(* on a comparison with NULL.                                                 *)
ForwardScanSucceeds ==
    Scanning /\ ~query.desc =>
        /\ cursor.status = "error" => ~Readable(tree.root)
        /\ cursor.status = "panic" =>
              tree.root = Nil \/ \E i \in DOMAIN query.terms : query.terms[i].key = Null

(* BackwardScanOrdered: a descending scan never returns a row twice, out of *)
(* order, or one that is deleted.                                           *)
BackwardScanOrdered ==
    Scanning /\ query.desc =>
        /\ \A i \in DOMAIN rows : rows[i] \in live
        /\ \A i \in 1..Len(rows) - 1 : Precedes(rows[i + 1], rows[i])

-----------------------------------------------------------------------------
(* Differences of two versions: an old one that rows K were inserted into, and the *)
(* one that Commit stores now; the values of the rows `changed` differ.            *)

Version(K) == Committed(FoldLeft(InsertKey, EmptyTree(tree.layer), Ascending(K)))

(* The differences do not depend on the cursor, nor on which rows are deleted. *)
Compared == ~Scanning /\ cursor = NewCursor /\ live = entries

SameKeys(K)     == K = entries /\ Version(K).height = tree.height
BothReadable(K) == Readable(Version(K).root) /\ Readable(Committed(tree).root)

(* The nodes of the old version that the new one does not have. *)
Gone(K, changed) ==
    {n \in NodesUnder(Version(K).root) : \/ n \notin NodesUnder(Committed(tree).root)
                                         \/ KeysUnder(n) \intersect changed # {}}

(* DiffExact: DiffIter reports every entry that differs, once, in order, and as *)
(* added, removed or changed, whatever the shapes of the trees; if it fails,    *)
(* then the first of them.  It fails only where a link cannot be loaded.        *)
DiffExact ==
    Compared => \A K \in SUBSET Key : \A changed \in SUBSET (K \intersect entries) :
        LET d     == Diff(Version(K).root, Committed(tree).root, changed)
            exact == Difference(K, entries, changed)
        IN  IF d.failed THEN IsPrefix(d.entries, exact) /\ ~BothReadable(K)
                        ELSE d.entries = exact

(* LinksReported: DiffLinks reports every node that is gone, also one below a *)
(* node that moved; and no other, but only if the trees have the same keys.   *)
LinksReported ==
    Compared => \A K \in SUBSET Key : \A changed \in SUBSET (K \intersect entries) :
        LET d == Diff(Version(K).root, Committed(tree).root, changed)
        IN  /\ ~d.failed => Gone(K, changed) \subseteq d.removed
            /\ SameKeys(K) => d.removed \subseteq Gone(K, changed)

(* ChangesShown: azb_changes, which goes on after a link it could not load, still *)
(* shows rows in order and each once; on trees with the same keys, or without     *)
(* such links, it shows exactly those that were added or changed.                 *)
ChangesShown ==
    Compared => \A K \in SUBSET Key : \A changed \in SUBSET (K \intersect entries) :
        LET shown == Changes(Version(K).root, Committed(tree).root, changed)
            exact == SelectSeq(Difference(K, entries, changed), LAMBDA e : e.kind # "remove")
        IN  /\ \A i \in 1..Len(shown) - 1 : Before(shown[i].key, shown[i + 1].key)
            /\ SameKeys(K) \/ BothReadable(K) => shown = exact
=============================================================================
