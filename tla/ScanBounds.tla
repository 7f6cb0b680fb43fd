----------------------------- MODULE ScanBounds -----------------------------
(***************************************************************************)
(* The bounds of a scan (Cursor of pkg/azb/vtable_common.go): Filter folds *)
(* the constraints of a query into one minimum and one maximum, with a     *)
(* flag each, and Next stops at the one and skips a key equal to the other. *)
(***************************************************************************)
EXTENDS KeyOrder

CONSTANT None   \* no bound (in TableScan also: no query)

(* IGNORE: a constraint that mapOp does not know, or not on the primary key. *)
Ops  == {"EQ", "GT", "GE", "LT", "LE", "IGNORE"}
Term == [op : Ops, key : SQLiteValue \union {Null}]

(* What SQLite makes of a constraint: it checks every one again on every row. *)
Satisfies(k, term) ==
    term.op # "IGNORE" => term.key # Null /\
        CASE term.op = "EQ" -> ~Precedes(k, term.key) /\ ~Precedes(term.key, k)
          [] term.op = "GT" -> Precedes(term.key, k)
          [] term.op = "GE" -> ~Precedes(k, term.key)
          [] term.op = "LT" -> Precedes(k, term.key)
          [] term.op = "LE" -> ~Precedes(term.key, k)

-----------------------------------------------------------------------------
IsUpper(op) == op \in {"LT", "LE", "EQ"}
IsLower(op) == op \in {"GT", "GE", "EQ"}

(* A constraint that has to be compared to another, one of them with NULL. *)
Clashes(c, term) ==
    \/ IsUpper(term.op) /\ c.max # None /\ Panics(term.key, c.max)
    \/ IsLower(term.op) /\ c.min # None /\ Panics(term.key, c.min)

(* One constraint narrows the bounds of the cursor, unless another is as narrow. *)
Bind(c, term) ==
    LET hi == IsUpper(term.op) /\ (c.max = None \/ Before(term.key, c.max))
        lo == IsLower(term.op) /\ (c.min = None \/ Before(c.min, term.key))
    IN  IF c.status = "panic" \/ Clashes(c, term) THEN [c EXCEPT !.status = "panic"]
        ELSE [c EXCEPT !.max   = IF hi THEN term.key ELSE @,
                       !.ltMax = IF hi THEN term.op = "LT" ELSE @,
                       !.min   = IF lo THEN term.key ELSE @,
                       !.gtMin = IF lo THEN term.op = "GT" ELSE @]

(* Variant of PastEnd: an inclusive bound is taken for an exclusive one. *)
PastOrAtEnd(c, k) ==
    IF c.desc THEN c.min # None /\ ~Before(c.min, k) ELSE c.max # None /\ ~Before(k, c.max)

PastEnd(c, k) ==
    IF c.desc
    THEN c.min # None /\ ((c.gtMin /\ ~Before(c.min, k)) \/ Before(k, c.min))
    ELSE c.max # None /\ ((c.ltMax /\ ~Before(k, c.max)) \/ Before(c.max, k))

(* The scan starts at a key that the query excludes. *)
Excluded(c, k) ==
    IF c.desc THEN c.max # None /\ c.ltMax /\ Same(k, c.max)
              ELSE c.min # None /\ c.gtMin /\ Same(k, c.min)
=============================================================================
