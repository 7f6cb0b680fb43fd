------------------------------- MODULE KeyOrder -------------------------------
(***************************************************************************)
(* The order of primary keys (pkg/azb/key.go).  A key is a SQLite value:   *)
(* a type and a position - of numbers on the number line, of texts and     *)
(* blobs in the order of their bytes.                                      *)
(***************************************************************************)
EXTENDS Integers

CONSTANT Float(_)   \* the float64 nearest to an integer

Types       == {"INT", "REAL", "TEXT", "BLOB"}
SQLiteValue == [type : Types, at : Int]

(* NULL is never a key, but a query may compare keys to it. *)
Null == [type |-> "NULL", at |-> 0]

TypeIndex == [INT |-> 0, REAL |-> 1, TEXT |-> 2, BLOB |-> 3]

Compare(m, n) == IF m < n THEN -1 ELSE IF m > n THEN 1 ELSE 0

(* Variant of OrderSorted: integers come before reals, as types do. *)
OrderByType(v, w) == IF v.type = w.type THEN Compare(v.at, w.at) ELSE -1

(* Two values, the one with the lower type first. *)
OrderSorted(v, w) ==
    IF v.type = w.type THEN Compare(v.at, w.at)
    ELSE IF w.type = "REAL" THEN Compare(Float(v.at), w.at)
    ELSE -1

(* Key.Order *)
Order(v, w) ==
    IF TypeIndex[v.type] <= TypeIndex[w.type] THEN OrderSorted(v, w) ELSE -OrderSorted(w, v)

(* typeIndex panics on NULL. *)
Panics(v, w) == Null \in {v, w}

Before(v, w) == Order(v, w) < 0
Same(v, w)   == Order(v, w) = 0

(* Float64 holds the value exactly; only integers are converted. *)
Exact(v) == v.type = "INT" => Float(v.at) = v.at

-----------------------------------------------------------------------------
(* The order of values in SQLite: numbers, texts, blobs. *)
StorageClass == [INT |-> 0, REAL |-> 0, TEXT |-> 1, BLOB |-> 2]

Precedes(v, w) ==
    \/ StorageClass[v.type] < StorageClass[w.type]
    \/ StorageClass[v.type] = StorageClass[w.type] /\ v.at < w.at
=============================================================================
