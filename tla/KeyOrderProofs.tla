--------------------------- MODULE KeyOrderProofs ---------------------------
(***************************************************************************)
(* What the comparison of keys guarantees: to the tree, a strict order, as *)
(* long as the conversion of integers to float64 is monotone; to SQLite,   *)
(* its own order, as long as that conversion is exact; and that the bounds *)
(* which Filter makes of the constraints of a query, and which Next tests  *)
(* rows against, let no row of the query slip.                             *)
(***************************************************************************)
EXTENDS ScanBounds, NaturalsInduction, WellFoundedInduction, TLAPS

LEMMA FieldsOfValues ==
    ASSUME NEW v \in SQLiteValue
    PROVE  v.type \in Types /\ v.at \in Int
BY DEF SQLiteValue

(* What Before says, with the flip of the operands resolved. *)
LEMMA BeforeCases ==
    ASSUME \A n \in Int : Float(n) \in Int,
           NEW v \in SQLiteValue, NEW w \in SQLiteValue
    PROVE  Before(v, w) <=>
             \/ v.type = w.type /\ v.at < w.at
             \/ v.type = "INT" /\ w.type = "REAL" /\ Float(v.at) < w.at
             \/ v.type = "REAL" /\ w.type = "INT" /\ v.at < Float(w.at)
             \/ v.type \in {"INT", "REAL"} /\ w.type \in {"TEXT", "BLOB"}
             \/ v.type = "TEXT" /\ w.type = "BLOB"
<1>1. Float(v.at) \in Int /\ Float(w.at) \in Int
  BY FieldsOfValues
<1>2. v.type \in Types /\ w.type \in Types /\ v.at \in Int /\ w.at \in Int
  BY FieldsOfValues
<1>3. CASE v.type = "INT"
  BY <1>1, <1>2, <1>3 DEF Before, Order, OrderSorted, Compare, TypeIndex, Types
<1>4. CASE v.type = "REAL"
  BY <1>1, <1>2, <1>4 DEF Before, Order, OrderSorted, Compare, TypeIndex, Types
<1>5. CASE v.type = "TEXT"
  BY <1>1, <1>2, <1>5 DEF Before, Order, OrderSorted, Compare, TypeIndex, Types
<1>6. CASE v.type = "BLOB"
  BY <1>1, <1>2, <1>6 DEF Before, Order, OrderSorted, Compare, TypeIndex, Types
<1> QED
  BY <1>2, <1>3, <1>4, <1>5, <1>6 DEF Types

(* OrderAntisymmetric: comparing two keys the other way around gives the *)
(* opposite result, so a lookup (findNode) does not depend on the side a *)
(* key is on, although Key.Order compares them in the order of types.    *)
THEOREM OrderAntisymmetric ==
    ASSUME \A n \in Int : Float(n) \in Int,
           NEW v \in SQLiteValue, NEW w \in SQLiteValue
    PROVE  Order(w, v) = -Order(v, w)
<1>1. Float(v.at) \in Int /\ Float(w.at) \in Int
  BY FieldsOfValues
<1>2. v.type \in Types /\ w.type \in Types /\ v.at \in Int /\ w.at \in Int
  BY FieldsOfValues
<1>3. OrderSorted(v, w) \in {-1, 0, 1} /\ OrderSorted(w, v) \in {-1, 0, 1}
  BY <1>1, <1>2 DEF OrderSorted, Compare
<1>4. CASE v.type = w.type
  <2>1. OrderSorted(w, v) = -OrderSorted(v, w)
    BY <1>2, <1>4 DEF OrderSorted, Compare
  <2> QED
    BY <1>2, <1>3, <1>4, <2>1 DEF Order, TypeIndex, Types
<1>5. CASE v.type # w.type
  <2>1. TypeIndex[v.type] \in Int /\ TypeIndex[w.type] \in Int
    BY <1>2 DEF TypeIndex, Types
  <2>2. TypeIndex[v.type] # TypeIndex[w.type]
    BY <1>2, <1>5 DEF TypeIndex, Types
  <2> QED
    BY <1>3, <2>1, <2>2 DEF Order
<1> QED
  BY <1>4, <1>5

(* BeforeIsTransitive: no three keys, of whatever types, are in a cycle, even *)
(* where float64 rounds integers, so the keys of a node can be sorted.        *)
THEOREM BeforeIsTransitive ==
    ASSUME \A n \in Int : Float(n) \in Int,
           \A m, n \in Int : m <= n => Float(m) <= Float(n),
           NEW u \in SQLiteValue, NEW v \in SQLiteValue, NEW w \in SQLiteValue,
           Before(u, v), Before(v, w)
    PROVE  Before(u, w)
<1>1. /\ u.type \in Types /\ v.type \in Types /\ w.type \in Types
      /\ u.at \in Int /\ v.at \in Int /\ w.at \in Int
  BY FieldsOfValues
<1>2. /\ Float(u.at) \in Int /\ Float(v.at) \in Int /\ Float(w.at) \in Int
      /\ u.at <= v.at => Float(u.at) <= Float(v.at)
      /\ v.at <= w.at => Float(v.at) <= Float(w.at)
      /\ w.at <= u.at => Float(w.at) <= Float(u.at)
  BY <1>1
<1>3. CASE v.type \in {"TEXT", "BLOB"}
  BY <1>1, <1>3, BeforeCases DEF Types
<1>4. CASE v.type = "INT"
  BY <1>1, <1>2, <1>4, BeforeCases DEF Types
<1>5. CASE v.type = "REAL"
  BY <1>1, <1>2, <1>5, BeforeCases DEF Types
<1> QED
  BY <1>1, <1>3, <1>4, <1>5 DEF Types

(* BeforeIsPrecedes: where float64 holds the integers exactly, a scan that  *)
(* compares keys with Key.Order returns rows in the order SQLite expects of *)
(* a table that promised AlreadyOrdered, and misses none that SQLite wants. *)
THEOREM BeforeIsPrecedes ==
    ASSUME \A n \in Int : Float(n) \in Int,
           NEW v \in SQLiteValue, NEW w \in SQLiteValue,
           Exact(v), Exact(w)
    PROVE  Before(v, w) <=> Precedes(v, w)
<1>1. v.type \in Types /\ w.type \in Types /\ v.at \in Int /\ w.at \in Int
  BY FieldsOfValues
<1>2. CASE v.type = "INT"
  BY <1>1, <1>2, BeforeCases DEF Precedes, StorageClass, Types, Exact
<1>3. CASE v.type = "REAL"
  BY <1>1, <1>3, BeforeCases DEF Precedes, StorageClass, Types, Exact
<1>4. CASE v.type \in {"TEXT", "BLOB"}
  BY <1>1, <1>4, BeforeCases DEF Precedes, StorageClass, Types, Exact
<1> QED
  BY <1>1, <1>2, <1>3, <1>4 DEF Types

-----------------------------------------------------------------------------
(* The bounds of a scan *)

(* Cursors, whatever their paths are made of; bounds that float64 holds exactly. *)
ExactValue == {v \in SQLiteValue : Exact(v)}
ExactTerm  == [op : Ops, key : ExactValue \union {Null}]
ScanCursor(Paths) ==
    [status : {"open", "row", "eof", "error", "panic"}, path : Paths, desc : BOOLEAN,
     key : SQLiteValue \union {None}, min : ExactValue \union {None},
     max : ExactValue \union {None}, gtMin : BOOLEAN, ltMax : BOOLEAN]

(* A set of numbers has a least one. *)
LEMMA LeastNumber ==
    ASSUME NEW ns, ns \subseteq Nat, ns # {}
    PROVE  \E n \in ns : \A m \in ns : n <= m
  <1> DEFINE R == OpToRel(<, Nat)
  <1>1. PICK n \in ns : \A m \in ns : ~(<<m, n>> \in R)
    <2>1. IsWellFoundedOn(R, Nat)
      BY NatLessThanWellFounded
    <2> HIDE DEF R
    <2>2. QED
      BY <2>1, WFMin
  <1>2. \A m \in ns : ~(m < n)
    BY <1>1 DEF OpToRel
  <1>3. QED
    BY <1>2

(* What the bounds and flags of a cursor admit. *)
AboveMin(c, k) == c.min # None => IF c.gtMin THEN Before(c.min, k) ELSE ~Before(k, c.min)
BelowMax(c, k) == c.max # None => IF c.ltMax THEN Before(k, c.max) ELSE ~Before(c.max, k)
Within(c, k)   == AboveMin(c, k) /\ BelowMax(c, k)

LEMMA BeforeIsAsymmetric ==
    ASSUME \A n \in Int : Float(n) \in Int,
           NEW v \in SQLiteValue, NEW w \in SQLiteValue, Before(v, w)
    PROVE  ~Before(w, v) /\ ~Same(v, w) /\ ~Same(w, v)
<1>1. Order(w, v) = -Order(v, w)
  BY OrderAntisymmetric
<1>2. Order(v, w) \in Int
  <2>1. v.at \in Int /\ w.at \in Int /\ v.type \in Types /\ w.type \in Types
    BY FieldsOfValues
  <2> QED
    BY <2>1 DEF Order, OrderSorted, Compare
<1> QED
  BY <1>1, <1>2 DEF Before, Same

(* Where float64 is exact, what SQLite says of a key and a constraint, in the order of keys. *)
LEMMA SatisfiesBefore ==
    ASSUME \A n \in Int : Float(n) \in Int,
           NEW k \in ExactValue, NEW term \in ExactTerm, Satisfies(k, term),
           term.op # "IGNORE"
    PROVE  /\ term.key \in ExactValue
           /\ term.key # Null
           /\ term.op = "LT" => Before(k, term.key)
           /\ term.op \in {"LE", "EQ"} => ~Before(term.key, k)
           /\ term.op = "GT" => Before(term.key, k)
           /\ term.op \in {"GE", "EQ"} => ~Before(k, term.key)
<1>1. term.key \in ExactValue /\ term.key # Null /\ term.op \in Ops
  BY DEF Satisfies, ExactTerm
<1>2. /\ Before(k, term.key) <=> Precedes(k, term.key)
      /\ Before(term.key, k) <=> Precedes(term.key, k)
  BY <1>1, BeforeIsPrecedes DEF ExactValue
<1>3. CASE term.op \in {"LT", "LE"}
  BY <1>1, <1>2, <1>3 DEF Satisfies
<1>4. CASE term.op \in {"GT", "GE"}
  BY <1>1, <1>2, <1>4 DEF Satisfies
<1>5. CASE term.op = "EQ"
  BY <1>1, <1>2, <1>5 DEF Satisfies
<1> QED
  BY <1>1, <1>3, <1>4, <1>5 DEF Ops

(* One constraint never takes a key that satisfies it out of the bounds, whichever *)
(* of the bounds and flags it replaces, and does not panic.                        *)
LEMMA BindKeeps ==
    ASSUME \A n \in Int : Float(n) \in Int,
           NEW Paths, NEW c \in ScanCursor(Paths), NEW term \in ExactTerm,
           NEW k \in ExactValue, Satisfies(k, term),
           Within(c, k), c.status # "panic"
    PROVE  /\ Bind(c, term) \in ScanCursor(Paths)
           /\ Within(Bind(c, term), k)
           /\ Bind(c, term).status # "panic"
           /\ Bind(c, term).desc = c.desc
<1> DEFINE hi == IsUpper(term.op) /\ (c.max = None \/ Before(term.key, c.max))
           lo == IsLower(term.op) /\ (c.min = None \/ Before(c.min, term.key))
           d  == [c EXCEPT !.max   = IF hi THEN term.key ELSE @,
                           !.ltMax = IF hi THEN term.op = "LT" ELSE @,
                           !.min   = IF lo THEN term.key ELSE @,
                           !.gtMin = IF lo THEN term.op = "GT" ELSE @]
<1>1. hi \/ lo => term.key \in ExactValue
  BY SatisfiesBefore DEF IsUpper, IsLower
<1>2. /\ c.max # None => c.max \in ExactValue /\ c.max # Null
      /\ c.min # None => c.min \in ExactValue /\ c.min # Null
  BY DEF ScanCursor, ExactValue, SQLiteValue, Null, Types
<1>3. ~Clashes(c, term)
  BY <1>2, SatisfiesBefore DEF Clashes, Panics, IsUpper, IsLower
<1>4. Bind(c, term) = d
  BY <1>3 DEF Bind
<1> HIDE DEF hi, lo
<1>5. /\ d.max   = IF hi THEN term.key ELSE c.max
      /\ d.ltMax = IF hi THEN term.op = "LT" ELSE c.ltMax
      /\ d.min   = IF lo THEN term.key ELSE c.min
      /\ d.gtMin = IF lo THEN term.op = "GT" ELSE c.gtMin
      /\ d.status = c.status /\ d.desc = c.desc
  BY DEF ScanCursor
<1>6. d \in ScanCursor(Paths)
  BY <1>1 DEF ScanCursor
<1> HIDE DEF d
<1>7. AboveMin(d, k)
  <2>1. CASE lo
    <3>1. term.op \in {"GT", "GE", "EQ"}
      BY <2>1 DEF lo, IsLower
    <3>2. IF term.op = "GT" THEN Before(term.key, k) ELSE ~Before(k, term.key)
      BY <3>1, SatisfiesBefore
    <3> QED
      BY <1>5, <2>1, <3>2 DEF AboveMin
  <2>2. CASE ~lo
    BY <1>5, <2>2 DEF AboveMin, Within
  <2> QED
    BY <2>1, <2>2
<1>8. BelowMax(d, k)
  <2>1. CASE hi
    <3>1. term.op \in {"LT", "LE", "EQ"}
      BY <2>1 DEF hi, IsUpper
    <3>2. IF term.op = "LT" THEN Before(k, term.key) ELSE ~Before(term.key, k)
      BY <3>1, SatisfiesBefore
    <3> QED
      BY <1>5, <2>1, <3>2 DEF BelowMax
  <2>2. CASE ~hi
    BY <1>5, <2>2 DEF BelowMax, Within
  <2> QED
    BY <2>1, <2>2
<1> QED
  BY <1>4, <1>5, <1>6, <1>7, <1>8 DEF Within

(* Filter narrows the bounds by one constraint after another, and never past a key *)
(* that satisfies them all.                                                        *)
LEMMA BoundsKeepMatches ==
    ASSUME \A n \in Int : Float(n) \in Int,
           NEW Paths, NEW c \in ScanCursor(Paths), c.min = None, c.max = None,
           c.status # "panic",
           NEW n \in Nat, NEW terms \in [1..n -> ExactTerm],
           NEW b, b[0] = c, \A i \in 1..n : b[i] = Bind(b[i - 1], terms[i]),
           NEW k \in ExactValue, \A i \in 1..n : Satisfies(k, terms[i])
    PROVE  /\ b[n] \in ScanCursor(Paths)
           /\ Within(b[n], k)
           /\ b[n].status # "panic"
           /\ b[n].desc = c.desc
<1> DEFINE Kept(i) == /\ b[i] \in ScanCursor(Paths)
                      /\ Within(b[i], k)
                      /\ b[i].status # "panic"
                      /\ b[i].desc = c.desc
           lost == {i \in 0..n : ~Kept(i)}
<1>1. Kept(0)
  BY DEF Within, AboveMin, BelowMax
<1>2. ASSUME NEW i \in 1..n, Kept(i - 1)
      PROVE  Kept(i)
  <2>1. terms[i] \in ExactTerm /\ Satisfies(k, terms[i]) /\ b[i] = Bind(b[i - 1], terms[i])
    OBVIOUS
  <2>2. b[i - 1] \in ScanCursor(Paths) /\ Within(b[i - 1], k) /\ b[i - 1].status # "panic"
    BY <1>2
  <2>3. /\ Bind(b[i - 1], terms[i]) \in ScanCursor(Paths)
        /\ Within(Bind(b[i - 1], terms[i]), k)
        /\ Bind(b[i - 1], terms[i]).status # "panic"
        /\ Bind(b[i - 1], terms[i]).desc = b[i - 1].desc
    BY <2>1, <2>2, BindKeeps
  <2> QED
    BY <1>2, <2>1, <2>3
<1> HIDE DEF Kept
<1>3. lost = {}
  <2> SUFFICES ASSUME lost # {}
               PROVE  FALSE
    OBVIOUS
  <2>1. lost \subseteq Nat
    OBVIOUS
  <2>2. PICK i \in lost : \A j \in lost : i <= j
    BY <2>1, LeastNumber
  <2>3. i \in 1..n /\ i - 1 \in 0..n /\ i - 1 < i
    BY <1>1, <2>2
  <2>4. Kept(i - 1)
    BY <2>2, <2>3
  <2> QED
    BY <1>2, <2>2, <2>3, <2>4
<1>4. Kept(n)
  <2>1. n \in 0..n
    OBVIOUS
  <2> QED
    BY <1>3, <2>1
<1> QED
  BY <1>4 DEF Kept

(* A scan stops only where the bounds admit no key any more. *)
LEMMA PastEndIsFinal ==
    ASSUME \A n \in Int : Float(n) \in Int,
           \A m, n \in Int : m <= n => Float(m) <= Float(n),
           NEW Paths, NEW c \in ScanCursor(Paths), NEW j \in SQLiteValue,
           NEW k \in SQLiteValue, Within(c, k),
           j = k \/ IF c.desc THEN Before(k, j) ELSE Before(j, k)
    PROVE  ~PastEnd(c, j)
<1>1. /\ c.max # None => c.max \in SQLiteValue
      /\ c.min # None => c.min \in SQLiteValue
  BY DEF ScanCursor, ExactValue
<1>2. CASE ~c.desc /\ c.max # None
  <2>1. Before(c.max, j) => Before(c.max, k)
    BY <1>1, <1>2, BeforeIsTransitive
  <2>2. c.ltMax => Before(k, c.max) /\ Before(j, c.max)
    BY <1>1, <1>2, BeforeIsTransitive DEF Within, BelowMax
  <2>3. c.ltMax => ~Before(c.max, j)
    BY <1>1, <1>2, <2>2, BeforeIsAsymmetric
  <2> QED
    BY <1>2, <2>1, <2>2, <2>3 DEF Within, BelowMax, PastEnd
<1>3. CASE c.desc /\ c.min # None
  <2>1. Before(j, c.min) => Before(k, c.min)
    BY <1>1, <1>3, BeforeIsTransitive
  <2>2. c.gtMin => Before(c.min, k) /\ Before(c.min, j)
    BY <1>1, <1>3, BeforeIsTransitive DEF Within, AboveMin
  <2>3. c.gtMin => ~Before(j, c.min)
    BY <1>1, <1>3, <2>2, BeforeIsAsymmetric
  <2> QED
    BY <1>3, <2>1, <2>2, <2>3 DEF Within, AboveMin, PastEnd
<1> QED
  BY <1>2, <1>3 DEF PastEnd

(* NoMatchIsLost: whatever constraints a query has, and whatever flags an earlier *)
(* query left, Filter does not panic if some key k satisfies them all; k is not   *)
(* before the key where the scan starts, and while the bounds stay and flags are  *)
(* only cleared, as in Next, the scan does not skip k as an excluded key, nor     *)
(* does it stop at k or at a key that it reaches before k.                        *)
THEOREM NoMatchIsLost ==
    ASSUME \A m \in Int : Float(m) \in Int,
           \A l, m \in Int : l <= m => Float(l) <= Float(m),
           NEW Paths, NEW c \in ScanCursor(Paths), c.min = None, c.max = None,
           c.status # "panic",
           NEW n \in Nat, NEW terms \in [1..n -> ExactTerm],
           NEW b, b[0] = c, \A i \in 1..n : b[i] = Bind(b[i - 1], terms[i]),
           NEW k \in ExactValue, \A i \in 1..n : Satisfies(k, terms[i]),
           NEW e \in ScanCursor(Paths), e.desc = c.desc,
           e.min = b[n].min, e.gtMin => b[n].gtMin,
           e.max = b[n].max, e.ltMax => b[n].ltMax
    PROVE  /\ b[n].status # "panic"
           /\ IF e.desc THEN e.max # None => ~Before(e.max, k)
                        ELSE e.min # None => ~Before(k, e.min)
           /\ ~Excluded(e, k)
           /\ \A j \in SQLiteValue :
                 (j = k \/ IF e.desc THEN Before(k, j) ELSE Before(j, k)) => ~PastEnd(e, j)
<1>1. Within(b[n], k) /\ b[n].status # "panic"
  BY BoundsKeepMatches, Zenon
<1>2. k \in SQLiteValue
  BY DEF ExactValue
<1>3. /\ e.max # None => e.max \in SQLiteValue
      /\ e.min # None => e.min \in SQLiteValue
  BY DEF ScanCursor, ExactValue
<1>4. /\ e.min # None => ~Before(k, e.min)
      /\ e.min # None /\ e.gtMin => Before(e.min, k)
  <2>1. AboveMin(b[n], k)
    BY <1>1 DEF Within
  <2> QED
    BY <1>2, <1>3, <2>1, BeforeIsAsymmetric DEF AboveMin
<1>5. /\ e.max # None => ~Before(e.max, k)
      /\ e.max # None /\ e.ltMax => Before(k, e.max)
  <2>1. BelowMax(b[n], k)
    BY <1>1 DEF Within
  <2> QED
    BY <1>2, <1>3, <2>1, BeforeIsAsymmetric DEF BelowMax
<1>6. Within(e, k)
  BY <1>4, <1>5 DEF Within, AboveMin, BelowMax
<1>7. ~Excluded(e, k)
  BY <1>2, <1>3, <1>4, <1>5, BeforeIsAsymmetric DEF Excluded
<1>8. ASSUME NEW j \in SQLiteValue, j = k \/ IF e.desc THEN Before(k, j) ELSE Before(j, k)
      PROVE  ~PastEnd(e, j)
  BY <1>2, <1>6, <1>8, PastEndIsFinal
<1> QED
  BY <1>1, <1>4, <1>5, <1>7, <1>8
=============================================================================
