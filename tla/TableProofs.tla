------------------------------ MODULE TableProofs ------------------------------
(***************************************************************************)
(* The invariants of a table and its search tree, for any keys, layers,    *)
(* branch factor and bound on the height.                                  *)
(*                                                                         *)
(* NodeOf(n, K, layer, h, B) describes a node by the keys below it, one    *)
(* level at a time.  Each operation on trees is a function on the set of   *)
(* trees: it is shown to exist (the lemmas ...Is), then to take a node of  *)
(* some keys to a node of others (the lemmas ...Fits), by counting heights *)
(* up (UpTo).  TableInv, at the end, is the inductive invariant.           *)
(***************************************************************************)
EXTENDS Table, NaturalsInduction, WellFoundedInduction, FiniteSetTheorems, SequenceTheorems, TLAPS

-----------------------------------------------------------------------------
(* Numbers. *)

(* A set of numbers has a least one. *)
LEMMA Least ==
    ASSUME NEW ns, ns \subseteq Nat, ns # {}
    PROVE  \E n \in ns : \A m \in ns : n <= m
<1> DEFINE R == OpToRel(<, Nat)
<1>1. PICK n \in ns : \A m \in ns : ~(<<m, n>> \in R)
  <2>1. IsWellFoundedOn(R, Nat)
    BY NatLessThanWellFounded
  <2> HIDE DEF R
  <2>2. QED
    BY <2>1, WFMin
<1>2. \A m \in ns : ~(m < n)
  BY <1>1 DEF OpToRel
<1> QED
  BY <1>2

(* Induction up to a number, or over all of them. *)
LEMMA UpTo ==
    ASSUME NEW n \in Nat, NEW good, 0 \in good,
           \A i \in 0..n : i \in good /\ i < n => i + 1 \in good
    PROVE  \A i \in 0..n : i \in good
<1> SUFFICES ASSUME NEW j \in 0..n, j \notin good PROVE FALSE
  OBVIOUS
<1> DEFINE bad == {i \in 0..n : i \notin good}
<1>1. PICK i \in bad : \A m \in bad : i <= m
  <2>1. bad \subseteq Nat /\ bad # {}
    OBVIOUS
  <2> QED
    BY <2>1, Least
<1>2. i # 0
  OBVIOUS
<1>3. i - 1 \in 0..n /\ i - 1 < n /\ i - 1 \notin bad
  BY <1>1, <1>2
<1>4. (i - 1) + 1 \in good
  BY <1>3
<1> QED
  BY <1>1, <1>4

LEMMA OverNat ==
    ASSUME NEW good, 0 \in good, \A i \in Nat : i \in good => i + 1 \in good
    PROVE  Nat \subseteq good
<1> SUFFICES ASSUME NEW n \in Nat PROVE n \in good
  OBVIOUS
<1> QED
  BY UpTo

(* A set of numbers up to n that has with a number all smaller ones. *)
LEMMA Initial ==
    ASSUME NEW n \in Nat, NEW S, S \subseteq 1..n,
           \A i \in S : \A j \in 1..n : j < i => j \in S
    PROVE  /\ S = 1..Cardinality(S)
           /\ Cardinality(S) \in 0..n
<1> DEFINE out == {i \in 1..n + 1 : i \notin S}
<1>1. PICK c \in out : \A m \in out : c <= m
  <2>1. out \subseteq Nat /\ n + 1 \in out
    OBVIOUS
  <2> QED
    BY <2>1, Least
<1>2. S = 1..(c - 1)
  <2>1. c \in 1..n + 1 /\ c \notin S
    BY <1>1
  <2>2. ASSUME NEW x \in S PROVE x \in 1..(c - 1)
    BY <2>1, <2>2
  <2>3. ASSUME NEW x \in 1..(c - 1) PROVE x \in S
    <3>1. x \in 1..n + 1
      BY <2>1
    <3> QED
      BY <2>1, <1>1, <3>1
  <2> QED
    BY <2>2, <2>3
<1>3. Cardinality(S) = c - 1
  BY <1>2, FS_Interval
<1> QED
  BY <1>2, <1>3

LEMMA CountOf ==
    ASSUME NEW n \in Nat, NEW S, S \subseteq 1..n
    PROVE  IsFiniteSet(S) /\ Cardinality(S) \in 0..n
<1>1. IsFiniteSet(1..n) /\ Cardinality(1..n) = n
  BY FS_Interval
<1> QED
  <2>1. IsFiniteSet(S) /\ Cardinality(S) <= n
    BY <1>1, FS_Subset, S \in SUBSET (1..n)
  <2> QED
    BY <2>1, FS_CardinalityType

-----------------------------------------------------------------------------
(* The order of keys. *)

(* On the keys of a table Before is a strict order, and no two keys are the same. *)
LEMMA KeysOrdered ==
    /\ \A j, k \in Key : Same(j, k) <=> j = k
    /\ \A j, k \in Key : j = k \/ Before(j, k) \/ Before(k, j)
    /\ \A j, k \in Key : Before(j, k) => ~Before(k, j)
    /\ \A i, j, k \in Key : Before(i, j) /\ Before(j, k) => Before(i, k)
<1>0. ASSUME NEW k \in Key
      PROVE  k.type \in Types /\ k.at \in Int /\ k \in SQLiteValue /\ (k.type = "INT" => Float(k.at) = k.at)
  BY Keys, FloatsExact DEF SQLiteValue, Exact
<1>1. ASSUME NEW j \in Key, NEW k \in Key
      PROVE  Order(j, k) \in {-1, 0, 1} /\ (Before(j, k) <=> Precedes(j, k)) /\ (Same(j, k) <=> j = k)
  <2>1. Order(j, k) \in {-1, 0, 1}
    <3>1. OrderSorted(j, k) \in {-1, 0, 1} /\ OrderSorted(k, j) \in {-1, 0, 1}
      BY DEF OrderSorted, Compare
    <3> QED
      BY <3>1 DEF Order
  <2>2. Before(j, k) <=> Precedes(j, k)
    <3>1. CASE j.type = "INT"
      BY <1>0, <3>1 DEF Before, Order, OrderSorted, Compare, TypeIndex, Types, Precedes, StorageClass
    <3>2. CASE j.type = "REAL"
      BY <1>0, <3>2 DEF Before, Order, OrderSorted, Compare, TypeIndex, Types, Precedes, StorageClass
    <3>3. CASE j.type = "TEXT"
      BY <1>0, <3>3 DEF Before, Order, OrderSorted, Compare, TypeIndex, Types, Precedes, StorageClass
    <3>4. CASE j.type = "BLOB"
      BY <1>0, <3>4 DEF Before, Order, OrderSorted, Compare, TypeIndex, Types, Precedes, StorageClass
    <3> QED
      BY <1>0, <3>1, <3>2, <3>3, <3>4 DEF Types
  <2>3. Order(j, j) = 0
    BY <1>0 DEF Order, OrderSorted, Compare, TypeIndex, Types
  <2> QED
    BY <2>1, <2>2, <2>3, KeysDiffer DEF Same
<1>2. ASSUME NEW j \in Key, NEW k \in Key
      PROVE  /\ Order(j, k) = 0 \/ Precedes(j, k) \/ Precedes(k, j)
             /\ Precedes(j, k) => ~Precedes(k, j)
  <2>1. Order(k, j) = -Order(j, k)
    <3>1. OrderSorted(j, k) \in {-1, 0, 1} /\ OrderSorted(k, j) \in {-1, 0, 1}
      BY DEF OrderSorted, Compare
    <3>2. CASE j.type = k.type
      <4>1. OrderSorted(k, j) = -OrderSorted(j, k)
        BY <1>0, <3>2 DEF OrderSorted, Compare
      <4> QED
        BY <1>0, <3>1, <3>2, <4>1 DEF Order, TypeIndex, Types
    <3>3. CASE j.type # k.type
      <4>1. /\ TypeIndex[j.type] \in Int /\ TypeIndex[k.type] \in Int
            /\ TypeIndex[j.type] # TypeIndex[k.type]
        BY <1>0, <3>3 DEF TypeIndex, Types
      <4> QED
        BY <3>1, <4>1 DEF Order
    <3> QED
      BY <3>2, <3>3
  <2>2. Precedes(j, k) => ~Precedes(k, j)
    BY <1>0 DEF Precedes, StorageClass, Types
  <2> QED
    BY <1>1, <2>1, <2>2 DEF Before
<1>3. ASSUME NEW i \in Key, NEW j \in Key, NEW k \in Key, Precedes(i, j), Precedes(j, k)
      PROVE  Precedes(i, k)
  BY <1>0, <1>3 DEF Precedes, StorageClass, Types
<1> QED
  BY <1>1, <1>2, <1>3 DEF Same

-----------------------------------------------------------------------------
(* Sorted sequences. *)

Sorted(s) == \A i, j \in 1..Len(s) : i < j => Before(s[i], s[j])

Holds(s, K) == \A k : k \in K <=> \E i \in 1..Len(s) : s[i] = k

(* A finite strict order numbers its elements from 0. *)
LEMMA Ranks ==
    ASSUME NEW S, IsFiniteSet(S), NEW R, NEW rank,
           \A x, y \in S : x = y \/ <<x, y>> \in R \/ <<y, x>> \in R,
           \A x, y \in S : <<x, y>> \in R => <<y, x>> \notin R,
           \A x, y, z \in S : <<x, y>> \in R /\ <<y, z>> \in R => <<x, z>> \in R,
           rank = [x \in S |-> Cardinality({y \in S : <<y, x>> \in R})]
    PROVE  /\ \A x \in S : rank[x] \in 0..Cardinality(S) - 1
           /\ \A x, y \in S : <<x, y>> \in R <=> rank[x] < rank[y]
           /\ \A i \in 0..Cardinality(S) - 1 : \E x \in S : rank[x] = i
<1> DEFINE Less(x) == {y \in S : <<y, x>> \in R}
<1>1. Cardinality(S) \in Nat
  BY FS_CardinalityType
<1>4. \A x \in S : rank[x] = Cardinality(Less(x))
  OBVIOUS
<1>2. ASSUME NEW x \in S
      PROVE  IsFiniteSet(Less(x)) /\ Cardinality(Less(x)) \in Nat /\ Cardinality(Less(x)) < Cardinality(S)
  <2>1. Less(x) \in SUBSET S /\ x \notin Less(x)
    OBVIOUS
  <2>2. IsFiniteSet(Less(x)) /\ Cardinality(Less(x)) <= Cardinality(S) /\ Cardinality(Less(x)) # Cardinality(S)
    BY <2>1, FS_Subset
  <2>3. Cardinality(Less(x)) \in Nat
    BY <2>2, FS_CardinalityType
  <2> QED
    BY <1>1, <2>2, <2>3
<1>3. ASSUME NEW x \in S, NEW y \in S, <<x, y>> \in R
      PROVE  Cardinality(Less(x)) < Cardinality(Less(y))
  <2>1. Less(x) \in SUBSET Less(y) /\ x \in Less(y) /\ x \notin Less(x)
    BY <1>3
  <2>2. Cardinality(Less(x)) <= Cardinality(Less(y)) /\ Cardinality(Less(x)) # Cardinality(Less(y))
    BY <1>2, <2>1, FS_Subset
  <2> HIDE DEF Less
  <2> QED
    BY <1>2, <2>2
<1> HIDE DEF Less
<1>5. \A x \in S : rank[x] \in 0..Cardinality(S) - 1
  BY <1>1, <1>2, <1>4
<1>6. \A x, y \in S : <<x, y>> \in R <=> rank[x] < rank[y]
  <2> SUFFICES ASSUME NEW x \in S, NEW y \in S PROVE <<x, y>> \in R <=> rank[x] < rank[y]
    OBVIOUS
  <2>1. rank[x] \in Nat /\ rank[y] \in Nat
    BY <1>2, <1>4
  <2>2. CASE <<x, y>> \in R
    BY <1>3, <1>4, <2>2
  <2>3. CASE <<y, x>> \in R
    <3>1. rank[y] < rank[x]
      BY <1>3, <1>4, <2>3
    <3> QED
      BY <2>1, <2>3, <3>1
  <2>4. CASE x = y
    BY <2>1, <2>4
  <2> QED
    BY <2>2, <2>3, <2>4
<1>7. rank \in Injection(S, 0..Cardinality(S) - 1)
  <2>1. rank \in [S -> 0..Cardinality(S) - 1]
    BY <1>5
  <2>2. ASSUME NEW x \in S, NEW y \in S, rank[x] = rank[y] PROVE x = y
    BY <1>5, <1>6, <2>2
  <2> QED
    BY <2>1, <2>2 DEF Injection, IsInjective
<1>8. IsFiniteSet(0..Cardinality(S) - 1) /\ Cardinality(0..Cardinality(S) - 1) = Cardinality(S)
  BY <1>1, FS_Interval, SMTT(30)
<1>9. rank \in Surjection(S, 0..Cardinality(S) - 1)
  BY <1>7, <1>8, FS_Injection
<1>10. \A i \in 0..Cardinality(S) - 1 : \E x \in S : rank[x] = i
  BY <1>9 DEF Surjection
<1> QED
  BY <1>5, <1>6, <1>10

(* The elements of a finite set of keys, in order. *)
LEMMA AscendingIs ==
    ASSUME NEW K, K \subseteq Key, IsFiniteSet(K)
    PROVE  /\ Ascending(K) \in Seq(Key) /\ Len(Ascending(K)) = Cardinality(K)
           /\ Sorted(Ascending(K)) /\ Holds(Ascending(K), K)
<1> DEFINE R    == {p \in Key \X Key : Before(p[1], p[2])}
           rank == [x \in K |-> Cardinality({y \in K : <<y, x>> \in R})]
           N    == Cardinality(K)
           s    == Ascending(K)
           At(i) == CHOOSE k \in K : Cardinality({j \in K : Before(j, k)}) = i - 1
<1>1. \A x, y \in Key : <<x, y>> \in R <=> Before(x, y)
  OBVIOUS
<1>2. ASSUME NEW x \in K PROVE rank[x] = Cardinality({y \in K : Before(y, x)})
  <2>1. {y \in K : <<y, x>> \in R} = {y \in K : Before(y, x)}
    BY <1>1
  <2> QED
    BY <2>1
<1>3. /\ \A x \in K : rank[x] \in 0..N - 1
      /\ \A x, y \in K : <<x, y>> \in R <=> rank[x] < rank[y]
      /\ \A i \in 0..N - 1 : \E x \in K : rank[x] = i
  <2>1. /\ \A x, y \in K : x = y \/ <<x, y>> \in R \/ <<y, x>> \in R
        /\ \A x, y \in K : <<x, y>> \in R => <<y, x>> \notin R
        /\ \A x, y, z \in K : <<x, y>> \in R /\ <<y, z>> \in R => <<x, z>> \in R
    <3> HIDE DEF R
    <3> QED
      BY <1>1, KeysOrdered
  <2> HIDE DEF R
  <2> QED
    BY <2>1, Ranks
<1>4. N \in Nat
  BY FS_CardinalityType
<1> HIDE DEF rank, R
<1>5. ASSUME NEW i \in 1..N PROVE s[i] \in K /\ rank[s[i]] = i - 1
  <2>1. s[i] = At(i)
    BY DEF Ascending
  <2>2. \E k \in K : Cardinality({j \in K : Before(j, k)}) = i - 1
    <3>1. i - 1 \in 0..N - 1
      BY <1>4
    <3> QED
      BY <1>2, <1>3, <3>1
  <2>3. s[i] \in K /\ Cardinality({j \in K : Before(j, s[i])}) = i - 1
    BY <2>1, <2>2
  <2> QED
    BY <1>2, <2>3
<1>6. s \in Seq(Key) /\ Len(s) = N
  <2>1. s = [i \in 1..N |-> At(i)]
    BY DEF Ascending
  <2>2. s \in [1..N -> Key]
    <3> HIDE DEF At, s, N
    <3> QED
      BY <1>5, <2>1
  <2> QED
    BY <1>4, <2>2
<1>7. Sorted(s)
  <2> SUFFICES ASSUME NEW i \in 1..N, NEW j \in 1..N, i < j PROVE Before(s[i], s[j])
    BY <1>6 DEF Sorted
  <2>1. rank[s[i]] < rank[s[j]]
    BY <1>5
  <2> QED
    BY <1>1, <1>3, <1>5, <2>1
<1>8. Holds(s, K)
  <2> SUFFICES ASSUME NEW k \in K PROVE \E i \in 1..N : s[i] = k
    BY <1>5, <1>6 DEF Holds
  <2>1. rank[k] + 1 \in 1..N
    BY <1>3, <1>4
  <2>2. s[rank[k] + 1] \in K /\ rank[s[rank[k] + 1]] = rank[k]
    BY <1>3, <1>5, <2>1
  <2>3. s[rank[k] + 1] = k
    <3>1. s[rank[k] + 1] \in Key /\ k \in Key
      BY <2>2
    <3>2. rank[k] \in Int
      BY <1>3
    <3> HIDE DEF s
    <3>3. <<s[rank[k] + 1], k>> \notin R /\ <<k, s[rank[k] + 1]>> \notin R
      BY <1>3, <2>2, <3>2
    <3> QED
      BY <1>1, <3>1, <3>3, KeysOrdered
  <2> QED
    BY <2>1, <2>3
<1> QED
  BY <1>6, <1>7, <1>8

(* The same for numbers. *)
LEMMA IncreasingIs ==
    ASSUME NEW n \in Nat, NEW S, S \subseteq 1..n
    PROVE  /\ Increasing(S) \in Seq(1..n)
           /\ \A i, j \in 1..Len(Increasing(S)) : i < j => Increasing(S)[i] < Increasing(S)[j]
           /\ \A m : m \in S <=> \E i \in 1..Len(Increasing(S)) : Increasing(S)[i] = m
<1> DEFINE R    == {p \in Nat \X Nat : p[1] < p[2]}
           rank == [x \in S |-> Cardinality({y \in S : <<y, x>> \in R})]
           N    == Cardinality(S)
           s    == Increasing(S)
           At(i) == CHOOSE k \in S : Cardinality({j \in S : j < k}) = i - 1
<1>1. \A x, y \in Nat : <<x, y>> \in R <=> x < y
  OBVIOUS
<1>2. ASSUME NEW x \in S PROVE rank[x] = Cardinality({y \in S : y < x})
  <2>1. \A y \in S : y \in Nat
    OBVIOUS
  <2>2. {y \in S : <<y, x>> \in R} = {y \in S : y < x}
    <3> HIDE DEF R
    <3> QED
      BY <1>1, <2>1
  <2> QED
    BY <2>1
<1>0. IsFiniteSet(S) /\ N \in Nat
  <2> HIDE DEF R, rank
  <2>1. IsFiniteSet(S) /\ Cardinality(S) \in 0..n
    BY CountOf
  <2> QED
    BY <2>1
<1>9. \A x \in S : x \in Nat
  OBVIOUS
<1>3. /\ \A x \in S : rank[x] \in 0..N - 1
      /\ \A x, y \in S : <<x, y>> \in R <=> rank[x] < rank[y]
      /\ \A i \in 0..N - 1 : \E x \in S : rank[x] = i
  <2>1. /\ \A x, y \in S : x = y \/ <<x, y>> \in R \/ <<y, x>> \in R
        /\ \A x, y \in S : <<x, y>> \in R => <<y, x>> \notin R
        /\ \A x, y, z \in S : <<x, y>> \in R /\ <<y, z>> \in R => <<x, z>> \in R
    <3>1. \A x \in S : x \in Nat
      OBVIOUS
    <3> HIDE DEF R
    <3> QED
      BY <1>1, <3>1
  <2> HIDE DEF R
  <2> QED
    BY <1>0, <2>1, Ranks
<1> HIDE DEF rank, R
<1>4. ASSUME NEW x \in S, NEW y \in S, rank[x] = rank[y] PROVE x = y
  <2>1. rank[x] \in Int /\ x \in Nat /\ y \in Nat
    BY <1>3, <1>9
  <2>2. <<x, y>> \notin R /\ <<y, x>> \notin R
    <3>1. ~(rank[x] < rank[y]) /\ ~(rank[y] < rank[x])
      BY <1>4, <2>1
    <3> QED
      BY <1>3, <3>1
  <2>3. ~(x < y) /\ ~(y < x)
    BY <1>1, <2>1, <2>2
  <2> QED
    BY <2>1, <2>3
<1>5. ASSUME NEW i \in 1..N PROVE s[i] \in S /\ rank[s[i]] = i - 1
  <2>1. s[i] = At(i)
    BY DEF Increasing
  <2>2. \E k \in S : Cardinality({j \in S : j < k}) = i - 1
    <3>1. i - 1 \in 0..N - 1
      BY <1>0
    <3> QED
      BY <1>2, <1>3, <3>1
  <2>3. s[i] \in S /\ Cardinality({j \in S : j < s[i]}) = i - 1
    BY <2>1, <2>2
  <2> QED
    BY <1>2, <2>3
<1>6. s \in Seq(1..n) /\ Len(s) = N
  <2>1. s = [i \in 1..N |-> At(i)]
    BY DEF Increasing
  <2>2. s \in [1..N -> 1..n]
    <3> HIDE DEF At, s, N
    <3> QED
      BY <1>5, <2>1
  <2> QED
    BY <1>0, <2>2
<1>7. \A i, j \in 1..N : i < j => s[i] < s[j]
  <2> SUFFICES ASSUME NEW i \in 1..N, NEW j \in 1..N, i < j PROVE s[i] < s[j]
    OBVIOUS
  <2> HIDE DEF s, N
  <2>1. s[i] \in S /\ s[j] \in S /\ rank[s[i]] = i - 1 /\ rank[s[j]] = j - 1
    BY <1>5
  <2>2. rank[s[i]] < rank[s[j]]
    BY <1>0, <2>1
  <2>3. s[i] \in Nat /\ s[j] \in Nat
    BY <1>9, <2>1
  <2> QED
    BY <1>1, <1>3, <2>1, <2>2, <2>3
<1>8. ASSUME NEW k \in S PROVE \E i \in 1..N : s[i] = k
  <2>1. rank[k] + 1 \in 1..N
    BY <1>3, <1>0
  <2>2. s[rank[k] + 1] \in S /\ rank[s[rank[k] + 1]] = rank[k]
    BY <1>3, <1>5, <2>1
  <2>3. s[rank[k] + 1] = k
    BY <1>4, <2>2
  <2> QED
    BY <2>1, <2>3
<1> QED
  BY <1>5, <1>6, <1>7, <1>8

(* A sequence is sorted in one way only. *)
LEMMA SortedOnce ==
    ASSUME NEW s \in Seq(Key), NEW t \in Seq(Key), NEW K,
           Sorted(s), Sorted(t), Holds(s, K), Holds(t, K)
    PROVE  s = t
<1>0. /\ Len(s) \in Nat /\ \A i \in 1..Len(s) : s[i] \in Key
      /\ Len(t) \in Nat /\ \A i \in 1..Len(t) : t[i] \in Key
  OBVIOUS
<1> DEFINE bad == {i \in Nat \ {0} : i <= Len(s) /\ i <= Len(t) /\ s[i] # t[i]}
<1>1. bad = {}
  <2> SUFFICES ASSUME bad # {} PROVE FALSE
    OBVIOUS
  <2>1. PICK i \in bad : \A m \in bad : i <= m
    <3>1. bad \subseteq Nat
      OBVIOUS
    <3> QED
      BY <3>1, Least
  <2>2. i \in 1..Len(s) /\ i \in 1..Len(t) /\ s[i] # t[i]
    OBVIOUS
  <2>3. \A j \in 1..(i - 1) : s[j] = t[j]
    <3> SUFFICES ASSUME NEW j \in 1..(i - 1), s[j] # t[j] PROVE FALSE
      OBVIOUS
    <3>1. j \in bad /\ j < i
      BY <1>0, <2>2
    <3> QED
      BY <2>1, <3>1
  <2>4. PICK a \in 1..Len(t) : t[a] = s[i]
    BY <2>2 DEF Holds
  <2>5. PICK b \in 1..Len(s) : s[b] = t[i]
    BY <2>2 DEF Holds
  <2> HIDE DEF bad
  <2>6. a > i
    <3>1. CASE a < i
      <4>1. s[a] = s[i] /\ a \in 1..Len(s)
        BY <2>2, <2>3, <2>4, <3>1
      <4> QED
        BY <1>0, <2>2, <3>1, <4>1, KeysOrdered DEF Sorted
    <3> QED
      BY <2>2, <2>4, <3>1
  <2>7. b > i
    <3>1. CASE b < i
      <4>1. t[b] = t[i] /\ b \in 1..Len(t)
        BY <2>2, <2>3, <2>5, <3>1
      <4> QED
        BY <1>0, <2>2, <3>1, <4>1, KeysOrdered DEF Sorted
    <3> QED
      BY <2>2, <2>5, <3>1
  <2>8. Before(t[i], s[i])
    BY <2>2, <2>4, <2>6 DEF Sorted
  <2>9. Before(s[i], t[i])
    BY <2>2, <2>5, <2>7 DEF Sorted
  <2> QED
    BY <1>0, <2>2, <2>8, <2>9, KeysOrdered
<1>2. \A i \in 1..Len(s) : i \in 1..Len(t) => s[i] = t[i]
  BY <1>0, <1>1
<1> HIDE DEF bad
<1>3. ~(Len(s) < Len(t))
  <2> SUFFICES ASSUME Len(s) < Len(t) PROVE FALSE
    OBVIOUS
  <2>1. Len(s) + 1 \in 1..Len(t)
    BY <1>0
  <2>2. PICK a \in 1..Len(s) : s[a] = t[Len(s) + 1]
    BY <2>1 DEF Holds
  <2>3. t[a] = t[Len(s) + 1] /\ a \in 1..Len(t) /\ a < Len(s) + 1
    BY <1>0, <1>2, <2>2
  <2> QED
    BY <1>0, <2>1, <2>3, KeysOrdered DEF Sorted
<1>4. ~(Len(t) < Len(s))
  <2> SUFFICES ASSUME Len(t) < Len(s) PROVE FALSE
    OBVIOUS
  <2>1. Len(t) + 1 \in 1..Len(s)
    BY <1>0
  <2>2. PICK a \in 1..Len(t) : t[a] = s[Len(t) + 1]
    BY <2>1 DEF Holds
  <2>3. s[a] = s[Len(t) + 1] /\ a \in 1..Len(s) /\ a < Len(t) + 1
    BY <1>0, <1>2, <2>2
  <2> QED
    BY <1>0, <2>1, <2>3, KeysOrdered DEF Sorted
<1>5. Len(s) = Len(t)
  BY <1>0, <1>3, <1>4
<1> QED
  BY <1>2, <1>5, SeqEqual

(* Where findNode ends up in a node. *)
LEMMA SlotType ==
    ASSUME NEW S, NEW n, n.keys \in Seq(S), NEW k
    PROVE  Slot(n, k) \in 0..Len(n.keys)
<1>1. {i \in DOMAIN n.keys : Before(n.keys[i], k)} \subseteq 1..Len(n.keys) /\ Len(n.keys) \in Nat
  OBVIOUS
<1> QED
  BY <1>1, CountOf DEF Slot

LEMMA SlotIs ==
    ASSUME NEW n, n.keys \in Seq(Key), Sorted(n.keys), NEW k \in Key
    PROVE  /\ Slot(n, k) \in 0..Len(n.keys)
           /\ \A i \in 1..Len(n.keys) : Before(n.keys[i], k) <=> i <= Slot(n, k)
           /\ HasKey(n, Slot(n, k), k) <=> \E i \in 1..Len(n.keys) : n.keys[i] = k
           /\ HasKey(n, Slot(n, k), k) => Slot(n, k) < Len(n.keys) /\ n.keys[Slot(n, k) + 1] = k
<1> DEFINE s == n.keys
           S == {i \in DOMAIN s : Before(s[i], k)}
<1>1. Len(s) \in Nat /\ DOMAIN s = 1..Len(s) /\ \A i \in 1..Len(s) : s[i] \in Key
  OBVIOUS
<1>2. S \subseteq 1..Len(s)
  BY <1>1
<1>3. \A i \in S : \A j \in 1..Len(s) : j < i => j \in S
  BY <1>1, KeysOrdered DEF Sorted
<1>4. S = 1..Cardinality(S) /\ Cardinality(S) \in 0..Len(s)
  <2> HIDE DEF S, s
  <2> QED
    BY <1>1, <1>2, <1>3, Initial
<1>5. Slot(n, k) = Cardinality(S)
  BY DEF Slot
<1>6. \A i \in 1..Len(s) : Before(s[i], k) <=> i <= Slot(n, k)
  BY <1>1, <1>4, <1>5
<1> HIDE DEF S
<1>7. HasKey(n, Slot(n, k), k) <=> Slot(n, k) < Len(s) /\ s[Slot(n, k) + 1] = k
  <2>1. Slot(n, k) < Len(s) => s[Slot(n, k) + 1] \in Key
    BY <1>1, <1>4, <1>5
  <2> QED
    BY <2>1, KeysOrdered DEF HasKey
<1>8. ASSUME NEW i \in 1..Len(s), s[i] = k PROVE Slot(n, k) < Len(s) /\ s[Slot(n, k) + 1] = k
  <2>1. ~Before(s[i], k)
    BY <1>8, KeysOrdered
  <2>2. i > Slot(n, k)
    BY <1>4, <1>5, <1>6, <2>1
  <2>3. CASE i = Slot(n, k) + 1
    BY <1>1, <1>4, <1>5, <1>8, <2>3
  <2>4. CASE i > Slot(n, k) + 1
    <3>1. Slot(n, k) + 1 \in 1..Len(s)
      BY <1>1, <1>4, <1>5, <2>4
    <3>2. Before(s[Slot(n, k) + 1], k)
      BY <1>1, <1>8, <2>4, <3>1 DEF Sorted
    <3> QED
      BY <1>4, <1>5, <1>6, <3>1, <3>2
  <2> QED
    BY <1>1, <1>4, <1>5, <2>2, <2>3, <2>4
<1>9. Slot(n, k) < Len(s) => Slot(n, k) + 1 \in 1..Len(s)
  BY <1>1, <1>4, <1>5
<1> QED
  BY <1>4, <1>5, <1>6, <1>7, <1>8, <1>9

-----------------------------------------------------------------------------
(* Trees. *)

LEMMA TreesAre ==
    TreesOf = [h \in 0..MaxHeight + 1 |->
                     {Nil, Blank} \union (IF h = 0 THEN {} ELSE Nodes(TreesOf[h - 1]))]
<1> DEFINE At(p, h) == {Nil, Blank} \union (IF h = 0 THEN {} ELSE Nodes(p))
           good == {m \in Nat : \E f : f = [h \in 0..m |-> At(f[h - 1], h)]}
<1>1. \A p, q : At(p, 0) = At(q, 0)
  OBVIOUS
<1> HIDE DEF At
<1>2. 0 \in good
  <2> DEFINE g == [h \in 0..0 |-> At(0, h)]
  <2>1. g = [h \in 0..0 |-> At(g[h - 1], h)]
    BY <1>1
  <2> HIDE DEF g
  <2> QED
    BY <2>1
<1>3. ASSUME NEW m \in Nat, m \in good PROVE m + 1 \in good
  <2>1. PICK f : f = [h \in 0..m |-> At(f[h - 1], h)]
    BY <1>3
  <2> DEFINE g == [h \in 0..m + 1 |-> IF h = m + 1 THEN At(f[m], h) ELSE f[h]]
  <2>2. ASSUME NEW h \in 0..m + 1 PROVE g[h] = At(g[h - 1], h)
    <3>1. CASE h = 0
      <4>1. g[h] = f[h] /\ h \in 0..m
        BY <3>1
      <4>2. f[h] = At(f[h - 1], h)
        BY <2>1, <4>1
      <4> QED
        BY <1>1, <3>1, <4>1, <4>2
    <3>2. CASE h \in 1..m
      <4>1. g[h] = f[h] /\ h \in 0..m /\ g[h - 1] = f[h - 1]
        BY <3>2
      <4>2. f[h] = At(f[h - 1], h)
        BY <2>1, <4>1
      <4> QED
        BY <4>1, <4>2
    <3>3. CASE h = m + 1
      <4>1. g[h] = At(f[m], h) /\ g[h - 1] = f[m] /\ h - 1 = m
        BY <3>3
      <4> QED
        BY <4>1
    <3> QED
      BY <3>1, <3>2, <3>3
  <2>3. g = [h \in 0..m + 1 |-> g[h]]
    OBVIOUS
  <2> HIDE DEF g
  <2>4. g = [h \in 0..m + 1 |-> At(g[h - 1], h)]
    BY <2>2, <2>3
  <2> QED
    BY <2>4
<1>4. PICK f : f = [h \in 0..MaxHeight + 1 |-> At(f[h - 1], h)]
  <2> HIDE DEF good
  <2>1. MaxHeight + 1 \in good
    BY <1>2, <1>3, OverNat, Bounded
  <2> QED
    BY <2>1 DEF good
<1>5. f = [h \in 0..MaxHeight + 1 |-> {Nil, Blank} \union (IF h = 0 THEN {} ELSE Nodes(f[h - 1]))]
  BY <1>4 DEF At
<1> QED
  BY <1>5, Zenon DEF TreesOf

LEMMA NodesAre ==
    /\ Nil # Blank
    /\ \A links : \A n \in Nodes(links) :
          /\ n # Nil /\ n # Blank
          /\ n.keys \in Seq(SQLiteValue) /\ n.links \in Seq(links)
          /\ Len(n.keys) \in Nat /\ Len(n.links) = Len(n.keys) + 1
          /\ DOMAIN n.keys = 1..Len(n.keys) /\ DOMAIN n.links = 1..Len(n.keys) + 1
          /\ \A i \in 1..Len(n.keys) + 1 : n.links[i] \in links
<1>1. Nil # Blank
  BY DEF Nil, Blank
<1>2. ASSUME NEW links, NEW n \in Nodes(links) PROVE n # Nil /\ n # Blank
  <2>1. DOMAIN n = {"keys", "links"}
    BY DEF Nodes
  <2>2. DOMAIN Nil = {"link"} /\ DOMAIN Blank = {"link"}
    BY DEF Nil, Blank
  <2> QED
    BY <2>1, <2>2
<1>3. ASSUME NEW links, NEW n \in Nodes(links)
      PROVE  /\ n.keys \in Seq(SQLiteValue) /\ n.links \in Seq(links)
             /\ Len(n.links) = Len(n.keys) + 1
  BY DEF Nodes
<1>4. ASSUME NEW links, NEW n \in Nodes(links)
      PROVE  /\ Len(n.keys) \in Nat
             /\ DOMAIN n.keys = 1..Len(n.keys) /\ DOMAIN n.links = 1..Len(n.keys) + 1
             /\ \A i \in 1..Len(n.keys) + 1 : n.links[i] \in links
  <2>1. /\ Len(n.keys) \in Nat /\ DOMAIN n.keys = 1..Len(n.keys)
        /\ DOMAIN n.links = 1..Len(n.links) /\ \A i \in 1..Len(n.links) : n.links[i] \in links
    BY <1>3
  <2> QED
    BY <1>3, <2>1
<1> QED
  BY <1>1, <1>2, <1>3, <1>4

LEMMA TreeFacts ==
    /\ TreesOf[0] = {Nil, Blank}
    /\ \A h \in 0..MaxHeight : TreesOf[h + 1] = {Nil, Blank} \union Nodes(TreesOf[h])
    /\ \A h \in 0..MaxHeight : TreesOf[h] \subseteq TreesOf[h + 1]
    /\ \A h \in 0..MaxHeight + 1 : TreesOf[h] \subseteq Tree
<1>1. TreesOf[0] = {Nil, Blank}
  BY TreesAre, Bounded
<1>2. ASSUME NEW h \in 0..MaxHeight
      PROVE  TreesOf[h + 1] = {Nil, Blank} \union Nodes(TreesOf[h])
  <2>1. h + 1 \in 0..MaxHeight + 1 /\ h + 1 # 0 /\ (h + 1) - 1 = h
    BY Bounded
  <2> QED
    BY <2>1, TreesAre
<1> DEFINE good == {h \in Nat : h <= MaxHeight => TreesOf[h] \subseteq TreesOf[h + 1]}
<1>3. 0 \in good
  BY <1>1, <1>2, Bounded
<1>4. ASSUME NEW h \in Nat, h \in good PROVE h + 1 \in good
  <2> SUFFICES ASSUME h + 1 <= MaxHeight PROVE TreesOf[h + 1] \subseteq TreesOf[(h + 1) + 1]
    OBVIOUS
  <2>1. TreesOf[h] \subseteq TreesOf[h + 1] /\ h \in 0..MaxHeight /\ h + 1 \in 0..MaxHeight
    BY <1>4, Bounded
  <2>2. ASSUME NEW n \in Nodes(TreesOf[h]) PROVE n \in Nodes(TreesOf[h + 1])
    <3>1. n.links \in Seq(TreesOf[h + 1])
      BY <2>1, SeqMonotonic DEF Nodes
    <3> QED
      BY <3>1 DEF Nodes
  <2> QED
    BY <1>2, <2>1, <2>2
<1>5. \A h \in 0..MaxHeight : TreesOf[h] \subseteq TreesOf[h + 1]
  <2> HIDE DEF good
  <2>1. Nat \subseteq good
    BY <1>3, <1>4, OverNat
  <2> QED
    BY <2>1 DEF good
<1> DEFINE up == {h \in Nat : h <= MaxHeight + 1 => \A g \in 0..h : TreesOf[g] \subseteq TreesOf[h]}
<1>6. 0 \in up
  OBVIOUS
<1>7. ASSUME NEW h \in Nat, h \in up PROVE h + 1 \in up
  <2> SUFFICES ASSUME h + 1 <= MaxHeight + 1, NEW g \in 0..h + 1 PROVE TreesOf[g] \subseteq TreesOf[h + 1]
    OBVIOUS
  <2>1. CASE g = h + 1
    BY <2>1
  <2>2. CASE g \in 0..h
    <3>1. h <= MaxHeight + 1 /\ h \in 0..MaxHeight
      BY Bounded
    <3> QED
      BY <1>5, <1>7, <2>2, <3>1
  <2> QED
    BY <2>1, <2>2
<1>8. MaxHeight + 1 \in up
  <2> HIDE DEF up
  <2> QED
    BY <1>6, <1>7, OverNat, Bounded
<1> QED
  BY <1>1, <1>2, <1>5, <1>8, Bounded DEF Tree

(* The link that Slot chooses is one of the node's. *)
LEMMA SlotLink ==
    ASSUME NEW h \in 0..MaxHeight, NEW m \in Nodes(TreesOf[h]), NEW k
    PROVE  /\ Slot(m, k) + 1 \in DOMAIN m.links /\ Link(m, Slot(m, k)) = m.links[Slot(m, k) + 1]
           /\ Link(m, Slot(m, k)) \in TreesOf[h]
<1>1. Slot(m, k) \in 0..Len(m.keys)
  BY NodesAre, SlotType
<1> QED
  BY <1>1, NodesAre DEF Link

(* The recursive functions exist. *)

IsSplitFails(f, k) ==
    f = [m \in Tree |-> m = Blank \/ (m # Nil /\ f[Link(m, Slot(m, k))])]

LEMMA SplitFailsIs ==
    ASSUME NEW k
    PROVE  \E f : /\ IsSplitFails(f, k)
                  /\ \A l : SplitFails(l, k) = f[l]
<1> DEFINE At(f, m) == (m = Blank \/ (m # Nil /\ f[Link(m, Slot(m, k))]))
           good == {h \in Nat : \E f : f = [m \in TreesOf[h] |-> At(f, m)]}
<1>1. \A f, g : \A m \in {Nil, Blank} : At(f, m) = At(g, m)
  BY NodesAre
<1>2. ASSUME NEW h \in 0..MaxHeight, NEW m \in Nodes(TreesOf[h]), NEW f, NEW g,
             \A i \in DOMAIN m.links : f[m.links[i]] = g[m.links[i]]
      PROVE  At(f, m) = At(g, m)
  BY <1>2, SlotLink
<1> HIDE DEF At
<1>3. 0 \in good
  <2> DEFINE g == [m \in TreesOf[0] |-> At(0, m)]
  <2>1. g = [m \in TreesOf[0] |-> At(g, m)]
    BY <1>1, TreeFacts
  <2> HIDE DEF g
  <2> QED
    BY <2>1
<1>4. ASSUME NEW h \in 0..MaxHeight, h \in good PROVE h + 1 \in good
  <2>1. PICK f : f = [m \in TreesOf[h] |-> At(f, m)]
    BY <1>4
  <2> DEFINE g == [m \in TreesOf[h + 1] |-> At(f, m)]
  <2>2. ASSUME NEW c \in TreesOf[h] PROVE g[c] = f[c]
    <3>1. c \in TreesOf[h + 1]
      BY TreeFacts
    <3>2. g[c] = At(f, c)
      BY <3>1
    <3>3. f[c] = At(f, c)
      BY <2>1
    <3> QED
      BY <3>2, <3>3
  <2>3. ASSUME NEW m \in TreesOf[h + 1] PROVE g[m] = At(g, m)
    <3>0. g[m] = At(f, m)
      OBVIOUS
    <3> HIDE DEF g
    <3>1. CASE m \in {Nil, Blank}
      BY <1>1, <3>0, <3>1
    <3>2. CASE m \in Nodes(TreesOf[h])
      <4>1. \A i \in DOMAIN m.links : m.links[i] \in TreesOf[h]
        BY <3>2 DEF Nodes
      <4> QED
        BY <1>2, <2>2, <3>0, <3>2, <4>1
    <3> QED
      BY <3>1, <3>2, TreeFacts
  <2>4. g = [m \in TreesOf[h + 1] |-> g[m]]
    OBVIOUS
  <2> HIDE DEF g
  <2>5. g = [m \in TreesOf[h + 1] |-> At(g, m)]
    BY <2>3, <2>4
  <2> QED
    BY <2>5, Bounded
<1>5. PICK f : f = [m \in Tree |-> At(f, m)]
  <2> HIDE DEF good
  <2>1. MaxHeight + 1 \in good
    BY <1>3, <1>4, UpTo, Bounded
  <2> QED
    BY <2>1 DEF good, Tree
<1>6. f = [m \in Tree |-> m = Blank \/ (m # Nil /\ f[Link(m, Slot(m, k))])]
  BY <1>5 DEF At
<1> QED
  BY <1>6, Zenon DEF SplitFails, IsSplitFails

IsSplit(f, k) ==
    f = [m \in Tree |->
         IF m \in {Nil, Blank} THEN <<Nil, Nil>>
         ELSE << LinkTo(WithLink(Part(m, 0, Slot(m, k)), Slot(m, k), f[Link(m, Slot(m, k))][1])),
                 LinkTo(WithLink(Part(m, Slot(m, k), Len(m.keys)), 0, f[Link(m, Slot(m, k))][2])) >>]

LEMMA SplitIs ==
    ASSUME NEW k
    PROVE  \E f : /\ IsSplit(f, k)
                  /\ \A l : Split(l, k) = f[l]
<1> DEFINE At(f, m) == 
            IF m \in {Nil, Blank} THEN <<Nil, Nil>>
            ELSE << LinkTo(WithLink(Part(m, 0, Slot(m, k)), Slot(m, k), f[Link(m, Slot(m, k))][1])),
                    LinkTo(WithLink(Part(m, Slot(m, k), Len(m.keys)), 0, f[Link(m, Slot(m, k))][2])) >>
           good == {h \in Nat : \E f : f = [m \in TreesOf[h] |-> At(f, m)]}
<1>1. \A f, g : \A m \in {Nil, Blank} : At(f, m) = At(g, m)
  BY NodesAre
<1>2. ASSUME NEW h \in 0..MaxHeight, NEW m \in Nodes(TreesOf[h]), NEW f, NEW g,
             \A i \in DOMAIN m.links : f[m.links[i]] = g[m.links[i]]
      PROVE  At(f, m) = At(g, m)
  BY <1>2, SlotLink
<1> HIDE DEF At
<1>3. 0 \in good
  <2> DEFINE g == [m \in TreesOf[0] |-> At(0, m)]
  <2>1. g = [m \in TreesOf[0] |-> At(g, m)]
    BY <1>1, TreeFacts
  <2> HIDE DEF g
  <2> QED
    BY <2>1
<1>4. ASSUME NEW h \in 0..MaxHeight, h \in good PROVE h + 1 \in good
  <2>1. PICK f : f = [m \in TreesOf[h] |-> At(f, m)]
    BY <1>4
  <2> DEFINE g == [m \in TreesOf[h + 1] |-> At(f, m)]
  <2>2. ASSUME NEW c \in TreesOf[h] PROVE g[c] = f[c]
    <3>1. c \in TreesOf[h + 1]
      BY TreeFacts
    <3>2. g[c] = At(f, c)
      BY <3>1
    <3>3. f[c] = At(f, c)
      BY <2>1
    <3> QED
      BY <3>2, <3>3
  <2>3. ASSUME NEW m \in TreesOf[h + 1] PROVE g[m] = At(g, m)
    <3>0. g[m] = At(f, m)
      OBVIOUS
    <3> HIDE DEF g
    <3>1. CASE m \in {Nil, Blank}
      BY <1>1, <3>0, <3>1
    <3>2. CASE m \in Nodes(TreesOf[h])
      <4>1. \A i \in DOMAIN m.links : m.links[i] \in TreesOf[h]
        BY <3>2 DEF Nodes
      <4> QED
        BY <1>2, <2>2, <3>0, <3>2, <4>1
    <3> QED
      BY <3>1, <3>2, TreeFacts
  <2>4. g = [m \in TreesOf[h + 1] |-> g[m]]
    OBVIOUS
  <2> HIDE DEF g
  <2>5. g = [m \in TreesOf[h + 1] |-> At(g, m)]
    BY <2>3, <2>4
  <2> QED
    BY <2>5, Bounded
<1>5. PICK f : f = [m \in Tree |-> At(f, m)]
  <2> HIDE DEF good
  <2>1. MaxHeight + 1 \in good
    BY <1>3, <1>4, UpTo, Bounded
  <2> QED
    BY <2>1 DEF good, Tree
<1>6. f = [m \in Tree |->
            IF m \in {Nil, Blank} THEN <<Nil, Nil>>
            ELSE << LinkTo(WithLink(Part(m, 0, Slot(m, k)), Slot(m, k), f[Link(m, Slot(m, k))][1])),
                    LinkTo(WithLink(Part(m, Slot(m, k), Len(m.keys)), 0, f[Link(m, Slot(m, k))][2])) >>]
  BY <1>5 DEF At
<1> QED
  BY <1>6, Zenon DEF Split, IsSplit

IsMerge(f) ==
    f = [m \in Tree |->
         [b \in Tree |->
            IF m \in {Nil, Blank} THEN b
            ELSE IF b \in {Nil, Blank} THEN m
            ELSE [keys  |-> m.keys \o b.keys,
                  links |-> Front(m.links) \o <<f[Last(m.links)][Head(b.links)]>> \o Tail(b.links)]]]

LEMMA MergeIs ==
    \E f : /\ IsMerge(f)
           /\ \A l, r : MergeLinks(l, r) = f[l][r]
<1> DEFINE At(f, m) == 
            [b \in Tree |->
               IF m \in {Nil, Blank} THEN b
               ELSE IF b \in {Nil, Blank} THEN m
               ELSE [keys  |-> m.keys \o b.keys,
                     links |-> Front(m.links) \o <<f[Last(m.links)][Head(b.links)]>> \o Tail(b.links)]]
           good == {h \in Nat : \E f : f = [m \in TreesOf[h] |-> At(f, m)]}
<1>1. \A f, g : \A m \in {Nil, Blank} : At(f, m) = At(g, m)
  BY NodesAre
<1>2. ASSUME NEW h \in 0..MaxHeight, NEW m \in Nodes(TreesOf[h]), NEW f, NEW g,
             \A i \in DOMAIN m.links : f[m.links[i]] = g[m.links[i]]
      PROVE  At(f, m) = At(g, m)
  <2>1. Len(m.links) \in DOMAIN m.links /\ Last(m.links) = m.links[Len(m.links)]
    BY NodesAre DEF Last
  <2>2. f[Last(m.links)] = g[Last(m.links)]
    BY <1>2, <2>1
  <2> QED
    BY <2>2
<1> HIDE DEF At
<1>3. 0 \in good
  <2> DEFINE g == [m \in TreesOf[0] |-> At(0, m)]
  <2>1. g = [m \in TreesOf[0] |-> At(g, m)]
    BY <1>1, TreeFacts
  <2> HIDE DEF g
  <2> QED
    BY <2>1
<1>4. ASSUME NEW h \in 0..MaxHeight, h \in good PROVE h + 1 \in good
  <2>1. PICK f : f = [m \in TreesOf[h] |-> At(f, m)]
    BY <1>4
  <2> DEFINE g == [m \in TreesOf[h + 1] |-> At(f, m)]
  <2>2. ASSUME NEW c \in TreesOf[h] PROVE g[c] = f[c]
    <3>1. c \in TreesOf[h + 1]
      BY TreeFacts
    <3>2. g[c] = At(f, c)
      BY <3>1
    <3>3. f[c] = At(f, c)
      BY <2>1
    <3> QED
      BY <3>2, <3>3
  <2>3. ASSUME NEW m \in TreesOf[h + 1] PROVE g[m] = At(g, m)
    <3>0. g[m] = At(f, m)
      OBVIOUS
    <3> HIDE DEF g
    <3>1. CASE m \in {Nil, Blank}
      BY <1>1, <3>0, <3>1
    <3>2. CASE m \in Nodes(TreesOf[h])
      <4>1. \A i \in DOMAIN m.links : m.links[i] \in TreesOf[h]
        BY <3>2 DEF Nodes
      <4> QED
        BY <1>2, <2>2, <3>0, <3>2, <4>1
    <3> QED
      BY <3>1, <3>2, TreeFacts
  <2>4. g = [m \in TreesOf[h + 1] |-> g[m]]
    OBVIOUS
  <2> HIDE DEF g
  <2>5. g = [m \in TreesOf[h + 1] |-> At(g, m)]
    BY <2>3, <2>4
  <2> QED
    BY <2>5, Bounded
<1>5. PICK f : f = [m \in Tree |-> At(f, m)]
  <2> HIDE DEF good
  <2>1. MaxHeight + 1 \in good
    BY <1>3, <1>4, UpTo, Bounded
  <2> QED
    BY <2>1 DEF good, Tree
<1>6. f = [m \in Tree |->
            [b \in Tree |->
               IF m \in {Nil, Blank} THEN b
               ELSE IF b \in {Nil, Blank} THEN m
               ELSE [keys  |-> m.keys \o b.keys,
                     links |-> Front(m.links) \o <<f[Last(m.links)][Head(b.links)]>> \o Tail(b.links)]]]
  BY <1>5, Zenon DEF At
<1> QED
  BY <1>6, Zenon DEF MergeLinks, IsMerge

IsLoaded(f) ==
    f = [m \in Tree |->
         IF m \in {Nil, Blank} THEN Blank
         ELSE IF Childless(m) THEN m
         ELSE [m EXCEPT !.links = [i \in DOMAIN m.links |-> f[m.links[i]]]]]

LEMMA LoadedIs ==
    \E f : /\ IsLoaded(f)
           /\ \A n : Loaded(n) = f[n]
<1> DEFINE At(f, m) == 
            IF m \in {Nil, Blank} THEN Blank
            ELSE IF Childless(m) THEN m
            ELSE [m EXCEPT !.links = [i \in DOMAIN m.links |-> f[m.links[i]]]]
           good == {h \in Nat : \E f : f = [m \in TreesOf[h] |-> At(f, m)]}
<1>1. \A f, g : \A m \in {Nil, Blank} : At(f, m) = At(g, m)
  BY NodesAre
<1>2. ASSUME NEW h \in 0..MaxHeight, NEW m \in Nodes(TreesOf[h]), NEW f, NEW g,
             \A i \in DOMAIN m.links : f[m.links[i]] = g[m.links[i]]
      PROVE  At(f, m) = At(g, m)
  <2>1. [i \in DOMAIN m.links |-> f[m.links[i]]] = [i \in DOMAIN m.links |-> g[m.links[i]]]
    BY <1>2
  <2> QED
    BY <2>1
<1> HIDE DEF At
<1>3. 0 \in good
  <2> DEFINE g == [m \in TreesOf[0] |-> At(0, m)]
  <2>1. g = [m \in TreesOf[0] |-> At(g, m)]
    BY <1>1, TreeFacts
  <2> HIDE DEF g
  <2> QED
    BY <2>1
<1>4. ASSUME NEW h \in 0..MaxHeight, h \in good PROVE h + 1 \in good
  <2>1. PICK f : f = [m \in TreesOf[h] |-> At(f, m)]
    BY <1>4
  <2> DEFINE g == [m \in TreesOf[h + 1] |-> At(f, m)]
  <2>2. ASSUME NEW c \in TreesOf[h] PROVE g[c] = f[c]
    <3>1. c \in TreesOf[h + 1]
      BY TreeFacts
    <3>2. g[c] = At(f, c)
      BY <3>1
    <3>3. f[c] = At(f, c)
      BY <2>1
    <3> QED
      BY <3>2, <3>3
  <2>3. ASSUME NEW m \in TreesOf[h + 1] PROVE g[m] = At(g, m)
    <3>0. g[m] = At(f, m)
      OBVIOUS
    <3> HIDE DEF g
    <3>1. CASE m \in {Nil, Blank}
      BY <1>1, <3>0, <3>1
    <3>2. CASE m \in Nodes(TreesOf[h])
      <4>1. \A i \in DOMAIN m.links : m.links[i] \in TreesOf[h]
        BY <3>2 DEF Nodes
      <4> QED
        BY <1>2, <2>2, <3>0, <3>2, <4>1
    <3> QED
      BY <3>1, <3>2, TreeFacts
  <2>4. g = [m \in TreesOf[h + 1] |-> g[m]]
    OBVIOUS
  <2> HIDE DEF g
  <2>5. g = [m \in TreesOf[h + 1] |-> At(g, m)]
    BY <2>3, <2>4
  <2> QED
    BY <2>5, Bounded
<1>5. PICK f : f = [m \in Tree |-> At(f, m)]
  <2> HIDE DEF good
  <2>1. MaxHeight + 1 \in good
    BY <1>3, <1>4, UpTo, Bounded
  <2> QED
    BY <2>1 DEF good, Tree
<1>6. f = [m \in Tree |->
            IF m \in {Nil, Blank} THEN Blank
            ELSE IF Childless(m) THEN m
            ELSE [m EXCEPT !.links = [i \in DOMAIN m.links |-> f[m.links[i]]]]]
  BY <1>5 DEF At
<1> QED
  BY <1>6, Zenon DEF Loaded, IsLoaded

IsReadable(f) ==
    f = [m \in Tree |->
         m # Blank /\ (m # Nil => \A i \in DOMAIN m.links : f[m.links[i]])]

LEMMA ReadableIs ==
    \E f : /\ IsReadable(f)
           /\ \A n : Readable(n) = f[n]
<1> DEFINE At(f, m) == 
            m # Blank /\ (m # Nil => \A i \in DOMAIN m.links : f[m.links[i]])
           good == {h \in Nat : \E f : f = [m \in TreesOf[h] |-> At(f, m)]}
<1>1. \A f, g : \A m \in {Nil, Blank} : At(f, m) = At(g, m)
  BY NodesAre
<1>2. ASSUME NEW h \in 0..MaxHeight, NEW m \in Nodes(TreesOf[h]), NEW f, NEW g,
             \A i \in DOMAIN m.links : f[m.links[i]] = g[m.links[i]]
      PROVE  At(f, m) = At(g, m)
  BY <1>2, Zenon
<1> HIDE DEF At
<1>3. 0 \in good
  <2> DEFINE g == [m \in TreesOf[0] |-> At(0, m)]
  <2>1. g = [m \in TreesOf[0] |-> At(g, m)]
    BY <1>1, TreeFacts
  <2> HIDE DEF g
  <2> QED
    BY <2>1
<1>4. ASSUME NEW h \in 0..MaxHeight, h \in good PROVE h + 1 \in good
  <2>1. PICK f : f = [m \in TreesOf[h] |-> At(f, m)]
    BY <1>4
  <2> DEFINE g == [m \in TreesOf[h + 1] |-> At(f, m)]
  <2>2. ASSUME NEW c \in TreesOf[h] PROVE g[c] = f[c]
    <3>1. c \in TreesOf[h + 1]
      BY TreeFacts
    <3>2. g[c] = At(f, c)
      BY <3>1
    <3>3. f[c] = At(f, c)
      BY <2>1
    <3> QED
      BY <3>2, <3>3
  <2>3. ASSUME NEW m \in TreesOf[h + 1] PROVE g[m] = At(g, m)
    <3>0. g[m] = At(f, m)
      OBVIOUS
    <3> HIDE DEF g
    <3>1. CASE m \in {Nil, Blank}
      BY <1>1, <3>0, <3>1
    <3>2. CASE m \in Nodes(TreesOf[h])
      <4>1. \A i \in DOMAIN m.links : m.links[i] \in TreesOf[h]
        BY <3>2 DEF Nodes
      <4> QED
        BY <1>2, <2>2, <3>0, <3>2, <4>1
    <3> QED
      BY <3>1, <3>2, TreeFacts
  <2>4. g = [m \in TreesOf[h + 1] |-> g[m]]
    OBVIOUS
  <2> HIDE DEF g
  <2>5. g = [m \in TreesOf[h + 1] |-> At(g, m)]
    BY <2>3, <2>4
  <2> QED
    BY <2>5, Bounded
<1>5. PICK f : f = [m \in Tree |-> At(f, m)]
  <2> HIDE DEF good
  <2>1. MaxHeight + 1 \in good
    BY <1>3, <1>4, UpTo, Bounded
  <2> QED
    BY <2>1 DEF good, Tree
<1>6. f = [m \in Tree |->
            m # Blank /\ (m # Nil => \A i \in DOMAIN m.links : f[m.links[i]])]
  BY <1>5 DEF At
<1> QED
  BY <1>6, Zenon DEF Readable, IsReadable

IsCleared(f) ==
    f = [m \in Tree |->
         IF m \in {Nil, Blank} THEN Nil
         ELSE LinkTo([m EXCEPT !.links = [i \in DOMAIN m.links |-> f[m.links[i]]]])]

LEMMA ClearedIs ==
    \E f : /\ IsCleared(f)
           /\ \A n : Cleared(n) = f[n]
<1> DEFINE At(f, m) == 
            IF m \in {Nil, Blank} THEN Nil
            ELSE LinkTo([m EXCEPT !.links = [i \in DOMAIN m.links |-> f[m.links[i]]]])
           good == {h \in Nat : \E f : f = [m \in TreesOf[h] |-> At(f, m)]}
<1>1. \A f, g : \A m \in {Nil, Blank} : At(f, m) = At(g, m)
  BY NodesAre
<1>2. ASSUME NEW h \in 0..MaxHeight, NEW m \in Nodes(TreesOf[h]), NEW f, NEW g,
             \A i \in DOMAIN m.links : f[m.links[i]] = g[m.links[i]]
      PROVE  At(f, m) = At(g, m)
  <2>1. [i \in DOMAIN m.links |-> f[m.links[i]]] = [i \in DOMAIN m.links |-> g[m.links[i]]]
    BY <1>2
  <2> QED
    BY <2>1
<1> HIDE DEF At
<1>3. 0 \in good
  <2> DEFINE g == [m \in TreesOf[0] |-> At(0, m)]
  <2>1. g = [m \in TreesOf[0] |-> At(g, m)]
    BY <1>1, TreeFacts
  <2> HIDE DEF g
  <2> QED
    BY <2>1
<1>4. ASSUME NEW h \in 0..MaxHeight, h \in good PROVE h + 1 \in good
  <2>1. PICK f : f = [m \in TreesOf[h] |-> At(f, m)]
    BY <1>4
  <2> DEFINE g == [m \in TreesOf[h + 1] |-> At(f, m)]
  <2>2. ASSUME NEW c \in TreesOf[h] PROVE g[c] = f[c]
    <3>1. c \in TreesOf[h + 1]
      BY TreeFacts
    <3>2. g[c] = At(f, c)
      BY <3>1
    <3>3. f[c] = At(f, c)
      BY <2>1
    <3> QED
      BY <3>2, <3>3
  <2>3. ASSUME NEW m \in TreesOf[h + 1] PROVE g[m] = At(g, m)
    <3>0. g[m] = At(f, m)
      OBVIOUS
    <3> HIDE DEF g
    <3>1. CASE m \in {Nil, Blank}
      BY <1>1, <3>0, <3>1
    <3>2. CASE m \in Nodes(TreesOf[h])
      <4>1. \A i \in DOMAIN m.links : m.links[i] \in TreesOf[h]
        BY <3>2 DEF Nodes
      <4> QED
        BY <1>2, <2>2, <3>0, <3>2, <4>1
    <3> QED
      BY <3>1, <3>2, TreeFacts
  <2>4. g = [m \in TreesOf[h + 1] |-> g[m]]
    OBVIOUS
  <2> HIDE DEF g
  <2>5. g = [m \in TreesOf[h + 1] |-> At(g, m)]
    BY <2>3, <2>4
  <2> QED
    BY <2>5, Bounded
<1>5. PICK f : f = [m \in Tree |-> At(f, m)]
  <2> HIDE DEF good
  <2>1. MaxHeight + 1 \in good
    BY <1>3, <1>4, UpTo, Bounded
  <2> QED
    BY <2>1 DEF good, Tree
<1>6. f = [m \in Tree |->
            IF m \in {Nil, Blank} THEN Nil
            ELSE LinkTo([m EXCEPT !.links = [i \in DOMAIN m.links |-> f[m.links[i]]]])]
  BY <1>5 DEF At
<1> QED
  BY <1>6, Zenon DEF Cleared, IsCleared

IsDescend(f, k, d) ==
    f = [e \in 0..d |->
         [m \in Tree |->
            IF e = 0 THEN IF HasKey(m, Slot(m, k), k) THEN "found" ELSE "absent"
            ELSE IF HasKey(m, Slot(m, k), k) \/ Link(m, Slot(m, k)) = Nil THEN "absent"
            ELSE IF Link(m, Slot(m, k)) = Blank THEN "unreadable"
            ELSE f[e - 1][Link(m, Slot(m, k))]]]

LEMMA DescendIs ==
    ASSUME NEW k, NEW d \in Nat
    PROVE  \E f : /\ IsDescend(f, k, d)
                  /\ \A n : Descend(n, d, k) = f[d][n]
<1> DEFINE At(p, e) == 
            [m \in Tree |->
               IF e = 0 THEN IF HasKey(m, Slot(m, k), k) THEN "found" ELSE "absent"
               ELSE IF HasKey(m, Slot(m, k), k) \/ Link(m, Slot(m, k)) = Nil THEN "absent"
               ELSE IF Link(m, Slot(m, k)) = Blank THEN "unreadable"
               ELSE p[Link(m, Slot(m, k))]]
           good == {m \in Nat : \E f : f = [e \in 0..m |-> At(f[e - 1], e)]}
<1>1. \A p, q : At(p, 0) = At(q, 0)
  OBVIOUS
<1> HIDE DEF At
<1>2. 0 \in good
  <2> DEFINE g == [e \in 0..0 |-> At(0, e)]
  <2>1. g = [e \in 0..0 |-> At(g[e - 1], e)]
    BY <1>1
  <2> HIDE DEF g
  <2> QED
    BY <2>1
<1>3. ASSUME NEW m \in Nat, m \in good PROVE m + 1 \in good
  <2>1. PICK f : f = [e \in 0..m |-> At(f[e - 1], e)]
    BY <1>3
  <2> DEFINE g == [e \in 0..m + 1 |-> IF e = m + 1 THEN At(f[m], e) ELSE f[e]]
  <2>2. ASSUME NEW e \in 0..m + 1 PROVE g[e] = At(g[e - 1], e)
    <3>1. CASE e = 0
      <4>1. g[e] = f[e] /\ e \in 0..m
        BY <3>1
      <4>2. f[e] = At(f[e - 1], e)
        BY <2>1, <4>1
      <4> QED
        BY <1>1, <3>1, <4>1, <4>2
    <3>2. CASE e \in 1..m
      <4>1. g[e] = f[e] /\ e \in 0..m /\ g[e - 1] = f[e - 1]
        BY <3>2
      <4>2. f[e] = At(f[e - 1], e)
        BY <2>1, <4>1
      <4> QED
        BY <4>1, <4>2
    <3>3. CASE e = m + 1
      <4>1. g[e] = At(f[m], e) /\ g[e - 1] = f[m] /\ e - 1 = m
        BY <3>3
      <4> QED
        BY <4>1
    <3> QED
      BY <3>1, <3>2, <3>3
  <2>3. g = [e \in 0..m + 1 |-> g[e]]
    OBVIOUS
  <2> HIDE DEF g
  <2>4. g = [e \in 0..m + 1 |-> At(g[e - 1], e)]
    BY <2>2, <2>3
  <2> QED
    BY <2>4
<1>4. PICK f : f = [e \in 0..d |-> At(f[e - 1], e)]
  <2> HIDE DEF good
  <2>1. d \in good
    BY <1>2, <1>3, OverNat, Bounded
  <2> QED
    BY <2>1 DEF good
<1>5. f = [e \in 0..d |->
            [m \in Tree |->
               IF e = 0 THEN IF HasKey(m, Slot(m, k), k) THEN "found" ELSE "absent"
               ELSE IF HasKey(m, Slot(m, k), k) \/ Link(m, Slot(m, k)) = Nil THEN "absent"
               ELSE IF Link(m, Slot(m, k)) = Blank THEN "unreadable"
               ELSE f[e - 1][Link(m, Slot(m, k))]]]
  BY <1>4 DEF At
<1> QED
  BY <1>5, Zenon DEF Descend, IsDescend

IsPutFails(f, k, d) ==
    f = [e \in 0..d |->
         [m \in Tree |->
            IF e = 0 THEN ~HasKey(m, Slot(m, k), k) /\ SplitFails(Link(m, Slot(m, k)), k)
            ELSE \/ Link(m, Slot(m, k)) = Blank
                 \/ Link(m, Slot(m, k)) # Nil /\ f[e - 1][Link(m, Slot(m, k))]]]

LEMMA PutFailsIs ==
    ASSUME NEW k, NEW d \in Nat
    PROVE  \E f : /\ IsPutFails(f, k, d)
                  /\ \A n : PutFails(n, d, k) = f[d][n]
<1> DEFINE At(p, e) == 
            [m \in Tree |->
               IF e = 0 THEN ~HasKey(m, Slot(m, k), k) /\ SplitFails(Link(m, Slot(m, k)), k)
               ELSE \/ Link(m, Slot(m, k)) = Blank
                    \/ Link(m, Slot(m, k)) # Nil /\ p[Link(m, Slot(m, k))]]
           good == {m \in Nat : \E f : f = [e \in 0..m |-> At(f[e - 1], e)]}
<1>1. \A p, q : At(p, 0) = At(q, 0)
  OBVIOUS
<1> HIDE DEF At
<1>2. 0 \in good
  <2> DEFINE g == [e \in 0..0 |-> At(0, e)]
  <2>1. g = [e \in 0..0 |-> At(g[e - 1], e)]
    BY <1>1
  <2> HIDE DEF g
  <2> QED
    BY <2>1
<1>3. ASSUME NEW m \in Nat, m \in good PROVE m + 1 \in good
  <2>1. PICK f : f = [e \in 0..m |-> At(f[e - 1], e)]
    BY <1>3
  <2> DEFINE g == [e \in 0..m + 1 |-> IF e = m + 1 THEN At(f[m], e) ELSE f[e]]
  <2>2. ASSUME NEW e \in 0..m + 1 PROVE g[e] = At(g[e - 1], e)
    <3>1. CASE e = 0
      <4>1. g[e] = f[e] /\ e \in 0..m
        BY <3>1
      <4>2. f[e] = At(f[e - 1], e)
        BY <2>1, <4>1
      <4> QED
        BY <1>1, <3>1, <4>1, <4>2
    <3>2. CASE e \in 1..m
      <4>1. g[e] = f[e] /\ e \in 0..m /\ g[e - 1] = f[e - 1]
        BY <3>2
      <4>2. f[e] = At(f[e - 1], e)
        BY <2>1, <4>1
      <4> QED
        BY <4>1, <4>2
    <3>3. CASE e = m + 1
      <4>1. g[e] = At(f[m], e) /\ g[e - 1] = f[m] /\ e - 1 = m
        BY <3>3
      <4> QED
        BY <4>1
    <3> QED
      BY <3>1, <3>2, <3>3
  <2>3. g = [e \in 0..m + 1 |-> g[e]]
    OBVIOUS
  <2> HIDE DEF g
  <2>4. g = [e \in 0..m + 1 |-> At(g[e - 1], e)]
    BY <2>2, <2>3
  <2> QED
    BY <2>4
<1>4. PICK f : f = [e \in 0..d |-> At(f[e - 1], e)]
  <2> HIDE DEF good
  <2>1. d \in good
    BY <1>2, <1>3, OverNat, Bounded
  <2> QED
    BY <2>1 DEF good
<1>5. f = [e \in 0..d |->
            [m \in Tree |->
               IF e = 0 THEN ~HasKey(m, Slot(m, k), k) /\ SplitFails(Link(m, Slot(m, k)), k)
               ELSE \/ Link(m, Slot(m, k)) = Blank
                    \/ Link(m, Slot(m, k)) # Nil /\ f[e - 1][Link(m, Slot(m, k))]]]
  BY <1>4 DEF At
<1> QED
  BY <1>5, Zenon DEF PutFails, IsPutFails

IsPutBelow(f, k, d) ==
    f = [e \in 0..d |->
         [m \in Tree |->
            IF e = 0 THEN PutInto(m, k)
            ELSE WithLink(m, Slot(m, k),
                          f[e - 1][IF Link(m, Slot(m, k)) = Nil THEN EmptyNode
                             ELSE Link(m, Slot(m, k))])]]

LEMMA PutBelowIs ==
    ASSUME NEW k, NEW d \in Nat
    PROVE  \E f : /\ IsPutBelow(f, k, d)
                  /\ \A n : PutBelow(n, d, k) = f[d][n]
<1> DEFINE At(p, e) == 
            [m \in Tree |->
               IF e = 0 THEN PutInto(m, k)
               ELSE WithLink(m, Slot(m, k),
                             p[IF Link(m, Slot(m, k)) = Nil THEN EmptyNode
                                ELSE Link(m, Slot(m, k))])]
           good == {m \in Nat : \E f : f = [e \in 0..m |-> At(f[e - 1], e)]}
<1>1. \A p, q : At(p, 0) = At(q, 0)
  OBVIOUS
<1> HIDE DEF At
<1>2. 0 \in good
  <2> DEFINE g == [e \in 0..0 |-> At(0, e)]
  <2>1. g = [e \in 0..0 |-> At(g[e - 1], e)]
    BY <1>1
  <2> HIDE DEF g
  <2> QED
    BY <2>1
<1>3. ASSUME NEW m \in Nat, m \in good PROVE m + 1 \in good
  <2>1. PICK f : f = [e \in 0..m |-> At(f[e - 1], e)]
    BY <1>3
  <2> DEFINE g == [e \in 0..m + 1 |-> IF e = m + 1 THEN At(f[m], e) ELSE f[e]]
  <2>2. ASSUME NEW e \in 0..m + 1 PROVE g[e] = At(g[e - 1], e)
    <3>1. CASE e = 0
      <4>1. g[e] = f[e] /\ e \in 0..m
        BY <3>1
      <4>2. f[e] = At(f[e - 1], e)
        BY <2>1, <4>1
      <4> QED
        BY <1>1, <3>1, <4>1, <4>2
    <3>2. CASE e \in 1..m
      <4>1. g[e] = f[e] /\ e \in 0..m /\ g[e - 1] = f[e - 1]
        BY <3>2
      <4>2. f[e] = At(f[e - 1], e)
        BY <2>1, <4>1
      <4> QED
        BY <4>1, <4>2
    <3>3. CASE e = m + 1
      <4>1. g[e] = At(f[m], e) /\ g[e - 1] = f[m] /\ e - 1 = m
        BY <3>3
      <4> QED
        BY <4>1
    <3> QED
      BY <3>1, <3>2, <3>3
  <2>3. g = [e \in 0..m + 1 |-> g[e]]
    OBVIOUS
  <2> HIDE DEF g
  <2>4. g = [e \in 0..m + 1 |-> At(g[e - 1], e)]
    BY <2>2, <2>3
  <2> QED
    BY <2>4
<1>4. PICK f : f = [e \in 0..d |-> At(f[e - 1], e)]
  <2> HIDE DEF good
  <2>1. d \in good
    BY <1>2, <1>3, OverNat, Bounded
  <2> QED
    BY <2>1 DEF good
<1>5. f = [e \in 0..d |->
            [m \in Tree |->
               IF e = 0 THEN PutInto(m, k)
               ELSE WithLink(m, Slot(m, k),
                             f[e - 1][IF Link(m, Slot(m, k)) = Nil THEN EmptyNode
                                ELSE Link(m, Slot(m, k))])]]
  BY <1>4 DEF At
<1> QED
  BY <1>5, Zenon DEF PutBelow, IsPutBelow

IsCutBelow(f, k, d) ==
    f = [e \in 0..d |->
         [m \in Tree |->
            IF e = 0 THEN CutFrom(m, k)
            ELSE WithLink(m, Slot(m, k), LinkTo(f[e - 1][Link(m, Slot(m, k))]))]]

LEMMA CutBelowIs ==
    ASSUME NEW k, NEW d \in Nat
    PROVE  \E f : /\ IsCutBelow(f, k, d)
                  /\ \A n : CutBelow(n, d, k) = f[d][n]
<1> DEFINE At(p, e) == 
            [m \in Tree |->
               IF e = 0 THEN CutFrom(m, k)
               ELSE WithLink(m, Slot(m, k), LinkTo(p[Link(m, Slot(m, k))]))]
           good == {m \in Nat : \E f : f = [e \in 0..m |-> At(f[e - 1], e)]}
<1>1. \A p, q : At(p, 0) = At(q, 0)
  OBVIOUS
<1> HIDE DEF At
<1>2. 0 \in good
  <2> DEFINE g == [e \in 0..0 |-> At(0, e)]
  <2>1. g = [e \in 0..0 |-> At(g[e - 1], e)]
    BY <1>1
  <2> HIDE DEF g
  <2> QED
    BY <2>1
<1>3. ASSUME NEW m \in Nat, m \in good PROVE m + 1 \in good
  <2>1. PICK f : f = [e \in 0..m |-> At(f[e - 1], e)]
    BY <1>3
  <2> DEFINE g == [e \in 0..m + 1 |-> IF e = m + 1 THEN At(f[m], e) ELSE f[e]]
  <2>2. ASSUME NEW e \in 0..m + 1 PROVE g[e] = At(g[e - 1], e)
    <3>1. CASE e = 0
      <4>1. g[e] = f[e] /\ e \in 0..m
        BY <3>1
      <4>2. f[e] = At(f[e - 1], e)
        BY <2>1, <4>1
      <4> QED
        BY <1>1, <3>1, <4>1, <4>2
    <3>2. CASE e \in 1..m
      <4>1. g[e] = f[e] /\ e \in 0..m /\ g[e - 1] = f[e - 1]
        BY <3>2
      <4>2. f[e] = At(f[e - 1], e)
        BY <2>1, <4>1
      <4> QED
        BY <4>1, <4>2
    <3>3. CASE e = m + 1
      <4>1. g[e] = At(f[m], e) /\ g[e - 1] = f[m] /\ e - 1 = m
        BY <3>3
      <4> QED
        BY <4>1
    <3> QED
      BY <3>1, <3>2, <3>3
  <2>3. g = [e \in 0..m + 1 |-> g[e]]
    OBVIOUS
  <2> HIDE DEF g
  <2>4. g = [e \in 0..m + 1 |-> At(g[e - 1], e)]
    BY <2>2, <2>3
  <2> QED
    BY <2>4
<1>4. PICK f : f = [e \in 0..d |-> At(f[e - 1], e)]
  <2> HIDE DEF good
  <2>1. d \in good
    BY <1>2, <1>3, OverNat, Bounded
  <2> QED
    BY <2>1 DEF good
<1>5. f = [e \in 0..d |->
            [m \in Tree |->
               IF e = 0 THEN CutFrom(m, k)
               ELSE WithLink(m, Slot(m, k), LinkTo(f[e - 1][Link(m, Slot(m, k))]))]]
  BY <1>4 DEF At
<1> QED
  BY <1>5, Zenon DEF CutBelow, IsCutBelow

IsPower(f, h) ==
    f = [i \in 0..h |->
         IF i = 0 THEN 1 ELSE BranchFactor * f[i - 1]]

LEMMA PowerIs ==
    ASSUME NEW h \in Nat
    PROVE  \E f : /\ IsPower(f, h)
                  /\ PowerOf(h) = f[h]
<1> DEFINE At(p, i) == 
            IF i = 0 THEN 1 ELSE BranchFactor * p
           good == {m \in Nat : \E f : f = [i \in 0..m |-> At(f[i - 1], i)]}
<1>1. \A p, q : At(p, 0) = At(q, 0)
  OBVIOUS
<1> HIDE DEF At
<1>2. 0 \in good
  <2> DEFINE g == [i \in 0..0 |-> At(0, i)]
  <2>1. g = [i \in 0..0 |-> At(g[i - 1], i)]
    BY <1>1
  <2> HIDE DEF g
  <2> QED
    BY <2>1
<1>3. ASSUME NEW m \in Nat, m \in good PROVE m + 1 \in good
  <2>1. PICK f : f = [i \in 0..m |-> At(f[i - 1], i)]
    BY <1>3
  <2> DEFINE g == [i \in 0..m + 1 |-> IF i = m + 1 THEN At(f[m], i) ELSE f[i]]
  <2>2. ASSUME NEW i \in 0..m + 1 PROVE g[i] = At(g[i - 1], i)
    <3>1. CASE i = 0
      <4>1. g[i] = f[i] /\ i \in 0..m
        BY <3>1
      <4>2. f[i] = At(f[i - 1], i)
        BY <2>1, <4>1
      <4> QED
        BY <1>1, <3>1, <4>1, <4>2
    <3>2. CASE i \in 1..m
      <4>1. g[i] = f[i] /\ i \in 0..m /\ g[i - 1] = f[i - 1]
        BY <3>2
      <4>2. f[i] = At(f[i - 1], i)
        BY <2>1, <4>1
      <4> QED
        BY <4>1, <4>2
    <3>3. CASE i = m + 1
      <4>1. g[i] = At(f[m], i) /\ g[i - 1] = f[m] /\ i - 1 = m
        BY <3>3
      <4> QED
        BY <4>1
    <3> QED
      BY <3>1, <3>2, <3>3
  <2>3. g = [i \in 0..m + 1 |-> g[i]]
    OBVIOUS
  <2> HIDE DEF g
  <2>4. g = [i \in 0..m + 1 |-> At(g[i - 1], i)]
    BY <2>2, <2>3
  <2> QED
    BY <2>4
<1>4. PICK f : f = [i \in 0..h |-> At(f[i - 1], i)]
  <2> HIDE DEF good
  <2>1. h \in good
    BY <1>2, <1>3, OverNat, Bounded
  <2> QED
    BY <2>1 DEF good
<1>5. f = [i \in 0..h |->
            IF i = 0 THEN 1 ELSE BranchFactor * f[i - 1]]
  BY <1>4 DEF At
<1> QED
  BY <1>5, Zenon DEF PowerOf, IsPower

IsGrown(f, t) ==
    f = [i \in 0..(MaxHeight - t.height) |->
         IF i = 0 THEN t
         ELSE IF f[i - 1].size >= PowerOf(f[i - 1].height + 1) /\ Promoted(f[i - 1]) # {} THEN Grow(f[i - 1]) ELSE f[i - 1]]

LEMMA GrownIs ==
    ASSUME NEW t, MaxHeight - t.height \in Nat
    PROVE  \E f : /\ IsGrown(f, t)
                  /\ Grown(t) = f[MaxHeight - t.height]
<1> DEFINE At(p, i) == 
            IF i = 0 THEN t
            ELSE IF p.size >= PowerOf(p.height + 1) /\ Promoted(p) # {} THEN Grow(p) ELSE p
           good == {m \in Nat : \E f : f = [i \in 0..m |-> At(f[i - 1], i)]}
<1>1. \A p, q : At(p, 0) = At(q, 0)
  OBVIOUS
<1> HIDE DEF At
<1>2. 0 \in good
  <2> DEFINE g == [i \in 0..0 |-> At(0, i)]
  <2>1. g = [i \in 0..0 |-> At(g[i - 1], i)]
    BY <1>1
  <2> HIDE DEF g
  <2> QED
    BY <2>1
<1>3. ASSUME NEW m \in Nat, m \in good PROVE m + 1 \in good
  <2>1. PICK f : f = [i \in 0..m |-> At(f[i - 1], i)]
    BY <1>3
  <2> DEFINE g == [i \in 0..m + 1 |-> IF i = m + 1 THEN At(f[m], i) ELSE f[i]]
  <2>2. ASSUME NEW i \in 0..m + 1 PROVE g[i] = At(g[i - 1], i)
    <3>1. CASE i = 0
      <4>1. g[i] = f[i] /\ i \in 0..m
        BY <3>1
      <4>2. f[i] = At(f[i - 1], i)
        BY <2>1, <4>1
      <4> QED
        BY <1>1, <3>1, <4>1, <4>2
    <3>2. CASE i \in 1..m
      <4>1. g[i] = f[i] /\ i \in 0..m /\ g[i - 1] = f[i - 1]
        BY <3>2
      <4>2. f[i] = At(f[i - 1], i)
        BY <2>1, <4>1
      <4> QED
        BY <4>1, <4>2
    <3>3. CASE i = m + 1
      <4>1. g[i] = At(f[m], i) /\ g[i - 1] = f[m] /\ i - 1 = m
        BY <3>3
      <4> QED
        BY <4>1
    <3> QED
      BY <3>1, <3>2, <3>3
  <2>3. g = [i \in 0..m + 1 |-> g[i]]
    OBVIOUS
  <2> HIDE DEF g
  <2>4. g = [i \in 0..m + 1 |-> At(g[i - 1], i)]
    BY <2>2, <2>3
  <2> QED
    BY <2>4
<1>4. PICK f : f = [i \in 0..(MaxHeight - t.height) |-> At(f[i - 1], i)]
  <2> HIDE DEF good
  <2>1. (MaxHeight - t.height) \in good
    BY <1>2, <1>3, OverNat, Bounded
  <2> QED
    BY <2>1 DEF good
<1>5. f = [i \in 0..(MaxHeight - t.height) |->
            IF i = 0 THEN t
            ELSE IF f[i - 1].size >= PowerOf(f[i - 1].height + 1) /\ Promoted(f[i - 1]) # {} THEN Grow(f[i - 1]) ELSE f[i - 1]]
  BY <1>4 DEF At
<1> QED
  BY <1>5, Zenon DEF Grown, IsGrown

IsShrunk(f, t) ==
    f = [i \in 0..t.height |->
         IF i = 0 THEN t
         ELSE IF f[i - 1].height > 0 /\ f[i - 1].size < PowerOf(f[i - 1].height) THEN Shrink(f[i - 1]) ELSE f[i - 1]]

LEMMA ShrunkIs ==
    ASSUME NEW t, t.height \in Nat
    PROVE  \E f : /\ IsShrunk(f, t)
                  /\ Shrunk(t) = f[t.height]
<1> DEFINE At(p, i) == 
            IF i = 0 THEN t
            ELSE IF p.height > 0 /\ p.size < PowerOf(p.height) THEN Shrink(p) ELSE p
           good == {m \in Nat : \E f : f = [i \in 0..m |-> At(f[i - 1], i)]}
<1>1. \A p, q : At(p, 0) = At(q, 0)
  OBVIOUS
<1> HIDE DEF At
<1>2. 0 \in good
  <2> DEFINE g == [i \in 0..0 |-> At(0, i)]
  <2>1. g = [i \in 0..0 |-> At(g[i - 1], i)]
    BY <1>1
  <2> HIDE DEF g
  <2> QED
    BY <2>1
<1>3. ASSUME NEW m \in Nat, m \in good PROVE m + 1 \in good
  <2>1. PICK f : f = [i \in 0..m |-> At(f[i - 1], i)]
    BY <1>3
  <2> DEFINE g == [i \in 0..m + 1 |-> IF i = m + 1 THEN At(f[m], i) ELSE f[i]]
  <2>2. ASSUME NEW i \in 0..m + 1 PROVE g[i] = At(g[i - 1], i)
    <3>1. CASE i = 0
      <4>1. g[i] = f[i] /\ i \in 0..m
        BY <3>1
      <4>2. f[i] = At(f[i - 1], i)
        BY <2>1, <4>1
      <4> QED
        BY <1>1, <3>1, <4>1, <4>2
    <3>2. CASE i \in 1..m
      <4>1. g[i] = f[i] /\ i \in 0..m /\ g[i - 1] = f[i - 1]
        BY <3>2
      <4>2. f[i] = At(f[i - 1], i)
        BY <2>1, <4>1
      <4> QED
        BY <4>1, <4>2
    <3>3. CASE i = m + 1
      <4>1. g[i] = At(f[m], i) /\ g[i - 1] = f[m] /\ i - 1 = m
        BY <3>3
      <4> QED
        BY <4>1
    <3> QED
      BY <3>1, <3>2, <3>3
  <2>3. g = [i \in 0..m + 1 |-> g[i]]
    OBVIOUS
  <2> HIDE DEF g
  <2>4. g = [i \in 0..m + 1 |-> At(g[i - 1], i)]
    BY <2>2, <2>3
  <2> QED
    BY <2>4
<1>4. PICK f : f = [i \in 0..t.height |-> At(f[i - 1], i)]
  <2> HIDE DEF good
  <2>1. t.height \in good
    BY <1>2, <1>3, OverNat, Bounded
  <2> QED
    BY <2>1 DEF good
<1>5. f = [i \in 0..t.height |->
            IF i = 0 THEN t
            ELSE IF f[i - 1].height > 0 /\ f[i - 1].size < PowerOf(f[i - 1].height) THEN Shrink(f[i - 1]) ELSE f[i - 1]]
  BY <1>4 DEF At
<1> QED
  BY <1>5, Zenon DEF Shrunk, IsShrunk

IsDeleteAll(f, t, s) ==
    f = [i \in 0..Len(s) |->
         IF i = 0 THEN t ELSE DeleteKey(f[i - 1], s[i])]

LEMMA DeleteAllIs ==
    ASSUME NEW t, NEW s, Len(s) \in Nat
    PROVE  \E f : /\ IsDeleteAll(f, t, s)
                  /\ DeleteAll(t, s) = f[Len(s)]
<1> DEFINE At(p, i) == 
            IF i = 0 THEN t ELSE DeleteKey(p, s[i])
           good == {m \in Nat : \E f : f = [i \in 0..m |-> At(f[i - 1], i)]}
<1>1. \A p, q : At(p, 0) = At(q, 0)
  OBVIOUS
<1> HIDE DEF At
<1>2. 0 \in good
  <2> DEFINE g == [i \in 0..0 |-> At(0, i)]
  <2>1. g = [i \in 0..0 |-> At(g[i - 1], i)]
    BY <1>1
  <2> HIDE DEF g
  <2> QED
    BY <2>1
<1>3. ASSUME NEW m \in Nat, m \in good PROVE m + 1 \in good
  <2>1. PICK f : f = [i \in 0..m |-> At(f[i - 1], i)]
    BY <1>3
  <2> DEFINE g == [i \in 0..m + 1 |-> IF i = m + 1 THEN At(f[m], i) ELSE f[i]]
  <2>2. ASSUME NEW i \in 0..m + 1 PROVE g[i] = At(g[i - 1], i)
    <3>1. CASE i = 0
      <4>1. g[i] = f[i] /\ i \in 0..m
        BY <3>1
      <4>2. f[i] = At(f[i - 1], i)
        BY <2>1, <4>1
      <4> QED
        BY <1>1, <3>1, <4>1, <4>2
    <3>2. CASE i \in 1..m
      <4>1. g[i] = f[i] /\ i \in 0..m /\ g[i - 1] = f[i - 1]
        BY <3>2
      <4>2. f[i] = At(f[i - 1], i)
        BY <2>1, <4>1
      <4> QED
        BY <4>1, <4>2
    <3>3. CASE i = m + 1
      <4>1. g[i] = At(f[m], i) /\ g[i - 1] = f[m] /\ i - 1 = m
        BY <3>3
      <4> QED
        BY <4>1
    <3> QED
      BY <3>1, <3>2, <3>3
  <2>3. g = [i \in 0..m + 1 |-> g[i]]
    OBVIOUS
  <2> HIDE DEF g
  <2>4. g = [i \in 0..m + 1 |-> At(g[i - 1], i)]
    BY <2>2, <2>3
  <2> QED
    BY <2>4
<1>4. PICK f : f = [i \in 0..Len(s) |-> At(f[i - 1], i)]
  <2> HIDE DEF good
  <2>1. Len(s) \in good
    BY <1>2, <1>3, OverNat, Bounded
  <2> QED
    BY <2>1 DEF good
<1>5. f = [i \in 0..Len(s) |->
            IF i = 0 THEN t ELSE DeleteKey(f[i - 1], s[i])]
  BY <1>4 DEF At
<1> QED
  BY <1>5, Zenon DEF DeleteAll, IsDeleteAll

-----------------------------------------------------------------------------
(* Trees that hold a set of keys. *)

(* A node of height h with the keys K below it, whose links and the keys below *)
(* them are in `sub`.                                                          *)
NodeFits(n, K, layer, h, sub) ==
    /\ n \in Nodes(TreesOf[h]) /\ n.keys \in Seq(Key)
    /\ Sorted(n.keys)
    /\ Holds(n.keys, {k \in K : layer[k] >= h})
    /\ \A j \in 1..Len(n.keys) + 1 : <<n.links[j], Between(K, n.keys, j)>> \in sub

(* Links to trees of less than a height, and their keys; links in B are to none. *)
Fits(layer, B) ==
    LET fits[h \in 0..MaxHeight + 1] ==
            {p \in TreesOf[h] \X SUBSET Key :
               \/ p[1] \in B /\ p[2] = {}
               \/ h > 0 /\ p[1] # EmptyNode /\ NodeFits(p[1], p[2], layer, h - 1, fits[h - 1])}
    IN  fits

LinkOf(l, K, layer, h, B) == <<l, K>> \in Fits(layer, B)[h]

NodeOf(n, K, layer, h, B) == K \subseteq Key /\ NodeFits(n, K, layer, h, Fits(layer, B)[h])

LEMMA FitsIs ==
    ASSUME NEW layer, NEW B
    PROVE  Fits(layer, B) =
             [h \in 0..MaxHeight + 1 |->
                {p \in TreesOf[h] \X SUBSET Key :
                   \/ p[1] \in B /\ p[2] = {}
                   \/ h > 0 /\ p[1] # EmptyNode /\ NodeFits(p[1], p[2], layer, h - 1, Fits(layer, B)[h - 1])}]
<1> DEFINE At(p, h) == 
            {q \in TreesOf[h] \X SUBSET Key :
               \/ q[1] \in B /\ q[2] = {}
               \/ h > 0 /\ q[1] # EmptyNode /\ NodeFits(q[1], q[2], layer, h - 1, p)}
           good == {m \in Nat : \E f : f = [h \in 0..m |-> At(f[h - 1], h)]}
<1>1. \A p, q : At(p, 0) = At(q, 0)
  <2>1. ~(0 > 0)
    OBVIOUS
  <2> QED
    BY <2>1, Zenon
<1> HIDE DEF At
<1>2. 0 \in good
  <2> DEFINE g == [h \in 0..0 |-> At(0, h)]
  <2>1. g = [h \in 0..0 |-> At(g[h - 1], h)]
    BY <1>1
  <2> HIDE DEF g
  <2> QED
    BY <2>1
<1>3. ASSUME NEW m \in Nat, m \in good PROVE m + 1 \in good
  <2>1. PICK f : f = [h \in 0..m |-> At(f[h - 1], h)]
    BY <1>3
  <2> DEFINE g == [h \in 0..m + 1 |-> IF h = m + 1 THEN At(f[m], h) ELSE f[h]]
  <2>2. ASSUME NEW h \in 0..m + 1 PROVE g[h] = At(g[h - 1], h)
    <3>1. CASE h = 0
      <4>1. g[h] = f[h] /\ h \in 0..m
        BY <3>1
      <4>2. f[h] = At(f[h - 1], h)
        BY <2>1, <4>1
      <4> QED
        BY <1>1, <3>1, <4>1, <4>2
    <3>2. CASE h \in 1..m
      <4>1. g[h] = f[h] /\ h \in 0..m /\ g[h - 1] = f[h - 1]
        BY <3>2
      <4>2. f[h] = At(f[h - 1], h)
        BY <2>1, <4>1
      <4> QED
        BY <4>1, <4>2
    <3>3. CASE h = m + 1
      <4>1. g[h] = At(f[m], h) /\ g[h - 1] = f[m] /\ h - 1 = m
        BY <3>3
      <4> QED
        BY <4>1
    <3> QED
      BY <3>1, <3>2, <3>3
  <2>3. g = [h \in 0..m + 1 |-> g[h]]
    OBVIOUS
  <2> HIDE DEF g
  <2>4. g = [h \in 0..m + 1 |-> At(g[h - 1], h)]
    BY <2>2, <2>3
  <2> QED
    BY <2>4
<1>4. PICK f : f = [h \in 0..MaxHeight + 1 |-> At(f[h - 1], h)]
  <2> HIDE DEF good
  <2>1. MaxHeight + 1 \in good
    BY <1>2, <1>3, OverNat, Bounded
  <2> QED
    BY <2>1 DEF good
<1>5. f = [h \in 0..MaxHeight + 1 |->
            {p \in TreesOf[h] \X SUBSET Key :
               \/ p[1] \in B /\ p[2] = {}
               \/ h > 0 /\ p[1] # EmptyNode /\ NodeFits(p[1], p[2], layer, h - 1, f[h - 1])}]
  BY <1>4 DEF At
<1> QED
  BY <1>5, Zenon DEF Fits

LEMMA FitsAt ==
    ASSUME NEW layer, NEW B, NEW h \in 0..MaxHeight + 1, NEW l, NEW K
    PROVE  LinkOf(l, K, layer, h, B) <=>
             /\ l \in TreesOf[h] /\ K \in SUBSET Key
             /\ \/ l \in B /\ K = {}
                \/ h > 0 /\ l # EmptyNode /\ NodeFits(l, K, layer, h - 1, Fits(layer, B)[h - 1])
<1> DEFINE W(p) == \/ p[1] \in B /\ p[2] = {}
                   \/ h > 0 /\ p[1] # EmptyNode /\ NodeFits(p[1], p[2], layer, h - 1, Fits(layer, B)[h - 1])
<1>1. Fits(layer, B)[h] = {p \in TreesOf[h] \X SUBSET Key : W(p)}
  <2>1. ASSUME NEW F, NEW G,
               F = [g \in 0..MaxHeight + 1 |->
                      {p \in TreesOf[g] \X SUBSET Key :
                         \/ p[1] \in B /\ p[2] = {}
                         \/ g > 0 /\ p[1] # EmptyNode /\ NodeFits(p[1], p[2], layer, g - 1, G[g - 1])}]
        PROVE  F[h] = {p \in TreesOf[h] \X SUBSET Key :
                         \/ p[1] \in B /\ p[2] = {}
                         \/ h > 0 /\ p[1] # EmptyNode /\ NodeFits(p[1], p[2], layer, h - 1, G[h - 1])}
    BY <2>1, Zenon
  <2>2. Fits(layer, B) =
          [g \in 0..MaxHeight + 1 |->
             {p \in TreesOf[g] \X SUBSET Key :
                \/ p[1] \in B /\ p[2] = {}
                \/ g > 0 /\ p[1] # EmptyNode /\ NodeFits(p[1], p[2], layer, g - 1, Fits(layer, B)[g - 1])}]
    BY FitsIs
  <2> QED
    BY <2>1, <2>2, Zenon
<1>2. W(<<l, K>>) <=> \/ l \in B /\ K = {}
                      \/ h > 0 /\ l # EmptyNode /\ NodeFits(l, K, layer, h - 1, Fits(layer, B)[h - 1])
  <2>1. <<l, K>>[1] = l /\ <<l, K>>[2] = K
    OBVIOUS
  <2> QED
    BY <2>1, Zenon
<1>3. <<l, K>> \in TreesOf[h] \X SUBSET Key <=> l \in TreesOf[h] /\ K \in SUBSET Key
  OBVIOUS
<1> HIDE DEF W
<1>4. <<l, K>> \in Fits(layer, B)[h] <=> <<l, K>> \in TreesOf[h] \X SUBSET Key /\ W(<<l, K>>)
  BY <1>1
<1> QED
  BY <1>2, <1>3, <1>4, Zenon DEF LinkOf

LEMMA LinkIs ==
    ASSUME NEW layer, NEW B, B \subseteq {Nil, Blank}, NEW l, NEW K
    PROVE  /\ LinkOf(l, K, layer, 0, B) <=> l \in B /\ K = {}
           /\ \A h \in 0..MaxHeight :
                 LinkOf(l, K, layer, h + 1, B) <=> \/ l \in B /\ K = {}
                                                   \/ l # EmptyNode /\ NodeOf(l, K, layer, h, B)
<1>1. LinkOf(l, K, layer, 0, B) <=> l \in B /\ K = {}
  <2>1. 0 \in 0..MaxHeight + 1 /\ ~(0 > 0)
    BY Bounded
  <2>2. LinkOf(l, K, layer, 0, B) <=> /\ l \in TreesOf[0] /\ K \in SUBSET Key
                                      /\ l \in B /\ K = {}
    BY <2>1, FitsAt
  <2> QED
    BY <2>2, TreeFacts
<1>2. ASSUME NEW h \in 0..MaxHeight
      PROVE  LinkOf(l, K, layer, h + 1, B) <=> \/ l \in B /\ K = {}
                                               \/ l # EmptyNode /\ NodeOf(l, K, layer, h, B)
  <2>1. h + 1 \in 0..MaxHeight + 1 /\ h + 1 > 0 /\ (h + 1) - 1 = h
    BY Bounded
  <2>2. LinkOf(l, K, layer, h + 1, B) <=>
             /\ l \in TreesOf[h + 1] /\ K \in SUBSET Key
             /\ \/ l \in B /\ K = {}
                \/ l # EmptyNode /\ NodeFits(l, K, layer, h, Fits(layer, B)[h])
    <3> DEFINE g == h + 1
    <3>1. g \in 0..MaxHeight + 1 /\ g > 0 /\ g - 1 = h
      BY <2>1
    <3> HIDE DEF g
    <3>2. LinkOf(l, K, layer, g, B) <=>
             /\ l \in TreesOf[g] /\ K \in SUBSET Key
             /\ \/ l \in B /\ K = {}
                \/ l # EmptyNode /\ NodeFits(l, K, layer, h, Fits(layer, B)[h])
      BY <3>1, FitsAt, Zenon
    <3> QED
      BY <3>2 DEF g
  <2>3. TreesOf[h + 1] = {Nil, Blank} \union Nodes(TreesOf[h])
    BY TreeFacts
  <2>4. NodeOf(l, K, layer, h, B) <=> /\ K \in SUBSET Key /\ l \in TreesOf[h + 1]
                                      /\ NodeFits(l, K, layer, h, Fits(layer, B)[h])
    <3>1. NodeFits(l, K, layer, h, Fits(layer, B)[h]) => l \in Nodes(TreesOf[h])
      BY DEF NodeFits
    <3> QED
      BY <2>3, <3>1 DEF NodeOf
  <2>5. l \in B => l \in TreesOf[h + 1]
    BY <2>3
  <2>6. K = {} => K \in SUBSET Key
    OBVIOUS
  <2> QED
    BY <2>2, <2>4, <2>5, <2>6
<1> QED
  BY <1>1, <1>2

LEMMA NodeIs ==
    ASSUME NEW layer, NEW B, NEW n, NEW K, NEW h
    PROVE  NodeOf(n, K, layer, h, B) <=>
             /\ K \subseteq Key
             /\ n \in Nodes(TreesOf[h]) /\ n.keys \in Seq(Key)
             /\ Sorted(n.keys)
             /\ Holds(n.keys, {k \in K : layer[k] >= h})
             /\ \A j \in 1..Len(n.keys) + 1 : LinkOf(n.links[j], Between(K, n.keys, j), layer, h, B)
BY DEF NodeOf, NodeFits, LinkOf

LEMMA LinkType ==
    ASSUME NEW layer, NEW B, NEW h \in 0..MaxHeight + 1, NEW l, NEW K, LinkOf(l, K, layer, h, B)
    PROVE  l \in TreesOf[h] /\ l \in Tree /\ K \subseteq Key
<1>1. l \in TreesOf[h] /\ K \in SUBSET Key
  BY FitsAt
<1> QED
  BY <1>1, TreeFacts

LEMMA NodeType ==
    ASSUME NEW layer, NEW B, NEW h \in 0..MaxHeight, NEW n, NEW K, NodeOf(n, K, layer, h, B)
    PROVE  /\ K \subseteq Key /\ n \in Tree /\ n # Nil /\ n # Blank
           /\ n \in Nodes(TreesOf[h]) /\ n.keys \in Seq(Key) /\ n.links \in Seq(TreesOf[h])
           /\ Len(n.keys) \in Nat /\ Len(n.links) = Len(n.keys) + 1
           /\ DOMAIN n.keys = 1..Len(n.keys) /\ DOMAIN n.links = 1..Len(n.keys) + 1
           /\ \A i \in 1..Len(n.keys) : n.keys[i] \in Key
           /\ \A j \in 1..Len(n.keys) + 1 : n.links[j] \in TreesOf[h] /\ n.links[j] \in Tree
<1>1. n \in Nodes(TreesOf[h]) /\ n.keys \in Seq(Key) /\ K \subseteq Key
  BY NodeIs
<1>2. n \in TreesOf[h + 1] /\ h + 1 \in 0..MaxHeight + 1
  BY <1>1, TreeFacts, Bounded
<1>3. n \in Tree /\ TreesOf[h] \subseteq Tree
  BY <1>2, TreeFacts, Bounded
<1> QED
  BY <1>1, <1>3, NodesAre

(* Who is between two neighbours of a sorted sequence. *)
LEMMA BetweenIs ==
    ASSUME NEW s \in Seq(Key), Sorted(s), NEW K, K \subseteq Key, NEW j \in 1..Len(s) + 1, NEW x
    PROVE  x \in Between(K, s, j) <=>
             /\ x \in K
             /\ \A i \in 1..Len(s) : IF i < j THEN Before(s[i], x) ELSE Before(x, s[i])
<1>0. Len(s) \in Nat /\ \A i \in 1..Len(s) : s[i] \in Key
  OBVIOUS
<1>1. ASSUME x \in Between(K, s, j), NEW i \in 1..Len(s)
      PROVE  IF i < j THEN Before(s[i], x) ELSE Before(x, s[i])
  <2>0. x \in Key
    BY <1>1 DEF Between
  <2>1. CASE i < j
    <3>1. Before(s[j - 1], x) /\ j - 1 \in 1..Len(s)
      BY <1>0, <1>1, <2>1 DEF Between
    <3>2. i = j - 1 \/ Before(s[i], s[j - 1])
      BY <1>0, <2>1, <3>1 DEF Sorted
    <3> QED
      BY <1>0, <2>0, <2>1, <3>1, <3>2, KeysOrdered
  <2>2. CASE ~(i < j)
    <3>1. Before(x, s[j]) /\ j \in 1..Len(s)
      BY <1>0, <1>1, <2>2 DEF Between
    <3>2. i = j \/ Before(s[j], s[i])
      BY <1>0, <2>2, <3>1 DEF Sorted
    <3> QED
      BY <1>0, <2>0, <2>2, <3>1, <3>2, KeysOrdered
  <2> QED
    BY <2>1, <2>2
<1>2. ASSUME x \in K, \A i \in 1..Len(s) : IF i < j THEN Before(s[i], x) ELSE Before(x, s[i])
      PROVE  x \in Between(K, s, j)
  <2>1. j = 1 \/ Before(s[j - 1], x)
    <3>1. j # 1 => j - 1 \in 1..Len(s) /\ j - 1 < j
      BY <1>0
    <3> QED
      BY <1>2, <3>1
  <2>2. j > Len(s) \/ Before(x, s[j])
    <3>1. ~(j > Len(s)) => j \in 1..Len(s) /\ ~(j < j)
      BY <1>0
    <3> QED
      BY <1>2, <3>1
  <2> QED
    BY <1>2, <2>1, <2>2 DEF Between
<1>3. x \in Between(K, s, j) => x \in K
  BY DEF Between
<1> QED
  BY <1>1, <1>2, <1>3

(* Every key has a place in a sorted sequence, or between two of its neighbours. *)
LEMMA PlaceOf ==
    ASSUME NEW n, n.keys \in Seq(Key), Sorted(n.keys), NEW K, K \subseteq Key, NEW x \in K
    PROVE  \/ \E i \in 1..Len(n.keys) : n.keys[i] = x
           \/ x \in Between(K, n.keys, Slot(n, x) + 1)
<1>1. /\ Slot(n, x) \in 0..Len(n.keys)
      /\ \A i \in 1..Len(n.keys) : Before(n.keys[i], x) <=> i <= Slot(n, x)
  BY SlotIs
<1>2. \A i \in 1..Len(n.keys) : n.keys[i] \in Key
  OBVIOUS
<1>3. ASSUME NEW i \in 1..Len(n.keys), n.keys[i] # x
      PROVE  IF i < Slot(n, x) + 1 THEN Before(n.keys[i], x) ELSE Before(x, n.keys[i])
  BY <1>1, <1>2, <1>3, KeysOrdered
<1> QED
  BY <1>1, <1>3, BetweenIs

(* What the changes of nodes are, element by element. *)

IsPart(p, n, a, b, T) ==
    /\ p \in Nodes(T) /\ Len(p.keys) = b - a
    /\ \A i \in 1..b - a : p.keys[i] = n.keys[a + i]
    /\ \A i \in 1..b - a + 1 : p.links[i] = n.links[a + i]

LEMMA PartIs ==
    ASSUME NEW T, NEW n \in Nodes(T), NEW a \in Nat, NEW b \in Nat, a <= b, b <= Len(n.keys)
    PROVE  IsPart(Part(n, a, b), n, a, b, T)
<1>1. /\ Len(n.keys) \in Nat /\ n.keys \in Seq(SQLiteValue) /\ n.links \in Seq(T)
      /\ Len(n.links) = Len(n.keys) + 1
  BY NodesAre
<1>2. /\ SubSeq(n.keys, a + 1, b) \in Seq(SQLiteValue)
      /\ Len(SubSeq(n.keys, a + 1, b)) = b - a
      /\ \A i \in 1..b - a : SubSeq(n.keys, a + 1, b)[i] = n.keys[a + i]
  <2>1. \A i \in (a + 1)..b : n.keys[i] \in SQLiteValue
    BY <1>1
  <2>2. a + 1 \in Int /\ b \in Int
    OBVIOUS
  <2>3. /\ SubSeq(n.keys, a + 1, b) \in Seq(SQLiteValue)
        /\ Len(SubSeq(n.keys, a + 1, b)) = IF a + 1 <= b THEN b - (a + 1) + 1 ELSE 0
        /\ \A i \in 1..b - (a + 1) + 1 : SubSeq(n.keys, a + 1, b)[i] = n.keys[(a + 1) + i - 1]
    BY <2>1, <2>2, SubSeqProperties
  <2>4. b - (a + 1) + 1 = b - a /\ \A i \in Int : (a + 1) + i - 1 = a + i
    OBVIOUS
  <2>5. Len(SubSeq(n.keys, a + 1, b)) = b - a
    <3>1. (IF a + 1 <= b THEN b - (a + 1) + 1 ELSE 0) = b - a
      OBVIOUS
    <3> QED
      BY <2>3, <3>1
  <2>6. ASSUME NEW i \in 1..b - a PROVE SubSeq(n.keys, a + 1, b)[i] = n.keys[a + i]
    <3>1. i \in 1..b - (a + 1) + 1 /\ (a + 1) + i - 1 = a + i
      OBVIOUS
    <3> QED
      BY <2>3, <3>1, Zenon
  <2> QED
    BY <2>3, <2>5, <2>6, Zenon
<1>3. /\ SubSeq(n.links, a + 1, b + 1) \in Seq(T)
      /\ Len(SubSeq(n.links, a + 1, b + 1)) = b - a + 1
      /\ \A i \in 1..b - a + 1 : SubSeq(n.links, a + 1, b + 1)[i] = n.links[a + i]
  <2>1. \A i \in (a + 1)..(b + 1) : n.links[i] \in T
    BY <1>1
  <2>2. a + 1 \in Int /\ b + 1 \in Int
    OBVIOUS
  <2>3. /\ SubSeq(n.links, a + 1, b + 1) \in Seq(T)
        /\ Len(SubSeq(n.links, a + 1, b + 1)) = IF a + 1 <= b + 1 THEN (b + 1) - (a + 1) + 1 ELSE 0
        /\ \A i \in 1..(b + 1) - (a + 1) + 1 : SubSeq(n.links, a + 1, b + 1)[i] = n.links[(a + 1) + i - 1]
    BY <2>1, <2>2, SubSeqProperties
  <2>4. (b + 1) - (a + 1) + 1 = b - a + 1 /\ \A i \in Int : (a + 1) + i - 1 = a + i
    OBVIOUS
  <2> QED
    BY <2>3, <2>4
<1> QED
  BY <1>2, <1>3 DEF Part, Nodes, IsPart

LEMMA WithLinkIs ==
    ASSUME NEW T, NEW n \in Nodes(T), NEW i \in 0..Len(n.keys), NEW l \in T
    PROVE  /\ WithLink(n, i, l) \in Nodes(T) /\ WithLink(n, i, l).keys = n.keys
           /\ \A j \in 1..Len(n.keys) + 1 :
                 WithLink(n, i, l).links[j] = IF j = i + 1 THEN l ELSE n.links[j]
<1>1. /\ Len(n.keys) \in Nat /\ n.keys \in Seq(SQLiteValue) /\ n.links \in Seq(T)
      /\ Len(n.links) = Len(n.keys) + 1
  BY NodesAre
<1>2. i + 1 \in 1..Len(n.links)
  BY <1>1
<1>3. /\ [n.links EXCEPT ![i + 1] = l] \in Seq(T)
      /\ Len([n.links EXCEPT ![i + 1] = l]) = Len(n.links)
      /\ \A j \in 1..Len(n.links) : [n.links EXCEPT ![i + 1] = l][j] = IF j = i + 1 THEN l ELSE n.links[j]
  BY <1>1, <1>2, ExceptSeq
<1>4. n = [keys |-> n.keys, links |-> n.links]
  BY DEF Nodes
<1>5. \A r : [[keys |-> n.keys, links |-> r] EXCEPT !.links[i + 1] = l]
              = [keys |-> n.keys, links |-> [r EXCEPT ![i + 1] = l]]
  OBVIOUS
<1>6. WithLink(n, i, l) = [keys |-> n.keys, links |-> [n.links EXCEPT ![i + 1] = l]]
  BY <1>4, <1>5, Zenon DEF WithLink
<1> QED
  BY <1>1, <1>3, <1>6 DEF Nodes

IsConcat(w, u, v, a, b) ==
    /\ Len(w) = a + b
    /\ \A j \in 1..a : w[j] = u[j]
    /\ \A j \in a + 1..a + b : w[j] = v[j - a]

LEMMA ConcatIs ==
    ASSUME NEW S, NEW u \in Seq(S), NEW v \in Seq(S), NEW a \in Nat, NEW b \in Nat, Len(u) = a, Len(v) = b
    PROVE  u \o v \in Seq(S) /\ IsConcat(u \o v, u, v, a, b)
<1>1. /\ u \o v \in Seq(S) /\ Len(u \o v) = Len(u) + Len(v)
      /\ \A j \in 1..Len(u) + Len(v) : (u \o v)[j] = IF j <= Len(u) THEN u[j] ELSE v[j - Len(u)]
  BY ConcatProperties
<1> QED
  BY <1>1 DEF IsConcat

IsInsert(u, s, i, x) ==
    /\ Len(u) = Len(s) + 1
    /\ \A j \in 1..Len(s) + 1 : u[j] = IF j < i THEN s[j] ELSE IF j = i THEN x ELSE s[j - 1]

LEMMA InsertAtIs ==
    ASSUME NEW S, NEW s \in Seq(S), NEW i \in 1..Len(s) + 1, NEW x \in S
    PROVE  InsertAt(s, i, x) \in Seq(S) /\ IsInsert(InsertAt(s, i, x), s, i, x)
<1>0. Len(s) \in Nat /\ \A j \in 1..Len(s) : s[j] \in S
  OBVIOUS
<1> DEFINE u == SubSeq(s, 1, i - 1)
           v == SubSeq(s, i, Len(s))
           one == <<x>>
<1>1. u \in Seq(S) /\ Len(u) = i - 1 /\ \A j \in 1..i - 1 : u[j] = s[j]
  <2>1. \A j \in 1..(i - 1) : s[j] \in S
    BY <1>0
  <2>2. /\ u \in Seq(S) /\ Len(u) = IF 1 <= i - 1 THEN (i - 1) - 1 + 1 ELSE 0
        /\ \A j \in 1..(i - 1) - 1 + 1 : u[j] = s[1 + j - 1]
    BY <1>0, <2>1, SubSeqProperties
  <2> HIDE DEF u
  <2> QED
    BY <1>0, <2>2
<1>2. v \in Seq(S) /\ Len(v) = Len(s) - i + 1 /\ \A j \in 1..Len(s) - i + 1 : v[j] = s[i + j - 1]
  <2>1. \A j \in i..Len(s) : s[j] \in S
    BY <1>0
  <2>2. /\ v \in Seq(S) /\ Len(v) = IF i <= Len(s) THEN Len(s) - i + 1 ELSE 0
        /\ \A j \in 1..Len(s) - i + 1 : v[j] = s[i + j - 1]
    BY <1>0, <2>1, SubSeqProperties
  <2> HIDE DEF v
  <2> QED
    BY <1>0, <2>2
<1> HIDE DEF u, v
<1>3. one \in Seq(S) /\ Len(one) = 1 /\ one[1] = x
  OBVIOUS
<1> HIDE DEF one
<1> DEFINE w == u \o one
<1>5. InsertAt(s, i, x) = w \o v
  BY DEF InsertAt, u, v, one
<1>9. /\ u \o one \in Seq(S) /\ Len(u \o one) = Len(u) + Len(one)
      /\ \A j \in 1..Len(u) + Len(one) : (u \o one)[j] = IF j <= Len(u) THEN u[j] ELSE one[j - Len(u)]
  BY <1>1, <1>3, ConcatProperties
<1>4. /\ w \in Seq(S) /\ Len(w) = i
      /\ \A j \in 1..i - 1 : w[j] = s[j]
      /\ w[i] = x
  <2>1. w \in Seq(S) /\ Len(w) = i
    BY <1>0, <1>1, <1>3, <1>9
  <2>2. ASSUME NEW j \in 1..i - 1 PROVE w[j] = s[j]
    BY <1>0, <1>1, <1>3, <1>9
  <2>3. w[i] = x
    <3>1. w[i] = one[i - (i - 1)]
      BY <1>0, <1>1, <1>3, <1>9
    <3>2. i - (i - 1) = 1
      BY <1>0
    <3> QED
      BY <1>3, <3>1, <3>2
  <2> QED
    BY <2>1, <2>2, <2>3
<1> HIDE DEF w
<1> DEFINE r == w \o v
<1>6. /\ r \in Seq(S) /\ Len(r) = Len(s) + 1
      /\ \A j \in 1..i : r[j] = w[j]
      /\ \A j \in i + 1..Len(s) + 1 : r[j] = v[j - i]
  <2>1. /\ w \o v \in Seq(S) /\ Len(w \o v) = Len(w) + Len(v)
        /\ \A j \in 1..Len(w) + Len(v) : (w \o v)[j] = IF j <= Len(w) THEN w[j] ELSE v[j - Len(w)]
    BY <1>2, <1>4, ConcatProperties
  <2>2. r \in Seq(S) /\ Len(r) = Len(s) + 1
    BY <1>0, <1>2, <1>4, <2>1
  <2>3. ASSUME NEW j \in 1..i PROVE r[j] = w[j]
    BY <1>0, <1>2, <1>4, <2>1
  <2>4. ASSUME NEW j \in i + 1..Len(s) + 1 PROVE r[j] = v[j - i]
    BY <1>0, <1>2, <1>4, <2>1
  <2> QED
    BY <2>2, <2>3, <2>4
<1> HIDE DEF r
<1>7. ASSUME NEW j \in 1..Len(s) + 1
      PROVE  r[j] = IF j < i THEN s[j] ELSE IF j = i THEN x ELSE s[j - 1]
  <2>1. CASE j < i
    <3>1. j \in 1..i /\ j \in 1..i - 1
      BY <1>0, <2>1
    <3> QED
      BY <1>4, <1>6, <2>1, <3>1
  <2>2. CASE j = i
    <3>1. j \in 1..i /\ ~(j < i)
      BY <1>0, <2>2
    <3> QED
      BY <1>4, <1>6, <2>2, <3>1
  <2>3. CASE j > i
    <3>1. r[j] = v[j - i] /\ j - i \in 1..Len(s) - i + 1
      BY <1>0, <1>6, <2>3
    <3>2. v[j - i] = s[i + (j - i) - 1] /\ i + (j - i) - 1 = j - 1
      BY <1>0, <1>2, <3>1
    <3>3. ~(j < i) /\ j # i
      BY <2>3
    <3> QED
      BY <3>1, <3>2, <3>3
  <2> QED
    BY <1>0, <2>1, <2>2, <2>3
<1> QED
  BY <1>5, <1>6, <1>7 DEF r, IsInsert

IsRemove(u, s, i) ==
    /\ Len(u) = Len(s) - 1
    /\ \A j \in 1..Len(s) - 1 : u[j] = IF j < i THEN s[j] ELSE s[j + 1]

LEMMA RemoveAtIs ==
    ASSUME NEW S, NEW s \in Seq(S), NEW i \in 1..Len(s)
    PROVE  RemoveAt(s, i) \in Seq(S) /\ IsRemove(RemoveAt(s, i), s, i)
<1>0. Len(s) \in Nat /\ \A j \in 1..Len(s) : s[j] \in S
  OBVIOUS
<1> DEFINE u == SubSeq(s, 1, i - 1)
           v == SubSeq(s, i + 1, Len(s))
<1>1. u \in Seq(S) /\ Len(u) = i - 1 /\ \A j \in 1..i - 1 : u[j] = s[j]
  <2>1. \A j \in 1..(i - 1) : s[j] \in S
    BY <1>0
  <2>2. /\ u \in Seq(S) /\ Len(u) = IF 1 <= i - 1 THEN (i - 1) - 1 + 1 ELSE 0
        /\ \A j \in 1..(i - 1) - 1 + 1 : u[j] = s[1 + j - 1]
    BY <1>0, <2>1, SubSeqProperties
  <2> HIDE DEF u
  <2> QED
    BY <1>0, <2>2
<1>2. v \in Seq(S) /\ Len(v) = Len(s) - i /\ \A j \in 1..Len(s) - i : v[j] = s[i + j]
  <2>1. \A j \in (i + 1)..Len(s) : s[j] \in S
    BY <1>0
  <2>2. /\ v \in Seq(S) /\ Len(v) = IF i + 1 <= Len(s) THEN Len(s) - (i + 1) + 1 ELSE 0
        /\ \A j \in 1..Len(s) - (i + 1) + 1 : v[j] = s[(i + 1) + j - 1]
    BY <1>0, <2>1, SubSeqProperties
  <2> HIDE DEF v
  <2> QED
    BY <1>0, <2>2
<1> HIDE DEF u, v
<1>3. /\ u \o v \in Seq(S) /\ Len(u \o v) = Len(u) + Len(v)
      /\ \A j \in 1..Len(u) + Len(v) : (u \o v)[j] = IF j <= Len(u) THEN u[j] ELSE v[j - Len(u)]
  BY <1>1, <1>2, ConcatProperties
<1>4. RemoveAt(s, i) = u \o v
  BY DEF RemoveAt, u, v
<1>5. ASSUME NEW j \in 1..Len(s) - 1 PROVE (u \o v)[j] = IF j < i THEN s[j] ELSE s[j + 1]
  <2>1. CASE j < i
    BY <1>0, <1>1, <1>2, <1>3, <2>1
  <2>2. CASE j >= i
    <3>1. (u \o v)[j] = v[j - (i - 1)] /\ j - (i - 1) \in 1..Len(s) - i
      BY <1>0, <1>1, <1>2, <1>3, <2>2
    <3>2. v[j - (i - 1)] = s[i + (j - (i - 1))] /\ i + (j - (i - 1)) = j + 1
      BY <1>0, <1>2, <3>1
    <3>3. ~(j < i)
      BY <1>0, <2>2
    <3> QED
      BY <3>1, <3>2, <3>3
  <2>3. j < i \/ j >= i
    BY <1>0
  <2> QED
    BY <2>1, <2>2, <2>3
<1> QED
  BY <1>0, <1>1, <1>2, <1>3, <1>4, <1>5 DEF IsRemove

-----------------------------------------------------------------------------
(* Nodes that hold a set of keys, and the changes of nodes. *)

LEMMA LinkCases ==
    ASSUME NEW layer, NEW B, B \subseteq {Nil, Blank}, NEW h \in 0..MaxHeight + 1, NEW l, NEW K,
           LinkOf(l, K, layer, h, B)
    PROVE  \/ l \in B /\ K = {}
           \/ h \in 1..MaxHeight + 1 /\ l \notin {Nil, Blank} /\ l # EmptyNode /\ NodeOf(l, K, layer, h - 1, B)
<1>1. CASE h = 0
  BY <1>1, LinkIs
<1>2. CASE h # 0
  <2> DEFINE g == h - 1
  <2>1. g \in 0..MaxHeight /\ h = g + 1 /\ h \in 1..MaxHeight + 1
    BY <1>2, Bounded
  <2> HIDE DEF g
  <2>2. LinkOf(l, K, layer, g + 1, B)
    BY <2>1
  <2>3. \/ l \in B /\ K = {}
        \/ l # EmptyNode /\ NodeOf(l, K, layer, g, B)
    BY <2>1, <2>2, LinkIs
  <2>4. NodeOf(l, K, layer, g, B) => l # Nil /\ l # Blank
    BY <2>1, NodeType
  <2>5. g = h - 1
    BY DEF g
  <2> QED
    BY <2>1, <2>3, <2>4, <2>5
<1> QED
  BY <1>1, <1>2

LEMMA NoLink ==
    ASSUME NEW layer, NEW B, B \subseteq {Nil, Blank}, NEW h \in 0..MaxHeight + 1, NEW l \in B
    PROVE  LinkOf(l, {}, layer, h, B)
<1>1. CASE h = 0
  BY <1>1, LinkIs
<1>2. CASE h # 0
  <2> DEFINE g == h - 1
  <2>1. g \in 0..MaxHeight /\ h = g + 1
    BY <1>2, Bounded
  <2> HIDE DEF g
  <2>2. LinkOf(l, {}, layer, g + 1, B)
    BY <2>1, LinkIs
  <2> QED
    BY <2>1, <2>2
<1> QED
  BY <1>1, <1>2

LEMMA NodeLink ==
    ASSUME NEW layer, NEW B, B \subseteq {Nil, Blank}, NEW h \in 1..MaxHeight + 1, NEW n, NEW K,
           NodeOf(n, K, layer, h - 1, B), n # EmptyNode
    PROVE  LinkOf(n, K, layer, h, B)
<1> DEFINE g == h - 1
<1>1. g \in 0..MaxHeight /\ h = g + 1
  BY Bounded
<1>2. NodeOf(n, K, layer, g, B)
  OBVIOUS
<1> HIDE DEF g
<1>3. LinkOf(n, K, layer, g + 1, B)
  BY <1>1, <1>2, LinkIs
<1> QED
  BY <1>1, <1>3

(* The keys of a node are of its height or more, those below it of less. *)
KeysFit(n, K, layer, h) ==
    /\ \A i \in 1..Len(n.keys) : n.keys[i] \in K /\ layer[n.keys[i]] >= h
    /\ \A x \in Key : x \in K /\ layer[x] >= h => \E i \in 1..Len(n.keys) : n.keys[i] = x
    /\ \A j \in 1..Len(n.keys) + 1 : \A x \in Between(K, n.keys, j) :
          x \in Key /\ x \in K /\ layer[x] < h /\ \A i \in 1..Len(n.keys) : n.keys[i] # x

LEMMA KeysOfNode ==
    ASSUME NEW layer \in [Key -> Nat], NEW B, NEW h \in 0..MaxHeight, NEW n, NEW K,
           NodeOf(n, K, layer, h, B)
    PROVE  KeysFit(n, K, layer, h)
<1>1. /\ K \subseteq Key /\ n.keys \in Seq(Key) /\ Sorted(n.keys)
      /\ Holds(n.keys, {k \in K : layer[k] >= h})
  BY NodeIs
<1>2. \A x : x \in {k \in K : layer[k] >= h} <=> \E i \in 1..Len(n.keys) : n.keys[i] = x
  BY <1>1 DEF Holds
<1>3. ASSUME NEW j \in 1..Len(n.keys) + 1, NEW x \in Between(K, n.keys, j)
      PROVE  x \in K /\ layer[x] < h /\ \A i \in 1..Len(n.keys) : n.keys[i] # x
  <2>1. /\ x \in K
        /\ \A i \in 1..Len(n.keys) : IF i < j THEN Before(n.keys[i], x) ELSE Before(x, n.keys[i])
    BY <1>1, BetweenIs
  <2>2. \A i \in 1..Len(n.keys) : n.keys[i] # x
    BY <1>1, <2>1, KeysOrdered
  <2>3. ~(layer[x] >= h) /\ layer[x] \in Nat
    BY <1>1, <1>2, <2>1, <2>2
  <2> QED
    BY <2>1, <2>2, <2>3
<1>4. \A j \in 1..Len(n.keys) + 1 : Between(K, n.keys, j) \subseteq Key
  BY <1>1 DEF Between
<1> QED
  BY <1>1, <1>2, <1>3, <1>4 DEF KeysFit

LEMMA EmptyIs ==
    ASSUME NEW layer, NEW B, B \subseteq {Nil, Blank}, Nil \in B, NEW h \in 0..MaxHeight, NEW K
    PROVE  NodeOf(EmptyNode, K, layer, h, B) <=> K = {}
<1>1. /\ EmptyNode.keys = <<>> /\ EmptyNode.links = <<Nil>> /\ EmptyNode.links[1] = Nil
      /\ Len(EmptyNode.keys) = 0
  BY DEF EmptyNode
<1>2. ASSUME NodeOf(EmptyNode, K, layer, h, B) PROVE K = {}
  <2>1. LinkOf(Nil, Between(K, <<>>, 1), layer, h, B)
    <3>1. 1 \in 1..Len(EmptyNode.keys) + 1
      BY <1>1
    <3> QED
      BY <1>1, <1>2, <3>1, NodeIs
  <2>2. Between(K, <<>>, 1) = {}
    BY <2>1, LinkCases, Bounded
  <2>3. Between(K, <<>>, 1) = K
    BY DEF Between
  <2> QED
    BY <2>2, <2>3
<1>3. ASSUME K = {} PROVE NodeOf(EmptyNode, K, layer, h, B)
  <2>1. EmptyNode \in Nodes(TreesOf[h])
    <3>1. Nil \in TreesOf[h]
      <4>1. h = 0 \/ (h - 1 \in 0..MaxHeight /\ h = (h - 1) + 1)
        BY Bounded
      <4> QED
        BY <4>1, TreeFacts
    <3>2. <<>> \in Seq(SQLiteValue) /\ Len(<<>>) = 0
      OBVIOUS
    <3>5. \A T, x : x \in T => <<x>> \in Seq(T) /\ Len(<<x>>) = 1
      OBVIOUS
    <3>3. <<Nil>> \in Seq(TreesOf[h]) /\ Len(<<Nil>>) = 1
      BY <3>1, <3>5, Zenon
    <3>4. EmptyNode \in [keys : Seq(SQLiteValue), links : Seq(TreesOf[h])]
      BY <3>2, <3>3 DEF EmptyNode
    <3> QED
      <4>1. Len(EmptyNode.links) = Len(EmptyNode.keys) + 1
        BY <1>1, <3>3
      <4> QED
        BY <3>4, <4>1 DEF Nodes
  <2>2. EmptyNode.keys \in Seq(Key) /\ Sorted(EmptyNode.keys)
    BY <1>1 DEF Sorted
  <2>3. Holds(EmptyNode.keys, {k \in K : layer[k] >= h})
    BY <1>1, <1>3 DEF Holds
  <2>4. LinkOf(Nil, {}, layer, h, B) /\ Between(K, EmptyNode.keys, 1) = {}
    BY <1>3, NoLink, Bounded DEF Between
  <2>5. \A j \in 1..Len(EmptyNode.keys) + 1 :
           LinkOf(EmptyNode.links[j], Between(K, EmptyNode.keys, j), layer, h, B)
    <3>1. \A j \in 1..Len(EmptyNode.keys) + 1 : j = 1
      BY <1>1
    <3> QED
      BY <1>1, <2>4, <3>1, Zenon
  <2> QED
    BY <1>3, <2>1, <2>2, <2>3, <2>5, NodeIs
<1> QED
  BY <1>2, <1>3

(* LinkTo keeps what a node holds. *)
LEMMA LinkToIs ==
    ASSUME NEW layer \in [Key -> Nat], NEW B, B \subseteq {Nil, Blank}, Nil \in B,
           NEW h \in 1..MaxHeight + 1, NEW n, NEW K, NodeOf(n, K, layer, h - 1, B)
    PROVE  LinkOf(LinkTo(n), K, layer, h, B)
<1> DEFINE g == h - 1
<1>1. g \in 0..MaxHeight /\ h = g + 1 /\ NodeOf(n, K, layer, g, B)
  BY Bounded
<1> HIDE DEF g
<1>2. CASE n.links = <<Nil>>
  <2>1. Len(n.keys) = 0 /\ n.keys = <<>> /\ n.links[1] = Nil
    <3>1. n.keys \in Seq(Key) /\ Len(n.keys) + 1 = 1 /\ Len(n.keys) \in Nat
      <4>1. Len(n.links) = 1
        BY <1>2
      <4> QED
        BY <1>1, <4>1, NodeType
    <3> QED
      BY <1>2, <3>1
  <2>2. LinkOf(Nil, Between(K, n.keys, 1), layer, g, B)
    <3>1. 1 \in 1..Len(n.keys) + 1
      BY <2>1
    <3> QED
      BY <1>1, <2>1, <3>1, NodeIs
  <2>3. Between(K, n.keys, 1) = {}
    BY <1>1, <2>2, LinkCases, Bounded
  <2>4. Between(K, n.keys, 1) = K
    BY <2>1 DEF Between
  <2>5. LinkTo(n) = Nil
    BY <1>2 DEF LinkTo, IsEmpty
  <2> QED
    BY <2>3, <2>4, <2>5, NoLink
<1>3. CASE n.links # <<Nil>>
  <2>1. LinkTo(n) = n /\ n # EmptyNode
    BY <1>3 DEF LinkTo, IsEmpty, EmptyNode
  <2> QED
    BY <2>1, NodeLink
<1> QED
  BY <1>2, <1>3

(* A node with another link. *)
LEMMA SetLink ==
    ASSUME NEW layer \in [Key -> Nat], NEW B, B \subseteq {Nil, Blank}, NEW h \in 0..MaxHeight,
           NEW n, NEW K, NodeOf(n, K, layer, h, B), NEW i \in 0..Len(n.keys),
           NEW l, NEW C, LinkOf(l, C, layer, h, B),
           \A x \in C : x \in Between(Key, n.keys, i + 1) /\ layer[x] < h,
           NEW K2, \A x : x \in K2 <=> x \in C \/ (x \in K /\ x \notin Between(K, n.keys, i + 1))
    PROVE  NodeOf(WithLink(n, i, l), K2, layer, h, B)
<1> DEFINE w == WithLink(n, i, l)
<1>1. /\ K \subseteq Key /\ n.keys \in Seq(Key) /\ Sorted(n.keys) /\ n \in Nodes(TreesOf[h])
      /\ Holds(n.keys, {k \in K : layer[k] >= h})
      /\ \A j \in 1..Len(n.keys) + 1 : LinkOf(n.links[j], Between(K, n.keys, j), layer, h, B)
  BY NodeIs
<1>2. l \in TreesOf[h] /\ C \subseteq Key
  BY LinkType, Bounded
<1>3. /\ w \in Nodes(TreesOf[h]) /\ w.keys = n.keys
      /\ \A j \in 1..Len(n.keys) + 1 : w.links[j] = IF j = i + 1 THEN l ELSE n.links[j]
  BY <1>1, <1>2, WithLinkIs
<1> HIDE DEF w
<1>4. K2 \subseteq Key
  BY <1>1, <1>2
<1>5. Len(n.keys) \in Nat /\ i + 1 \in 1..Len(n.keys) + 1
  BY <1>1
<1>6. {k \in K2 : layer[k] >= h} = {k \in K : layer[k] >= h}
  <2>1. \A x \in C : ~(layer[x] >= h)
    BY <1>2
  <2>2. \A x \in Between(K, n.keys, i + 1) : ~(layer[x] >= h)
    <3>1. \A x \in Between(K, n.keys, i + 1) : x \in Key /\ layer[x] < h
      BY <1>1, <1>5, KeysOfNode DEF KeysFit
    <3> QED
      BY <3>1
  <2> QED
    BY <2>1, <2>2
<1>7. ASSUME NEW j \in 1..Len(n.keys) + 1 PROVE LinkOf(w.links[j], Between(K2, n.keys, j), layer, h, B)
  <2> DEFINE P(x, m) == \A g \in 1..Len(n.keys) : IF g < m THEN Before(n.keys[g], x) ELSE Before(x, n.keys[g])
  <2>1. \A x : x \in Between(K2, n.keys, j) <=> x \in K2 /\ P(x, j)
    BY <1>1, <1>4, BetweenIs
  <2>2. \A x : x \in Between(K, n.keys, j) <=> x \in K /\ P(x, j)
    BY <1>1, BetweenIs
  <2>3. \A x : x \in Between(K, n.keys, i + 1) <=> x \in K /\ P(x, i + 1)
    BY <1>1, <1>5, BetweenIs
  <2>4. \A x : x \in Between(Key, n.keys, i + 1) <=> x \in Key /\ P(x, i + 1)
    BY <1>1, <1>5, BetweenIs
  <2>5. CASE j = i + 1
    <3> HIDE DEF P
    <3>1. Between(K2, n.keys, j) = C
      BY <1>2, <2>1, <2>3, <2>4, <2>5
    <3> QED
      BY <1>3, <2>5, <3>1
  <2>6. CASE j # i + 1
    <3>1. \A x \in Key : ~(P(x, j) /\ P(x, i + 1))
      <4> SUFFICES ASSUME NEW x \in Key, P(x, j), P(x, i + 1) PROVE FALSE
        OBVIOUS
      <4>1. CASE j < i + 1
        <5>1. j \in 1..Len(n.keys) /\ ~(j < j)
          BY <1>5, <4>1
        <5>2. Before(x, n.keys[j]) /\ Before(n.keys[j], x)
          BY <4>1, <5>1
        <5> QED
          BY <1>1, <5>1, <5>2, KeysOrdered
      <4>2. CASE j > i + 1
        <5>1. i + 1 \in 1..Len(n.keys) /\ ~(i + 1 < i + 1)
          BY <1>5, <4>2
        <5>2. Before(x, n.keys[i + 1]) /\ Before(n.keys[i + 1], x)
          BY <4>2, <5>1
        <5> QED
          BY <1>1, <5>1, <5>2, KeysOrdered
      <4> QED
        BY <1>5, <2>6, <4>1, <4>2
    <3> HIDE DEF P
    <3>2. Between(K2, n.keys, j) = Between(K, n.keys, j)
      BY <1>1, <1>2, <2>1, <2>2, <2>3, <2>4, <3>1
    <3> QED
      BY <1>1, <1>3, <2>6, <3>2
  <2> QED
    BY <2>5, <2>6
<1>8. NodeOf(w, K2, layer, h, B)
  BY <1>1, <1>3, <1>4, <1>6, <1>7, NodeIs
<1> QED
  BY <1>8 DEF w

LEMMA SortedIs ==
    ASSUME NEW s \in Seq(Key), Sorted(s), NEW i \in 1..Len(s), NEW j \in 1..Len(s)
    PROVE  Before(s[i], s[j]) <=> i < j
<1>1. s[i] \in Key /\ s[j] \in Key /\ i \in Int /\ j \in Int
  OBVIOUS
<1>2. i < j => Before(s[i], s[j])
  BY DEF Sorted
<1>3. j < i => Before(s[j], s[i])
  BY DEF Sorted
<1> QED
  BY <1>1, <1>2, <1>3, KeysOrdered

(* A part of a node holds the keys between those that are cut off. *)
LEMMA PartNode ==
    ASSUME NEW layer \in [Key -> Nat], NEW B, B \subseteq {Nil, Blank}, NEW h \in 0..MaxHeight,
           NEW n, NEW K, NodeOf(n, K, layer, h, B),
           NEW a \in 0..Len(n.keys), NEW b \in 0..Len(n.keys), a <= b,
           NEW K2, \A x : x \in K2 <=> /\ x \in K
                                       /\ a = 0 \/ Before(n.keys[a], x)
                                       /\ b = Len(n.keys) \/ Before(x, n.keys[b + 1])
    PROVE  NodeOf(Part(n, a, b), K2, layer, h, B)
<1> DEFINE p == Part(n, a, b)
<1>1. /\ K \subseteq Key /\ n.keys \in Seq(Key) /\ Sorted(n.keys) /\ n \in Nodes(TreesOf[h])
      /\ Holds(n.keys, {k \in K : layer[k] >= h})
      /\ \A j \in 1..Len(n.keys) + 1 : LinkOf(n.links[j], Between(K, n.keys, j), layer, h, B)
  BY NodeIs
<1>2. Len(n.keys) \in Nat /\ a \in Nat /\ b \in Nat /\ \A i \in 1..Len(n.keys) : n.keys[i] \in Key
  BY <1>1
<1>3. /\ p \in Nodes(TreesOf[h]) /\ Len(p.keys) = b - a
      /\ \A i \in 1..b - a : p.keys[i] = n.keys[a + i]
      /\ \A i \in 1..b - a + 1 : p.links[i] = n.links[a + i]
  <2>1. IsPart(p, n, a, b, TreesOf[h])
    BY <1>1, <1>2, PartIs
  <2> HIDE DEF p
  <2> QED
    BY <2>1 DEF IsPart
<1>4. p.keys \in Seq(Key)
  <2>1. p.keys \in Seq(SQLiteValue)
    BY <1>3, NodesAre
  <2> HIDE DEF p
  <2>2. ASSUME NEW i \in 1..Len(p.keys) PROVE p.keys[i] \in Key
    <3>1. a + i \in 1..Len(n.keys) /\ i \in 1..b - a
      BY <1>2, <1>3
    <3>2. n.keys[a + i] \in Key
      BY <1>2, <3>1, Zenon
    <3>3. p.keys[i] = n.keys[a + i]
      BY <1>3, <3>1, Zenon
    <3> QED
      BY <3>2, <3>3
  <2> QED
    BY <2>1, <2>2
<1> HIDE DEF p
<1>5. Sorted(p.keys)
  <2> SUFFICES ASSUME NEW i \in 1..Len(p.keys), NEW j \in 1..Len(p.keys), i < j
               PROVE  Before(p.keys[i], p.keys[j])
    BY DEF Sorted
  <2>1. /\ a + i \in 1..Len(n.keys) /\ a + j \in 1..Len(n.keys) /\ a + i < a + j
        /\ i \in 1..b - a /\ j \in 1..b - a
    BY <1>2, <1>3
  <2>2. Before(n.keys[a + i], n.keys[a + j])
    BY <1>1, <2>1, Zenon DEF Sorted
  <2>3. p.keys[i] = n.keys[a + i] /\ p.keys[j] = n.keys[a + j]
    BY <1>3, <2>1, Zenon
  <2> QED
    BY <2>2, <2>3
<1>6. K2 \subseteq Key
  BY <1>1
<1>7. Holds(p.keys, {k \in K2 : layer[k] >= h})
  <2>1. \A x : x \in {k \in K : layer[k] >= h} <=> \E i \in 1..Len(n.keys) : n.keys[i] = x
    BY <1>1 DEF Holds
  <2>2. ASSUME NEW i \in 1..Len(n.keys)
        PROVE  n.keys[i] \in K2 <=> i \in a + 1..b
    <3>1. n.keys[i] \in K
      BY <2>1
    <3>2. a = 0 \/ Before(n.keys[a], n.keys[i]) <=> a < i
      BY <1>1, <1>2, SortedIs
    <3>3. b = Len(n.keys) \/ Before(n.keys[i], n.keys[b + 1]) <=> i <= b
      <4>1. CASE b = Len(n.keys)
        BY <4>1
      <4>2. CASE b # Len(n.keys)
        <5>1. b + 1 \in 1..Len(n.keys)
          BY <1>2, <4>2
        <5>2. Before(n.keys[i], n.keys[b + 1]) <=> i < b + 1
          BY <1>1, <5>1, SortedIs
        <5> QED
          BY <1>2, <4>2, <5>2
      <4> QED
        BY <4>1, <4>2
    <3> QED
      BY <1>2, <3>1, <3>2, <3>3
  <2>3. ASSUME NEW x \in K2, layer[x] >= h PROVE \E i \in 1..Len(p.keys) : p.keys[i] = x
    <3>1. PICK i \in 1..Len(n.keys) : n.keys[i] = x
      BY <2>1, <2>3
    <3>2. i \in a + 1..b
      BY <2>2, <2>3, <3>1
    <3>3. i - a \in 1..b - a /\ a + (i - a) = i
      BY <1>2, <3>2
    <3> QED
      BY <1>3, <3>1, <3>3
  <2>4. ASSUME NEW i \in 1..Len(p.keys) PROVE p.keys[i] \in K2 /\ layer[p.keys[i]] >= h
    <3>1. a + i \in 1..Len(n.keys) /\ a + i \in a + 1..b /\ p.keys[i] = n.keys[a + i]
      BY <1>2, <1>3
    <3> QED
      BY <2>1, <2>2, <3>1
  <2> QED
    BY <2>3, <2>4 DEF Holds
<1>8. ASSUME NEW j \in 1..Len(p.keys) + 1 PROVE LinkOf(p.links[j], Between(K2, p.keys, j), layer, h, B)
  <2>1. a + j \in 1..Len(n.keys) + 1 /\ j \in 1..b - a + 1
    BY <1>2, <1>3
  <2>2. ASSUME NEW x \in Between(K2, p.keys, j) PROVE x \in Between(K, n.keys, a + j)
    <3>1. /\ x \in K2
          /\ j = 1 \/ Before(p.keys[j - 1], x)
          /\ j > Len(p.keys) \/ Before(x, p.keys[j])
      BY DEF Between
    <3>2. a + j = 1 \/ Before(n.keys[a + j - 1], x)
      <4>1. CASE j = 1
        <5>1. a + j - 1 = a
          BY <1>2, <4>1
        <5> QED
          BY <1>2, <3>1, <4>1, <5>1
      <4>2. CASE j # 1
        <5>1. j - 1 \in 1..b - a /\ a + (j - 1) = a + j - 1
          BY <1>2, <2>1, <4>2
        <5> QED
          BY <1>3, <3>1, <4>2, <5>1
      <4> QED
        BY <4>1, <4>2
    <3>3. a + j > Len(n.keys) \/ Before(x, n.keys[a + j])
      <4>1. CASE j > Len(p.keys)
        <5>1. a + j = b + 1
          BY <1>2, <1>3, <4>1
        <5> QED
          BY <1>2, <3>1, <5>1
      <4>2. CASE ~(j > Len(p.keys))
        <5>1. j \in 1..b - a
          BY <1>2, <1>3, <4>2
        <5> QED
          BY <1>3, <3>1, <4>2, <5>1
      <4> QED
        BY <4>1, <4>2
    <3> QED
      BY <3>1, <3>2, <3>3 DEF Between
  <2>3. ASSUME NEW x \in Between(K, n.keys, a + j) PROVE x \in Between(K2, p.keys, j)
    <3>1. /\ x \in K
          /\ \A i \in 1..Len(n.keys) : IF i < a + j THEN Before(n.keys[i], x) ELSE Before(x, n.keys[i])
      BY <1>1, <2>1, BetweenIs
    <3>2. a = 0 \/ Before(n.keys[a], x)
      BY <1>2, <2>1, <3>1
    <3>3. b = Len(n.keys) \/ Before(x, n.keys[b + 1])
      <4>1. b # Len(n.keys) => b + 1 \in 1..Len(n.keys) /\ ~(b + 1 < a + j)
        BY <1>2, <2>1
      <4> QED
        BY <3>1, <4>1
    <3>4. x \in K2
      BY <3>1, <3>2, <3>3
    <3>5. ASSUME NEW i \in 1..Len(p.keys)
          PROVE  IF i < j THEN Before(p.keys[i], x) ELSE Before(x, p.keys[i])
      <4>1. a + i \in 1..Len(n.keys) /\ p.keys[i] = n.keys[a + i] /\ (a + i < a + j <=> i < j)
        BY <1>2, <1>3, <2>1
      <4> QED
        BY <3>1, <4>1
    <3> QED
      BY <1>4, <1>5, <1>6, <3>4, <3>5, BetweenIs
  <2>4. Between(K2, p.keys, j) = Between(K, n.keys, a + j)
    BY <2>2, <2>3
  <2> QED
    BY <1>1, <1>3, <2>1, <2>4
<1>9. NodeOf(p, K2, layer, h, B)
  BY <1>3, <1>4, <1>5, <1>6, <1>7, <1>8, NodeIs
<1> QED
  BY <1>9 DEF p

-----------------------------------------------------------------------------
(* Looking up. *)

(* How far below a node of height h a key of a layer is. *)
DepthIn(h, layer, k) == IF layer[k] < h THEN h - layer[k] ELSE 0

LEMMA DepthIs ==
    ASSUME NEW layer \in [Key -> Nat], NEW h \in Nat, NEW k \in Key
    PROVE  /\ DepthIn(h, layer, k) \in 0..h
           /\ layer[k] >= h - DepthIn(h, layer, k)
           /\ DepthIn(h, layer, k) > 0 => layer[k] = h - DepthIn(h, layer, k)
<1>1. layer[k] \in Nat
  OBVIOUS
<1> QED
  BY <1>1 DEF DepthIn

(* One step down: where a key is if it is not in a node of more than its layer. *)
StepsDown(n, K, layer, h, B, k) ==
    LET l == Link(n, Slot(n, k))
        C == Between(K, n.keys, Slot(n, k) + 1)
    IN  /\ Slot(n, k) \in 0..Len(n.keys) /\ n \in Tree
        /\ ~HasKey(n, Slot(n, k), k)
        /\ k \in Between(Key, n.keys, Slot(n, k) + 1)
        /\ k \in K <=> k \in C
        /\ \A x \in C : x \in Key /\ layer[x] < h
        /\ LinkOf(l, C, layer, h, B)
        /\ l \in Tree /\ (l \notin {Nil, Blank} => NodeOf(l, C, layer, h - 1, B) /\ l # EmptyNode)
        /\ l \in {Nil, Blank} => C = {}

LEMMA StepDown ==
    ASSUME NEW layer \in [Key -> Nat], NEW B, B \subseteq {Nil, Blank}, NEW h \in 1..MaxHeight,
           NEW n, NEW K, NodeOf(n, K, layer, h, B), NEW k \in Key, layer[k] < h
    PROVE  StepsDown(n, K, layer, h, B, k)
<1> DEFINE l == Link(n, Slot(n, k))
           C == Between(K, n.keys, Slot(n, k) + 1)
<1>1. /\ K \subseteq Key /\ n.keys \in Seq(Key) /\ Sorted(n.keys) /\ n \in Nodes(TreesOf[h])
      /\ \A j \in 1..Len(n.keys) + 1 : LinkOf(n.links[j], Between(K, n.keys, j), layer, h, B)
  BY NodeIs
<1>2. h \in 0..MaxHeight /\ n \in Tree
  <2>1. h \in 0..MaxHeight
    BY Bounded
  <2> QED
    BY <2>1, NodeType
<1>3. /\ Slot(n, k) \in 0..Len(n.keys)
      /\ HasKey(n, Slot(n, k), k) <=> \E i \in 1..Len(n.keys) : n.keys[i] = k
  BY <1>1, SlotIs
<1>4. ~\E i \in 1..Len(n.keys) : n.keys[i] = k
  <2>1. \A i \in 1..Len(n.keys) : layer[n.keys[i]] >= h
    BY <1>2, KeysOfNode DEF KeysFit
  <2> QED
    BY <2>1
<1>5. Slot(n, k) + 1 \in 1..Len(n.keys) + 1 /\ l = n.links[Slot(n, k) + 1]
  BY <1>1, <1>3 DEF Link
<1>6. k \in Between(Key, n.keys, Slot(n, k) + 1)
  BY <1>1, <1>4, PlaceOf
<1>7. k \in K <=> k \in C
  BY <1>1, <1>4, PlaceOf DEF Between
<1>8. \A x \in C : x \in Key /\ layer[x] < h
  BY <1>1, <1>2, <1>5, KeysOfNode, ZenonT(60) DEF KeysFit
<1>9. LinkOf(l, C, layer, h, B)
  BY <1>1, <1>5
<1> HIDE DEF l, C
<1>10. /\ l \in Tree /\ (l \notin {Nil, Blank} => NodeOf(l, C, layer, h - 1, B) /\ l # EmptyNode)
       /\ l \in {Nil, Blank} => C = {}
  <2>1. h \in 0..MaxHeight + 1
    BY <1>2, Bounded
  <2> QED
    BY <1>9, <2>1, LinkCases, LinkType
<1>11. /\ Slot(n, k) \in 0..Len(n.keys) /\ n \in Tree
       /\ ~HasKey(n, Slot(n, k), k)
       /\ k \in Between(Key, n.keys, Slot(n, k) + 1)
       /\ k \in K <=> k \in C
       /\ \A x \in C : x \in Key /\ layer[x] < h
       /\ LinkOf(l, C, layer, h, B)
       /\ l \in Tree /\ (l \notin {Nil, Blank} => NodeOf(l, C, layer, h - 1, B) /\ l # EmptyNode)
       /\ l \in {Nil, Blank} => C = {}
  BY <1>2, <1>3, <1>4, <1>6, <1>7, <1>8, <1>9, <1>10
<1> QED
  BY <1>11 DEF l, C, StepsDown

(* The bottom of the search: a node of a key's layer, or a lower root. *)
LEMMA AtBottom ==
    ASSUME NEW layer \in [Key -> Nat], NEW B, NEW h \in 0..MaxHeight,
           NEW n, NEW K, NodeOf(n, K, layer, h, B), NEW k \in Key, layer[k] >= h
    PROVE  HasKey(n, Slot(n, k), k) <=> k \in K
<1>1. n.keys \in Seq(Key) /\ Sorted(n.keys)
  BY NodeIs
<1>2. HasKey(n, Slot(n, k), k) <=> \E i \in 1..Len(n.keys) : n.keys[i] = k
  BY <1>1, SlotIs
<1>3. /\ \A i \in 1..Len(n.keys) : n.keys[i] \in K /\ layer[n.keys[i]] >= h
      /\ \A x \in Key : x \in K /\ layer[x] >= h => \E i \in 1..Len(n.keys) : n.keys[i] = x
  <2>1. KeysFit(n, K, layer, h)
    BY KeysOfNode
  <2> QED
    BY <2>1 DEF KeysFit
<1> QED
  BY <1>2, <1>3, Zenon

LEMMA LookupIs ==
    ASSUME NEW layer \in [Key -> Nat], NEW B, B \subseteq {Nil, Blank}, NEW h \in 0..MaxHeight,
           NEW n, NEW K, NodeOf(n, K, layer, h, B), NEW k \in Key
    PROVE  /\ Descend(n, DepthIn(h, layer, k), k) \in {"unreadable", IF k \in K THEN "found" ELSE "absent"}
           /\ Descend(n, DepthIn(h, layer, k), k) = "unreadable" => PutFails(n, DepthIn(h, layer, k), k)
<1> DEFINE d == DepthIn(h, layer, k)
           low == h - d
<1>1. /\ d \in 0..h /\ d \in Nat /\ low \in Nat /\ layer[k] \in Nat /\ layer[k] >= low
      /\ (d > 0 => layer[k] = low) /\ h = low + d /\ h \in Nat
  <2>1. h \in Nat
    OBVIOUS
  <2>2. d \in 0..h /\ layer[k] >= h - d /\ (d > 0 => layer[k] = h - d)
    BY <2>1, DepthIs
  <2> HIDE DEF d
  <2> QED
    BY <2>1, <2>2
<1> HIDE DEF d, low
<1>2. PICK f : IsDescend(f, k, d) /\ \A m : Descend(m, d, k) = f[d][m]
  <2>1. d \in Nat
    BY <1>1
  <2> QED
    BY <2>1, DescendIs
<1>3. PICK g : IsPutFails(g, k, d) /\ \A m : PutFails(m, d, k) = g[d][m]
  <2>1. d \in Nat
    BY <1>1
  <2> QED
    BY <2>1, PutFailsIs
<1> DEFINE good == {e \in 0..d : \A m, J : NodeOf(m, J, layer, low + e, B) =>
                       /\ f[e][m] \in {"unreadable", IF k \in J THEN "found" ELSE "absent"}
                       /\ f[e][m] = "unreadable" => g[e][m]}
<1>4. 0 \in good
  <2> SUFFICES ASSUME NEW m, NEW J, NodeOf(m, J, layer, low + 0, B)
               PROVE  f[0][m] = IF k \in J THEN "found" ELSE "absent"
    BY <1>1
  <2>1. low + 0 = low /\ low \in 0..MaxHeight
    BY <1>1, Bounded
  <2>2. m \in Tree
    BY <2>1, NodeType
  <2>3. HasKey(m, Slot(m, k), k) <=> k \in J
    BY <1>1, <2>1, AtBottom
  <2>4. f[0][m] = IF HasKey(m, Slot(m, k), k) THEN "found" ELSE "absent"
    <3>1. 0 \in 0..d
      BY <1>1
    <3> QED
      BY <1>2, <2>2, <3>1, ZenonT(60) DEF IsDescend
  <2> QED
    BY <2>3, <2>4
<1>5. ASSUME NEW e \in 0..d, e \in good, e < d PROVE e + 1 \in good
  <2> SUFFICES ASSUME NEW m, NEW J, NodeOf(m, J, layer, low + (e + 1), B)
               PROVE  /\ f[e + 1][m] \in {"unreadable", IF k \in J THEN "found" ELSE "absent"}
                      /\ f[e + 1][m] = "unreadable" => g[e + 1][m]
    BY <1>1, <1>5
  <2> DEFINE up == low + (e + 1)
             i == Slot(m, k)
             l == Link(m, i)
             C == Between(J, m.keys, i + 1)
  <2>1. up \in 1..MaxHeight /\ layer[k] < up /\ up - 1 = low + e
    BY <1>1, <1>5, Bounded
  <2> HIDE DEF up
  <2>2. /\ ~HasKey(m, i, k) /\ (k \in J <=> k \in C) /\ m \in Tree
        /\ l \in Tree /\ (l \notin {Nil, Blank} => NodeOf(l, C, layer, up - 1, B))
        /\ l \in {Nil, Blank} => C = {}
    <3>1. NodeOf(m, J, layer, up, B)
      BY DEF up
    <3>2. up \in 1..MaxHeight /\ layer[k] < up
      BY <2>1
    <3> QED
      <4>1. StepsDown(m, J, layer, up, B, k)
        BY <3>1, <3>2, StepDown
      <4> QED
        BY <4>1, Zenon DEF StepsDown
  <2>3. e + 1 \in 0..d /\ e + 1 # 0 /\ (e + 1) - 1 = e
    BY <1>1, <1>5
  <2> DEFINE e1 == e + 1
  <2> HIDE DEF e1
  <2>4. e1 \in 0..d /\ e1 # 0 /\ e1 - 1 = e
    BY <2>3 DEF e1
  <2>5. f[e1][m] = IF HasKey(m, i, k) \/ l = Nil THEN "absent"
                   ELSE IF l = Blank THEN "unreadable" ELSE f[e1 - 1][l]
    BY <1>2, <2>2, <2>4, ZenonT(60) DEF IsDescend
  <2>6. g[e1][m] = (l = Blank \/ (l # Nil /\ g[e1 - 1][l]))
    BY <1>3, <2>2, <2>4, ZenonT(60) DEF IsPutFails
  <2> HIDE DEF i, l, C
  <2>7. CASE l = Nil
    BY <2>2, <2>5, <2>7, NodesAre DEF e1
  <2>8. CASE l = Blank
    <3>1. f[e1][m] = "unreadable"
      BY <2>2, <2>5, <2>8, NodesAre
    <3>2. g[e1][m]
      BY <2>6, <2>8, Zenon
    <3> QED
      BY <3>1, <3>2 DEF e1
  <2>9. CASE l \notin {Nil, Blank}
    <3>1. NodeOf(l, C, layer, low + e, B)
      BY <2>1, <2>2, <2>9
    <3>2. /\ f[e][l] \in {"unreadable", IF k \in C THEN "found" ELSE "absent"}
          /\ f[e][l] = "unreadable" => g[e][l]
      BY <1>5, <3>1, Zenon
    <3>3. f[e1][m] = f[e][l]
      BY <2>2, <2>4, <2>5, <2>9
    <3>4. g[e][l] => g[e1][m]
      BY <2>4, <2>6, <2>9, Zenon
    <3>5. f[e1][m] = "unreadable" => g[e1][m]
      BY <3>2, <3>3, <3>4, Zenon
    <3>6. f[e1][m] \in {"unreadable", IF k \in J THEN "found" ELSE "absent"}
      BY <2>2, <3>2, <3>3
    <3> QED
      BY <3>5, <3>6 DEF e1
  <2> QED
    BY <2>7, <2>8, <2>9
<1>6. d \in good
  <2> HIDE DEF good
  <2>1. d \in 0..d
    BY <1>1
  <2> QED
    BY <1>1, <1>4, <1>5, <2>1, UpTo
<1>7. NodeOf(n, K, layer, low + d, B)
  BY <1>1
<1>8. /\ f[d][n] \in {"unreadable", IF k \in K THEN "found" ELSE "absent"}
      /\ f[d][n] = "unreadable" => g[d][n]
  BY <1>6, <1>7, Zenon
<1>9. /\ Descend(n, d, k) \in {"unreadable", IF k \in K THEN "found" ELSE "absent"}
      /\ Descend(n, d, k) = "unreadable" => PutFails(n, d, k)
  BY <1>2, <1>3, <1>8, Zenon
<1> QED
  BY <1>9 DEF d

-----------------------------------------------------------------------------
(* Inserting. *)

(* Links to the keys of K before and after k. *)
Splits(parts, K, k, layer, h, B) ==
    /\ LinkOf(parts[1], {x \in K : Before(x, k)}, layer, h, B)
    /\ LinkOf(parts[2], {x \in K : Before(k, x)}, layer, h, B)

(* The slot of a new key separates the keys before it from those after it. *)
SlotSplits(n, K, k) ==
    /\ Slot(n, k) \in 0..Len(n.keys)
    /\ Slot(n, k) # 0 => Slot(n, k) \in 1..Len(n.keys) /\ Before(n.keys[Slot(n, k)], k)
    /\ Slot(n, k) # Len(n.keys) => Slot(n, k) + 1 \in 1..Len(n.keys) /\ Before(k, n.keys[Slot(n, k) + 1])

LEMMA SlotOfNew ==
    ASSUME NEW layer \in [Key -> Nat], NEW B, NEW h \in 0..MaxHeight,
           NEW n, NEW K, NodeOf(n, K, layer, h, B), NEW k \in Key, k \notin K
    PROVE  SlotSplits(n, K, k)
<1>1. n.keys \in Seq(Key) /\ Sorted(n.keys)
  BY NodeIs
<1>2. \A i \in 1..Len(n.keys) : n.keys[i] \in K /\ n.keys[i] \in Key
  <2>1. KeysFit(n, K, layer, h)
    BY KeysOfNode
  <2> QED
    BY <1>1, <2>1 DEF KeysFit
<1> DEFINE i == Slot(n, k)
<1>3. i \in 0..Len(n.keys) /\ \A j \in 1..Len(n.keys) : Before(n.keys[j], k) <=> j <= i
  BY <1>1, SlotIs
<1> HIDE DEF i
<1>4. i # 0 => i \in 1..Len(n.keys) /\ Before(n.keys[i], k)
  BY <1>1, <1>3
<1>5. ASSUME i # Len(n.keys) PROVE i + 1 \in 1..Len(n.keys) /\ Before(k, n.keys[i + 1])
  <2>1. i + 1 \in 1..Len(n.keys) /\ ~(i + 1 <= i)
    BY <1>1, <1>3, <1>5
  <2> QED
    BY <1>2, <1>3, <2>1, KeysOrdered
<1> QED
  BY <1>3, <1>4, <1>5 DEF SlotSplits, i

(* The two parts of a node whose child is split. *)
LEMMA SplitNode ==
    ASSUME NEW layer \in [Key -> Nat], NEW B, B \subseteq {Nil, Blank}, Nil \in B, NEW h \in 0..MaxHeight,
           NEW n, NEW K, NodeOf(n, K, layer, h, B), NEW k \in Key, k \notin K,
           NEW p, Splits(p, Between(K, n.keys, Slot(n, k) + 1), k, layer, h, B)
    PROVE  Splits(<< LinkTo(WithLink(Part(n, 0, Slot(n, k)), Slot(n, k), p[1])),
                     LinkTo(WithLink(Part(n, Slot(n, k), Len(n.keys)), 0, p[2])) >>, K, k, layer, h + 1, B)
<1> DEFINE i == Slot(n, k)
           mid == Between(K, n.keys, i + 1)
<1>1. /\ K \subseteq Key /\ n.keys \in Seq(Key) /\ n \in Nodes(TreesOf[h])
      /\ Len(n.keys) \in Nat
  <2>1. K \subseteq Key /\ n.keys \in Seq(Key) /\ n \in Nodes(TreesOf[h])
    BY NodeIs
  <2> QED
    BY <2>1
<1>2. /\ i \in 0..Len(n.keys)
      /\ i # 0 => i \in 1..Len(n.keys) /\ Before(n.keys[i], k)
      /\ i # Len(n.keys) => i + 1 \in 1..Len(n.keys) /\ Before(k, n.keys[i + 1])
  <2>1. SlotSplits(n, K, k)
    BY SlotOfNew
  <2> QED
    BY <2>1 DEF SlotSplits
<1>3. \A j \in 1..Len(n.keys) : n.keys[j] \in Key
  BY <1>1
<1>4. \A x : x \in mid <=> /\ x \in K
                           /\ i = 0 \/ Before(n.keys[i], x)
                           /\ i = Len(n.keys) \/ Before(x, n.keys[i + 1])
  <2> HIDE DEF i
  <2>1. (i + 1 = 1 <=> i = 0) /\ (i + 1) - 1 = i /\ (i + 1 > Len(n.keys) <=> i = Len(n.keys))
    BY <1>1, <1>2, SMTT(30)
  <2> QED
    BY <2>1 DEF Between
<1>5. \A x \in mid : x \in Key /\ layer[x] < h
  <2>1. KeysFit(n, K, layer, h)
    BY KeysOfNode
  <2>2. i + 1 \in 1..Len(n.keys) + 1
    BY <1>1, <1>2
  <2> HIDE DEF i
  <2> QED
    BY <2>1, <2>2 DEF KeysFit
<1>6. /\ LinkOf(p[1], {x \in mid : Before(x, k)}, layer, h, B)
      /\ LinkOf(p[2], {x \in mid : Before(k, x)}, layer, h, B)
  BY DEF Splits
<1> HIDE DEF i, mid
<1>7. h + 1 \in 1..MaxHeight + 1 /\ (h + 1) - 1 = h
  BY Bounded
<1>8. LinkOf(LinkTo(WithLink(Part(n, 0, i), i, p[1])), {x \in K : Before(x, k)}, layer, h + 1, B)
  <2> DEFINE K1 == {x \in K : i = Len(n.keys) \/ Before(x, n.keys[i + 1])}
             q  == Part(n, 0, i)
             C  == {x \in mid : Before(x, k)}
             K2 == {x \in K : Before(x, k)}
  <2>1. NodeOf(q, K1, layer, h, B)
    <3>1. 0 \in 0..Len(n.keys) /\ 0 <= i
      BY <1>1, <1>2
    <3> QED
      BY <1>2, <3>1, PartNode
  <2>2. Len(q.keys) = i /\ \A j \in 1..i : q.keys[j] = n.keys[j]
    <3>1. /\ Len(Part(n, 0, i).keys) = i - 0
          /\ \A j \in 1..i - 0 : Part(n, 0, i).keys[j] = n.keys[0 + j]
      <4>1. 0 \in Nat /\ i \in Nat /\ 0 <= i /\ i <= Len(n.keys)
        BY <1>1, <1>2
      <4>2. IsPart(Part(n, 0, i), n, 0, i, TreesOf[h])
        BY <1>1, <4>1, PartIs
      <4> QED
        BY <4>2 DEF IsPart
    <3>2. i - 0 = i /\ \A j \in 1..i : 0 + j = j
      BY <1>1, <1>2
    <3> QED
      BY <3>1, <3>2
  <2> HIDE DEF q
  <2>3. i \in 0..Len(q.keys)
    BY <1>2, <2>2
  <2>4. ASSUME NEW S PROVE \A x : x \in Between(S, q.keys, i + 1) <=> x \in S /\ (i = 0 \/ Before(n.keys[i], x))
    <3>1. (i + 1 = 1 <=> i = 0) /\ (i + 1) - 1 = i /\ i + 1 > Len(q.keys) /\ (i # 0 => i \in 1..i)
      BY <1>2, <2>2
    <3> QED
      BY <2>2, <3>1 DEF Between
  <2>5. \A x \in C : x \in Between(Key, q.keys, i + 1) /\ layer[x] < h
    BY <1>4, <1>5, <2>4
  <2>6. \A x : x \in K2 <=> x \in C \/ (x \in K1 /\ x \notin Between(K1, q.keys, i + 1))
    <3>1. \A x : x \in Between(K1, q.keys, i + 1) <=> x \in mid
      BY <1>4, <2>4
    <3>2. \A x \in K1 : x \notin mid => Before(x, k)
      BY <1>1, <1>2, <1>3, <1>4, KeysOrdered
    <3>3. \A x \in K : Before(x, k) => x \in K1
      BY <1>1, <1>2, <1>3, KeysOrdered
    <3> QED
      BY <1>4, <3>1, <3>2, <3>3
  <2> HIDE DEF K1, C, K2
  <2>7. LinkOf(p[1], C, layer, h, B)
    BY <1>6 DEF C
  <2>8. NodeOf(WithLink(q, i, p[1]), K2, layer, h, B)
    BY <2>1, <2>3, <2>5, <2>6, <2>7, SetLink
  <2>9. LinkOf(LinkTo(WithLink(q, i, p[1])), K2, layer, h + 1, B)
    BY <1>7, <2>8, LinkToIs
  <2> QED
    BY <2>9 DEF q, K2
<1>9. LinkOf(LinkTo(WithLink(Part(n, i, Len(n.keys)), 0, p[2])), {x \in K : Before(k, x)}, layer, h + 1, B)
  <2> DEFINE m  == Len(n.keys)
             K1 == {x \in K : i = 0 \/ Before(n.keys[i], x)}
             q  == Part(n, i, m)
             C  == {x \in mid : Before(k, x)}
             K2 == {x \in K : Before(k, x)}
  <2>1. NodeOf(q, K1, layer, h, B)
    <3>1. m \in 0..Len(n.keys) /\ i <= m
      BY <1>1, <1>2
    <3> QED
      BY <1>2, <3>1, PartNode
  <2>2. Len(q.keys) = m - i /\ \A j \in 1..m - i : q.keys[j] = n.keys[i + j]
    <3>1. m \in Nat /\ i \in Nat /\ i <= m /\ m <= Len(n.keys)
      BY <1>1, <1>2
    <3> HIDE DEF m
    <3>2. /\ Len(Part(n, i, m).keys) = m - i
          /\ \A j \in 1..m - i : Part(n, i, m).keys[j] = n.keys[i + j]
      <4>1. IsPart(Part(n, i, m), n, i, m, TreesOf[h])
        BY <1>1, <3>1, PartIs
      <4> QED
        BY <4>1 DEF IsPart
    <3> QED
      BY <3>2
  <2> HIDE DEF q
  <2>3. 0 \in 0..Len(q.keys)
    BY <1>1, <1>2, <2>2
  <2>4. ASSUME NEW S PROVE \A x : x \in Between(S, q.keys, 0 + 1) <=> x \in S /\ (i = m \/ Before(x, n.keys[i + 1]))
    <3>1. 0 + 1 = 1 /\ (1 > Len(q.keys) <=> i = m) /\ (i # m => 1 \in 1..m - i)
      BY <1>1, <1>2, <2>2
    <3>2. i # m => q.keys[1] = n.keys[i + 1]
      BY <2>2, <3>1
    <3> QED
      BY <3>1, <3>2 DEF Between
  <2>5. \A x \in C : x \in Between(Key, q.keys, 0 + 1) /\ layer[x] < h
    BY <1>4, <1>5, <2>4
  <2>6. \A x : x \in K2 <=> x \in C \/ (x \in K1 /\ x \notin Between(K1, q.keys, 0 + 1))
    <3>1. \A x : x \in Between(K1, q.keys, 0 + 1) <=> x \in mid
      BY <1>4, <2>4
    <3>2. \A x \in K1 : x \notin mid => Before(k, x)
      BY <1>1, <1>2, <1>3, <1>4, KeysOrdered
    <3>3. \A x \in K : Before(k, x) => x \in K1
      BY <1>1, <1>2, <1>3, KeysOrdered
    <3> QED
      BY <1>4, <3>1, <3>2, <3>3
  <2> HIDE DEF m, K1, C, K2
  <2>7. LinkOf(p[2], C, layer, h, B)
    BY <1>6 DEF C
  <2>8. NodeOf(WithLink(q, 0, p[2]), K2, layer, h, B)
    BY <2>1, <2>3, <2>5, <2>6, <2>7, SetLink
  <2>9. LinkOf(LinkTo(WithLink(q, 0, p[2])), K2, layer, h + 1, B)
    BY <1>7, <2>8, LinkToIs
  <2> QED
    BY <2>9 DEF q, K2, m
<1> QED
  BY <1>8, <1>9 DEF Splits, i

(* A subtree that can be split is split into the keys before and after k. *)
LEMMA SplitFits ==
    ASSUME NEW layer \in [Key -> Nat], NEW B, B \subseteq {Nil, Blank}, Nil \in B,
           NEW h \in 0..MaxHeight + 1, NEW l, NEW K, LinkOf(l, K, layer, h, B),
           NEW k \in Key, k \notin K, ~SplitFails(l, k)
    PROVE  Splits(Split(l, k), K, k, layer, h, B)
<1>1. PICK f : IsSplit(f, k) /\ \A m : Split(m, k) = f[m]
  BY SplitIs
<1>2. PICK g : IsSplitFails(g, k) /\ \A m : SplitFails(m, k) = g[m]
  BY SplitFailsIs
<1> DEFINE good == {e \in 0..MaxHeight + 1 : \A m, J :
                       LinkOf(m, J, layer, e, B) /\ k \notin J /\ ~g[m] => Splits(f[m], J, k, layer, e, B)}
<1>3. ASSUME NEW e \in 0..MaxHeight + 1, NEW m, NEW J, m \in B, J = {}
      PROVE  Splits(f[m], J, k, layer, e, B)
  <2>1. m \in Tree /\ m \in {Nil, Blank}
    BY <1>3, LinkType, NoLink
  <2>2. f[m] = <<Nil, Nil>>
    BY <1>1, <2>1, Zenon DEF IsSplit
  <2>3. f[m][1] = Nil /\ f[m][2] = Nil
    BY <2>2
  <2>4. {x \in J : Before(x, k)} = {} /\ {x \in J : Before(k, x)} = {}
    BY <1>3
  <2>5. LinkOf(Nil, {}, layer, e, B)
    BY NoLink
  <2> QED
    BY <2>3, <2>4, <2>5 DEF Splits
<1>4. 0 \in good
  <2> SUFFICES ASSUME NEW m, NEW J, LinkOf(m, J, layer, 0, B) PROVE Splits(f[m], J, k, layer, 0, B)
    BY Bounded
  <2>1. m \in B /\ J = {}
    BY LinkIs
  <2>2. 0 \in 0..MaxHeight + 1
    BY Bounded
  <2> QED
    BY <1>3, <2>1, <2>2
<1>5. ASSUME NEW e \in 0..MaxHeight + 1, e \in good, e < MaxHeight + 1 PROVE e + 1 \in good
  <2>0. e \in 0..MaxHeight /\ e + 1 \in 0..MaxHeight + 1 /\ (e + 1) - 1 = e
    BY <1>5, Bounded
  <2> SUFFICES ASSUME NEW m, NEW J, LinkOf(m, J, layer, e + 1, B), k \notin J, ~g[m]
               PROVE  Splits(f[m], J, k, layer, e + 1, B)
    BY <2>0
  <2>1. CASE m \in B /\ J = {}
    BY <1>3, <2>0, <2>1
  <2>2. CASE ~(m \in B /\ J = {})
    <3> DEFINE i == Slot(m, k)
               l1 == Link(m, i)
               C == Between(J, m.keys, i + 1)
    <3>1. m \notin {Nil, Blank} /\ NodeOf(m, J, layer, e, B)
      BY <2>0, <2>2, LinkCases
    <3>2. m \in Tree
      BY <2>0, <3>1, NodeType
    <3>3. LinkOf(l1, C, layer, e, B) /\ k \notin C
      <4>1. \A j \in 1..Len(m.keys) + 1 : LinkOf(m.links[j], Between(J, m.keys, j), layer, e, B)
        BY <3>1, NodeIs
      <4>2. i + 1 \in 1..Len(m.keys) + 1
        <5>1. i \in 0..Len(m.keys)
          BY <2>0, <3>1, SlotOfNew DEF SlotSplits
        <5>2. Len(m.keys) \in Nat
          BY <2>0, <3>1, NodeType
        <5> HIDE DEF i
        <5> QED
          BY <5>1, <5>2
      <4>3. k \notin C
        BY DEF Between
      <4> QED
        BY <4>1, <4>2, <4>3 DEF Link
    <3>4. ~g[l1]
      BY <1>2, <3>1, <3>2, Zenon DEF IsSplitFails
    <3>5. Splits(f[l1], C, k, layer, e, B)
      BY <1>5, <3>3, <3>4, Zenon
    <3>6. f[m] = << LinkTo(WithLink(Part(m, 0, i), i, f[l1][1])),
                    LinkTo(WithLink(Part(m, i, Len(m.keys)), 0, f[l1][2])) >>
      BY <1>1, <3>1, <3>2, Zenon DEF IsSplit
    <3> DEFINE p == f[l1]
    <3> HIDE DEF p
    <3>7. /\ Splits(p, Between(J, m.keys, Slot(m, k) + 1), k, layer, e, B)
          /\ f[m] = << LinkTo(WithLink(Part(m, 0, i), i, p[1])),
                       LinkTo(WithLink(Part(m, i, Len(m.keys)), 0, p[2])) >>
      BY <3>5, <3>6 DEF p
    <3> QED
      BY <2>0, <3>1, <3>7, SplitNode, SMTT(30)
  <2> QED
    BY <2>1, <2>2
<1>6. h \in good
  <2> HIDE DEF good
  <2>1. MaxHeight + 1 \in Nat
    BY Bounded
  <2> QED
    BY <1>4, <1>5, <2>1, UpTo
<1>7. Splits(f[l], K, k, layer, h, B)
  <2>1. ~g[l]
    BY <1>2, Zenon
  <2> QED
    BY <1>6, <2>1, Zenon
<1> QED
  BY <1>1, <1>7, Zenon

(* What a node with a new key is, element by element. *)
IsPut(r, n, i, k, p) ==
    /\ Len(r.keys) = Len(n.keys) + 1
    /\ \A j \in 1..Len(n.keys) + 1 : r.keys[j] = IF j < i + 1 THEN n.keys[j] ELSE IF j = i + 1 THEN k ELSE n.keys[j - 1]
    /\ \A j \in 1..Len(n.keys) + 2 : r.links[j] = IF j < i + 1 THEN n.links[j] ELSE IF j = i + 1 THEN p[1]
                                                  ELSE IF j = i + 2 THEN p[2] ELSE n.links[j - 1]

LEMMA PutIntoIs ==
    ASSUME NEW T, NEW n \in Nodes(T), n.keys \in Seq(Key), NEW k \in Key,
           Split(Link(n, Slot(n, k)), k)[1] \in T, Split(Link(n, Slot(n, k)), k)[2] \in T
    PROVE  /\ PutInto(n, k) \in Nodes(T) /\ PutInto(n, k).keys \in Seq(Key)
           /\ IsPut(PutInto(n, k), n, Slot(n, k), k, Split(Link(n, Slot(n, k)), k))
<1> DEFINE i == Slot(n, k)
           p == Split(Link(n, i), k)
           w == WithLink(n, i, p[2])
           ks == InsertAt(n.keys, i + 1, k)
           ls == InsertAt(w.links, i + 1, p[1])
<1>0. PutInto(n, k) = [keys |-> ks, links |-> ls]
  BY Zenon DEF PutInto
<1>1. i \in 0..Len(n.keys) /\ Len(n.keys) \in Nat
  BY SlotType, NodesAre
<1>2. p[1] \in T /\ p[2] \in T
  OBVIOUS
<1> HIDE DEF p, i
<1>3. /\ w \in Nodes(T) /\ w.keys = n.keys
      /\ \A j \in 1..Len(n.keys) + 1 : w.links[j] = IF j = i + 1 THEN p[2] ELSE n.links[j]
  BY <1>1, <1>2, WithLinkIs
<1> HIDE DEF w
<1>4. w.links \in Seq(T) /\ Len(w.links) = Len(n.keys) + 1
  BY <1>3, NodesAre
<1>5. /\ ks \in Seq(Key) /\ Len(ks) = Len(n.keys) + 1
      /\ \A j \in 1..Len(n.keys) + 1 : ks[j] = IF j < i + 1 THEN n.keys[j] ELSE IF j = i + 1 THEN k ELSE n.keys[j - 1]
  <2>1. i + 1 \in 1..Len(n.keys) + 1
    BY <1>1
  <2> QED
    <3>1. ks \in Seq(Key) /\ IsInsert(ks, n.keys, i + 1, k)
      BY <2>1, InsertAtIs
    <3> HIDE DEF ks
    <3> QED
      BY <3>1 DEF IsInsert
<1>6. /\ ls \in Seq(T) /\ Len(ls) = Len(n.keys) + 2
      /\ \A j \in 1..Len(n.keys) + 2 : ls[j] = IF j < i + 1 THEN w.links[j] ELSE IF j = i + 1 THEN p[1] ELSE w.links[j - 1]
  <2>1. i + 1 \in 1..Len(w.links) + 1 /\ Len(w.links) + 1 = Len(n.keys) + 2
    BY <1>1, <1>4
  <2> DEFINE s == w.links
  <2>2. s \in Seq(T) /\ i + 1 \in 1..Len(s) + 1 /\ Len(s) + 1 = Len(n.keys) + 2
    BY <1>4, <2>1
  <2> HIDE DEF s
  <2>3. /\ InsertAt(s, i + 1, p[1]) \in Seq(T) /\ Len(InsertAt(s, i + 1, p[1])) = Len(s) + 1
        /\ \A j \in 1..Len(s) + 1 :
             InsertAt(s, i + 1, p[1])[j] = IF j < i + 1 THEN s[j] ELSE IF j = i + 1 THEN p[1] ELSE s[j - 1]
    <3> DEFINE u == InsertAt(s, i + 1, p[1])
    <3>1. u \in Seq(T) /\ IsInsert(u, s, i + 1, p[1])
      BY <1>2, <2>2, InsertAtIs
    <3> HIDE DEF u
    <3>2. /\ u \in Seq(T) /\ Len(u) = Len(s) + 1
          /\ \A j \in 1..Len(s) + 1 : u[j] = IF j < i + 1 THEN s[j] ELSE IF j = i + 1 THEN p[1] ELSE s[j - 1]
      BY <3>1 DEF IsInsert
    <3> QED
      BY <3>2 DEF u
  <2> QED
    BY <2>2, <2>3 DEF s
<1> HIDE DEF ks, ls
<1>7. ASSUME NEW j \in 1..Len(n.keys) + 2
      PROVE  ls[j] = IF j < i + 1 THEN n.links[j] ELSE IF j = i + 1 THEN p[1]
                     ELSE IF j = i + 2 THEN p[2] ELSE n.links[j - 1]
  <2>1. CASE j < i + 1
    <3>1. j \in 1..Len(n.keys) + 1 /\ j # i + 1
      BY <1>1, <2>1
    <3>2. w.links[j] = n.links[j]
      BY <1>3, <3>1
    <3> QED
      BY <1>6, <2>1, <3>2
  <2>2. CASE j = i + 1
    <3>1. ~(j < i + 1)
      BY <1>1, <2>2
    <3> QED
      BY <1>6, <2>2, <3>1
  <2>3. CASE j > i + 1
    <3>1. /\ j - 1 \in 1..Len(n.keys) + 1 /\ ~(j < i + 1) /\ j # i + 1
          /\ j - 1 = i + 1 <=> j = i + 2
      BY <1>1, <2>3
    <3>2. w.links[j - 1] = IF j = i + 2 THEN p[2] ELSE n.links[j - 1]
      BY <1>3, <3>1
    <3>3. ls[j] = w.links[j - 1]
      BY <1>6, <3>1
    <3> QED
      BY <3>1, <3>2, <3>3
  <2> QED
    BY <1>1, <2>1, <2>2, <2>3
<1> DEFINE r == [keys |-> ks, links |-> ls]
<1>8. r \in Nodes(T) /\ r.keys = ks /\ r.links = ls
  <2>1. ks \in Seq(SQLiteValue)
    <3>1. Key \subseteq SQLiteValue
      BY Keys
    <3>2. \A j \in 1..Len(ks) : ks[j] \in SQLiteValue
      BY <1>5, <3>1
    <3> QED
      BY <1>5, <3>2
  <2>2. Len(ls) = Len(ks) + 1
    BY <1>1, <1>5, <1>6
  <2> QED
    BY <1>6, <2>1, <2>2 DEF Nodes
<1> HIDE DEF r
<1>9. r \in Nodes(T) /\ r.keys \in Seq(Key) /\ IsPut(r, n, i, k, p)
  BY <1>5, <1>7, <1>8 DEF IsPut
<1> QED
  BY <1>0, <1>9, Zenon DEF r, i, p

(* A node takes a new key of its layer. *)
LEMMA PutIntoFits ==
    ASSUME NEW layer \in [Key -> Nat], NEW B, B \subseteq {Nil, Blank}, Nil \in B, NEW h \in 0..MaxHeight,
           NEW n, NEW K, NodeOf(n, K, layer, h, B), NEW k \in Key, k \notin K, layer[k] >= h,
           ~SplitFails(Link(n, Slot(n, k)), k)
    PROVE  NodeOf(PutInto(n, k), K \union {k}, layer, h, B)
<1> DEFINE i == Slot(n, k)
           m == Len(n.keys)
           mid == Between(K, n.keys, i + 1)
           p == Split(Link(n, i), k)
           r == PutInto(n, k)
           K2 == K \union {k}
<1>1. /\ K \subseteq Key /\ n.keys \in Seq(Key) /\ Sorted(n.keys) /\ n \in Nodes(TreesOf[h])
      /\ Holds(n.keys, {x \in K : layer[x] >= h})
      /\ \A j \in 1..m + 1 : LinkOf(n.links[j], Between(K, n.keys, j), layer, h, B)
  BY NodeIs
<1>2. m \in Nat /\ \A j \in 1..m : n.keys[j] \in Key
  BY <1>1
<1>3. /\ i \in 0..m
      /\ i # 0 => i \in 1..m /\ Before(n.keys[i], k)
      /\ i # m => i + 1 \in 1..m /\ Before(k, n.keys[i + 1])
  <2>1. SlotSplits(n, K, k)
    BY SlotOfNew
  <2> QED
    BY <2>1 DEF SlotSplits
<1>4. Splits(p, mid, k, layer, h, B)
  <2>1. i + 1 \in 1..m + 1
    <3> HIDE DEF i, m
    <3> QED
      BY <1>2, <1>3
  <2>2. LinkOf(Link(n, i), mid, layer, h, B)
    BY <1>1, <2>1 DEF Link
  <2>3. k \notin mid
    BY DEF Between
  <2>4. h \in 0..MaxHeight + 1
    BY Bounded
  <2> HIDE DEF mid
  <2> QED
    BY <2>2, <2>3, <2>4, SplitFits
<1>5. p[1] \in TreesOf[h] /\ p[2] \in TreesOf[h]
  <2>1. h \in 0..MaxHeight + 1
    BY Bounded
  <2> QED
    BY <1>4, <2>1, LinkType DEF Splits
<1>6. /\ r \in Nodes(TreesOf[h]) /\ r.keys \in Seq(Key)
      /\ IsPut(r, n, i, k, p)
  BY <1>1, <1>5, PutIntoIs
<1>7. \A x : x \in mid <=> /\ x \in K
                           /\ i = 0 \/ Before(n.keys[i], x)
                           /\ i = m \/ Before(x, n.keys[i + 1])
  <2> HIDE DEF i
  <2>1. (i + 1 = 1 <=> i = 0) /\ (i + 1) - 1 = i /\ (i + 1 > Len(n.keys) <=> i = Len(n.keys))
    BY <1>2, <1>3
  <2> QED
    BY <2>1 DEF Between
<1>8. /\ LinkOf(p[1], {x \in mid : Before(x, k)}, layer, h, B)
      /\ LinkOf(p[2], {x \in mid : Before(k, x)}, layer, h, B)
  BY <1>4 DEF Splits
<1>9. \A j \in 1..m : /\ j <= i => Before(n.keys[j], k)
                      /\ j > i => Before(k, n.keys[j])
  <2> SUFFICES ASSUME NEW j \in 1..m
               PROVE  (j <= i => Before(n.keys[j], k)) /\ (j > i => Before(k, n.keys[j]))
    OBVIOUS
  <2>1. Before(n.keys[j], k) <=> j <= i
    BY <1>1, SlotIs
  <2>2. n.keys[j] \in K
    <3>1. KeysFit(n, K, layer, h)
      BY KeysOfNode
    <3> QED
      BY <3>1 DEF KeysFit
  <2> HIDE DEF i, m
  <2>3. j <= i \/ j > i
    BY <1>2, <1>3
  <2> QED
    BY <1>1, <1>2, <1>3, <2>1, <2>2, KeysOrdered
<1>10. \A x : x \in {y \in K : layer[y] >= h} <=> \E j \in 1..m : n.keys[j] = x
  BY <1>1 DEF Holds
<1> HIDE DEF i, m, mid, p, r
<1>11. /\ Len(r.keys) = m + 1
       /\ \A j \in 1..m + 1 : r.keys[j] = IF j < i + 1 THEN n.keys[j] ELSE IF j = i + 1 THEN k ELSE n.keys[j - 1]
       /\ \A j \in 1..m + 2 : r.links[j] = IF j < i + 1 THEN n.links[j] ELSE IF j = i + 1 THEN p[1]
                                           ELSE IF j = i + 2 THEN p[2] ELSE n.links[j - 1]
  BY <1>6 DEF IsPut, m
<1>12. K2 \subseteq Key
  BY <1>1
<1>13. Sorted(r.keys)
  <2> SUFFICES ASSUME NEW j1 \in 1..m + 1, NEW j2 \in 1..m + 1, j1 < j2
               PROVE  Before(r.keys[j1], r.keys[j2])
    BY <1>11 DEF Sorted
  <2>0. \A a, b \in 1..m : a < b => Before(n.keys[a], n.keys[b])
    BY <1>1 DEF Sorted, m
  <2>1. CASE j2 < i + 1
    <3>1. j1 \in 1..m /\ j2 \in 1..m /\ j1 < i + 1
      BY <1>2, <1>3, <2>1
    <3> QED
      BY <1>11, <2>0, <2>1, <3>1
  <2>2. CASE j2 = i + 1
    <3>1. j1 \in 1..m /\ j1 < i + 1 /\ j1 <= i /\ ~(j2 < i + 1)
      BY <1>2, <1>3, <2>2
    <3> QED
      BY <1>9, <1>11, <2>2, <3>1
  <2>3. CASE j2 > i + 1
    <3>0. j2 - 1 \in 1..m /\ j2 - 1 > i /\ r.keys[j2] = n.keys[j2 - 1]
      BY <1>2, <1>3, <1>11, <2>3
    <3>1. CASE j1 < i + 1
      <4>1. j1 \in 1..m /\ j1 < j2 - 1
        BY <1>2, <1>3, <2>3, <3>1
      <4>2. r.keys[j1] = n.keys[j1]
        BY <1>11, <3>1
      <4> QED
        BY <2>0, <3>0, <4>1, <4>2
    <3>2. CASE j1 = i + 1
      <4>1. r.keys[j1] = k
        <5>1. ~(j1 < i + 1)
          BY <1>2, <1>3, <3>2
        <5> QED
          BY <1>11, <3>2, <5>1
      <4> QED
        BY <1>9, <3>0, <4>1
    <3>3. CASE j1 > i + 1
      <4>1. j1 - 1 \in 1..m /\ j1 - 1 < j2 - 1 /\ r.keys[j1] = n.keys[j1 - 1]
        BY <1>2, <1>3, <1>11, <3>3
      <4> QED
        BY <2>0, <3>0, <4>1
    <3> QED
      BY <1>2, <1>3, <3>1, <3>2, <3>3
  <2> QED
    BY <1>2, <1>3, <2>1, <2>2, <2>3
<1>14. Holds(r.keys, {x \in K2 : layer[x] >= h})
  <2>1. ASSUME NEW x \in K2, layer[x] >= h PROVE \E j \in 1..m + 1 : r.keys[j] = x
    <3>1. CASE x = k
      <4>1. i + 1 \in 1..m + 1 /\ ~(i + 1 < i + 1)
        BY <1>2, <1>3
      <4> QED
        BY <1>11, <3>1, <4>1
    <3>2. CASE x # k
      <4>1. PICK j \in 1..m : n.keys[j] = x
        BY <1>10, <2>1, <3>2
      <4>2. CASE j < i + 1
        <5>1. j \in 1..m + 1
          BY <1>2
        <5> QED
          BY <1>11, <4>1, <4>2, <5>1
      <4>3. CASE ~(j < i + 1)
        <5>1. j + 1 \in 1..m + 1 /\ ~(j + 1 < i + 1) /\ j + 1 # i + 1 /\ (j + 1) - 1 = j
          BY <1>2, <1>3, <4>3
        <5> QED
          BY <1>11, <4>1, <5>1
      <4> QED
        BY <4>2, <4>3
    <3> QED
      BY <3>1, <3>2
  <2>2. ASSUME NEW j \in 1..m + 1 PROVE r.keys[j] \in K2 /\ layer[r.keys[j]] >= h
    <3>1. CASE j < i + 1
      <4>1. j \in 1..m /\ r.keys[j] = n.keys[j]
        BY <1>2, <1>3, <1>11, <3>1
      <4> QED
        BY <1>10, <4>1
    <3>2. CASE j = i + 1
      <4>1. r.keys[j] = k
        <5>1. ~(j < i + 1)
          BY <1>2, <1>3, <3>2
        <5> QED
          BY <1>11, <3>2, <5>1
      <4> QED
        BY <4>1
    <3>3. CASE j > i + 1
      <4>1. j - 1 \in 1..m /\ r.keys[j] = n.keys[j - 1]
        BY <1>2, <1>3, <1>11, <3>3
      <4> QED
        BY <1>10, <4>1
    <3> QED
      BY <1>2, <1>3, <3>1, <3>2, <3>3
  <2> QED
    BY <1>11, <2>1, <2>2 DEF Holds
<1>15. ASSUME NEW j \in 1..m + 2 PROVE LinkOf(r.links[j], Between(K2, r.keys, j), layer, h, B)
  <2>0. /\ \A x : x \in Between(K2, r.keys, j) <=>
                /\ x \in K2
                /\ j = 1 \/ Before(r.keys[j - 1], x)
                /\ j > m + 1 \/ Before(x, r.keys[j])
    BY <1>11 DEF Between
  <2>1. CASE j < i + 1
    <3>1. j \in 1..m /\ ~(j > m + 1) /\ ~(j > m) /\ j <= i /\ j \in 1..m + 1
      BY <1>2, <1>3, <2>1
    <3>2. r.keys[j] = n.keys[j] /\ r.links[j] = n.links[j]
      BY <1>11, <2>1, <3>1
    <3>3. j # 1 => r.keys[j - 1] = n.keys[j - 1]
      <4>1. j # 1 => j - 1 \in 1..m + 1 /\ j - 1 < i + 1
        BY <1>2, <1>3, <2>1
      <4> QED
        BY <1>11, <4>1
    <3>4. ~Before(k, n.keys[j])
      BY <1>2, <1>9, <3>1, KeysOrdered
    <3>5. \A x : x \in Between(K, n.keys, j) <=>
                /\ x \in K
                /\ j = 1 \/ Before(n.keys[j - 1], x)
                /\ Before(x, n.keys[j])
      BY <3>1 DEF Between, m
    <3>6. Between(K2, r.keys, j) = Between(K, n.keys, j)
      BY <2>0, <3>1, <3>2, <3>3, <3>4, <3>5
    <3> QED
      BY <1>1, <3>1, <3>2, <3>6
  <2>2. CASE j = i + 1
    <3>1. /\ ~(j > m + 1) /\ ~(j < i + 1) /\ j \in 1..m + 1 /\ (j = 1 <=> i = 0) /\ j - 1 = i
      BY <1>2, <1>3, <2>2
    <3>2. r.keys[j] = k /\ r.links[j] = p[1]
      BY <1>11, <2>2, <3>1
    <3>3. i # 0 => r.keys[i] = n.keys[i]
      <4>1. i # 0 => i \in 1..m + 1 /\ i < i + 1
        BY <1>2, <1>3
      <4> QED
        BY <1>11, <4>1
    <3>4. \A x : x \in Between(K2, r.keys, j) <=>
                x \in K2 /\ (i = 0 \/ Before(n.keys[i], x)) /\ Before(x, k)
      BY <2>0, <3>1, <3>2, <3>3
    <3>5. Between(K2, r.keys, j) = {x \in mid : Before(x, k)}
      <4>1. \A x \in K : Before(x, k) => i = m \/ Before(x, n.keys[i + 1])
        BY <1>1, <1>2, <1>3, KeysOrdered
      <4>2. ~Before(k, k)
        BY KeysOrdered
      <4> QED
        BY <1>7, <3>4, <4>1, <4>2
    <3> QED
      BY <1>8, <3>2, <3>5
  <2>3. CASE j = i + 2
    <3>1. /\ (j > m + 1 <=> i = m) /\ ~(j < i + 1) /\ j # i + 1 /\ j # 1 /\ j - 1 = i + 1
          /\ i + 1 \in 1..m + 1 /\ ~(i + 1 < i + 1)
      BY <1>2, <1>3, <2>3
    <3>2. r.keys[j - 1] = k /\ r.links[j] = p[2]
      BY <1>11, <2>3, <3>1
    <3>3. i # m => r.keys[j] = n.keys[i + 1]
      <4>1. i # m => j \in 1..m + 1
        BY <1>2, <1>3, <2>3
      <4> QED
        BY <1>11, <3>1, <4>1
    <3>4. \A x : x \in Between(K2, r.keys, j) <=>
                x \in K2 /\ Before(k, x) /\ (i = m \/ Before(x, n.keys[i + 1]))
      BY <2>0, <3>1, <3>2, <3>3
    <3>5. Between(K2, r.keys, j) = {x \in mid : Before(k, x)}
      <4>1. \A x \in K : Before(k, x) => i = 0 \/ Before(n.keys[i], x)
        BY <1>1, <1>2, <1>3, KeysOrdered
      <4>2. ~Before(k, k)
        BY KeysOrdered
      <4> QED
        BY <1>7, <3>4, <4>1, <4>2
    <3> QED
      BY <1>8, <3>2, <3>5
  <2>4. CASE j > i + 2
    <3>1. /\ ~(j < i + 1) /\ j # i + 1 /\ j # i + 2 /\ j # 1 /\ j - 1 # 1
          /\ j - 1 \in 1..m + 1 /\ (j - 1) - 1 \in 1..m /\ (j - 1) - 1 > i
          /\ (j > m + 1 <=> j - 1 > m)
      BY <1>2, <1>3, <2>4
    <3>2. r.keys[j - 1] = n.keys[(j - 1) - 1] /\ r.links[j] = n.links[j - 1]
      <4>1. ~(j - 1 < i + 1) /\ j - 1 # i + 1
        BY <1>2, <1>3, <2>4
      <4> QED
        BY <1>11, <3>1, <4>1
    <3>3. ~(j > m + 1) => r.keys[j] = n.keys[j - 1]
      <4>1. ~(j > m + 1) => j \in 1..m + 1
        BY <1>2
      <4> QED
        BY <1>11, <3>1, <4>1
    <3>4. ~Before(n.keys[(j - 1) - 1], k)
      <4>1. Before(k, n.keys[(j - 1) - 1]) /\ n.keys[(j - 1) - 1] \in Key
        BY <1>2, <1>9, <3>1
      <4> QED
        BY <4>1, KeysOrdered
    <3>5. \A x : x \in Between(K, n.keys, j - 1) <=>
                /\ x \in K
                /\ Before(n.keys[(j - 1) - 1], x)
                /\ j - 1 > m \/ Before(x, n.keys[j - 1])
      BY <3>1 DEF Between, m
    <3>6. Between(K2, r.keys, j) = Between(K, n.keys, j - 1)
      BY <2>0, <3>1, <3>2, <3>3, <3>4, <3>5
    <3> QED
      BY <1>1, <3>1, <3>2, <3>6
  <2> QED
    BY <1>2, <1>3, <2>1, <2>2, <2>3, <2>4
<1>16. \A j \in 1..Len(r.keys) + 1 : LinkOf(r.links[j], Between(K2, r.keys, j), layer, h, B)
  <2>1. Len(r.keys) + 1 = m + 2
    BY <1>2, <1>11
  <2> QED
    BY <1>15, <2>1
<1> HIDE DEF K2
<1>17. NodeOf(r, K2, layer, h, B)
  <2>1. Holds(r.keys, {x \in K2 : layer[x] >= h})
    BY <1>14
  <2> QED
    BY <1>6, <1>12, <1>13, <1>16, <2>1, NodeIs
<1> QED
  BY <1>17 DEF r, K2

LEMMA EmptySlot ==
    ASSUME NEW k
    PROVE  EmptyNode \in Tree /\ Slot(EmptyNode, k) = 0 /\ Link(EmptyNode, Slot(EmptyNode, k)) = Nil
<1>1. EmptyNode.keys = <<>> /\ EmptyNode.links[1] = Nil
  BY DEF EmptyNode
<1>2. Slot(EmptyNode, k) = 0
  <2>1. EmptyNode.keys \in Seq(Key) /\ Len(EmptyNode.keys) = 0
    BY <1>1
  <2>2. Slot(EmptyNode, k) \in 0..Len(EmptyNode.keys)
    BY <2>1, SlotType
  <2> QED
    BY <2>1, <2>2
<1>3. EmptyNode \in Tree
  <2>1. NodeOf(EmptyNode, {}, [x \in Key |-> 0], 0, {Nil}) /\ 0 \in 0..MaxHeight
    BY EmptyIs, Bounded
  <2> QED
    BY <2>1, NodeType
<1> QED
  BY <1>1, <1>2, <1>3 DEF Link

(* A node takes a new key, in it or in a node below it. *)
LEMMA PutBelowFits ==
    ASSUME NEW layer \in [Key -> Nat], NEW B, B \subseteq {Nil, Blank}, Nil \in B, NEW h \in 0..MaxHeight,
           NEW n, NEW K, NodeOf(n, K, layer, h, B), NEW k \in Key, k \notin K,
           ~PutFails(n, DepthIn(h, layer, k), k)
    PROVE  NodeOf(PutBelow(n, DepthIn(h, layer, k), k), K \union {k}, layer, h, B)
<1> DEFINE d == DepthIn(h, layer, k)
           low == h - d
<1>1. /\ d \in 0..h /\ d \in Nat /\ low \in Nat /\ layer[k] \in Nat /\ layer[k] >= low
      /\ (d > 0 => layer[k] = low) /\ h = low + d /\ h \in Nat
  <2>1. h \in Nat
    OBVIOUS
  <2>2. d \in 0..h /\ layer[k] >= h - d /\ (d > 0 => layer[k] = h - d)
    BY <2>1, DepthIs
  <2> HIDE DEF d
  <2> QED
    BY <2>1, <2>2
<1>0. ~PutFails(n, d, k)
  OBVIOUS
<1> HIDE DEF d, low
<1>2. PICK f : IsPutBelow(f, k, d) /\ \A m : PutBelow(m, d, k) = f[d][m]
  <2>1. d \in Nat
    BY <1>1
  <2> QED
    BY <2>1, PutBelowIs
<1>3. PICK g : IsPutFails(g, k, d) /\ \A m : PutFails(m, d, k) = g[d][m]
  <2>1. d \in Nat
    BY <1>1
  <2> QED
    BY <2>1, PutFailsIs
<1> DEFINE good == {e \in 0..d : \A m, J : NodeOf(m, J, layer, low + e, B) /\ k \notin J /\ ~g[e][m] =>
                       NodeOf(f[e][m], J \union {k}, layer, low + e, B)}
<1>4. 0 \in good
  <2> SUFFICES ASSUME NEW m, NEW J, NodeOf(m, J, layer, low + 0, B), k \notin J, ~g[0][m]
               PROVE  NodeOf(f[0][m], J \union {k}, layer, low + 0, B)
    BY <1>1
  <2>1. low + 0 = low /\ low \in 0..MaxHeight /\ NodeOf(m, J, layer, low, B)
    BY <1>1, Bounded
  <2>2. m \in Tree
    BY <2>1, NodeType
  <2>3. HasKey(m, Slot(m, k), k) <=> k \in J
    BY <1>1, <2>1, AtBottom
  <2>4. 0 \in 0..d
    BY <1>1
  <2>5. g[0][m] = (~HasKey(m, Slot(m, k), k) /\ SplitFails(Link(m, Slot(m, k)), k))
    BY <1>3, <2>2, <2>4, ZenonT(60) DEF IsPutFails
  <2>6. ~SplitFails(Link(m, Slot(m, k)), k)
    BY <2>3, <2>5, Zenon
  <2>7. f[0][m] = PutInto(m, k)
    BY <1>2, <2>2, <2>4, ZenonT(60) DEF IsPutBelow
  <2>8. NodeOf(PutInto(m, k), J \union {k}, layer, low, B)
    BY <1>1, <2>1, <2>6, PutIntoFits
  <2> QED
    BY <2>1, <2>7, <2>8
<1>5. ASSUME NEW e \in 0..d PROVE ~g[e][EmptyNode]
  <2>1. EmptyNode \in Tree /\ Link(EmptyNode, Slot(EmptyNode, k)) = Nil
    BY EmptySlot
  <2>2. CASE e = 0
    <3>1. g[e][EmptyNode] = (~HasKey(EmptyNode, Slot(EmptyNode, k), k)
                                /\ SplitFails(Link(EmptyNode, Slot(EmptyNode, k)), k))
      BY <1>3, <2>1, <2>2, ZenonT(60) DEF IsPutFails
    <3>2. ~SplitFails(Nil, k)
      <4>1. PICK s : IsSplitFails(s, k) /\ \A m : SplitFails(m, k) = s[m]
        BY SplitFailsIs
      <4>2. Nil \in Tree /\ Nil # Blank
        BY NodesAre, TreeFacts, Bounded
      <4>3. s[Nil] = (Nil = Blank \/ (Nil # Nil /\ s[Link(Nil, Slot(Nil, k))]))
        BY <4>1, <4>2, Zenon DEF IsSplitFails
      <4> QED
        BY <4>1, <4>2, <4>3, Zenon
    <3> QED
      BY <2>1, <3>1, <3>2, Zenon
  <2>3. CASE e # 0
    <3>1. g[e][EmptyNode] = \/ Link(EmptyNode, Slot(EmptyNode, k)) = Blank
                            \/ Link(EmptyNode, Slot(EmptyNode, k)) # Nil
                                 /\ g[e - 1][Link(EmptyNode, Slot(EmptyNode, k))]
      BY <1>3, <2>1, <2>3, ZenonT(60) DEF IsPutFails
    <3>2. Nil # Blank
      BY NodesAre
    <3> QED
      BY <2>1, <3>1, <3>2, Zenon
  <2> QED
    BY <2>2, <2>3
<1>6. ASSUME NEW e \in 0..d, e \in good, e < d PROVE e + 1 \in good
  <2> SUFFICES ASSUME NEW m, NEW J, NodeOf(m, J, layer, low + (e + 1), B), k \notin J, ~g[e + 1][m]
               PROVE  NodeOf(f[e + 1][m], J \union {k}, layer, low + (e + 1), B)
    BY <1>1, <1>6
  <2> DEFINE up == low + (e + 1)
             i == Slot(m, k)
             l == Link(m, i)
             C == Between(J, m.keys, i + 1)
             child == IF l = Nil THEN EmptyNode ELSE l
             e1 == e + 1
  <2>1. up \in 1..MaxHeight /\ up \in 0..MaxHeight /\ layer[k] < up /\ up - 1 = low + e /\ low + e \in 0..MaxHeight
    BY <1>1, <1>6, Bounded
  <2>2. e1 \in 0..d /\ e1 # 0 /\ e1 - 1 = e
    BY <1>1, <1>6
  <2>3. NodeOf(m, J, layer, up, B) /\ ~g[e1][m]
    OBVIOUS
  <2> HIDE DEF up, e1
  <2>4. StepsDown(m, J, layer, up, B, k)
    BY <2>1, <2>3, StepDown
  <2>5. /\ i \in 0..Len(m.keys) /\ m \in Tree
        /\ k \in Between(Key, m.keys, i + 1)
        /\ \A x \in C : x \in Key /\ layer[x] < up
        /\ (l \notin {Nil, Blank} => NodeOf(l, C, layer, up - 1, B))
        /\ l \in {Nil, Blank} => C = {}
    BY <2>4, Zenon DEF StepsDown
  <2>6. f[e1][m] = WithLink(m, i, f[e1 - 1][child])
    BY <1>2, <2>2, <2>5, ZenonT(60) DEF IsPutBelow
  <2>7. g[e1][m] = (l = Blank \/ (l # Nil /\ g[e1 - 1][l]))
    BY <1>3, <2>2, <2>5, ZenonT(60) DEF IsPutFails
  <2>8. \A x : x \in C => x \in J /\ x \in Between(Key, m.keys, i + 1)
    <3>1. J \subseteq Key
      BY <2>1, <2>3, NodeType
    <3> QED
      BY <3>1 DEF Between
  <2>9. k \notin C
    BY <2>8
  <2> HIDE DEF i, C, l
  <2>10. NodeOf(child, C, layer, low + e, B) /\ ~g[e][child]
    <3>1. CASE l = Nil
      <4>1. child = EmptyNode /\ C = {}
        BY <2>5, <3>1
      <4>2. NodeOf(EmptyNode, {}, layer, low + e, B)
        BY <2>1, EmptyIs
      <4> QED
        BY <1>5, <4>1, <4>2
    <3>2. CASE l # Nil
      <4>1. child = l
        BY <3>2
      <4>2. l # Blank /\ ~g[e1 - 1][l]
        BY <2>3, <2>7, <3>2, Zenon
      <4>3. NodeOf(l, C, layer, up - 1, B)
        BY <2>5, <3>2, <4>2
      <4> QED
        BY <2>1, <2>2, <4>1, <4>2, <4>3
    <3> QED
      BY <3>1, <3>2
  <2> HIDE DEF child
  <2> DEFINE q == f[e][child]
             C2 == C \union {k}
             K2 == J \union {k}
  <2>11. NodeOf(q, C2, layer, low + e, B)
    BY <1>6, <2>9, <2>10, Zenon
  <2>12. f[e1][m] = WithLink(m, i, q)
    BY <2>2, <2>6
  <2> HIDE DEF q
  <2>13. LinkOf(q, C2, layer, up, B)
    <3>1. C2 # {}
      OBVIOUS
    <3> HIDE DEF C2
    <3>2. q # EmptyNode
      BY <2>1, <2>11, <3>1, EmptyIs
    <3>3. NodeOf(q, C2, layer, up - 1, B) /\ up \in 1..MaxHeight + 1
      BY <2>1, <2>11, Bounded
    <3> QED
      BY <3>2, <3>3, NodeLink
  <2>14. /\ \A x \in C2 : x \in Between(Key, m.keys, i + 1) /\ layer[x] < up
         /\ \A x : x \in K2 <=> x \in C2 \/ (x \in J /\ x \notin Between(J, m.keys, i + 1))
    <3>1. \A x \in C2 : x \in Between(Key, m.keys, i + 1) /\ layer[x] < up
      BY <2>1, <2>5, <2>8
    <3>2. C = Between(J, m.keys, i + 1)
      BY DEF C
    <3>3. \A x : x \in K2 <=> x \in C2 \/ (x \in J /\ x \notin C)
      BY <2>8
    <3> QED
      BY <3>1, <3>2, <3>3
  <2> HIDE DEF C2, K2
  <2>15. NodeOf(WithLink(m, i, q), K2, layer, up, B)
    BY <2>1, <2>3, <2>5, <2>13, <2>14, SetLink
  <2> QED
    BY <2>12, <2>15 DEF K2, up, e1
<1>7. d \in good
  <2> HIDE DEF good
  <2>1. d \in 0..d
    BY <1>1
  <2> QED
    BY <1>1, <1>4, <1>6, <2>1, UpTo
<1>8. NodeOf(f[d][n], K \union {k}, layer, low + d, B)
  <2>1. NodeOf(n, K, layer, low + d, B)
    BY <1>1
  <2>2. ~g[d][n]
    BY <1>0, <1>3, Zenon
  <2> QED
    BY <1>7, <2>1, <2>2, Zenon
<1>9. NodeOf(PutBelow(n, d, k), K \union {k}, layer, h, B)
  <2>1. NodeOf(f[d][n], K \union {k}, layer, h, B)
    BY <1>1, <1>8
  <2> QED
    BY <1>2, <2>1, Zenon
<1> QED
  BY <1>9 DEF d

-----------------------------------------------------------------------------
(* Deleting. *)

(* Where no link is Blank, only Nil holds no keys. *)
LEMMA NoneIsNil ==
    ASSUME NEW layer \in [Key -> Nat], NEW h \in 0..MaxHeight
    PROVE  /\ \A l : LinkOf(l, {}, layer, h + 1, {Nil}) => l = Nil
           /\ \A n : NodeOf(n, {}, layer, h, {Nil}) => n = EmptyNode
<1> DEFINE good == {e \in 0..MaxHeight + 1 : \A l : LinkOf(l, {}, layer, e, {Nil}) => l = Nil}
<1>1. 0 \in good
  <2>1. ASSUME NEW l, LinkOf(l, {}, layer, 0, {Nil}) PROVE l = Nil
    <3>1. {Nil} \subseteq {Nil, Blank}
      OBVIOUS
    <3>2. l \in {Nil}
      BY <2>1, <3>1, LinkIs
    <3> QED
      BY <3>2
  <2> QED
    BY <2>1, Bounded
<1>2. ASSUME NEW e \in 0..MaxHeight, e \in good, NEW n, NodeOf(n, {}, layer, e, {Nil})
      PROVE  n = EmptyNode
  <2>1. /\ n \in Nodes(TreesOf[e]) /\ n.keys \in Seq(Key) /\ n.links \in Seq(TreesOf[e])
        /\ Len(n.keys) \in Nat /\ Len(n.links) = Len(n.keys) + 1
    BY <1>2, NodeType
  <2>2. Len(n.keys) = 0
    <3>1. KeysFit(n, {}, layer, e)
      BY <1>2, KeysOfNode
    <3>2. ~(1 \in 1..Len(n.keys))
      BY <3>1 DEF KeysFit
    <3> QED
      BY <2>1, <3>2
  <2>3. LinkOf(n.links[1], {}, layer, e, {Nil})
    <3>1. 1 \in 1..Len(n.keys) + 1
      BY <2>2
    <3>2. Between({}, n.keys, 1) = {}
      BY DEF Between
    <3>3. \A j \in 1..Len(n.keys) + 1 : LinkOf(n.links[j], Between({}, n.keys, j), layer, e, {Nil})
      BY <1>2, NodeIs
    <3> QED
      BY <3>1, <3>2, <3>3
  <2>4. n.links[1] = Nil
    BY <1>2, <2>3
  <2>5. n.keys = <<>> /\ n.links = <<Nil>>
    <3>1. n.keys = <<>>
      BY <2>1, <2>2
    <3>2. \A T, s : s \in Seq(T) /\ Len(s) = 1 => s = <<s[1]>>
      OBVIOUS
    <3>3. Len(n.links) = 1
      BY <2>1, <2>2
    <3> QED
      BY <2>1, <2>4, <3>1, <3>2, <3>3
  <2>6. n = [keys |-> n.keys, links |-> n.links]
    BY <2>1 DEF Nodes
  <2> QED
    BY <2>5, <2>6 DEF EmptyNode
<1>3. ASSUME NEW e \in 0..MaxHeight + 1, e \in good, e < MaxHeight + 1 PROVE e + 1 \in good
  <2>0. e \in 0..MaxHeight /\ e + 1 \in 0..MaxHeight + 1 /\ (e + 1) - 1 = e
    BY <1>3, Bounded
  <2> SUFFICES ASSUME NEW l, LinkOf(l, {}, layer, e + 1, {Nil}) PROVE l = Nil
    BY <2>0
  <2>1. l = Nil \/ (l # EmptyNode /\ NodeOf(l, {}, layer, e, {Nil}))
    BY <2>0, LinkIs
  <2> QED
    BY <1>2, <1>3, <2>0, <2>1
<1>4. \A e \in 0..MaxHeight + 1 : e \in good
  <2> HIDE DEF good
  <2>1. MaxHeight + 1 \in Nat
    BY Bounded
  <2> QED
    BY <1>1, <1>3, <2>1, UpTo
<1>5. h + 1 \in 0..MaxHeight + 1 /\ h \in 0..MaxHeight + 1
  BY Bounded
<1> QED
  BY <1>2, <1>4, <1>5

(* What two nodes that are merged are, element by element. *)
IsMerged(r, a, b, l) ==
    /\ Len(r.keys) = Len(a.keys) + Len(b.keys)
    /\ \A j \in 1..Len(a.keys) : r.keys[j] = a.keys[j] /\ r.links[j] = a.links[j]
    /\ r.links[Len(a.keys) + 1] = l
    /\ \A j \in 1..Len(b.keys) : /\ r.keys[Len(a.keys) + j] = b.keys[j]
                                 /\ r.links[Len(a.keys) + 1 + j] = b.links[j + 1]

MergedBy(a, b, l) == [keys  |-> a.keys \o b.keys,
                      links |-> Front(a.links) \o <<l>> \o Tail(b.links)]

LEMMA MergedIs ==
    ASSUME NEW T, NEW a \in Nodes(T), NEW b \in Nodes(T), a.keys \in Seq(Key), b.keys \in Seq(Key), NEW l \in T
    PROVE  /\ MergedBy(a, b, l) \in Nodes(T) /\ MergedBy(a, b, l).keys \in Seq(Key)
           /\ IsMerged(MergedBy(a, b, l), a, b, l)
<1> DEFINE p  == Len(a.keys)
           q  == Len(b.keys)
           ks == a.keys \o b.keys
           u  == Front(a.links)
           v  == Tail(b.links)
           one == <<l>>
           w  == u \o one
           ls == w \o v
<1>1. /\ p \in Nat /\ q \in Nat /\ a.links \in Seq(T) /\ b.links \in Seq(T)
      /\ Len(a.links) = p + 1 /\ Len(b.links) = q + 1
  BY NodesAre
<1>2. /\ ks \in Seq(Key) /\ Len(ks) = p + q
      /\ \A j \in 1..p + q : ks[j] = IF j <= p THEN a.keys[j] ELSE b.keys[j - p]
  BY ConcatProperties
<1>3. u \in Seq(T) /\ Len(u) = p /\ \A j \in 1..p : u[j] = a.links[j]
  <2> DEFINE s == a.links
  <2>1. s \in Seq(T) /\ Len(s) = p + 1 /\ \A j \in 1..p : s[j] \in T
    BY <1>1
  <2> HIDE DEF s
  <2>2. /\ SubSeq(s, 1, p) \in Seq(T) /\ Len(SubSeq(s, 1, p)) = IF 1 <= p THEN p - 1 + 1 ELSE 0
        /\ \A j \in 1..p - 1 + 1 : SubSeq(s, 1, p)[j] = s[1 + j - 1]
    BY <1>1, <2>1, SubSeqProperties
  <2>3. u = SubSeq(s, 1, p)
    <3>1. Len(a.links) - 1 = p
      BY <1>1
    <3> QED
      BY <3>1, Zenon DEF Front, s
  <2> HIDE DEF u, p
  <2>4. Len(u) = p
    BY <1>1, <2>2, <2>3
  <2>5. ASSUME NEW j \in 1..p PROVE u[j] = s[j]
    <3>1. j \in 1..p - 1 + 1 /\ 1 + j - 1 = j
      BY <1>1
    <3> QED
      BY <2>2, <2>3, <3>1
  <2> QED
    BY <2>2, <2>3, <2>4, <2>5 DEF s
<1>4. v \in Seq(T) /\ Len(v) = q /\ \A j \in 1..q : v[j] = b.links[j + 1]
  <2>1. b.links # <<>>
    BY <1>1
  <2>2. /\ v \in Seq(T) /\ Len(v) = Len(b.links) - 1
        /\ \A j \in 1..Len(v) : v[j] = b.links[j + 1]
    BY <1>1, <2>1, HeadTailProperties
  <2>3. Len(b.links) - 1 = q
    BY <1>1
  <2> HIDE DEF v, q
  <2> QED
    BY <2>2, <2>3
<1>5. one \in Seq(T) /\ Len(one) = 1 /\ one[1] = l
  OBVIOUS
<1> HIDE DEF p, q, ks, u, v, one
<1>6. /\ w \in Seq(T) /\ Len(w) = p + 1
      /\ \A j \in 1..p : w[j] = a.links[j]
      /\ w[p + 1] = l
  <2>1. /\ u \o one \in Seq(T) /\ Len(u \o one) = Len(u) + Len(one)
        /\ \A j \in 1..Len(u) + Len(one) : (u \o one)[j] = IF j <= Len(u) THEN u[j] ELSE one[j - Len(u)]
    BY <1>3, <1>5, ConcatProperties
  <2>2. Len(w) = p + 1
    BY <1>3, <1>5, <2>1
  <2>3. ASSUME NEW j \in 1..p PROVE w[j] = a.links[j]
    BY <1>1, <1>3, <1>5, <2>1
  <2>4. w[p + 1] = l
    <3>1. w[p + 1] = one[(p + 1) - p] /\ (p + 1) - p = 1
      BY <1>1, <1>3, <1>5, <2>1
    <3> QED
      BY <1>5, <3>1
  <2> QED
    BY <2>1, <2>2, <2>3, <2>4
<1> HIDE DEF w
<1>7. /\ ls \in Seq(T) /\ Len(ls) = p + q + 1
      /\ \A j \in 1..p + 1 : ls[j] = w[j]
      /\ \A j \in 1..q : ls[p + 1 + j] = b.links[j + 1]
  <2>1. /\ w \o v \in Seq(T) /\ Len(w \o v) = Len(w) + Len(v)
        /\ \A j \in 1..Len(w) + Len(v) : (w \o v)[j] = IF j <= Len(w) THEN w[j] ELSE v[j - Len(w)]
    BY <1>4, <1>6, ConcatProperties
  <2>2. Len(ls) = p + q + 1
    BY <1>1, <1>4, <1>6, <2>1
  <2>3. ASSUME NEW j \in 1..p + 1 PROVE ls[j] = w[j]
    BY <1>1, <1>4, <1>6, <2>1
  <2>4. ASSUME NEW j \in 1..q PROVE ls[p + 1 + j] = b.links[j + 1]
    <3>1. p + 1 + j \in 1..Len(w) + Len(v) /\ ~(p + 1 + j <= Len(w)) /\ (p + 1 + j) - Len(w) = j
      BY <1>1, <1>4, <1>6
    <3>2. ls[p + 1 + j] = v[(p + 1 + j) - Len(w)]
      BY <2>1, <3>1
    <3> QED
      BY <1>4, <3>1, <3>2
  <2> QED
    BY <2>1, <2>2, <2>3, <2>4
<1> HIDE DEF ls
<1> DEFINE r == [keys |-> ks, links |-> ls]
<1>8. r \in Nodes(T) /\ r.keys = ks /\ r.links = ls
  <2>1. ks \in Seq(SQLiteValue)
    <3>1. Key \subseteq SQLiteValue
      BY Keys
    <3>2. \A j \in 1..Len(ks) : ks[j] \in SQLiteValue
      BY <1>2, <3>1
    <3> QED
      BY <1>2, <3>2
  <2>2. Len(ls) = Len(ks) + 1
    BY <1>1, <1>2, <1>7
  <2> QED
    BY <1>7, <2>1, <2>2 DEF Nodes
<1>9. r = MergedBy(a, b, l)
  BY DEF MergedBy, ks, ls, w, u, v, one
<1> HIDE DEF r
<1>10. IsMerged(r, a, b, l)
  <2>1. ASSUME NEW j \in 1..p PROVE ks[j] = a.keys[j] /\ ls[j] = a.links[j]
    <3>1. j \in 1..p + q /\ j <= p /\ j \in 1..p + 1
      BY <1>1
    <3> QED
      BY <1>2, <1>6, <1>7, <3>1
  <2>2. ASSUME NEW j \in 1..q PROVE ks[p + j] = b.keys[j] /\ ls[p + 1 + j] = b.links[j + 1]
    <3>1. p + j \in 1..p + q /\ ~(p + j <= p) /\ (p + j) - p = j
      BY <1>1
    <3>2. ks[p + j] = b.keys[(p + j) - p]
      BY <1>2, <3>1
    <3> QED
      BY <1>7, <3>1, <3>2
  <2>3. ls[p + 1] = l
    <3>1. p + 1 \in 1..p + 1
      BY <1>1
    <3> QED
      BY <1>6, <1>7, <3>1
  <2> QED
    BY <1>2, <1>8, <2>1, <2>2, <2>3 DEF IsMerged, p, q
<1> QED
  BY <1>2, <1>8, <1>9, <1>10

(* A node that joins two: all keys of one come before those of the other, and l *)
(* has the keys between the two nodes.                                          *)
LEMMA MergeNode ==
    ASSUME NEW layer \in [Key -> Nat], NEW B, B \subseteq {Nil, Blank}, NEW h \in 0..MaxHeight,
           NEW a, NEW K, NodeOf(a, K, layer, h, B), NEW b, NEW J, NodeOf(b, J, layer, h, B),
           \A x \in K : \A y \in J : Before(x, y),
           NEW l, LinkOf(l, Between(K, a.keys, Len(a.keys) + 1) \union Between(J, b.keys, 1), layer, h, B)
    PROVE  NodeOf(MergedBy(a, b, l), K \union J, layer, h, B)
<1> DEFINE p == Len(a.keys)
           q == Len(b.keys)
           r == MergedBy(a, b, l)
           K2 == K \union J
<1>1. /\ K \subseteq Key /\ a.keys \in Seq(Key) /\ Sorted(a.keys) /\ a \in Nodes(TreesOf[h])
      /\ Holds(a.keys, {x \in K : layer[x] >= h})
      /\ \A j \in 1..p + 1 : LinkOf(a.links[j], Between(K, a.keys, j), layer, h, B)
  BY NodeIs
<1>2. /\ J \subseteq Key /\ b.keys \in Seq(Key) /\ Sorted(b.keys) /\ b \in Nodes(TreesOf[h])
      /\ Holds(b.keys, {x \in J : layer[x] >= h})
      /\ \A j \in 1..q + 1 : LinkOf(b.links[j], Between(J, b.keys, j), layer, h, B)
  BY NodeIs
<1>3. p \in Nat /\ q \in Nat
  BY <1>1, <1>2
<1>4. /\ \A j \in 1..p : a.keys[j] \in K /\ a.keys[j] \in Key /\ layer[a.keys[j]] >= h
      /\ \A j \in 1..q : b.keys[j] \in J /\ b.keys[j] \in Key /\ layer[b.keys[j]] >= h
      /\ \A x \in Key : x \in K /\ layer[x] >= h => \E j \in 1..p : a.keys[j] = x
      /\ \A x \in Key : x \in J /\ layer[x] >= h => \E j \in 1..q : b.keys[j] = x
  <2>1. KeysFit(a, K, layer, h) /\ KeysFit(b, J, layer, h)
    BY KeysOfNode
  <2> QED
    BY <1>1, <1>2, <2>1 DEF KeysFit
<1>5. l \in TreesOf[h]
  BY LinkType, Bounded
<1>6. r \in Nodes(TreesOf[h]) /\ r.keys \in Seq(Key) /\ IsMerged(r, a, b, l)
  BY <1>1, <1>2, <1>5, MergedIs
<1> HIDE DEF r
<1>7. /\ Len(r.keys) = p + q
      /\ \A j \in 1..p : r.keys[j] = a.keys[j] /\ r.links[j] = a.links[j]
      /\ r.links[p + 1] = l
      /\ \A j \in 1..q : r.keys[p + j] = b.keys[j] /\ r.links[p + 1 + j] = b.links[j + 1]
  BY <1>6 DEF IsMerged
<1>8. LinkOf(l, Between(K, a.keys, p + 1) \union Between(J, b.keys, 1), layer, h, B)
  OBVIOUS
<1>9. K2 \subseteq Key
  BY <1>1, <1>2
<1>10. /\ \A i, j \in 1..p : i < j => Before(a.keys[i], a.keys[j])
       /\ \A i, j \in 1..q : i < j => Before(b.keys[i], b.keys[j])
  BY <1>1, <1>2 DEF Sorted
<1>11. ASSUME NEW S, NEW j, NEW x
       PROVE  /\ x \in Between(S, a.keys, j) <=> x \in S /\ (j = 1 \/ Before(a.keys[j - 1], x)) /\ (j > p \/ Before(x, a.keys[j]))
              /\ x \in Between(S, b.keys, j) <=> x \in S /\ (j = 1 \/ Before(b.keys[j - 1], x)) /\ (j > q \/ Before(x, b.keys[j]))
              /\ x \in Between(S, r.keys, j) <=> x \in S /\ (j = 1 \/ Before(r.keys[j - 1], x)) /\ (j > p + q \/ Before(x, r.keys[j]))
  BY <1>7 DEF Between
<1> HIDE DEF p, q
<1>12. Sorted(r.keys)
  <2> SUFFICES ASSUME NEW i \in 1..p + q, NEW j \in 1..p + q, i < j PROVE Before(r.keys[i], r.keys[j])
    BY <1>7 DEF Sorted
  <2>1. CASE j <= p
    <3>1. i \in 1..p /\ j \in 1..p
      BY <1>3, <2>1
    <3> QED
      BY <1>7, <1>10, <3>1
  <2>2. CASE i <= p /\ j > p
    <3>1. i \in 1..p /\ j - p \in 1..q /\ p + (j - p) = j
      BY <1>3, <2>2
    <3>2. r.keys[i] = a.keys[i] /\ r.keys[j] = b.keys[j - p]
      BY <1>7, <3>1
    <3> QED
      BY <1>4, <3>1, <3>2
  <2>3. CASE i > p
    <3>1. /\ i - p \in 1..q /\ p + (i - p) = i /\ j - p \in 1..q /\ p + (j - p) = j
          /\ i - p < j - p
      BY <1>3, <2>3
    <3>2. r.keys[i] = b.keys[i - p] /\ r.keys[j] = b.keys[j - p]
      BY <1>7, <3>1
    <3> QED
      BY <1>10, <3>1, <3>2
  <2> QED
    BY <1>3, <2>1, <2>2, <2>3
<1>13. Holds(r.keys, {x \in K2 : layer[x] >= h})
  <2>1. ASSUME NEW x \in K2, layer[x] >= h PROVE \E j \in 1..p + q : r.keys[j] = x
    <3>1. CASE x \in K
      <4>1. PICK j \in 1..p : a.keys[j] = x
        BY <1>1, <1>4, <2>1, <3>1
      <4>2. j \in 1..p + q /\ r.keys[j] = x
        BY <1>3, <1>7, <4>1
      <4> QED
        BY <4>2
    <3>2. CASE x \in J
      <4>1. PICK j \in 1..q : b.keys[j] = x
        BY <1>2, <1>4, <2>1, <3>2
      <4>2. p + j \in 1..p + q /\ r.keys[p + j] = x
        BY <1>3, <1>7, <4>1
      <4> QED
        BY <4>2
    <3> QED
      BY <3>1, <3>2
  <2>2. ASSUME NEW j \in 1..p + q PROVE r.keys[j] \in K2 /\ layer[r.keys[j]] >= h
    <3>1. CASE j <= p
      <4>1. j \in 1..p
        BY <1>3, <3>1
      <4> QED
        BY <1>4, <1>7, <4>1
    <3>2. CASE j > p
      <4>1. j - p \in 1..q /\ p + (j - p) = j
        BY <1>3, <3>2
      <4>2. r.keys[j] = b.keys[j - p]
        BY <1>7, <4>1
      <4> QED
        BY <1>4, <4>1, <4>2
    <3> QED
      BY <1>3, <3>1, <3>2
  <2> QED
    BY <1>7, <2>1, <2>2 DEF Holds
<1>14. ASSUME NEW j \in 1..p + q + 1 PROVE LinkOf(r.links[j], Between(K2, r.keys, j), layer, h, B)
  <2>1. CASE j <= p
    <3>1. j \in 1..p /\ j \in 1..p + 1 /\ ~(j > p) /\ ~(j > p + q) /\ (j # 1 => j - 1 \in 1..p)
      BY <1>3, <2>1
    <3>2. r.keys[j] = a.keys[j] /\ r.links[j] = a.links[j] /\ (j # 1 => r.keys[j - 1] = a.keys[j - 1])
      BY <1>7, <3>1
    <3>3. \A x \in J : ~Before(x, a.keys[j])
      <4>1. a.keys[j] \in K /\ a.keys[j] \in Key
        BY <1>4, <3>1
      <4> QED
        BY <1>2, <4>1, KeysOrdered
    <3>4. Between(K2, r.keys, j) = Between(K, a.keys, j)
      <4>1. \A x : x \in Between(K2, r.keys, j) <=>
                      x \in K2 /\ (j = 1 \/ Before(a.keys[j - 1], x)) /\ Before(x, a.keys[j])
        BY <1>11, <3>1, <3>2
      <4>2. \A x : x \in Between(K, a.keys, j) <=>
                      x \in K /\ (j = 1 \/ Before(a.keys[j - 1], x)) /\ Before(x, a.keys[j])
        BY <1>11, <3>1
      <4> QED
        BY <3>3, <4>1, <4>2
    <3> QED
      BY <1>1, <3>1, <3>2, <3>4 DEF p
  <2>2. CASE j = p + 1
    <3>1. /\ (p + 1 = 1 <=> p = 0) /\ (p + 1) - 1 = p /\ (p # 0 => p \in 1..p) /\ p + 1 > p
          /\ (p + 1 > p + q <=> q = 0) /\ (q # 0 => 1 \in 1..q) /\ (1 > q <=> q = 0)
      BY <1>3
    <3>2. (p # 0 => r.keys[p] = a.keys[p]) /\ (q # 0 => r.keys[p + 1] = b.keys[1])
      BY <1>7, <3>1
    <3>3. /\ \A x : x \in Between(K2, r.keys, p + 1) <=> /\ x \in K2
                                                         /\ p = 0 \/ Before(a.keys[p], x)
                                                         /\ q = 0 \/ Before(x, b.keys[1])
          /\ \A x : x \in Between(K, a.keys, p + 1) <=> x \in K /\ (p = 0 \/ Before(a.keys[p], x))
          /\ \A x : x \in Between(J, b.keys, 1) <=> x \in J /\ (q = 0 \/ Before(x, b.keys[1]))
      <4>1. \A x : x \in Between(K2, r.keys, p + 1) <=> /\ x \in K2
                                                        /\ p = 0 \/ Before(a.keys[p], x)
                                                        /\ q = 0 \/ Before(x, b.keys[1])
        BY <1>11, <3>1, <3>2
      <4>2. \A x : x \in Between(K, a.keys, p + 1) <=> x \in K /\ (p = 0 \/ Before(a.keys[p], x))
        BY <1>11, <3>1
      <4>3. \A x : x \in Between(J, b.keys, 1) <=> x \in J /\ (q = 0 \/ Before(x, b.keys[1]))
        BY <1>11, <3>1
      <4> QED
        BY <4>1, <4>2, <4>3
    <3>4. /\ \A x \in J : p = 0 \/ Before(a.keys[p], x)
          /\ \A x \in K : q = 0 \/ Before(x, b.keys[1])
      BY <1>4, <3>1
    <3>5. Between(K2, r.keys, p + 1) = Between(K, a.keys, p + 1) \union Between(J, b.keys, 1)
      BY <3>3, <3>4
    <3> QED
      BY <1>7, <1>8, <2>2, <3>5
  <2>3. CASE j > p + 1
    <3> DEFINE i == j - p
    <3>1. /\ i \in 1..q + 1 /\ i # 1 /\ i - 1 \in 1..q /\ j = p + i /\ j # 1 /\ j - 1 = p + (i - 1)
          /\ j = p + 1 + (i - 1) /\ (i - 1) + 1 = i /\ (j > p + q <=> i > q) /\ (~(i > q) => i \in 1..q)
      BY <1>3, <2>3
    <3> HIDE DEF i
    <3>2. r.keys[j - 1] = b.keys[i - 1] /\ r.links[j] = b.links[i] /\ (~(i > q) => r.keys[j] = b.keys[i])
      <4>1. r.keys[j - 1] = b.keys[i - 1]
        BY <1>7, <3>1
      <4>2. r.links[j] = b.links[i]
        <5>1. r.links[p + 1 + (i - 1)] = b.links[(i - 1) + 1]
          BY <1>7, <3>1
        <5> QED
          BY <3>1, <5>1
      <4>3. ~(i > q) => r.keys[j] = b.keys[i]
        BY <1>7, <3>1
      <4> QED
        BY <4>1, <4>2, <4>3
    <3>3. \A x \in K : ~Before(b.keys[i - 1], x)
      <4>1. b.keys[i - 1] \in J /\ b.keys[i - 1] \in Key
        BY <1>4, <3>1
      <4> QED
        BY <1>1, <4>1, KeysOrdered
    <3>4. Between(K2, r.keys, j) = Between(J, b.keys, i)
      <4>1. \A x : x \in Between(K2, r.keys, j) <=> /\ x \in K2 /\ Before(b.keys[i - 1], x)
                                                    /\ i > q \/ Before(x, b.keys[i])
        BY <1>11, <3>1, <3>2
      <4>2. \A x : x \in Between(J, b.keys, i) <=> /\ x \in J /\ Before(b.keys[i - 1], x)
                                                   /\ i > q \/ Before(x, b.keys[i])
        BY <1>11, <3>1
      <4> QED
        BY <3>3, <4>1, <4>2
    <3> QED
      BY <1>2, <3>1, <3>2, <3>4 DEF q
  <2> QED
    BY <1>3, <2>1, <2>2, <2>3
<1>15. \A j \in 1..Len(r.keys) + 1 : LinkOf(r.links[j], Between(K2, r.keys, j), layer, h, B)
  BY <1>7, <1>14
<1> HIDE DEF K2
<1>16. NodeOf(r, K2, layer, h, B)
  BY <1>6, <1>9, <1>12, <1>13, <1>15, NodeIs
<1> QED
  BY <1>16 DEF r, K2

(* Neighbouring subtrees are merged into one of all their keys. *)
LEMMA MergeFits ==
    ASSUME NEW layer \in [Key -> Nat], NEW h \in 0..MaxHeight + 1,
           NEW l, NEW K, LinkOf(l, K, layer, h, {Nil}), NEW r, NEW J, LinkOf(r, J, layer, h, {Nil}),
           \A x \in K : \A y \in J : Before(x, y)
    PROVE  LinkOf(MergeLinks(l, r), K \union J, layer, h, {Nil})
<1> DEFINE B == {Nil}
<1>0. B \subseteq {Nil, Blank} /\ \A x : x \in B <=> x = Nil
  OBVIOUS
<1> HIDE DEF B
<1>1. PICK f : IsMerge(f) /\ \A m, n : MergeLinks(m, n) = f[m][n]
  BY MergeIs
<1> DEFINE Ordered(S, T) == \A x \in S : \A y \in T : Before(x, y)
           good == {e \in 0..MaxHeight + 1 : \A m, n, S, T :
                       LinkOf(m, S, layer, e, B) /\ LinkOf(n, T, layer, e, B) /\ Ordered(S, T) =>
                          LinkOf(f[m][n], S \union T, layer, e, B)}
<1>5. ASSUME NEW m \in Tree, NEW n \in Tree
      PROVE  f[m][n] = IF m \in {Nil, Blank} THEN n
                       ELSE IF n \in {Nil, Blank} THEN m
                       ELSE [keys  |-> m.keys \o n.keys,
                             links |-> Front(m.links) \o <<f[Last(m.links)][Head(n.links)]>> \o Tail(n.links)]
  <2>1. f[m] = [b \in Tree |->
                  IF m \in {Nil, Blank} THEN b
                  ELSE IF b \in {Nil, Blank} THEN m
                  ELSE [keys  |-> m.keys \o b.keys,
                        links |-> Front(m.links) \o <<f[Last(m.links)][Head(b.links)]>> \o Tail(b.links)]]
    BY <1>1, Zenon DEF IsMerge
  <2> QED
    BY <2>1, Zenon
<1>2. ASSUME NEW e \in 0..MaxHeight + 1, NEW m, NEW S, LinkOf(m, S, layer, e, B),
             NEW n, NEW T, LinkOf(n, T, layer, e, B), (m \in B /\ S = {}) \/ (n \in B /\ T = {})
      PROVE  LinkOf(f[m][n], S \union T, layer, e, B)
  <2>1. m \in Tree /\ n \in Tree
    BY <1>2, LinkType
  <2>2. f[m][n] = IF m \in {Nil, Blank} THEN n
                  ELSE IF n \in {Nil, Blank} THEN m
                  ELSE [keys  |-> m.keys \o n.keys,
                        links |-> Front(m.links) \o <<f[Last(m.links)][Head(n.links)]>> \o Tail(n.links)]
    BY <1>5, <2>1, Zenon
  <2>3. CASE m \in B /\ S = {}
    <3>1. f[m][n] = n /\ S \union T = T
      BY <1>0, <2>2, <2>3
    <3> QED
      BY <1>2, <3>1
  <2>4. CASE n \in B /\ T = {} /\ ~(m \in B /\ S = {})
    <3>1. m \notin {Nil, Blank}
      BY <1>0, <1>2, <2>4, LinkCases
    <3>2. f[m][n] = m /\ S \union T = S
      BY <1>0, <2>2, <2>4, <3>1
    <3> QED
      BY <1>2, <3>2
  <2> QED
    BY <1>2, <2>3, <2>4
<1>3. 0 \in good
  <2>1. 0 \in 0..MaxHeight + 1
    BY Bounded
  <2>2. ASSUME NEW m, NEW n, NEW S, NEW T, LinkOf(m, S, layer, 0, B), LinkOf(n, T, layer, 0, B)
        PROVE  LinkOf(f[m][n], S \union T, layer, 0, B)
    <3>1. m \in B /\ S = {}
      BY <1>0, <2>2, LinkIs
    <3> QED
      BY <1>2, <2>1, <2>2, <3>1
  <2> QED
    BY <2>1, <2>2, Zenon
<1>4. ASSUME NEW e \in 0..MaxHeight + 1, e \in good, e < MaxHeight + 1 PROVE e + 1 \in good
  <2>0. /\ e \in 0..MaxHeight /\ e + 1 \in 0..MaxHeight + 1 /\ (e + 1) - 1 = e
        /\ e + 1 \in 1..MaxHeight + 1
    BY <1>4, Bounded
  <2> SUFFICES ASSUME NEW m, NEW n, NEW S, NEW T,
                      LinkOf(m, S, layer, e + 1, B), LinkOf(n, T, layer, e + 1, B), Ordered(S, T)
               PROVE  LinkOf(f[m][n], S \union T, layer, e + 1, B)
    BY <2>0
  <2>1. CASE (m \in B /\ S = {}) \/ (n \in B /\ T = {})
    BY <1>2, <2>0, <2>1
  <2>2. CASE ~((m \in B /\ S = {}) \/ (n \in B /\ T = {}))
    <3>1. /\ m \notin {Nil, Blank} /\ NodeOf(m, S, layer, e, B)
          /\ n \notin {Nil, Blank} /\ NodeOf(n, T, layer, e, B)
      BY <1>0, <2>0, <2>2, LinkCases
    <3>2. /\ m \in Tree /\ n \in Tree
          /\ Len(m.keys) \in Nat /\ Len(m.links) = Len(m.keys) + 1
          /\ n.links \in Seq(TreesOf[e]) /\ Len(n.keys) \in Nat /\ Len(n.links) = Len(n.keys) + 1
      BY <2>0, <3>1, NodeType
    <3> DEFINE a1 == Last(m.links)
               b1 == Head(n.links)
               S1 == Between(S, m.keys, Len(m.keys) + 1)
               T1 == Between(T, n.keys, 1)
               c  == f[a1][b1]
    <3>3. LinkOf(a1, S1, layer, e, B) /\ LinkOf(b1, T1, layer, e, B)
      <4>1. a1 = m.links[Len(m.keys) + 1] /\ b1 = n.links[1]
        BY <3>2 DEF Last
      <4>2. Len(m.keys) + 1 \in 1..Len(m.keys) + 1 /\ 1 \in 1..Len(n.keys) + 1
        BY <3>2
      <4>3. /\ \A j \in 1..Len(m.keys) + 1 : LinkOf(m.links[j], Between(S, m.keys, j), layer, e, B)
            /\ \A j \in 1..Len(n.keys) + 1 : LinkOf(n.links[j], Between(T, n.keys, j), layer, e, B)
        BY <3>1, NodeIs
      <4> QED
        BY <4>1, <4>2, <4>3
    <3>4. Ordered(S1, T1)
      BY DEF Between
    <3> HIDE DEF a1, b1, S1, T1, Ordered
    <3>5. LinkOf(c, S1 \union T1, layer, e, B)
      BY <1>4, <3>3, <3>4, Zenon
    <3>6. f[m][n] = MergedBy(m, n, c)
      BY <1>5, <3>1, <3>2, Zenon DEF MergedBy, a1, b1
    <3> HIDE DEF c
    <3>7. NodeOf(MergedBy(m, n, c), S \union T, layer, e, B)
      <4>1. LinkOf(c, Between(S, m.keys, Len(m.keys) + 1) \union Between(T, n.keys, 1), layer, e, B)
        BY <3>5 DEF S1, T1
      <4>2. \A x \in S : \A y \in T : Before(x, y)
        BY DEF Ordered
      <4> QED
        BY <1>0, <2>0, <3>1, <4>1, <4>2, MergeNode
    <3>8. MergedBy(m, n, c) # EmptyNode
      <4> SUFFICES ASSUME MergedBy(m, n, c) = EmptyNode PROVE FALSE
        OBVIOUS
      <4> DEFINE U == S \union T
      <4>1. NodeOf(EmptyNode, U, layer, e, B)
        BY <3>7
      <4> HIDE DEF U
      <4>2. U = {}
        BY <1>0, <2>0, <4>1, EmptyIs
      <4>3. S = {}
        BY <4>2 DEF U
      <4>4. LinkOf(m, {}, layer, e + 1, {Nil})
        BY <4>3 DEF B
      <4>5. m = Nil
        BY <2>0, <4>4, NoneIsNil
      <4> QED
        BY <3>1, <4>5
    <3>9. LinkOf(MergedBy(m, n, c), S \union T, layer, e + 1, B)
      BY <1>0, <2>0, <3>7, <3>8, NodeLink
    <3> QED
      BY <3>6, <3>9
  <2> QED
    BY <2>1, <2>2
<1>6. h \in good
  <2> HIDE DEF good
  <2>1. MaxHeight + 1 \in Nat
    BY Bounded
  <2> QED
    BY <1>3, <1>4, <2>1, UpTo
<1>7. LinkOf(f[l][r], K \union J, layer, h, B)
  <2>1. LinkOf(l, K, layer, h, B) /\ LinkOf(r, J, layer, h, B)
    BY DEF B
  <2>2. Ordered(K, J)
    OBVIOUS
  <2> HIDE DEF Ordered
  <2> QED
    BY <1>6, <2>1, <2>2, Zenon
<1> QED
  BY <1>1, <1>7, Zenon DEF B

(* What a node without its key k is, element by element; i keys are before k, *)
(* and l is in the place of the links beside k.                               *)
IsCut(r, n, i, l) ==
    /\ Len(r.keys) = Len(n.keys) - 1
    /\ \A j \in 1..Len(n.keys) - 1 : r.keys[j] = IF j < i + 1 THEN n.keys[j] ELSE n.keys[j + 1]
    /\ \A j \in 1..Len(n.keys) : r.links[j] = IF j < i + 1 THEN n.links[j] ELSE IF j = i + 1 THEN l ELSE n.links[j + 1]

LEMMA CutFromIs ==
    ASSUME NEW T, NEW n \in Nodes(T), n.keys \in Seq(Key), NEW k,
           Slot(n, k) < Len(n.keys), MergeLinks(Link(n, Slot(n, k)), Link(n, Slot(n, k) + 1)) \in T
    PROVE  /\ CutFrom(n, k) \in Nodes(T) /\ CutFrom(n, k).keys \in Seq(Key)
           /\ IsCut(CutFrom(n, k), n, Slot(n, k), MergeLinks(Link(n, Slot(n, k)), Link(n, Slot(n, k) + 1)))
<1> DEFINE i == Slot(n, k)
           m == Len(n.keys)
           l == MergeLinks(Link(n, i), Link(n, i + 1))
           w == WithLink(n, i + 1, l)
           ks == RemoveAt(n.keys, i + 1)
           ls == RemoveAt(w.links, i + 1)
<1>0. CutFrom(n, k) = [keys |-> ks, links |-> ls]
  BY Zenon DEF CutFrom
<1>1. i \in 0..m /\ m \in Nat /\ i < m
  BY SlotType, NodesAre
<1>2. l \in T
  OBVIOUS
<1> HIDE DEF l, i
<1>3. /\ w \in Nodes(T) /\ w.keys = n.keys
      /\ \A j \in 1..m + 1 : w.links[j] = IF j = (i + 1) + 1 THEN l ELSE n.links[j]
  <2>1. i + 1 \in 0..Len(n.keys)
    BY <1>1
  <2> QED
    BY <1>2, <2>1, WithLinkIs
<1> HIDE DEF w
<1>4. w.links \in Seq(T) /\ Len(w.links) = m + 1
  BY <1>3, NodesAre
<1>5. /\ ks \in Seq(Key) /\ Len(ks) = m - 1
      /\ \A j \in 1..m - 1 : ks[j] = IF j < i + 1 THEN n.keys[j] ELSE n.keys[j + 1]
  <2>1. i + 1 \in 1..Len(n.keys)
    BY <1>1
  <2>2. ks \in Seq(Key) /\ IsRemove(ks, n.keys, i + 1)
    BY <2>1, RemoveAtIs
  <2> HIDE DEF ks
  <2> QED
    BY <2>2 DEF IsRemove
<1>6. /\ ls \in Seq(T) /\ Len(ls) = m
      /\ \A j \in 1..m : ls[j] = IF j < i + 1 THEN w.links[j] ELSE w.links[j + 1]
  <2> DEFINE s == w.links
  <2>1. s \in Seq(T) /\ i + 1 \in 1..Len(s) /\ Len(s) - 1 = m
    BY <1>1, <1>4
  <2>2. ls = RemoveAt(s, i + 1)
    OBVIOUS
  <2> HIDE DEF s, ls
  <2>3. ls \in Seq(T) /\ IsRemove(ls, s, i + 1)
    BY <2>1, <2>2, RemoveAtIs
  <2> QED
    BY <2>1, <2>3 DEF IsRemove, s
<1> HIDE DEF ks, ls
<1>7. ASSUME NEW j \in 1..m
      PROVE  ls[j] = IF j < i + 1 THEN n.links[j] ELSE IF j = i + 1 THEN l ELSE n.links[j + 1]
  <2>1. CASE j < i + 1
    <3>1. j \in 1..m + 1 /\ j # (i + 1) + 1
      BY <1>1, <2>1
    <3> QED
      BY <1>3, <1>6, <2>1, <3>1
  <2>2. CASE ~(j < i + 1)
    <3>1. j + 1 \in 1..m + 1 /\ (j + 1 = (i + 1) + 1 <=> j = i + 1)
      BY <1>1
    <3>2. ls[j] = w.links[j + 1]
      BY <1>6, <2>2
    <3>3. w.links[j + 1] = IF j = i + 1 THEN l ELSE n.links[j + 1]
      BY <1>3, <3>1
    <3> QED
      BY <2>2, <3>2, <3>3
  <2> QED
    BY <2>1, <2>2
<1> DEFINE r == [keys |-> ks, links |-> ls]
<1>8. r \in Nodes(T) /\ r.keys = ks /\ r.links = ls
  <2>1. ks \in Seq(SQLiteValue)
    <3>1. Key \subseteq SQLiteValue
      BY Keys
    <3>2. \A j \in 1..Len(ks) : ks[j] \in SQLiteValue
      BY <1>5, <3>1
    <3> QED
      BY <1>5, <3>2
  <2>2. Len(ls) = Len(ks) + 1
    BY <1>1, <1>5, <1>6
  <2> QED
    BY <1>6, <2>1, <2>2 DEF Nodes
<1> HIDE DEF r
<1>9. r \in Nodes(T) /\ r.keys \in Seq(Key) /\ IsCut(r, n, i, l)
  BY <1>5, <1>7, <1>8 DEF IsCut
<1> QED
  BY <1>0, <1>9, Zenon DEF r, i, l

(* A node loses a key of its layer. *)
LEMMA CutFromFits ==
    ASSUME NEW layer \in [Key -> Nat], NEW h \in 0..MaxHeight,
           NEW n, NEW K, NodeOf(n, K, layer, h, {Nil}), NEW k \in K, layer[k] >= h
    PROVE  NodeOf(CutFrom(n, k), K \ {k}, layer, h, {Nil})
<1> DEFINE B == {Nil}
           i == Slot(n, k)
           m == Len(n.keys)
           C1 == Between(K, n.keys, i + 1)
           C2 == Between(K, n.keys, i + 2)
           l == MergeLinks(Link(n, i), Link(n, i + 1))
           r == CutFrom(n, k)
           K2 == K \ {k}
<1>0. B \subseteq {Nil, Blank} /\ NodeOf(n, K, layer, h, B) /\ B = {Nil}
  OBVIOUS
<1> HIDE DEF B
<1>1. /\ K \subseteq Key /\ n.keys \in Seq(Key) /\ Sorted(n.keys) /\ n \in Nodes(TreesOf[h])
      /\ \A j \in 1..m + 1 : LinkOf(n.links[j], Between(K, n.keys, j), layer, h, B)
  BY <1>0, NodeIs
<1>2. m \in Nat /\ (\A j \in 1..m : n.keys[j] \in Key) /\ k \in Key
  BY <1>1
<1>3. /\ \A j \in 1..m : n.keys[j] \in K /\ layer[n.keys[j]] >= h
      /\ \A x \in Key : x \in K /\ layer[x] >= h => \E j \in 1..m : n.keys[j] = x
  <2>1. KeysFit(n, K, layer, h)
    BY <1>0, KeysOfNode
  <2> QED
    BY <2>1 DEF KeysFit
<1>4. i \in 0..m /\ i < m /\ n.keys[i + 1] = k
  <2>1. HasKey(n, i, k)
    BY <1>0, <1>2, AtBottom
  <2>2. /\ Slot(n, k) \in 0..Len(n.keys)
        /\ HasKey(n, Slot(n, k), k) => Slot(n, k) < Len(n.keys) /\ n.keys[Slot(n, k) + 1] = k
    BY <1>1, <1>2, SlotIs
  <2> QED
    BY <2>1, <2>2
<1>5. ASSUME NEW S, NEW j, NEW x
      PROVE  x \in Between(S, n.keys, j) <=>
                x \in S /\ (j = 1 \/ Before(n.keys[j - 1], x)) /\ (j > m \/ Before(x, n.keys[j]))
  BY DEF Between
<1>6. /\ \A x : x \in C1 <=> x \in K /\ (i = 0 \/ Before(n.keys[i], x)) /\ Before(x, k)
      /\ \A x : x \in C2 <=> x \in K /\ Before(k, x) /\ (i + 1 = m \/ Before(x, n.keys[i + 2]))
  <2> HIDE DEF i, m
  <2>1. /\ (i + 1 = 1 <=> i = 0) /\ (i + 1) - 1 = i /\ ~(i + 1 > m)
        /\ i + 2 # 1 /\ (i + 2) - 1 = i + 1 /\ (i + 2 > m <=> i + 1 = m)
    BY <1>2, <1>4
  <2>2. \A x : x \in C1 <=> x \in K /\ (i = 0 \/ Before(n.keys[i], x)) /\ Before(x, k)
    BY <1>4, <1>5, <2>1
  <2>3. \A x : x \in C2 <=> x \in K /\ Before(k, x) /\ (i + 1 = m \/ Before(x, n.keys[i + 2]))
    BY <1>4, <1>5, <2>1
  <2> QED
    BY <2>2, <2>3
<1>7. LinkOf(l, C1 \union C2, layer, h, B)
  <2>1. i + 1 \in 1..m + 1 /\ i + 2 \in 1..m + 1 /\ (i + 1) + 1 = i + 2 /\ h \in 0..MaxHeight + 1
    <3> HIDE DEF i, m
    <3> QED
      BY <1>2, <1>4, Bounded
  <2>2. LinkOf(Link(n, i), C1, layer, h, B)
    BY <1>1, <2>1 DEF Link
  <2>3. LinkOf(Link(n, i + 1), C2, layer, h, B)
    <3>1. Link(n, i + 1) = n.links[i + 2]
      BY <2>1, Zenon DEF Link
    <3> QED
      BY <1>1, <2>1, <3>1
  <2> HIDE DEF C1, C2
  <2>4. \A x \in C1 : \A y \in C2 : Before(x, y)
    BY <1>1, <1>2, <1>6, KeysOrdered
  <2> QED
    BY <1>0, <2>1, <2>2, <2>3, <2>4, MergeFits
<1>8. r \in Nodes(TreesOf[h]) /\ r.keys \in Seq(Key) /\ IsCut(r, n, i, l)
  <2>1. l \in TreesOf[h]
    BY <1>7, LinkType, Bounded
  <2> QED
    BY <1>1, <1>4, <2>1, CutFromIs
<1> HIDE DEF r, l, i, C1, C2
<1>9. /\ Len(r.keys) = m - 1
      /\ \A j \in 1..m - 1 : r.keys[j] = IF j < i + 1 THEN n.keys[j] ELSE n.keys[j + 1]
      /\ \A j \in 1..m : r.links[j] = IF j < i + 1 THEN n.links[j] ELSE IF j = i + 1 THEN l ELSE n.links[j + 1]
  BY <1>8 DEF IsCut
<1>10. \A a, b \in 1..m : a < b => Before(n.keys[a], n.keys[b])
  BY <1>1 DEF Sorted
<1>11. ASSUME NEW S, NEW j, NEW x
       PROVE  x \in Between(S, r.keys, j) <=>
                 x \in S /\ (j = 1 \/ Before(r.keys[j - 1], x)) /\ (j > m - 1 \/ Before(x, r.keys[j]))
  BY <1>9 DEF Between
<1> HIDE DEF m
<1>12. K2 \subseteq Key
  BY <1>1
<1>13. Sorted(r.keys)
  <2> SUFFICES ASSUME NEW a \in 1..m - 1, NEW b \in 1..m - 1, a < b PROVE Before(r.keys[a], r.keys[b])
    BY <1>9 DEF Sorted
  <2>1. /\ a \in 1..m /\ b \in 1..m /\ a + 1 \in 1..m /\ b + 1 \in 1..m
        /\ a < b + 1 /\ a + 1 < b + 1 /\ (b < i + 1 => a < i + 1)
    BY <1>2, <1>4
  <2> QED
    BY <1>9, <1>10, <2>1
<1>14. Holds(r.keys, {x \in K2 : layer[x] >= h})
  <2>1. ASSUME NEW x \in K2, layer[x] >= h PROVE \E j \in 1..m - 1 : r.keys[j] = x
    <3>1. PICK j \in 1..m : n.keys[j] = x
      BY <1>1, <1>3, <2>1
    <3>2. j # i + 1
      BY <1>4, <3>1
    <3>3. CASE j < i + 1
      <4>1. j \in 1..m - 1 /\ r.keys[j] = x
        BY <1>2, <1>4, <1>9, <3>1, <3>3
      <4> QED
        BY <4>1
    <3>4. CASE j > i + 1
      <4>1. j - 1 \in 1..m - 1 /\ ~(j - 1 < i + 1) /\ (j - 1) + 1 = j
        BY <1>2, <1>4, <3>4
      <4>2. r.keys[j - 1] = n.keys[(j - 1) + 1]
        BY <1>9, <4>1
      <4> QED
        BY <3>1, <4>1, <4>2
    <3> QED
      BY <1>4, <3>2, <3>3, <3>4
  <2>2. ASSUME NEW j \in 1..m - 1 PROVE r.keys[j] \in K2 /\ layer[r.keys[j]] >= h
    <3>1. CASE j < i + 1
      <4>1. j \in 1..m /\ i + 1 \in 1..m /\ r.keys[j] = n.keys[j]
        BY <1>2, <1>4, <1>9, <3>1
      <4>2. Before(n.keys[j], k)
        BY <1>4, <1>10, <3>1, <4>1
      <4> QED
        BY <1>2, <1>3, <4>1, <4>2, KeysOrdered
    <3>2. CASE ~(j < i + 1)
      <4>1. j + 1 \in 1..m /\ i + 1 \in 1..m /\ i + 1 < j + 1 /\ r.keys[j] = n.keys[j + 1]
        BY <1>2, <1>4, <1>9, <3>2, SMTT(30)
      <4>2. Before(k, n.keys[j + 1])
        BY <1>4, <1>10, <4>1
      <4> QED
        BY <1>2, <1>3, <4>1, <4>2, KeysOrdered
    <3> QED
      BY <3>1, <3>2
  <2> QED
    BY <1>9, <2>1, <2>2 DEF Holds
<1>15. ASSUME NEW j \in 1..m PROVE LinkOf(r.links[j], Between(K2, r.keys, j), layer, h, B)
  <2>1. CASE j < i + 1
    <3>1. /\ j \in 1..m - 1 /\ ~(j > m - 1) /\ ~(j > m) /\ j \in 1..m + 1
          /\ (j # 1 => j - 1 \in 1..m - 1 /\ j - 1 < i + 1) /\ i + 1 \in 1..m
      BY <1>2, <1>4, <2>1
    <3>2. r.keys[j] = n.keys[j] /\ r.links[j] = n.links[j] /\ (j # 1 => r.keys[j - 1] = n.keys[j - 1])
      BY <1>9, <2>1, <3>1
    <3>3. ~Before(k, n.keys[j])
      <4>1. Before(n.keys[j], k)
        BY <1>4, <1>10, <2>1, <3>1
      <4> QED
        BY <1>2, <4>1, KeysOrdered
    <3>4. Between(K2, r.keys, j) = Between(K, n.keys, j)
      <4>1. \A x : x \in Between(K2, r.keys, j) <=>
                      x \in K2 /\ (j = 1 \/ Before(n.keys[j - 1], x)) /\ Before(x, n.keys[j])
        BY <1>11, <3>1, <3>2
      <4>2. \A x : x \in Between(K, n.keys, j) <=>
                      x \in K /\ (j = 1 \/ Before(n.keys[j - 1], x)) /\ Before(x, n.keys[j])
        BY <1>5, <3>1
      <4> QED
        BY <3>3, <4>1, <4>2
    <3> QED
      BY <1>1, <3>1, <3>2, <3>4 DEF m
  <2>2. CASE j = i + 1
    <3>1. /\ ~(j < i + 1) /\ (j = 1 <=> i = 0) /\ j - 1 = i /\ (j > m - 1 <=> i + 1 = m)
          /\ (i # 0 => i \in 1..m - 1 /\ i < i + 1) /\ (i + 1 # m => i + 1 \in 1..m - 1 /\ (i + 1) + 1 = i + 2)
      BY <1>2, <1>4, <2>2
    <3>2. r.links[j] = l
      BY <1>9, <2>2, <3>1
    <3>3. (i # 0 => r.keys[i] = n.keys[i]) /\ (i + 1 # m => r.keys[i + 1] = n.keys[i + 2])
      <4>1. i # 0 => r.keys[i] = n.keys[i]
        BY <1>9, <3>1
      <4>2. i + 1 # m => r.keys[i + 1] = n.keys[(i + 1) + 1]
        BY <1>9, <2>2, <3>1
      <4> QED
        BY <3>1, <4>1, <4>2
    <3>4. \A x : x \in Between(K2, r.keys, j) <=>
                    x \in K2 /\ (i = 0 \/ Before(n.keys[i], x)) /\ (i + 1 = m \/ Before(x, n.keys[i + 2]))
      BY <1>11, <2>2, <3>1, <3>3
    <3>5. Between(K2, r.keys, j) = C1 \union C2
      <4>1. \A x \in K : Before(x, k) => i + 1 = m \/ Before(x, n.keys[i + 2])
        <5>1. i + 1 # m => i + 2 \in 1..m /\ i + 1 \in 1..m /\ i + 1 < i + 2
          BY <1>2, <1>4
        <5>2. i + 1 # m => Before(k, n.keys[i + 2]) /\ n.keys[i + 2] \in Key
          BY <1>2, <1>4, <1>10, <5>1
        <5> QED
          BY <1>1, <1>2, <5>2, KeysOrdered
      <4>2. \A x \in K : Before(k, x) => i = 0 \/ Before(n.keys[i], x)
        <5>1. i # 0 => i \in 1..m /\ i + 1 \in 1..m /\ i < i + 1
          BY <1>2, <1>4
        <5>2. i # 0 => Before(n.keys[i], k) /\ n.keys[i] \in Key
          BY <1>2, <1>4, <1>10, <5>1
        <5> QED
          BY <1>1, <1>2, <5>2, KeysOrdered
      <4>3. \A x \in K2 : Before(x, k) \/ Before(k, x)
        BY <1>1, <1>2, KeysOrdered
      <4>4. ~Before(k, k)
        BY <1>2, KeysOrdered
      <4> QED
        BY <1>6, <3>4, <4>1, <4>2, <4>3, <4>4
    <3> QED
      BY <1>7, <3>2, <3>5
  <2>3. CASE j > i + 1
    <3>1. /\ ~(j < i + 1) /\ j # i + 1 /\ j # 1 /\ j + 1 # 1 /\ (j + 1) - 1 = j /\ (j > m - 1 <=> j + 1 > m)
          /\ j - 1 \in 1..m - 1 /\ ~(j - 1 < i + 1) /\ (j - 1) + 1 = j /\ j + 1 \in 1..m + 1
          /\ (~(j + 1 > m) => j \in 1..m - 1) /\ i + 1 \in 1..m /\ i + 1 < j
      BY <1>2, <1>4, <2>3
    <3>2. r.keys[j - 1] = n.keys[j] /\ r.links[j] = n.links[j + 1] /\ (~(j + 1 > m) => r.keys[j] = n.keys[j + 1])
      <4>1. r.keys[j - 1] = n.keys[(j - 1) + 1]
        BY <1>9, <3>1
      <4>2. r.links[j] = n.links[j + 1]
        BY <1>9, <3>1
      <4>3. ~(j + 1 > m) => r.keys[j] = n.keys[j + 1]
        BY <1>9, <3>1
      <4> QED
        BY <3>1, <4>1, <4>2, <4>3
    <3>3. ~Before(n.keys[j], k)
      <4>1. Before(k, n.keys[j]) /\ n.keys[j] \in Key
        BY <1>2, <1>4, <1>10, <3>1
      <4> QED
        BY <1>2, <4>1, KeysOrdered
    <3>4. Between(K2, r.keys, j) = Between(K, n.keys, j + 1)
      <4>1. \A x : x \in Between(K2, r.keys, j) <=>
                      x \in K2 /\ Before(n.keys[j], x) /\ (j + 1 > m \/ Before(x, n.keys[j + 1]))
        BY <1>11, <3>1, <3>2
      <4>2. \A x : x \in Between(K, n.keys, j + 1) <=>
                      x \in K /\ Before(n.keys[j], x) /\ (j + 1 > m \/ Before(x, n.keys[j + 1]))
        BY <1>5, <3>1
      <4> QED
        BY <3>3, <4>1, <4>2
    <3> QED
      BY <1>1, <3>1, <3>2, <3>4 DEF m
  <2> QED
    BY <1>2, <1>4, <2>1, <2>2, <2>3
<1>16. \A j \in 1..Len(r.keys) + 1 : LinkOf(r.links[j], Between(K2, r.keys, j), layer, h, B)
  <2>1. Len(r.keys) + 1 = m
    BY <1>2, <1>9
  <2> QED
    BY <1>15, <2>1
<1> HIDE DEF K2
<1>17. NodeOf(r, K2, layer, h, B)
  <2>1. Holds(r.keys, {x \in K2 : layer[x] >= h})
    BY <1>14
  <2> QED
    BY <1>8, <1>12, <1>13, <1>16, <2>1, NodeIs
<1> QED
  BY <1>0, <1>17 DEF r, K2

(* A node loses a key, in it or in a node below it. *)
LEMMA CutBelowFits ==
    ASSUME NEW layer \in [Key -> Nat], NEW h \in 0..MaxHeight,
           NEW n, NEW K, NodeOf(n, K, layer, h, {Nil}), NEW k \in K
    PROVE  NodeOf(CutBelow(n, DepthIn(h, layer, k), k), K \ {k}, layer, h, {Nil})
<1> DEFINE B == {Nil}
           d == DepthIn(h, layer, k)
           low == h - d
<1>0. B \subseteq {Nil, Blank} /\ Nil \in B /\ NodeOf(n, K, layer, h, B) /\ B = {Nil}
  OBVIOUS
<1> HIDE DEF B
<1>k. k \in Key
  BY <1>0, NodeType
<1>1. /\ d \in 0..h /\ d \in Nat /\ low \in Nat /\ layer[k] \in Nat /\ layer[k] >= low
      /\ (d > 0 => layer[k] = low) /\ h = low + d /\ h \in Nat
  <2>1. h \in Nat
    OBVIOUS
  <2>2. d \in 0..h /\ layer[k] >= h - d /\ (d > 0 => layer[k] = h - d)
    BY <1>k, <2>1, DepthIs
  <2> HIDE DEF d
  <2> QED
    BY <1>k, <2>1, <2>2
<1> HIDE DEF d, low
<1>2. PICK f : IsCutBelow(f, k, d) /\ \A m : CutBelow(m, d, k) = f[d][m]
  <2>1. d \in Nat
    BY <1>1
  <2> QED
    BY <2>1, CutBelowIs
<1> DEFINE good == {e \in 0..d : \A m, J : NodeOf(m, J, layer, low + e, B) /\ k \in J =>
                       NodeOf(f[e][m], J \ {k}, layer, low + e, B)}
<1>4. 0 \in good
  <2> SUFFICES ASSUME NEW m, NEW J, NodeOf(m, J, layer, low + 0, B), k \in J
               PROVE  NodeOf(f[0][m], J \ {k}, layer, low + 0, B)
    BY <1>1
  <2>1. low + 0 = low /\ low \in 0..MaxHeight /\ NodeOf(m, J, layer, low, B)
    BY <1>1, Bounded
  <2>2. m \in Tree
    BY <2>1, NodeType
  <2>4. 0 \in 0..d
    BY <1>1
  <2>7. f[0][m] = CutFrom(m, k)
    BY <1>2, <2>2, <2>4, Zenon DEF IsCutBelow
  <2>8. NodeOf(CutFrom(m, k), J \ {k}, layer, low, B)
    BY <1>0, <1>1, <2>1, CutFromFits
  <2> QED
    BY <2>1, <2>7, <2>8
<1>6. ASSUME NEW e \in 0..d, e \in good, e < d PROVE e + 1 \in good
  <2> SUFFICES ASSUME NEW m, NEW J, NodeOf(m, J, layer, low + (e + 1), B), k \in J
               PROVE  NodeOf(f[e + 1][m], J \ {k}, layer, low + (e + 1), B)
    BY <1>1, <1>6
  <2> DEFINE up == low + (e + 1)
             i == Slot(m, k)
             l == Link(m, i)
             C == Between(J, m.keys, i + 1)
             e1 == e + 1
  <2>1. up \in 1..MaxHeight /\ up \in 0..MaxHeight /\ layer[k] < up /\ up - 1 = low + e /\ low + e \in 0..MaxHeight
    BY <1>1, <1>6, Bounded
  <2>2. e1 \in 0..d /\ e1 # 0 /\ e1 - 1 = e
    BY <1>1, <1>6
  <2>3. NodeOf(m, J, layer, up, B)
    OBVIOUS
  <2> HIDE DEF up, e1
  <2>4. StepsDown(m, J, layer, up, B, k)
    BY <1>0, <1>k, <2>1, <2>3, StepDown
  <2>5. /\ i \in 0..Len(m.keys) /\ m \in Tree
        /\ k \in C
        /\ \A x \in C : x \in Key /\ layer[x] < up
        /\ (l \notin {Nil, Blank} => NodeOf(l, C, layer, up - 1, B))
        /\ l \in {Nil, Blank} => C = {}
    BY <2>4, Zenon DEF StepsDown
  <2>6. f[e1][m] = WithLink(m, i, LinkTo(f[e1 - 1][l]))
    BY <1>2, <2>2, <2>5, Zenon DEF IsCutBelow
  <2>8. \A x : x \in C => x \in J /\ x \in Between(Key, m.keys, i + 1)
    <3>1. J \subseteq Key
      BY <2>1, <2>3, NodeType
    <3> QED
      BY <3>1 DEF Between
  <2>9. C = Between(J, m.keys, i + 1)
    OBVIOUS
  <2> HIDE DEF i, C, l
  <2> DEFINE q == f[e][l]
             C2 == C \ {k}
             K2 == J \ {k}
  <2>10. NodeOf(l, C, layer, low + e, B)
    BY <2>1, <2>5
  <2>11. NodeOf(q, C2, layer, low + e, B)
    BY <1>6, <2>5, <2>10, Zenon
  <2>12. f[e1][m] = WithLink(m, i, LinkTo(q))
    BY <2>2, <2>6
  <2> HIDE DEF q
  <2>13. LinkOf(LinkTo(q), C2, layer, up, B)
    <3> HIDE DEF C2
    <3>3. NodeOf(q, C2, layer, up - 1, B) /\ up \in 1..MaxHeight + 1
      BY <2>1, <2>11, Bounded
    <3> QED
      BY <1>0, <3>3, LinkToIs
  <2>14. /\ \A x \in C2 : x \in Between(Key, m.keys, i + 1) /\ layer[x] < up
         /\ \A x : x \in K2 <=> x \in C2 \/ (x \in J /\ x \notin Between(J, m.keys, i + 1))
    <3>1. \A x \in C2 : x \in Between(Key, m.keys, i + 1) /\ layer[x] < up
      BY <2>5, <2>8
    <3>3. \A x : x \in K2 <=> x \in C2 \/ (x \in J /\ x \notin C)
      BY <2>5, <2>8
    <3> QED
      BY <2>9, <3>1, <3>3
  <2> HIDE DEF C2, K2
  <2>15. NodeOf(WithLink(m, i, LinkTo(q)), K2, layer, up, B)
    BY <1>0, <2>1, <2>3, <2>5, <2>13, <2>14, SetLink
  <2> QED
    BY <2>12, <2>15 DEF K2, up, e1
<1>7. d \in good
  <2> HIDE DEF good
  <2>1. d \in 0..d
    BY <1>1
  <2> QED
    BY <1>1, <1>4, <1>6, <2>1, UpTo
<1>8. NodeOf(f[d][n], K \ {k}, layer, low + d, B)
  <2>1. NodeOf(n, K, layer, low + d, B)
    BY <1>0, <1>1
  <2> QED
    BY <1>7, <2>1, Zenon
<1>9. NodeOf(CutBelow(n, d, k), K \ {k}, layer, h, B)
  <2>1. NodeOf(f[d][n], K \ {k}, layer, h, B)
    BY <1>1, <1>8
  <2> QED
    BY <1>2, <2>1, Zenon
<1> QED
  BY <1>0, <1>9 DEF d

(* A link that is not Blank may be one of those where some are. *)
LEMMA MoreLinks ==
    ASSUME NEW layer \in [Key -> Nat], NEW B, B \subseteq {Nil, Blank}, NEW B2, B2 \subseteq {Nil, Blank}, B \subseteq B2,
           NEW h \in 0..MaxHeight, NEW n, NEW K, NodeOf(n, K, layer, h, B)
    PROVE  NodeOf(n, K, layer, h, B2)
<1> DEFINE good == {e \in 0..MaxHeight + 1 : \A l, J : LinkOf(l, J, layer, e, B) => LinkOf(l, J, layer, e, B2)}
<1>1. 0 \in good
  <2>1. ASSUME NEW l, NEW J, LinkOf(l, J, layer, 0, B) PROVE LinkOf(l, J, layer, 0, B2)
    BY <2>1, LinkIs, ZenonT(60)
  <2> QED
    BY <2>1, Bounded
<1>2. ASSUME NEW e \in 0..MaxHeight, e \in good, NEW m, NEW J, NodeOf(m, J, layer, e, B)
      PROVE  NodeOf(m, J, layer, e, B2)
  <2>1. \A j \in 1..Len(m.keys) + 1 : LinkOf(m.links[j], Between(J, m.keys, j), layer, e, B)
    BY <1>2, NodeIs
  <2>2. \A j \in 1..Len(m.keys) + 1 : LinkOf(m.links[j], Between(J, m.keys, j), layer, e, B2)
    BY <1>2, <2>1
  <2> QED
    BY <1>2, <2>2, NodeIs
<1>3. ASSUME NEW e \in 0..MaxHeight + 1, e \in good, e < MaxHeight + 1 PROVE e + 1 \in good
  <2>0. e \in 0..MaxHeight /\ e + 1 \in 0..MaxHeight + 1
    BY <1>3, Bounded
  <2> SUFFICES ASSUME NEW l, NEW J, LinkOf(l, J, layer, e + 1, B) PROVE LinkOf(l, J, layer, e + 1, B2)
    BY <2>0
  <2> HIDE DEF good
  <2>1. (l \in B /\ J = {}) \/ (l # EmptyNode /\ NodeOf(l, J, layer, e, B))
    BY <2>0, LinkIs
  <2>2. (l \in B2 /\ J = {}) \/ (l # EmptyNode /\ NodeOf(l, J, layer, e, B2))
    BY <1>2, <1>3, <2>0, <2>1
  <2> QED
    BY <2>0, <2>2, LinkIs
<1>4. \A e \in 0..MaxHeight + 1 : e \in good
  <2> HIDE DEF good
  <2>1. MaxHeight + 1 \in Nat
    BY Bounded
  <2> QED
    BY <1>1, <1>3, <2>1, UpTo
<1>5. h \in good
  <2>1. h \in 0..MaxHeight + 1
    BY Bounded
  <2> QED
    BY <1>4, <2>1
<1> HIDE DEF good
<1> QED
  BY <1>2, <1>5

-----------------------------------------------------------------------------
(* Storing and loading. *)

(* A node with other links to the same keys. *)
Relinked(n, f) == [n EXCEPT !.links = [i \in DOMAIN n.links |-> f[n.links[i]]]]

NewLinksFit(f, n, K, layer, h, B) ==
    \A j \in 1..Len(n.keys) + 1 : LinkOf(f[n.links[j]], Between(K, n.keys, j), layer, h, B)

LEMMA RelinkNode ==
    ASSUME NEW layer \in [Key -> Nat], NEW B, B \subseteq {Nil, Blank}, NEW B2, NEW h \in 0..MaxHeight,
           NEW n, NEW K, NodeOf(n, K, layer, h, B), NEW f,
           NewLinksFit(f, n, K, layer, h, B2)
    PROVE  NodeOf(Relinked(n, f), K, layer, h, B2) /\ Relinked(n, f).links[1] = f[n.links[1]]
<1> DEFINE g == [i \in DOMAIN n.links |-> f[n.links[i]]]
           r == [n EXCEPT !.links = g]
<1>0. \A j \in 1..Len(n.keys) + 1 : LinkOf(f[n.links[j]], Between(K, n.keys, j), layer, h, B2)
  BY DEF NewLinksFit
<1>1. /\ n \in Nodes(TreesOf[h]) /\ n.keys \in Seq(Key) /\ Len(n.keys) \in Nat
      /\ DOMAIN n.links = 1..Len(n.keys) + 1 /\ K \subseteq Key
      /\ n.links \in Seq(TreesOf[h])
  BY NodeType
<1>2. Sorted(n.keys) /\ Holds(n.keys, {k \in K : layer[k] >= h})
  BY NodeIs
<1>3. \A j \in 1..Len(n.keys) + 1 : g[j] = f[n.links[j]]
  BY <1>1, Zenon
<1>4. \A j \in 1..Len(n.keys) + 1 : g[j] \in TreesOf[h]
  <2>1. h \in 0..MaxHeight + 1
    BY Bounded
  <2> QED
    BY <1>0, <1>3, <2>1, LinkType
<1>5. g \in Seq(TreesOf[h]) /\ Len(g) = Len(n.keys) + 1
  <2>1. DOMAIN g = 1..Len(n.keys) + 1
    BY <1>1
  <2> HIDE DEF g
  <2>2. g \in [1..Len(n.keys) + 1 -> TreesOf[h]]
    BY <1>3, <1>4, <2>1 DEF g
  <2>3. \A T : \A q \in Nat : \A s \in [1..q -> T] : s \in Seq(T) /\ Len(s) = q
    OBVIOUS
  <2>4. Len(n.keys) + 1 \in Nat
    BY <1>1
  <2> QED
    BY <2>2, <2>3, <2>4, ZenonT(60)
<1>6. r.keys = n.keys /\ r.links = g /\ r \in [keys : Seq(SQLiteValue), links : Seq(TreesOf[h])]
  <2> HIDE DEF g
  <2> QED
    BY <1>1, <1>5 DEF Nodes
<1> HIDE DEF r, g
<1>7. r \in Nodes(TreesOf[h])
  BY <1>5, <1>6 DEF Nodes
<1>8. NodeOf(r, K, layer, h, B2)
  <2>1. \A j \in 1..Len(r.keys) + 1 : LinkOf(r.links[j], Between(K, r.keys, j), layer, h, B2)
    BY <1>0, <1>3, <1>6
  <2> QED
    BY <1>1, <1>2, <1>6, <1>7, <2>1, NodeIs
<1>9. r.links[1] = f[n.links[1]]
  BY <1>1, <1>3, <1>6
<1> QED
  BY <1>8, <1>9 DEF r, g, Relinked

LEMMA LoadedFits ==
    ASSUME NEW layer \in [Key -> Nat], NEW B, B = {Nil, Blank}, NEW h \in 0..MaxHeight,
           NEW n, NEW K, NodeOf(n, K, layer, h, B)
    PROVE  NodeOf(Loaded(n), K, layer, h, B)
<1>0. B \subseteq {Nil, Blank} /\ Nil \in B /\ Blank \in B /\ Nil # Blank
  BY NodesAre
<1>1. PICK f : IsLoaded(f) /\ \A m : Loaded(m) = f[m]
  BY LoadedIs
<1> DEFINE good == {e \in 0..MaxHeight + 1 : \A l, J : LinkOf(l, J, layer, e, B) =>
                       LinkOf(f[l], J, layer, e, B) /\ f[l] # Nil}
<1>2. ASSUME NEW l \in {Nil, Blank} PROVE f[l] = Blank
  <2>1. l \in Tree
    BY TreeFacts, Bounded
  <2> QED
    BY <1>1, <2>1, Zenon DEF IsLoaded
<1>3. 0 \in good
  <2>1. ASSUME NEW l, NEW J, LinkOf(l, J, layer, 0, B) PROVE LinkOf(f[l], J, layer, 0, B) /\ f[l] # Nil
    <3>1. l \in B /\ J = {}
      BY <1>0, <2>1, LinkIs
    <3>2. f[l] = Blank
      BY <1>0, <1>2, <3>1
    <3> QED
      BY <1>0, <3>1, <3>2, LinkIs
  <2>2. 0 \in 0..MaxHeight + 1
    BY Bounded
  <2> QED
    BY <2>1, <2>2, Zenon
<1>4. ASSUME NEW e \in 0..MaxHeight, e \in good, NEW m, NEW J, NodeOf(m, J, layer, e, B)
      PROVE  NodeOf(f[m], J, layer, e, B) /\ (m # EmptyNode => f[m] # EmptyNode)
  <2>1. m \in Tree /\ m # Nil /\ m # Blank /\ DOMAIN m.links = 1..Len(m.keys) + 1 /\ Len(m.keys) \in Nat
    BY <1>0, <1>4, NodeType, ZenonT(60)
  <2>2. CASE Childless(m)
    <3>1. f[m] = m
      BY <1>1, <2>1, <2>2, Zenon DEF IsLoaded
    <3> QED
      BY <1>4, <3>1
  <2>3. CASE ~Childless(m)
    <3>1. f[m] = Relinked(m, f)
      <4>1. m \notin {Nil, Blank}
        BY <2>1
      <4> QED
        BY <1>1, <2>1, <2>3, <4>1, Zenon DEF IsLoaded, Relinked
    <3>2. \A j \in 1..Len(m.keys) + 1 : /\ LinkOf(f[m.links[j]], Between(J, m.keys, j), layer, e, B)
                                        /\ f[m.links[j]] # Nil
      <4>1. \A j \in 1..Len(m.keys) + 1 : LinkOf(m.links[j], Between(J, m.keys, j), layer, e, B)
        BY <1>4, NodeIs
      <4> QED
        BY <1>4, <4>1
    <3> HIDE DEF good
    <3>3. NodeOf(Relinked(m, f), J, layer, e, B) /\ Relinked(m, f).links[1] = f[m.links[1]]
      <4>1. NewLinksFit(f, m, J, layer, e, B)
        BY <3>2 DEF NewLinksFit
      <4>2. B \subseteq {Nil, Blank} /\ NodeOf(m, J, layer, e, B)
        BY <1>0, <1>4
      <4> QED
        BY <4>1, <4>2, RelinkNode
    <3>4. f[m].links[1] # Nil
      BY <2>1, <3>1, <3>2, <3>3
    <3>5. EmptyNode.links[1] = Nil
      BY DEF EmptyNode
    <3> QED
      BY <3>1, <3>3, <3>4, <3>5
  <2> QED
    BY <2>2, <2>3
<1>5. ASSUME NEW e \in 0..MaxHeight + 1, e \in good, e < MaxHeight + 1 PROVE e + 1 \in good
  <2>0. e \in 0..MaxHeight /\ e + 1 \in 0..MaxHeight + 1
    BY <1>5, Bounded
  <2> SUFFICES ASSUME NEW l, NEW J, LinkOf(l, J, layer, e + 1, B)
               PROVE  LinkOf(f[l], J, layer, e + 1, B) /\ f[l] # Nil
    BY <2>0
  <2> HIDE DEF good
  <2>1. (l \in B /\ J = {}) \/ (l # EmptyNode /\ NodeOf(l, J, layer, e, B))
    BY <1>0, <2>0, LinkIs
  <2>2. CASE l \in B /\ J = {}
    <3>1. f[l] = Blank
      BY <1>0, <1>2, <2>2
    <3> QED
      BY <1>0, <2>0, <2>2, <3>1, LinkIs
  <2>3. CASE l # EmptyNode /\ NodeOf(l, J, layer, e, B)
    <3>1. NodeOf(f[l], J, layer, e, B) /\ f[l] # EmptyNode
      BY <1>4, <1>5, <2>0, <2>3
    <3> QED
      BY <1>0, <2>0, <3>1, LinkIs, NodeType, ZenonT(60)
  <2> QED
    BY <2>1, <2>2, <2>3
<1>6. \A e \in 0..MaxHeight + 1 : e \in good
  <2> HIDE DEF good
  <2>1. MaxHeight + 1 \in Nat
    BY Bounded
  <2> QED
    BY <1>3, <1>5, <2>1, UpTo
<1>7. h \in good
  <2>1. h \in 0..MaxHeight + 1
    BY Bounded
  <2> QED
    BY <1>6, <2>1
<1> HIDE DEF good
<1> QED
  BY <1>1, <1>4, <1>7

(* Where every node can be read, no link is Blank. *)
LEMMA ReadableFits ==
    ASSUME NEW layer \in [Key -> Nat], NEW h \in 0..MaxHeight,
           NEW n, NEW K, NodeOf(n, K, layer, h, {Nil, Blank}), Readable(n)
    PROVE  NodeOf(n, K, layer, h, {Nil})
<1> DEFINE B == {Nil, Blank}
           N == {Nil}
<1>0. /\ B \subseteq {Nil, Blank} /\ N \subseteq {Nil, Blank} /\ Nil \in N
      /\ \A x : x \in B /\ x # Blank => x \in N
  OBVIOUS
<1>1. PICK f : IsReadable(f) /\ \A m : Readable(m) = f[m]
  BY ReadableIs
<1>2. NodeOf(n, K, layer, h, B) /\ f[n]
  BY <1>1, Zenon
<1> HIDE DEF B, N
<1>3. ASSUME NEW m \in Tree, f[m] PROVE m # Blank /\ (m # Nil => \A i \in DOMAIN m.links : f[m.links[i]])
  BY <1>1, <1>3, Zenon DEF IsReadable
<1> DEFINE good == {e \in 0..MaxHeight + 1 : \A l, J : LinkOf(l, J, layer, e, B) /\ f[l] => LinkOf(l, J, layer, e, N)}
<1>4. 0 \in good
  <2>1. ASSUME NEW l, NEW J, LinkOf(l, J, layer, 0, B), f[l] PROVE LinkOf(l, J, layer, 0, N)
    <3>1. l \in B /\ J = {}
      BY <1>0, <2>1, LinkIs
    <3>2. l # Blank
      <4>1. l \in Tree
        BY <1>0, <3>1, TreeFacts, Bounded
      <4> QED
        BY <1>3, <2>1, <4>1
    <3> QED
      BY <1>0, <3>1, <3>2, LinkIs
  <2> QED
    BY <2>1, Bounded
<1>5. ASSUME NEW e \in 0..MaxHeight, e \in good, NEW m, NEW J, NodeOf(m, J, layer, e, B), f[m]
      PROVE  NodeOf(m, J, layer, e, N)
  <2>1. m \in Tree /\ m # Nil /\ DOMAIN m.links = 1..Len(m.keys) + 1
    BY <1>0, <1>5, NodeType
  <2>2. \A j \in 1..Len(m.keys) + 1 : f[m.links[j]]
    BY <1>3, <1>5, <2>1
  <2>3. \A j \in 1..Len(m.keys) + 1 : LinkOf(m.links[j], Between(J, m.keys, j), layer, e, B)
    BY <1>5, NodeIs
  <2>4. \A j \in 1..Len(m.keys) + 1 : LinkOf(m.links[j], Between(J, m.keys, j), layer, e, N)
    BY <1>5, <2>2, <2>3
  <2> QED
    BY <1>5, <2>4, NodeIs
<1>6. ASSUME NEW e \in 0..MaxHeight + 1, e \in good, e < MaxHeight + 1 PROVE e + 1 \in good
  <2>0. e \in 0..MaxHeight /\ e + 1 \in 0..MaxHeight + 1
    BY <1>6, Bounded
  <2> SUFFICES ASSUME NEW l, NEW J, LinkOf(l, J, layer, e + 1, B), f[l] PROVE LinkOf(l, J, layer, e + 1, N)
    BY <2>0
  <2> HIDE DEF good
  <2>1. (l \in B /\ J = {}) \/ (l # EmptyNode /\ NodeOf(l, J, layer, e, B))
    BY <1>0, <2>0, LinkIs
  <2>2. l \in Tree
    BY <1>0, <2>0, LinkType
  <2>3. l # Blank
    BY <1>3, <2>2
  <2>4. (l \in N /\ J = {}) \/ (l # EmptyNode /\ NodeOf(l, J, layer, e, N))
    BY <1>0, <1>5, <1>6, <2>0, <2>1, <2>3
  <2> QED
    BY <1>0, <2>0, <2>4, LinkIs
<1>7. \A e \in 0..MaxHeight + 1 : e \in good
  <2> HIDE DEF good
  <2>1. MaxHeight + 1 \in Nat
    BY Bounded
  <2> QED
    BY <1>4, <1>6, <2>1, UpTo
<1>8. h \in good
  <2>1. h \in 0..MaxHeight + 1
    BY Bounded
  <2> QED
    BY <1>7, <2>1
<1> HIDE DEF good
<1>9. NodeOf(n, K, layer, h, N)
  BY <1>2, <1>5, <1>8
<1> QED
  BY <1>9 DEF N

-----------------------------------------------------------------------------
(* Shrinking. *)

(* What two nodes that are joined by a key are, element by element. *)
IsJoined(r, a, k, b) ==
    /\ Len(r.keys) = Len(a.keys) + Len(b.keys) + 1
    /\ \A j \in 1..Len(a.keys) : r.keys[j] = a.keys[j]
    /\ r.keys[Len(a.keys) + 1] = k
    /\ \A j \in 1..Len(b.keys) : r.keys[Len(a.keys) + 1 + j] = b.keys[j]
    /\ \A j \in 1..Len(a.keys) + 1 : r.links[j] = a.links[j]
    /\ \A j \in 1..Len(b.keys) + 1 : r.links[Len(a.keys) + 1 + j] = b.links[j]

JoinedBy(a, k, b) == [keys |-> (a.keys \o <<k>>) \o b.keys, links |-> a.links \o b.links]

LEMMA JoinedIs ==
    ASSUME NEW T, NEW a \in Nodes(T), NEW b \in Nodes(T), a.keys \in Seq(Key), b.keys \in Seq(Key), NEW k \in Key
    PROVE  /\ JoinedBy(a, k, b) \in Nodes(T) /\ JoinedBy(a, k, b).keys \in Seq(Key)
           /\ IsJoined(JoinedBy(a, k, b), a, k, b)
<1> DEFINE p  == Len(a.keys)
           q  == Len(b.keys)
           u  == a.keys
           v  == b.keys
           one == <<k>>
           w  == u \o one
           ks == w \o v
           x  == a.links
           y  == b.links
           ls == x \o y
<1>1. /\ p \in Nat /\ q \in Nat /\ x \in Seq(T) /\ y \in Seq(T)
      /\ Len(x) = p + 1 /\ Len(y) = q + 1
  BY NodesAre
<1>2. u \in Seq(Key) /\ Len(u) = p /\ v \in Seq(Key) /\ Len(v) = q
  OBVIOUS
<1>3. one \in Seq(Key) /\ Len(one) = 1 /\ one[1] = k
  OBVIOUS
<1>4. p + 1 \in Nat /\ q + 1 \in Nat /\ 1 \in Nat /\ p + 1 \in p + 1..p + 1 /\ (p + 1) - p = 1
  BY <1>1
<1> HIDE DEF p, q, u, v, one, x, y
<1>5. w \in Seq(Key) /\ Len(w) = p + 1 /\ (\A j \in 1..p : w[j] = u[j]) /\ \A j \in p + 1..p + 1 : w[j] = one[j - p]
  <2>1. w \in Seq(Key) /\ IsConcat(w, u, one, p, 1)
    BY <1>1, <1>2, <1>3, <1>4, ConcatIs
  <2> QED
    BY <2>1, Zenon DEF IsConcat
<1>6. w[p + 1] = k
  BY <1>3, <1>4, <1>5
<1> HIDE DEF w
<1>7. /\ ks \in Seq(Key) /\ Len(ks) = (p + 1) + q
      /\ \A j \in 1..p + 1 : ks[j] = w[j]
      /\ \A j \in (p + 1) + 1..(p + 1) + q : ks[j] = v[j - (p + 1)]
  <2>1. ks \in Seq(Key) /\ IsConcat(ks, w, v, p + 1, q)
    BY <1>1, <1>2, <1>4, <1>5, ConcatIs
  <2> QED
    BY <2>1, Zenon DEF IsConcat
<1>8. /\ ls \in Seq(T) /\ Len(ls) = (p + 1) + (q + 1)
      /\ \A j \in 1..p + 1 : ls[j] = x[j]
      /\ \A j \in (p + 1) + 1..(p + 1) + (q + 1) : ls[j] = y[j - (p + 1)]
  <2>1. ls \in Seq(T) /\ IsConcat(ls, x, y, p + 1, q + 1)
    BY <1>1, <1>4, ConcatIs
  <2> QED
    BY <2>1, Zenon DEF IsConcat
<1> HIDE DEF ks, ls
<1> DEFINE r == [keys |-> ks, links |-> ls]
<1>9. r \in Nodes(T) /\ r.keys = ks /\ r.links = ls
  <2>1. ks \in Seq(SQLiteValue)
    <3>1. Key \subseteq SQLiteValue
      BY Keys
    <3>2. \A j \in 1..Len(ks) : ks[j] \in SQLiteValue
      BY <1>7, <3>1
    <3> QED
      BY <1>7, <3>2
  <2>2. Len(ls) = Len(ks) + 1
    BY <1>1, <1>7, <1>8
  <2> QED
    BY <1>8, <2>1, <2>2 DEF Nodes
<1>10. r = JoinedBy(a, k, b)
  BY DEF JoinedBy, ks, ls, w, u, v, x, y, one
<1> HIDE DEF r
<1>11. IsJoined(r, a, k, b)
  <2>1. ASSUME NEW j \in 1..p PROVE ks[j] = u[j]
    <3>1. j \in 1..p + 1
      BY <1>1
    <3> QED
      BY <1>5, <1>7, <3>1
  <2>2. ks[p + 1] = k
    <3>1. p + 1 \in 1..p + 1
      BY <1>1
    <3> QED
      BY <1>6, <1>7, <3>1
  <2>3. ASSUME NEW j \in 1..q PROVE ks[p + 1 + j] = v[j]
    <3>1. p + 1 + j \in (p + 1) + 1..(p + 1) + q /\ (p + 1 + j) - (p + 1) = j
      BY <1>1
    <3> QED
      BY <1>7, <3>1
  <2>4. ASSUME NEW j \in 1..q + 1 PROVE ls[p + 1 + j] = y[j]
    <3>1. p + 1 + j \in (p + 1) + 1..(p + 1) + (q + 1) /\ (p + 1 + j) - (p + 1) = j
      BY <1>1
    <3> QED
      BY <1>8, <3>1
  <2>5. Len(ks) = p + q + 1
    BY <1>1, <1>7
  <2> QED
    BY <1>8, <1>9, <2>1, <2>2, <2>3, <2>4, <2>5 DEF IsJoined, p, q, u, v, x, y
<1> QED
  BY <1>7, <1>9, <1>10, <1>11

(* The keys of one come before k, those of the other after it. *)
LEMMA JoinNode ==
    ASSUME NEW layer \in [Key -> Nat], NEW B, B \subseteq {Nil, Blank}, NEW h \in 0..MaxHeight,
           NEW a, NEW K, NodeOf(a, K, layer, h, B), NEW b, NEW J, NodeOf(b, J, layer, h, B),
           NEW k \in Key, layer[k] >= h,
           \A x \in K : Before(x, k), \A y \in J : Before(k, y),
           NEW K2, \A x : x \in K2 <=> x \in K \/ x = k \/ x \in J
    PROVE  NodeOf(JoinedBy(a, k, b), K2, layer, h, B)
<1> DEFINE p == Len(a.keys)
           q == Len(b.keys)
           r == JoinedBy(a, k, b)
<1>1. /\ K \subseteq Key /\ a.keys \in Seq(Key) /\ Sorted(a.keys) /\ a \in Nodes(TreesOf[h])
      /\ Holds(a.keys, {x \in K : layer[x] >= h})
      /\ \A j \in 1..p + 1 : LinkOf(a.links[j], Between(K, a.keys, j), layer, h, B)
  BY NodeIs
<1>2. /\ J \subseteq Key /\ b.keys \in Seq(Key) /\ Sorted(b.keys) /\ b \in Nodes(TreesOf[h])
      /\ Holds(b.keys, {x \in J : layer[x] >= h})
      /\ \A j \in 1..q + 1 : LinkOf(b.links[j], Between(J, b.keys, j), layer, h, B)
  BY NodeIs
<1>3. p \in Nat /\ q \in Nat
  BY <1>1, <1>2
<1>4. /\ \A j \in 1..p : a.keys[j] \in K /\ a.keys[j] \in Key /\ layer[a.keys[j]] >= h
      /\ \A j \in 1..q : b.keys[j] \in J /\ b.keys[j] \in Key /\ layer[b.keys[j]] >= h
      /\ \A x \in Key : x \in K /\ layer[x] >= h => \E j \in 1..p : a.keys[j] = x
      /\ \A x \in Key : x \in J /\ layer[x] >= h => \E j \in 1..q : b.keys[j] = x
  <2>1. KeysFit(a, K, layer, h) /\ KeysFit(b, J, layer, h)
    BY KeysOfNode
  <2> QED
    BY <1>1, <1>2, <2>1 DEF KeysFit
<1>6. r \in Nodes(TreesOf[h]) /\ r.keys \in Seq(Key) /\ IsJoined(r, a, k, b)
  BY <1>1, <1>2, JoinedIs
<1> HIDE DEF r
<1>7. /\ Len(r.keys) = p + q + 1
      /\ \A j \in 1..p : r.keys[j] = a.keys[j]
      /\ r.keys[p + 1] = k
      /\ \A j \in 1..q : r.keys[p + 1 + j] = b.keys[j]
      /\ \A j \in 1..p + 1 : r.links[j] = a.links[j]
      /\ \A j \in 1..q + 1 : r.links[p + 1 + j] = b.links[j]
  BY <1>6 DEF IsJoined
<1>8. /\ \A x \in K : \A y \in J : Before(x, y)
      /\ \A x \in K : ~Before(k, x)
      /\ \A y \in J : ~Before(y, k)
      /\ ~Before(k, k)
  <2>1. \A x \in K : \A y \in J : Before(x, y)
    BY <1>1, <1>2, KeysOrdered
  <2>2. \A x \in K : ~Before(k, x)
    BY <1>1, KeysOrdered
  <2>3. \A y \in J : ~Before(y, k)
    BY <1>2, KeysOrdered
  <2>4. ~Before(k, k)
    BY KeysOrdered
  <2> QED
    BY <2>1, <2>2, <2>3, <2>4
<1>9. K2 \subseteq Key
  BY <1>1, <1>2
<1>10. /\ \A i, j \in 1..p : i < j => Before(a.keys[i], a.keys[j])
       /\ \A i, j \in 1..q : i < j => Before(b.keys[i], b.keys[j])
  BY <1>1, <1>2 DEF Sorted
<1>11. ASSUME NEW S, NEW j, NEW x
       PROVE  /\ x \in Between(S, a.keys, j) <=> x \in S /\ (j = 1 \/ Before(a.keys[j - 1], x)) /\ (j > p \/ Before(x, a.keys[j]))
              /\ x \in Between(S, b.keys, j) <=> x \in S /\ (j = 1 \/ Before(b.keys[j - 1], x)) /\ (j > q \/ Before(x, b.keys[j]))
              /\ x \in Between(S, r.keys, j) <=> x \in S /\ (j = 1 \/ Before(r.keys[j - 1], x)) /\ (j > p + q + 1 \/ Before(x, r.keys[j]))
  BY <1>7 DEF Between
<1> HIDE DEF p, q
<1>12. Sorted(r.keys)
  <2> SUFFICES ASSUME NEW i \in 1..p + q + 1, NEW j \in 1..p + q + 1, i < j PROVE Before(r.keys[i], r.keys[j])
    BY <1>7 DEF Sorted
  <2>1. CASE j <= p
    <3>1. i \in 1..p /\ j \in 1..p
      BY <1>3, <2>1
    <3> QED
      BY <1>7, <1>10, <3>1
  <2>2. CASE j = p + 1
    <3>1. i \in 1..p
      BY <1>3, <2>2
    <3>2. r.keys[i] = a.keys[i] /\ r.keys[j] = k /\ a.keys[i] \in K
      BY <1>4, <1>7, <2>2, <3>1
    <3> QED
      BY <3>2
  <2>3. CASE j > p + 1
    <3>1. j - p - 1 \in 1..q /\ p + 1 + (j - p - 1) = j
      BY <1>3, <2>3
    <3>2. r.keys[j] = b.keys[j - p - 1] /\ b.keys[j - p - 1] \in J
      BY <1>4, <1>7, <3>1
    <3>3. CASE i <= p
      <4>1. i \in 1..p
        BY <1>3, <3>3
      <4>2. r.keys[i] = a.keys[i] /\ a.keys[i] \in K
        BY <1>4, <1>7, <4>1
      <4> QED
        BY <1>8, <3>2, <4>2
    <3>4. CASE i = p + 1
      BY <1>7, <3>2, <3>4
    <3>5. CASE i > p + 1
      <4>1. i - p - 1 \in 1..q /\ p + 1 + (i - p - 1) = i /\ i - p - 1 < j - p - 1
        BY <1>3, <2>3, <3>5
      <4>2. r.keys[i] = b.keys[i - p - 1]
        BY <1>7, <4>1
      <4> QED
        BY <1>10, <3>1, <3>2, <4>1, <4>2
    <3> QED
      BY <1>3, <3>3, <3>4, <3>5
  <2> QED
    BY <1>3, <2>1, <2>2, <2>3
<1>13. Holds(r.keys, {x \in K2 : layer[x] >= h})
  <2>1. ASSUME NEW x \in K2, layer[x] >= h PROVE \E j \in 1..p + q + 1 : r.keys[j] = x
    <3>1. CASE x \in K
      <4>1. PICK j \in 1..p : a.keys[j] = x
        BY <1>1, <1>4, <2>1, <3>1
      <4>2. j \in 1..p + q + 1 /\ r.keys[j] = x
        BY <1>3, <1>7, <4>1
      <4> QED
        BY <4>2
    <3>2. CASE x \in J
      <4>1. PICK j \in 1..q : b.keys[j] = x
        BY <1>2, <1>4, <2>1, <3>2
      <4>2. p + 1 + j \in 1..p + q + 1 /\ r.keys[p + 1 + j] = x
        BY <1>3, <1>7, <4>1, SMTT(30)
      <4> QED
        BY <4>2
    <3>3. CASE x = k
      <4>1. p + 1 \in 1..p + q + 1 /\ r.keys[p + 1] = x
        BY <1>3, <1>7, <3>3
      <4> QED
        BY <4>1
    <3> QED
      BY <3>1, <3>2, <3>3
  <2>2. ASSUME NEW j \in 1..p + q + 1 PROVE r.keys[j] \in K2 /\ layer[r.keys[j]] >= h
    <3>1. CASE j <= p
      <4>1. j \in 1..p
        BY <1>3, <3>1
      <4> QED
        BY <1>4, <1>7, <4>1
    <3>2. CASE j > p + 1
      <4>1. j - p - 1 \in 1..q /\ p + 1 + (j - p - 1) = j
        BY <1>3, <3>2
      <4>2. r.keys[j] = b.keys[j - p - 1]
        BY <1>7, <4>1
      <4> QED
        BY <1>4, <4>1, <4>2
    <3>3. CASE j = p + 1
      BY <1>7, <3>3
    <3> QED
      BY <1>3, <3>1, <3>2, <3>3
  <2> QED
    BY <1>7, <2>1, <2>2 DEF Holds
<1>14. ASSUME NEW j \in 1..p + q + 2 PROVE LinkOf(r.links[j], Between(K2, r.keys, j), layer, h, B)
  <2>1. CASE j <= p + 1
    <3>1. /\ j \in 1..p + 1 /\ ~(j > p + q + 1) /\ (j # 1 => j - 1 \in 1..p)
          /\ (~(j > p) => j \in 1..p) /\ (j > p => j = p + 1)
      BY <1>3, <2>1
    <3>2. /\ r.links[j] = a.links[j] /\ (j # 1 => r.keys[j - 1] = a.keys[j - 1])
          /\ (~(j > p) => r.keys[j] = a.keys[j] /\ a.keys[j] \in K) /\ (j > p => r.keys[j] = k)
      BY <1>4, <1>7, <3>1
    <3>3. Between(K2, r.keys, j) = Between(K, a.keys, j)
      <4>1. \A x : x \in Between(K2, r.keys, j) <=>
                      x \in K2 /\ (j = 1 \/ Before(a.keys[j - 1], x)) /\ Before(x, r.keys[j])
        BY <1>11, <3>1, <3>2
      <4>2. \A x : x \in Between(K, a.keys, j) <=>
                      x \in K /\ (j = 1 \/ Before(a.keys[j - 1], x)) /\ (j > p \/ Before(x, a.keys[j]))
        BY <1>11, <3>1
      <4>3. CASE j > p
        <5>1. \A x : x \in K2 /\ Before(x, r.keys[j]) <=> x \in K
          BY <1>8, <3>2, <4>3
        <5> QED
          BY <4>1, <4>2, <4>3, <5>1
      <4>4. CASE ~(j > p)
        <5>1. \A y \in J : ~Before(y, a.keys[j])
          <6>1. a.keys[j] \in Key
            BY <1>1, <3>2, <4>4
          <6> QED
            BY <1>2, <1>8, <3>2, <4>4, <6>1, KeysOrdered
        <5>2. ~Before(k, a.keys[j])
          BY <1>8, <3>2, <4>4
        <5>3. \A x : x \in K2 /\ Before(x, r.keys[j]) <=> x \in K /\ Before(x, a.keys[j])
          BY <3>2, <4>4, <5>1, <5>2
        <5> QED
          BY <4>1, <4>2, <4>4, <5>3
      <4> QED
        BY <4>3, <4>4
    <3> QED
      BY <1>1, <3>1, <3>2, <3>3 DEF p
  <2>2. CASE j > p + 1
    <3> DEFINE i == j - p - 1
    <3>1. /\ i \in 1..q + 1 /\ j = p + 1 + i /\ j # 1 /\ (i = 1 => j - 1 = p + 1)
          /\ (i # 1 => i - 1 \in 1..q /\ j - 1 = p + 1 + (i - 1))
          /\ (j > p + q + 1 <=> i > q) /\ (~(i > q) => i \in 1..q)
      BY <1>3, <2>2
    <3> HIDE DEF i
    <3>2. /\ r.links[j] = b.links[i]
          /\ (i # 1 => r.keys[j - 1] = b.keys[i - 1] /\ b.keys[i - 1] \in J) /\ (i = 1 => r.keys[j - 1] = k)
          /\ (~(i > q) => r.keys[j] = b.keys[i])
      <4>1. r.links[j] = b.links[i]
        BY <1>7, <3>1
      <4>2. i # 1 => r.keys[j - 1] = b.keys[i - 1] /\ b.keys[i - 1] \in J
        BY <1>4, <1>7, <3>1
      <4>3. i = 1 => r.keys[j - 1] = k
        BY <1>7, <3>1
      <4>4. ~(i > q) => r.keys[j] = b.keys[i]
        BY <1>7, <3>1
      <4> QED
        BY <4>1, <4>2, <4>3, <4>4
    <3>3. Between(K2, r.keys, j) = Between(J, b.keys, i)
      <4>1. \A x : x \in Between(K2, r.keys, j) <=> /\ x \in K2 /\ Before(r.keys[j - 1], x)
                                                    /\ i > q \/ Before(x, b.keys[i])
        BY <1>11, <3>1, <3>2
      <4>2. \A x : x \in Between(J, b.keys, i) <=> /\ x \in J /\ (i = 1 \/ Before(b.keys[i - 1], x))
                                                   /\ i > q \/ Before(x, b.keys[i])
        BY <1>11, <3>1
      <4>3. CASE i = 1
        <5>1. \A x : x \in K2 /\ Before(r.keys[j - 1], x) <=> x \in J
          BY <1>8, <3>2, <4>3
        <5> QED
          BY <4>1, <4>2, <4>3, <5>1
      <4>4. CASE i # 1
        <5>1. \A x \in K : ~Before(b.keys[i - 1], x)
          <6>1. b.keys[i - 1] \in Key
            BY <1>2, <3>2, <4>4
          <6> QED
            BY <1>1, <1>8, <3>2, <4>4, <6>1, KeysOrdered
        <5>2. ~Before(b.keys[i - 1], k)
          BY <1>8, <3>2, <4>4
        <5>3. \A x : x \in K2 /\ Before(r.keys[j - 1], x) <=> x \in J /\ Before(b.keys[i - 1], x)
          BY <3>2, <4>4, <5>1, <5>2
        <5> QED
          BY <4>1, <4>2, <4>4, <5>3
      <4> QED
        BY <4>3, <4>4
    <3> QED
      BY <1>2, <3>1, <3>2, <3>3 DEF q
  <2> QED
    BY <1>3, <2>1, <2>2
<1>15. \A j \in 1..Len(r.keys) + 1 : LinkOf(r.links[j], Between(K2, r.keys, j), layer, h, B)
  <2>1. Len(r.keys) + 1 = p + q + 2
    BY <1>3, <1>7
  <2> QED
    BY <1>14, <2>1
<1>16. NodeOf(r, K2, layer, h, B)
  BY <1>6, <1>9, <1>12, <1>13, <1>15, NodeIs
<1> QED
  BY <1>16 DEF r

IsFlatten(f, s) ==
    f = [i \in 1..Len(s) |-> IF i = 1 THEN s[i] ELSE f[i - 1] \o s[i]]

LEMMA FlattenIs ==
    ASSUME NEW s, Len(s) \in Nat \ {0}
    PROVE  \E f : IsFlatten(f, s) /\ FlattenSeq(s) = f[Len(s)]
<1> DEFINE At(p, i) == IF i = 1 THEN s[i] ELSE p \o s[i]
           good == {m \in Nat : \E f : f = [i \in 1..m + 1 |-> At(f[i - 1], i)]}
<1>1. \A p, q : At(p, 1) = At(q, 1)
  OBVIOUS
<1> HIDE DEF At
<1>2. 0 \in good
  <2> DEFINE g == [i \in 1..0 + 1 |-> At(0, i)]
  <2>1. ASSUME NEW i \in 1..0 + 1 PROVE At(g[i - 1], i) = At(0, i)
    <3>1. i = 1
      OBVIOUS
    <3> QED
      BY <1>1, <3>1
  <2>2. g = [i \in 1..0 + 1 |-> At(g[i - 1], i)]
    BY <2>1
  <2> HIDE DEF g
  <2> QED
    BY <2>2
<1>3. ASSUME NEW m \in Nat, m \in good PROVE m + 1 \in good
  <2>1. PICK f : f = [i \in 1..m + 1 |-> At(f[i - 1], i)]
    BY <1>3
  <2> DEFINE g == [i \in 1..(m + 1) + 1 |-> IF i = m + 2 THEN At(f[m + 1], i) ELSE f[i]]
  <2>2. ASSUME NEW i \in 1..(m + 1) + 1 PROVE g[i] = At(g[i - 1], i)
    <3>1. CASE i = 1
      <4>1. g[i] = f[i] /\ i \in 1..m + 1
        BY <3>1
      <4>2. f[i] = At(f[i - 1], i)
        BY <2>1, <4>1
      <4> QED
        BY <1>1, <3>1, <4>1, <4>2
    <3>2. CASE i \in 2..m + 1
      <4>1. g[i] = f[i] /\ i \in 1..m + 1 /\ g[i - 1] = f[i - 1]
        BY <3>2
      <4>2. f[i] = At(f[i - 1], i)
        BY <2>1, <4>1
      <4> QED
        BY <4>1, <4>2
    <3>3. CASE i = m + 2
      <4>1. g[i] = At(f[m + 1], i) /\ g[i - 1] = f[m + 1] /\ i - 1 = m + 1
        BY <3>3
      <4> QED
        BY <4>1
    <3> QED
      BY <3>1, <3>2, <3>3
  <2>3. g = [i \in 1..(m + 1) + 1 |-> g[i]]
    OBVIOUS
  <2> HIDE DEF g
  <2>4. g = [i \in 1..(m + 1) + 1 |-> At(g[i - 1], i)]
    BY <2>2, <2>3
  <2> QED
    BY <2>4
<1>4. PICK f : f = [i \in 1..Len(s) |-> At(f[i - 1], i)]
  <2> HIDE DEF good
  <2>1. Len(s) - 1 \in Nat /\ (Len(s) - 1) + 1 = Len(s)
    OBVIOUS
  <2>2. Len(s) - 1 \in good
    BY <1>2, <1>3, <2>1, OverNat
  <2>3. \E f : f = [i \in 1..(Len(s) - 1) + 1 |-> At(f[i - 1], i)]
    BY <2>2 DEF good
  <2> QED
    BY <2>1, <2>3
<1>5. f = [i \in 1..Len(s) |-> IF i = 1 THEN s[i] ELSE f[i - 1] \o s[i]]
  BY <1>4 DEF At
<1>6. Len(s) # 0
  OBVIOUS
<1> QED
  BY <1>5, <1>6, Zenon DEF FlattenSeq, IsFlatten

(* The root of a tree that is shrunk by a level. *)
KeysOf(l)    == IF l = Nil THEN <<>> ELSE l.keys
LinksOf(l)   == IF l = Nil THEN <<Nil>> ELSE l.links
KeyAt(n, i)  == IF i \in DOMAIN n.keys THEN <<n.keys[i]>> ELSE <<>>
KeyParts(n)  == [i \in DOMAIN n.links |-> KeysOf(n.links[i]) \o KeyAt(n, i)]
LinkParts(n) == [i \in DOMAIN n.links |-> LinksOf(n.links[i])]
Flattened(n) == [keys |-> FlattenSeq(KeyParts(n)), links |-> FlattenSeq(LinkParts(n))]

LEMMA ShrinkIs ==
    ASSUME NEW t
    PROVE  Shrink(t) = [t EXCEPT !.height = @ - 1, !.root = LinkTo(Flattened(t.root))]
BY Zenon DEF Shrink, Flattened, KeyParts, LinkParts, KeysOf, LinksOf, KeyAt

(* A child as a node, also where there is none. *)
LEMMA ChildNode ==
    ASSUME NEW layer \in [Key -> Nat], NEW B, B \subseteq {Nil, Blank}, Nil \in B, NEW h \in 1..MaxHeight,
           NEW l, l # Blank, NEW C, LinkOf(l, C, layer, h, B)
    PROVE  /\ NodeOf([keys |-> KeysOf(l), links |-> LinksOf(l)], C, layer, h - 1, B)
           /\ KeysOf(l) \in Seq(Key) /\ LinksOf(l) \in Seq(TreesOf[h - 1])
<1> DEFINE c == [keys |-> KeysOf(l), links |-> LinksOf(l)]
           g == h - 1
<1>1. h \in 0..MaxHeight + 1 /\ g \in 0..MaxHeight
  BY Bounded
<1> HIDE DEF g
<1>2. NodeOf(c, C, layer, g, B)
  <2>1. CASE l = Nil
    <3>1. C = {}
      BY <1>1, <2>1, LinkCases
    <3>2. c = EmptyNode
      BY <2>1 DEF EmptyNode, KeysOf, LinksOf
    <3> QED
      BY <1>1, <3>1, <3>2, EmptyIs
  <2>2. CASE l # Nil
    <3>1. NodeOf(l, C, layer, g, B)
      BY <1>1, <2>2, LinkCases DEF g
    <3>2. l \in Nodes(TreesOf[g])
      BY <1>1, <3>1, NodeType
    <3>3. l = [keys |-> l.keys, links |-> l.links]
      BY <3>2 DEF Nodes
    <3>4. c = l
      BY <2>2, <3>3 DEF KeysOf, LinksOf
    <3> QED
      BY <3>1, <3>4
  <2> QED
    BY <2>1, <2>2
<1>3. c.keys = KeysOf(l) /\ c.links = LinksOf(l)
  OBVIOUS
<1> HIDE DEF c
<1>4. c.keys \in Seq(Key) /\ c.links \in Seq(TreesOf[g])
  BY <1>1, <1>2, NodeType
<1> QED
  BY <1>2, <1>3, <1>4 DEF g, c

LEMMA Regroup ==
    ASSUME NEW v \in Seq(Key), NEW x \in Seq(Key), NEW y \in Seq(Key)
    PROVE  (v \o x) \o y = v \o (x \o y)
BY ConcatAssociative, SMTT(30)

(* The keys of a node and of its children, one after another. *)
LEMMA FlattenedFits ==
    ASSUME NEW layer \in [Key -> Nat], NEW h \in 1..MaxHeight,
           NEW n, NEW K, NodeOf(n, K, layer, h, {Nil})
    PROVE  NodeOf(Flattened(n), K, layer, h - 1, {Nil})
<1> DEFINE B == {Nil}
           g == h - 1
           m == Len(n.keys)
           sk == KeyParts(n)
           sl == LinkParts(n)
           ks(i) == KeysOf(n.links[i])
           ls(i) == LinksOf(n.links[i])
           at(i) == KeyAt(n, i)
           C(i) == Between(K, n.keys, i)
           T == TreesOf[g]
<1>0. B \subseteq {Nil, Blank} /\ Nil \in B /\ NodeOf(n, K, layer, h, B) /\ B = {Nil} /\ Blank \notin B
  BY NodesAre
<1> HIDE DEF B
<1>1. h \in 0..MaxHeight /\ h \in 0..MaxHeight + 1 /\ g \in 0..MaxHeight /\ h >= g
  BY Bounded
<1>2. /\ K \subseteq Key /\ n.keys \in Seq(Key) /\ Sorted(n.keys)
      /\ \A j \in 1..m + 1 : LinkOf(n.links[j], C(j), layer, h, B)
      /\ DOMAIN n.keys = 1..m /\ DOMAIN n.links = 1..m + 1 /\ m \in Nat
  BY <1>0, <1>1, NodeIs, NodeType, ZenonT(60)
<1>3. \A j \in 1..m : n.keys[j] \in K /\ n.keys[j] \in Key /\ layer[n.keys[j]] >= g
  <2>1. KeysFit(n, K, layer, h)
    BY <1>0, <1>1, KeysOfNode
  <2>2. \A j \in 1..m : n.keys[j] \in K /\ n.keys[j] \in Key /\ layer[n.keys[j]] >= h
    BY <1>2, <2>1 DEF KeysFit
  <2>3. \A x \in Key : layer[x] \in Nat
    OBVIOUS
  <2> HIDE DEF m
  <2> QED
    BY <1>1, <2>2, <2>3
<1>4. ASSUME NEW i \in 1..m + 1
      PROVE  /\ NodeOf([keys |-> ks(i), links |-> ls(i)], C(i), layer, g, B)
             /\ ks(i) \in Seq(Key) /\ ls(i) \in Seq(T)
             /\ at(i) \in Seq(Key) /\ sk[i] = ks(i) \o at(i) /\ sl[i] = ls(i)
             /\ sk[i] \in Seq(Key)
  <2>1. LinkOf(n.links[i], C(i), layer, h, B)
    BY <1>2
  <2>2. n.links[i] # Blank
    BY <1>0, <1>1, <2>1, LinkCases
  <2>3. /\ NodeOf([keys |-> ks(i), links |-> ls(i)], C(i), layer, g, B)
        /\ ks(i) \in Seq(Key) /\ ls(i) \in Seq(T)
    BY <1>0, <2>1, <2>2, ChildNode
  <2>4. at(i) \in Seq(Key)
    <3>1. \A x \in Key : <<x>> \in Seq(Key)
      OBVIOUS
    <3> QED
      BY <1>2, <1>3, <3>1 DEF KeyAt
  <2>5. sk[i] = ks(i) \o at(i) /\ sl[i] = ls(i)
    BY <1>2, Zenon DEF KeyParts, LinkParts
  <2> QED
    BY <2>3, <2>4, <2>5
<1>5. Len(sk) = m + 1 /\ Len(sl) = m + 1
  <2>1. DOMAIN sk = 1..m + 1 /\ DOMAIN sl = 1..m + 1
    BY <1>2, Zenon DEF KeyParts, LinkParts
  <2>2. sk = [i \in DOMAIN n.links |-> sk[i]] /\ sl = [i \in DOMAIN n.links |-> sl[i]]
    BY DEF KeyParts, LinkParts
  <2>3. sk \in [1..m + 1 -> Seq(Key)] /\ sl \in [1..m + 1 -> Seq(T)]
    <3> HIDE DEF sk, sl, m
    <3> QED
      BY <1>2, <1>4, <2>2
  <2>4. \A S : \A q \in Nat : \A s \in [1..q -> S] : Len(s) = q
    OBVIOUS
  <2>5. m + 1 \in Nat
    BY <1>2
  <2> HIDE DEF sk, sl, m
  <2> QED
    BY <2>3, <2>4, <2>5, Zenon
<1>6. PICK fk : IsFlatten(fk, sk) /\ FlattenSeq(sk) = fk[m + 1]
  <2> HIDE DEF sk, m
  <2>1. Len(sk) \in Nat \ {0}
    BY <1>2, <1>5
  <2> QED
    BY <1>5, <2>1, FlattenIs
<1>7. PICK fl : IsFlatten(fl, sl) /\ FlattenSeq(sl) = fl[m + 1]
  <2> HIDE DEF sl, m
  <2>1. Len(sl) \in Nat \ {0}
    BY <1>2, <1>5
  <2> QED
    BY <1>5, <2>1, FlattenIs
<1> HIDE DEF sk, sl
<1>8. /\ fk = [i \in 1..m + 1 |-> IF i = 1 THEN sk[i] ELSE fk[i - 1] \o sk[i]]
      /\ fl = [i \in 1..m + 1 |-> IF i = 1 THEN sl[i] ELSE fl[i - 1] \o sl[i]]
  BY <1>5, <1>6, <1>7, Zenon DEF IsFlatten
<1> DEFINE upto(i) == {x \in K : i = m \/ Before(x, n.keys[i + 1])}
           Fit(i, u) == /\ u \in Seq(Key) /\ fk[i + 1] = u \o at(i + 1)
                        /\ NodeOf([keys |-> u, links |-> fl[i + 1]], upto(i), layer, g, B)
           good == {i \in 0..m : \E u : Fit(i, u)}
<1>9. 0 \in good
  <2>1. 1 \in 1..m + 1 /\ 0 \in 0..m /\ (0 = m <=> 1 > m) /\ 0 + 1 = 1
    BY <1>2
  <2> HIDE DEF m
  <2>2. fk[1] = ks(1) \o at(1) /\ fl[1] = ls(1)
    <3>1. fk[1] = sk[1] /\ fl[1] = sl[1]
      BY <1>8, <2>1
    <3> QED
      BY <1>4, <2>1, <3>1
  <2>3. upto(0) = C(1)
    BY <2>1 DEF Between, m
  <2>4. NodeOf([keys |-> ks(1), links |-> ls(1)], C(1), layer, g, B) /\ ks(1) \in Seq(Key)
    BY <1>4, <2>1
  <2> HIDE DEF upto, C, ks, ls, at
  <2>5. Fit(0, ks(1))
    BY <2>1, <2>2, <2>3, <2>4
  <2> QED
    BY <2>1, <2>5, Zenon
<1>10. ASSUME NEW i \in 0..m, i \in good, i < m PROVE i + 1 \in good
  <2>1. PICK u : Fit(i, u)
    BY <1>10
  <2> DEFINE k == n.keys[i + 1]
             i2 == i + 2
             a == [keys |-> u, links |-> fl[i + 1]]
             b == [keys |-> ks(i2), links |-> ls(i2)]
             u2 == (u \o <<k>>) \o ks(i2)
  <2>2. /\ i + 1 \in 1..m /\ i + 1 \in 1..m + 1 /\ i2 \in 1..m + 1 /\ i2 # 1 /\ i2 - 1 = i + 1 /\ i + 1 \in 0..m
        /\ (i + 1) + 1 = i2 /\ i # m /\ (i2 > m <=> i + 1 = m) /\ (i + 1 # m => i2 \in 1..m) /\ i + 1 < i2
    <3> HIDE DEF m
    <3>1. m \in Nat /\ i \in Nat /\ i < m
      BY <1>2, <1>10
    <3>2. i + 1 \in 1..m /\ i + 1 \in 1..m + 1 /\ i2 \in 1..m + 1 /\ i + 1 \in 0..m
      BY <3>1
    <3>3. i2 # 1 /\ i2 - 1 = i + 1 /\ (i + 1) + 1 = i2 /\ i # m /\ i + 1 < i2
      BY <3>1
    <3>4. (i2 > m <=> i + 1 = m) /\ (i + 1 # m => i2 \in 1..m)
      BY <3>1
    <3> QED
      BY <3>2, <3>3, <3>4
  <2> HIDE DEF m, i2
  <2>3. at(i + 1) = <<k>> /\ k \in K /\ k \in Key /\ layer[k] >= g
    BY <1>2, <1>3, <2>2 DEF KeyAt
  <2>4. fk[i2] = fk[i + 1] \o sk[i2] /\ fl[i2] = fl[i + 1] \o ls(i2)
    BY <1>4, <1>8, <2>2, ZenonT(60)
  <2> HIDE DEF k
  <2>5. fk[i2] = u2 \o at(i2) /\ u2 \in Seq(Key)
    <3> DEFINE one == <<k>>
               x == ks(i2)
               y == at(i2)
    <3>1. one \in Seq(Key) /\ x \in Seq(Key) /\ y \in Seq(Key) /\ u \in Seq(Key)
      BY <1>4, <2>1, <2>2, <2>3
    <3>2. fk[i2] = (u \o one) \o (x \o y)
      <4>1. sk[i2] = x \o y
        BY <1>4, <2>2
      <4>2. fk[i + 1] = u \o one
        BY <2>1, <2>3
      <4> QED
        BY <2>4, <4>1, <4>2
    <3> HIDE DEF one, x, y
    <3>3. u \o one \in Seq(Key)
      BY <3>1, ConcatProperties
    <3> DEFINE v == u \o one
    <3> HIDE DEF v
    <3>4. v \in Seq(Key)
      BY <3>3 DEF v
    <3>5. (v \o x) \o y = v \o (x \o y)
      BY <3>1, <3>4, Regroup, ZenonT(60)
    <3>6. v \o x \in Seq(Key)
      BY <3>1, <3>4, ConcatProperties
    <3> QED
      BY <3>2, <3>5, <3>6 DEF v, one, x, y
  <2>6. JoinedBy(a, k, b) = [keys |-> u2, links |-> fl[i2]]
    <3>1. a.keys = u /\ a.links = fl[i + 1] /\ b.keys = ks(i2) /\ b.links = ls(i2)
      OBVIOUS
    <3> HIDE DEF a, b, ks, ls
    <3> QED
      BY <2>4, <3>1 DEF JoinedBy
  <2>7. NodeOf(a, upto(i), layer, g, B)
    BY <2>1
  <2>8. NodeOf(b, C(i2), layer, g, B)
    BY <1>4, <2>2
  <2>9. upto(i) \subseteq K /\ \A x \in upto(i) : Before(x, k)
    BY <2>2 DEF k
  <2>10. ASSUME NEW x PROVE x \in C(i2) <=> x \in K /\ Before(k, x) /\ (i + 1 = m \/ Before(x, n.keys[i2]))
    BY <2>2 DEF Between, k, m
  <2>11. i + 1 # m => Before(k, n.keys[i2]) /\ n.keys[i2] \in Key
    BY <1>2, <1>3, <2>2 DEF Sorted, k, m
  <2>12. ASSUME NEW x PROVE x \in upto(i + 1) <=> x \in upto(i) \/ x = k \/ x \in C(i2)
    <3>1. x \in upto(i + 1) <=> x \in K /\ (i + 1 = m \/ Before(x, n.keys[i2]))
      BY <2>2
    <3>2. x \in upto(i) <=> x \in K /\ Before(x, k)
      BY <2>2 DEF k
    <3> HIDE DEF upto, C
    <3>3. x \in Key => x = k \/ Before(x, k) \/ Before(k, x)
      BY <2>3, KeysOrdered
    <3>4. x \in K /\ Before(x, k) => i + 1 = m \/ Before(x, n.keys[i2])
      BY <1>2, <2>3, <2>11, KeysOrdered
    <3> QED
      BY <1>2, <2>3, <2>10, <2>11, <3>1, <3>2, <3>3, <3>4
  <2>13. \A y \in C(i2) : Before(k, y)
    BY <2>10
  <2> HIDE DEF a, b, upto, C, g
  <2>14. NodeOf(JoinedBy(a, k, b), upto(i + 1), layer, g, B)
    <3> DEFINE K1 == upto(i)
               J == C(i2)
               K2 == upto(i + 1)
    <3>1. \A x : x \in K2 <=> x \in K1 \/ x = k \/ x \in J
      BY <2>12
    <3>2. (\A x \in K1 : Before(x, k)) /\ \A y \in J : Before(k, y)
      BY <2>9, <2>13
    <3>3. NodeOf(a, K1, layer, g, B) /\ NodeOf(b, J, layer, g, B)
      BY <2>7, <2>8
    <3> HIDE DEF K1, J, K2
    <3>4. NodeOf(JoinedBy(a, k, b), K2, layer, g, B)
      BY <1>0, <1>1, <2>3, <3>1, <3>2, <3>3, JoinNode
    <3> QED
      BY <3>4 DEF K2
  <2> HIDE DEF u2, at
  <2>15. Fit(i + 1, u2)
    BY <2>2, <2>5, <2>6, <2>14
  <2> QED
    BY <2>2, <2>15, Zenon
<1>11. m \in good
  <2> HIDE DEF good
  <2>1. m \in 0..m /\ m \in Nat
    BY <1>2
  <2> QED
    BY <1>9, <1>10, <2>1, UpTo
<1>12. PICK u : Fit(m, u)
  BY <1>11
<1>13. at(m + 1) = <<>>
  BY <1>2 DEF KeyAt
<1>14. fk[m + 1] = u
  <2>1. u \in Seq(Key) /\ fk[m + 1] = u \o <<>>
    BY <1>12, <1>13
  <2> QED
    BY <2>1
<1>15. upto(m) = K
  OBVIOUS
<1>16. Flattened(n) = [keys |-> u, links |-> fl[m + 1]]
  <2>1. Flattened(n) = [keys |-> FlattenSeq(sk), links |-> FlattenSeq(sl)]
    BY DEF Flattened, sk, sl
  <2> QED
    BY <1>6, <1>7, <1>14, <2>1
<1> HIDE DEF upto
<1>17. NodeOf(Flattened(n), K, layer, g, B)
  BY <1>12, <1>15, <1>16
<1> QED
  BY <1>0, <1>17

-----------------------------------------------------------------------------
(* Growing. *)

IsIncreasing(s, S, n) ==
    /\ s \in Seq(1..n)
    /\ \A i, j \in 1..Len(s) : i < j => s[i] < s[j]
    /\ \A m : m \in S <=> \E i \in 1..Len(s) : s[i] = m

LEMMA IncreasingOf ==
    ASSUME NEW n \in Nat, NEW S, S \subseteq 1..n
    PROVE  IsIncreasing(Increasing(S), S, n)
<1>1. /\ Increasing(S) \in Seq(1..n)
      /\ \A i, j \in 1..Len(Increasing(S)) : i < j => Increasing(S)[i] < Increasing(S)[j]
      /\ \A m : m \in S <=> \E i \in 1..Len(Increasing(S)) : Increasing(S)[i] = m
  BY IncreasingIs
<1> QED
  BY <1>1, Zenon DEF IsIncreasing

(* A root of one more level. *)
From(up, j)  == IF j = 1 THEN 0 ELSE up[j - 1]
To(n, up, j) == IF j > Len(up) THEN Len(n.keys) ELSE up[j] - 1
Raised(n, up) == [keys  |-> [j \in 1..Len(up) |-> n.keys[up[j]]],
                  links |-> [j \in 1..Len(up) + 1 |-> LinkTo(Part(n, From(up, j), To(n, up, j)))]]

LEMMA GrowIs ==
    ASSUME NEW t
    PROVE  Grow(t) = [t EXCEPT !.height = @ + 1, !.root = Raised(t.root, Increasing(Promoted(t)))]
BY Zenon DEF Grow, Raised, From, To

LEMMA RaisedFits ==
    ASSUME NEW layer \in [Key -> Nat], NEW B, B \subseteq {Nil, Blank}, Nil \in B, NEW h \in 0..MaxHeight,
           h < MaxHeight, NEW n, NEW K, NodeOf(n, K, layer, h, B),
           NEW up, IsIncreasing(up, {i \in DOMAIN n.keys : layer[n.keys[i]] > h}, Len(n.keys))
    PROVE  NodeOf(Raised(n, up), K, layer, h + 1, B)
<1> DEFINE m == Len(n.keys)
           c == Len(up)
           r == Raised(n, up)
           kf == [j \in 1..c |-> n.keys[up[j]]]
           lf == [j \in 1..c + 1 |-> LinkTo(Part(n, From(up, j), To(n, up, j)))]
           T == TreesOf[h + 1]
<1>1. /\ h + 1 \in 0..MaxHeight /\ h + 1 \in 1..MaxHeight + 1 /\ h + 1 \in 0..MaxHeight + 1 /\ (h + 1) - 1 = h
      /\ h \in Nat
  BY Bounded
<1>2. /\ K \subseteq Key /\ n.keys \in Seq(Key) /\ Sorted(n.keys) /\ m \in Nat
      /\ DOMAIN n.keys = 1..m /\ \A j \in 1..m : n.keys[j] \in Key
  <2>1. K \subseteq Key /\ n.keys \in Seq(Key) /\ Sorted(n.keys)
    BY NodeIs
  <2> QED
    BY <2>1
<1>3. /\ \A j \in 1..m : n.keys[j] \in K
      /\ \A x \in Key : x \in K /\ layer[x] >= h + 1 => \E i \in 1..m : n.keys[i] = x
  <2>1. KeysFit(n, K, layer, h)
    BY KeysOfNode
  <2>2. /\ \A j \in 1..m : n.keys[j] \in K
        /\ \A x \in Key : x \in K /\ layer[x] >= h => \E i \in 1..m : n.keys[i] = x
    BY <2>1 DEF KeysFit
  <2>3. \A x \in Key : layer[x] \in Nat
    OBVIOUS
  <2> HIDE DEF m
  <2> QED
    BY <1>1, <2>2, <2>3
<1>4. /\ up \in Seq(1..m) /\ c \in Nat
      /\ \A i, j \in 1..c : i < j => up[i] < up[j]
      /\ \A i : i \in 1..m /\ layer[n.keys[i]] > h <=> \E j \in 1..c : up[j] = i
  <2>1. /\ up \in Seq(1..m)
        /\ \A i, j \in 1..c : i < j => up[i] < up[j]
        /\ \A i : i \in {x \in DOMAIN n.keys : layer[n.keys[x]] > h} <=> \E j \in 1..c : up[j] = i
    BY Zenon DEF IsIncreasing
  <2>2. c \in Nat
    BY <2>1
  <2>3. \A i : i \in {x \in DOMAIN n.keys : layer[n.keys[x]] > h} <=> i \in 1..m /\ layer[n.keys[i]] > h
    BY <1>2
  <2> QED
    BY <2>1, <2>2, <2>3, Zenon
<1>5. \A j \in 1..c : up[j] \in 1..m
  BY <1>4
<1>6. DOMAIN kf = 1..c /\ DOMAIN lf = 1..c + 1
  OBVIOUS
<1>7. /\ \A j \in 1..c : kf[j] = n.keys[up[j]]
      /\ \A j \in 1..c + 1 : lf[j] = LinkTo(Part(n, From(up, j), To(n, up, j)))
  OBVIOUS
<1>8. r.keys = kf /\ r.links = lf /\ r = [keys |-> kf, links |-> lf]
  BY DEF Raised
<1> HIDE DEF kf, lf, r, m, c
<1>9. kf \in Seq(Key) /\ kf \in Seq(SQLiteValue) /\ Len(kf) = c
  <2>1. \A S : \A q \in Nat : \A s : DOMAIN s = 1..q /\ (\A j \in 1..q : s[j] \in S) /\ s = [j \in 1..q |-> s[j]]
                                      => s \in Seq(S) /\ Len(s) = q
    BY SMTT(30)
  <2>2. kf = [j \in 1..c |-> kf[j]]
    BY <1>7 DEF kf
  <2>3. \A j \in 1..c : kf[j] \in Key /\ kf[j] \in SQLiteValue
    BY <1>2, <1>5, <1>7, Keys
  <2> QED
    BY <1>4, <1>6, <2>1, <2>2, <2>3, Zenon
<1>10. ASSUME NEW j \in 1..c + 1
       PROVE  LinkOf(lf[j], Between(K, kf, j), layer, h + 1, B)
  <2> DEFINE a == From(up, j)
             b == To(n, up, j)
             K2 == Between(K, kf, j)
  <2>1. /\ (j # 1 => j - 1 \in 1..c /\ j - 1 < j) /\ (~(j > c) => j \in 1..c)
        /\ j # 1 /\ ~(j > c) => j - 1 \in 1..c /\ j \in 1..c /\ j - 1 < j
    BY <1>4
  <2>2. /\ (j = 1 => a = 0) /\ (j # 1 => a = up[j - 1] /\ a \in 1..m /\ kf[j - 1] = n.keys[a])
    BY <1>5, <1>7, <2>1 DEF From
  <2>3. /\ (j > c => b = m)
        /\ (~(j > c) => b = up[j] - 1 /\ up[j] \in 1..m /\ kf[j] = n.keys[up[j]])
    BY <1>5, <1>7, <2>1 DEF To, m, c
  <2>4. j # 1 /\ ~(j > c) => up[j - 1] < up[j]
    BY <1>4, <2>1
  <2> HIDE DEF a, b
  <2>5. /\ a \in 0..m /\ b \in 0..m /\ (a = 0 <=> j = 1) /\ (b = m <=> j > c)
        /\ (~(j > c) => b + 1 = up[j])
    BY <1>2, <2>2, <2>3
  <2>6. a <= b
    <3>1. CASE j = 1
      BY <1>2, <2>2, <2>5, <3>1
    <3>2. CASE j > c
      BY <1>2, <2>3, <2>5, <3>2
    <3>3. CASE j # 1 /\ ~(j > c)
      BY <2>2, <2>3, <2>4, <3>3
    <3> QED
      BY <3>1, <3>2, <3>3
  <2>7. \A x : x \in K2 <=> /\ x \in K
                            /\ a = 0 \/ Before(n.keys[a], x)
                            /\ b = m \/ Before(x, n.keys[b + 1])
    <3>1. \A x : x \in K2 <=> /\ x \in K
                              /\ j = 1 \/ Before(kf[j - 1], x)
                              /\ j > c \/ Before(x, kf[j])
      BY <1>9 DEF Between
    <3> HIDE DEF K2
    <3> QED
      BY <2>2, <2>3, <2>5, <3>1
  <2> HIDE DEF K2
  <2>8. NodeOf(Part(n, a, b), K2, layer, h, B)
    BY <2>5, <2>6, <2>7, PartNode DEF m
  <2>9. LinkOf(LinkTo(Part(n, a, b)), K2, layer, h + 1, B)
    BY <1>1, <2>8, LinkToIs
  <2> QED
    BY <1>7, <2>9 DEF a, b, K2
<1>11. lf \in Seq(T) /\ Len(lf) = c + 1
  <2>1. \A S : \A q \in Nat : \A s : DOMAIN s = 1..q /\ (\A j \in 1..q : s[j] \in S) /\ s = [j \in 1..q |-> s[j]]
                                      => s \in Seq(S) /\ Len(s) = q
    OBVIOUS
  <2>2. lf = [j \in 1..c + 1 |-> lf[j]]
    BY <1>7 DEF lf
  <2>3. \A j \in 1..c + 1 : lf[j] \in T
    BY <1>1, <1>10, LinkType
  <2> DEFINE q == c + 1
  <2>4. q \in Nat
    BY <1>4
  <2>5. DOMAIN lf = 1..q /\ (\A j \in 1..q : lf[j] \in T) /\ lf = [j \in 1..q |-> lf[j]]
    BY <1>6, <2>2, <2>3
  <2> HIDE DEF q, T
  <2>6. lf \in Seq(T) /\ Len(lf) = q
    BY <2>1, <2>4, <2>5, Zenon
  <2> QED
    BY <2>6 DEF q
<1>12. r \in Nodes(T) /\ Len(r.keys) = c
  <2>1. Len(r.links) = Len(r.keys) + 1
    BY <1>8, <1>9, <1>11
  <2>2. r \in [keys : Seq(SQLiteValue), links : Seq(T)]
    <3> HIDE DEF T
    <3> QED
      BY <1>8, <1>9, <1>11
  <2> QED
    BY <1>8, <1>9, <2>1, <2>2 DEF Nodes
<1>13. Sorted(kf)
  <2> SUFFICES ASSUME NEW i \in 1..c, NEW j \in 1..c, i < j PROVE Before(kf[i], kf[j])
    BY <1>9 DEF Sorted
  <2>1. up[i] < up[j] /\ up[i] \in 1..m /\ up[j] \in 1..m
    BY <1>4, <1>5
  <2>2. Before(n.keys[up[i]], n.keys[up[j]])
    BY <1>2, <2>1 DEF Sorted, m
  <2> QED
    BY <1>7, <2>2
<1>14. Holds(kf, {x \in K : layer[x] >= h + 1})
  <2>1. ASSUME NEW x \in K, layer[x] >= h + 1 PROVE \E j \in 1..c : kf[j] = x
    <3>1. PICK i \in 1..m : n.keys[i] = x
      BY <1>2, <1>3, <2>1
    <3>2. layer[n.keys[i]] > h
      <4>1. layer[x] \in Nat
        BY <1>2
      <4> QED
        BY <1>1, <2>1, <3>1, <4>1
    <3>3. PICK j \in 1..c : up[j] = i
      BY <1>4, <3>2
    <3> QED
      BY <1>7, <3>1, <3>3
  <2>2. ASSUME NEW j \in 1..c PROVE kf[j] \in K /\ layer[kf[j]] >= h + 1
    <3>1. up[j] \in 1..m /\ layer[n.keys[up[j]]] > h
      BY <1>4
    <3>2. layer[n.keys[up[j]]] \in Nat
      BY <1>2, <3>1
    <3> QED
      BY <1>1, <1>3, <1>7, <3>1, <3>2
  <2> QED
    BY <1>9, <2>1, <2>2 DEF Holds
<1>15. NodeOf(r, K, layer, h + 1, B)
  <2>1. \A j \in 1..Len(r.keys) + 1 : LinkOf(r.links[j], Between(K, r.keys, j), layer, h + 1, B)
    BY <1>8, <1>10, <1>12
  <2> QED
    BY <1>2, <1>8, <1>9, <1>12, <1>13, <1>14, <2>1, NodeIs
<1> QED
  BY <1>15 DEF r

-----------------------------------------------------------------------------
(* Trees. *)

LEMMA PowerGrows ==
    ASSUME NEW h \in Nat
    PROVE  PowerOf(h) \in Nat /\ (h > 0 => PowerOf(h) >= 2)
<1>1. PICK f : IsPower(f, h) /\ PowerOf(h) = f[h]
  BY PowerIs
<1>2. \A i \in 0..h : f[i] = IF i = 0 THEN 1 ELSE BranchFactor * f[i - 1]
  BY <1>1, Zenon DEF IsPower
<1> DEFINE good == {i \in 0..h : f[i] \in Nat /\ f[i] >= 1 /\ (i > 0 => f[i] >= 2)}
<1>3. 0 \in good
  BY <1>2
<1>4. ASSUME NEW i \in 0..h, i \in good, i < h PROVE i + 1 \in good
  <2>1. i + 1 \in 0..h /\ i + 1 # 0 /\ (i + 1) - 1 = i
    BY <1>4
  <2>2. f[i + 1] = BranchFactor * f[i]
    BY <1>2, <2>1
  <2>3. f[i] \in Nat /\ f[i] >= 1
    BY <1>4
  <2>4. \A x, y \in Nat : x >= 2 /\ y >= 1 => x * y \in Nat /\ x * y >= 2
    <3> SUFFICES ASSUME NEW x \in Nat, NEW y \in Nat, x >= 2, y >= 1 PROVE x * y \in Nat /\ x * y >= 2
      OBVIOUS
    <3>1. x * y >= 2 * y
      OBVIOUS
    <3> QED
      BY <3>1
  <2>5. BranchFactor \in Nat /\ BranchFactor >= 2
    BY Branching
  <2>6. f[i + 1] \in Nat /\ f[i + 1] >= 2
    BY <2>2, <2>3, <2>4, <2>5
  <2> QED
    BY <2>1, <2>6
<1>5. h \in good
  <2> HIDE DEF good
  <2>1. h \in 0..h
    OBVIOUS
  <2> QED
    BY <1>3, <1>4, <2>1, UpTo
<1> QED
  BY <1>1, <1>5

TreeRecords == [layer : Layers, root : Tree \ {Blank}, height : 0..MaxHeight, size : Nat]

(* A tree with the keys K, whose links to nothing are in B. *)
Shaped(t, K, B) == t \in TreeRecords /\ NodeOf(RootNode(t), K, t.layer, t.height, B)

(* What changes of a tree leave as it is. *)
SameBut(t, s) == s.layer = t.layer /\ s.size = t.size

LEMMA RootIs ==
    ASSUME NEW B, B \subseteq {Nil, Blank}, Nil \in B, NEW t, NEW K, Shaped(t, K, B)
    PROVE  /\ t \in TreeRecords /\ t.layer \in [Key -> Nat] /\ t.height \in 0..MaxHeight /\ t.height \in Nat
           /\ t.size \in Nat /\ NodeOf(RootNode(t), K, t.layer, t.height, B)
           /\ t.root \in Tree \ {Blank} /\ (K # {} => t.root # Nil) /\ (t.root # Nil => RootNode(t) = t.root)
<1>1. /\ t \in TreeRecords /\ t.layer \in Layers /\ t.height \in 0..MaxHeight /\ t.root \in Tree \ {Blank}
      /\ t.size \in Nat
  BY DEF Shaped, TreeRecords
<1>2. t.layer \in [Key -> Nat] /\ t.height \in Nat
  BY <1>1, Keys
<1>3. NodeOf(RootNode(t), K, t.layer, t.height, B)
  BY DEF Shaped
<1>4. K # {} => t.root # Nil
  <2>1. t.root = Nil => NodeOf(EmptyNode, K, t.layer, t.height, B)
    BY <1>3 DEF RootNode
  <2> QED
    BY <1>1, <2>1, EmptyIs
<1>5. t.root # Nil => RootNode(t) = t.root
  BY DEF RootNode
<1> QED
  BY <1>1, <1>2, <1>3, <1>4, <1>5

(* A tree of a node. *)
TreeOf(layer, r, h, z) == [layer |-> layer, root |-> r, height |-> h, size |-> z]

LEMMA TreeIs ==
    ASSUME NEW B, B \subseteq {Nil, Blank}, Nil \in B, NEW layer \in Layers, NEW h \in 0..MaxHeight, NEW z \in Nat,
           NEW n, NEW K, NodeOf(n, K, layer, h, B), NEW r, r = n \/ r = LinkTo(n)
    PROVE  /\ Shaped(TreeOf(layer, r, h, z), K, B)
           /\ TreeOf(layer, r, h, z).layer = layer /\ TreeOf(layer, r, h, z).root = r
           /\ TreeOf(layer, r, h, z).height = h /\ TreeOf(layer, r, h, z).size = z
<1> DEFINE s == TreeOf(layer, r, h, z)
<1>1. layer \in [Key -> Nat]
  BY Keys
<1>2. r \in Tree \ {Blank} /\ NodeOf(IF r = Nil THEN EmptyNode ELSE r, K, layer, h, B)
  <2>1. CASE r = n
    <3>1. n \in Tree /\ n # Nil /\ n # Blank
      BY NodeType
    <3> QED
      BY <2>1, <3>1
  <2>2. CASE r = LinkTo(n)
    <3> DEFINE g == h + 1
    <3>1. g \in 1..MaxHeight + 1 /\ g \in 0..MaxHeight + 1 /\ g - 1 = h
      BY Bounded
    <3> HIDE DEF g
    <3>2. LinkOf(r, K, layer, g, B)
      BY <1>1, <2>2, <3>1, LinkToIs
    <3>3. r # Blank
      <4>1. IsEmpty(n) => r = Nil
        BY <2>2 DEF LinkTo
      <4>2. ~IsEmpty(n) => r = n
        BY <2>2 DEF LinkTo
      <4> QED
        BY <4>1, <4>2, NodeType, NodesAre
    <3>4. r \in Tree
      BY <3>1, <3>2, LinkType
    <3>5. \/ r \in B /\ K = {}
          \/ r \notin {Nil, Blank} /\ NodeOf(r, K, layer, h, B)
      BY <3>1, <3>2, LinkCases
    <3>6. r = Nil => K = {}
      BY <3>5
    <3>7. r = Nil => NodeOf(EmptyNode, K, layer, h, B)
      BY <1>1, <3>6, EmptyIs
    <3>8. r # Nil => NodeOf(r, K, layer, h, B)
      BY <3>3, <3>5
    <3> QED
      BY <3>3, <3>4, <3>7, <3>8
  <2> QED
    BY <2>1, <2>2
<1>3. s.layer = layer /\ s.root = r /\ s.height = h /\ s.size = z /\ s \in TreeRecords
  BY <1>2 DEF TreeOf, TreeRecords
<1> HIDE DEF s
<1>4. Shaped(s, K, B)
  BY <1>2, <1>3 DEF Shaped, RootNode
<1> QED
  BY <1>3, <1>4 DEF s

LEMMA ExceptTree ==
    ASSUME NEW t \in TreeRecords, NEW r, NEW h, NEW z
    PROVE  /\ [t EXCEPT !.root = r] = TreeOf(t.layer, r, t.height, t.size)
           /\ [t EXCEPT !.height = h, !.root = r] = TreeOf(t.layer, r, h, t.size)
           /\ [t EXCEPT !.size = z] = TreeOf(t.layer, t.root, t.height, z)
<1>1. [t EXCEPT !.root = r] = [layer |-> t.layer, root |-> r, height |-> t.height, size |-> t.size]
  BY DEF TreeRecords
<1>2. [t EXCEPT !.size = z] = [layer |-> t.layer, root |-> t.root, height |-> t.height, size |-> z]
  BY DEF TreeRecords
<1>3. [t EXCEPT !.height = h, !.root = r] = [layer |-> t.layer, root |-> r, height |-> h, size |-> t.size]
  <2> DEFINE s == [t EXCEPT !.height = h, !.root = r]
  <2>1. /\ s \in [layer : Layers, root : {r}, height : {h}, size : Nat]
        /\ s.layer = t.layer /\ s.root = r /\ s.height = h /\ s.size = t.size
    BY DEF TreeRecords
  <2> HIDE DEF s
  <2>2. s = [layer |-> s.layer, root |-> s.root, height |-> s.height, size |-> s.size]
    BY <2>1
  <2> QED
    BY <2>1, <2>2 DEF s
<1> QED
  BY <1>1, <1>2, <1>3, Zenon DEF TreeOf

LEMMA ExceptRoot ==
    ASSUME NEW t \in TreeRecords, NEW r, NEW z
    PROVE  [t EXCEPT !.root = r, !.size = z] = TreeOf(t.layer, r, t.height, z)
<1> DEFINE s == [t EXCEPT !.root = r, !.size = z]
<1>1. /\ s \in [layer : Layers, root : {r}, height : 0..MaxHeight, size : {z}]
      /\ s.layer = t.layer /\ s.root = r /\ s.height = t.height /\ s.size = z
  BY DEF TreeRecords
<1> HIDE DEF s
<1>2. s = [layer |-> s.layer, root |-> s.root, height |-> s.height, size |-> s.size]
  BY <1>1
<1> QED
  BY <1>1, <1>2 DEF s, TreeOf

(* Growing and shrinking keep the keys. *)
LEMMA GrownFits ==
    ASSUME NEW B, B \subseteq {Nil, Blank}, Nil \in B, NEW t, NEW K, Shaped(t, K, B), K # {},
           t.height > 0 => t.size >= 2
    PROVE  /\ Shaped(Grown(t), K, B) /\ SameBut(t, Grown(t))
           /\ Grown(t).height > 0 => Grown(t).size >= 2
<1> DEFINE q == MaxHeight - t.height
           Good(s, i) == /\ Shaped(s, K, B) /\ SameBut(t, s) /\ (s.height > 0 => s.size >= 2)
                         /\ s.height <= t.height + i
<1>1. t.height \in 0..MaxHeight /\ q \in Nat /\ q + t.height = MaxHeight
  BY RootIs, Bounded
<1>2. PICK f : IsGrown(f, t) /\ Grown(t) = f[q]
  BY <1>1, GrownIs
<1>3. \A i \in 0..q : f[i] = IF i = 0 THEN t
                           ELSE IF f[i - 1].size >= PowerOf(f[i - 1].height + 1) /\ Promoted(f[i - 1]) # {}
                                THEN Grow(f[i - 1]) ELSE f[i - 1]
  BY <1>2, Zenon DEF IsGrown
<1> HIDE DEF q
<1>4. ASSUME NEW s, NEW i \in 0..q, i < q, Good(s, i), s.size >= PowerOf(s.height + 1)
      PROVE  Good(Grow(s), i + 1)
  <2> DEFINE h == s.height + 1
             n == s.root
             up == Increasing(Promoted(s))
             r == Raised(n, up)
  <2>1. /\ s \in TreeRecords /\ s.layer \in [Key -> Nat] /\ s.height \in 0..MaxHeight /\ s.size \in Nat
        /\ n # Nil /\ NodeOf(n, K, s.layer, s.height, B) /\ s.layer \in Layers
    <3>1. s \in TreeRecords => s.layer \in Layers
      BY DEF TreeRecords
    <3> QED
      BY <1>4, <3>1, RootIs
  <2>2. s.height < MaxHeight /\ h \in 0..MaxHeight /\ h \in Nat /\ h > 0 /\ h <= t.height + (i + 1)
    BY <1>1, <1>4, <2>1, Bounded
  <2>3. IsIncreasing(up, {j \in DOMAIN n.keys : s.layer[n.keys[j]] > s.height}, Len(n.keys))
    <3>1. Promoted(s) = {j \in DOMAIN n.keys : s.layer[n.keys[j]] > s.height}
      BY DEF Promoted
    <3>2. DOMAIN n.keys = 1..Len(n.keys) /\ Len(n.keys) \in Nat
      BY <2>1, NodeType
    <3>3. Promoted(s) \subseteq 1..Len(n.keys)
      BY <3>1, <3>2
    <3>4. IsIncreasing(up, Promoted(s), Len(n.keys))
      BY <3>2, <3>3, IncreasingOf
    <3> QED
      BY <3>1, <3>4
  <2> HIDE DEF up, n
  <2>4. NodeOf(r, K, s.layer, s.height + 1, B)
    BY <2>1, <2>2, <2>3, RaisedFits
  <2>5. Grow(s) = TreeOf(s.layer, r, h, s.size)
    <3>1. Grow(s) = [s EXCEPT !.height = s.height + 1, !.root = r]
      BY <2>1, GrowIs DEF n, up, TreeRecords
    <3> HIDE DEF r
    <3> QED
      BY <2>1, <3>1, ExceptTree
  <2> HIDE DEF r
  <2>6. PowerOf(h) >= 2 /\ PowerOf(h) \in Nat
    BY <2>2, PowerGrows
  <2>7. s.size >= 2
    BY <1>4, <2>1, <2>6
  <2> HIDE DEF h
  <2>8. NodeOf(r, K, s.layer, h, B)
    BY <2>4 DEF h
  <2>9. /\ Shaped(Grow(s), K, B) /\ Grow(s).layer = s.layer /\ Grow(s).height = h /\ Grow(s).size = s.size
    BY <2>1, <2>2, <2>5, <2>8, TreeIs
  <2> QED
    BY <1>4, <2>2, <2>7, <2>9 DEF SameBut
<1> DEFINE good == {i \in 0..q : Good(f[i], i)}
<1>5. 0 \in good
  <2>1. 0 \in 0..q
    BY <1>1
  <2>2. f[0] = t
    BY <1>3, <2>1
  <2>3. Good(t, 0)
    BY <1>1 DEF SameBut
  <2> QED
    BY <2>1, <2>2, <2>3
<1>6. ASSUME NEW i \in 0..q, i \in good, i < q PROVE i + 1 \in good
  <2>1. i + 1 \in 0..q /\ i + 1 # 0 /\ (i + 1) - 1 = i
    BY <1>1, <1>6
  <2>2. Good(f[i], i)
    BY <1>6
  <2>3. f[i + 1] = IF f[i].size >= PowerOf(f[i].height + 1) /\ Promoted(f[i]) # {} THEN Grow(f[i]) ELSE f[i]
    BY <1>3, <2>1
  <2>4. f[i].height \in Nat
    BY <2>2, RootIs
  <2>5. Good(f[i], i + 1)
    BY <1>1, <2>2, <2>4
  <2> HIDE DEF Good
  <2>6. Good(f[i + 1], i + 1)
    BY <1>4, <1>6, <2>2, <2>3, <2>5
  <2> QED
    BY <2>1, <2>6
<1>7. q \in good
  <2> HIDE DEF good
  <2>1. q \in 0..q
    BY <1>1
  <2> QED
    BY <1>1, <1>5, <1>6, <2>1, UpTo
<1> QED
  BY <1>2, <1>7

LEMMA ShrunkFits ==
    ASSUME NEW t, NEW K, Shaped(t, K, {Nil}), t.height > 0 => K # {}
    PROVE  /\ Shaped(Shrunk(t), K, {Nil}) /\ SameBut(t, Shrunk(t))
           /\ Shrunk(t).height > 0 => Shrunk(t).size >= 2
<1> DEFINE B == {Nil}
           q == t.height
           High(s) == s.height > 0 /\ s.size < PowerOf(s.height)
           Good(s, i) == /\ Shaped(s, K, B) /\ SameBut(t, s) /\ (s.height > 0 => K # {})
                         /\ s.height + i <= t.height \/ ~High(s)
<1>0. B \subseteq {Nil, Blank} /\ Nil \in B /\ Shaped(t, K, B) /\ B = {Nil}
  OBVIOUS
<1> HIDE DEF B
<1>1. q \in Nat /\ t.height \in Nat /\ q = t.height
  BY <1>0, RootIs
<1>2. PICK f : IsShrunk(f, t) /\ Shrunk(t) = f[q]
  BY <1>1, ShrunkIs
<1>3. \A i \in 0..q : f[i] = IF i = 0 THEN t
                           ELSE IF f[i - 1].height > 0 /\ f[i - 1].size < PowerOf(f[i - 1].height)
                                THEN Shrink(f[i - 1]) ELSE f[i - 1]
  BY <1>2, Zenon DEF IsShrunk
<1> HIDE DEF q
<1>4. ASSUME NEW s, NEW i \in 0..q, Good(s, i), High(s)
      PROVE  Good(Shrink(s), i + 1)
  <2> DEFINE h == s.height - 1
             n == s.root
             r == Flattened(n)
  <2>1. /\ s \in TreeRecords /\ s.layer \in [Key -> Nat] /\ s.height \in 0..MaxHeight /\ s.size \in Nat
        /\ n # Nil /\ NodeOf(n, K, s.layer, s.height, B) /\ s.layer \in Layers
    <3>1. s \in TreeRecords => s.layer \in Layers
      BY DEF TreeRecords
    <3> QED
      BY <1>0, <1>4, <3>1, RootIs
  <2>2. s.height \in 1..MaxHeight /\ h \in 0..MaxHeight /\ h + (i + 1) <= t.height
    BY <1>1, <1>4, <2>1, Bounded
  <2> HIDE DEF n
  <2>4. NodeOf(r, K, s.layer, s.height - 1, B)
    BY <1>0, <2>1, <2>2, FlattenedFits
  <2>5. Shrink(s) = TreeOf(s.layer, LinkTo(r), h, s.size)
    <3>1. Shrink(s) = [s EXCEPT !.height = s.height - 1, !.root = LinkTo(r)]
      BY <2>1, ShrinkIs DEF n, TreeRecords
    <3> HIDE DEF r
    <3> QED
      BY <2>1, <3>1, ExceptTree
  <2> HIDE DEF r
  <2>6. NodeOf(r, K, s.layer, h, B)
    BY <2>4
  <2> HIDE DEF h
  <2>7. /\ Shaped(Shrink(s), K, B) /\ Shrink(s).layer = s.layer /\ Shrink(s).height = h /\ Shrink(s).size = s.size
    BY <1>0, <2>1, <2>2, <2>5, <2>6, TreeIs
  <2> HIDE DEF High
  <2> QED
    BY <1>4, <2>2, <2>7 DEF SameBut, High
<1> DEFINE good == {i \in 0..q : Good(f[i], i)}
<1>5. 0 \in good
  <2>1. 0 \in 0..q
    BY <1>1
  <2>2. f[0] = t
    BY <1>3, <2>1
  <2>3. Good(t, 0)
    BY <1>0, <1>1 DEF SameBut
  <2> QED
    BY <2>1, <2>2, <2>3
<1>6. ASSUME NEW i \in 0..q, i \in good, i < q PROVE i + 1 \in good
  <2>1. i + 1 \in 0..q /\ i + 1 # 0 /\ (i + 1) - 1 = i
    BY <1>1, <1>6
  <2>2. Good(f[i], i)
    BY <1>6
  <2>3. f[i + 1] = IF High(f[i]) THEN Shrink(f[i]) ELSE f[i]
    BY <1>3, <2>1
  <2>4. ~High(f[i]) => Good(f[i], i + 1)
    BY <2>2
  <2> HIDE DEF Good, High
  <2>5. Good(f[i + 1], i + 1)
    BY <1>4, <1>6, <2>2, <2>3, <2>4
  <2> QED
    BY <2>1, <2>5
<1>7. q \in good
  <2> HIDE DEF good
  <2>1. q \in 0..q
    BY <1>1
  <2> QED
    BY <1>1, <1>5, <1>6, <2>1, UpTo
<1> DEFINE s == Shrunk(t)
<1>8. Good(s, q)
  BY <1>2, <1>7
<1> HIDE DEF s
<1>9. s.height \in Nat /\ s.size \in Nat
  BY <1>0, <1>8, RootIs
<1>10. s.height > 0 => s.size >= 2
  <2>1. s.height > 0 => ~High(s)
    BY <1>1, <1>8, <1>9
  <2>2. s.height > 0 => PowerOf(s.height) \in Nat /\ PowerOf(s.height) >= 2
    BY <1>9, PowerGrows
  <2> QED
    BY <1>9, <2>1, <2>2
<1> HIDE DEF High
<1> QED
  BY <1>0, <1>8, <1>10 DEF s

(* A tree with its keys counted, and no higher than they ask for. *)
Counted(t, K, B) ==
    /\ Shaped(t, K, B)
    /\ IsFiniteSet(K) /\ t.size = Cardinality(K)
    /\ t.height > 0 => t.size >= 2

LEMMA CountChanges ==
    ASSUME NEW K, IsFiniteSet(K), NEW k
    PROVE  /\ Cardinality(K) \in Nat /\ (Cardinality(K) >= 1 => K # {})
           /\ k \notin K => IsFiniteSet(K \union {k}) /\ Cardinality(K \union {k}) = Cardinality(K) + 1
           /\ k \in K => /\ IsFiniteSet(K \ {k}) /\ Cardinality(K \ {k}) = Cardinality(K) - 1
                         /\ Cardinality(K) >= 1
<1>1. Cardinality(K) \in Nat
  BY FS_CardinalityType
<1>2. Cardinality(K) >= 1 => K # {}
  BY FS_EmptySet
<1>3. k \notin K => IsFiniteSet(K \union {k}) /\ Cardinality(K \union {k}) = Cardinality(K) + 1
  BY FS_AddElement
<1>4. ASSUME k \in K
      PROVE  IsFiniteSet(K \ {k}) /\ Cardinality(K \ {k}) = Cardinality(K) - 1 /\ Cardinality(K) >= 1
  <2>1. IsFiniteSet(K \ {k}) /\ Cardinality(K \ {k}) = Cardinality(K) - 1
    BY <1>4, FS_RemoveElement
  <2>2. Cardinality(K \ {k}) \in Nat
    BY <2>1, FS_CardinalityType
  <2> QED
    BY <1>1, <2>1, <2>2
<1> QED
  BY <1>1, <1>2, <1>3, <1>4

(* Get finds what is there, or fails where Insert fails. *)
LEMMA GetIs ==
    ASSUME NEW B, B \subseteq {Nil, Blank}, Nil \in B, NEW t, NEW K, Shaped(t, K, B), NEW k \in Key
    PROVE  /\ Get(t, k) \in {"unreadable", IF k \in K THEN "found" ELSE "absent"}
           /\ Get(t, k) = "unreadable" => InsertFails(t, k)
<1> DEFINE d == Depth(t, k)
<1>1. /\ t.layer \in [Key -> Nat] /\ t.height \in 0..MaxHeight
      /\ NodeOf(RootNode(t), K, t.layer, t.height, B)
      /\ (K # {} => t.root # Nil) /\ (t.root # Nil => RootNode(t) = t.root)
  BY RootIs
<1>2. d = DepthIn(t.height, t.layer, k)
  BY DEF Depth, DepthIn
<1> HIDE DEF d
<1>3. CASE t.root = Nil
  <2>1. Get(t, k) = "absent"
    BY <1>3 DEF Get
  <2> QED
    BY <1>1, <1>3, <2>1
<1>4. CASE t.root # Nil
  <2>1. Get(t, k) = Descend(t.root, d, k)
    BY <1>4, Zenon DEF Get, d
  <2>2. InsertFails(t, k) = PutFails(t.root, d, k)
    BY <1>1, <1>4 DEF InsertFails, d
  <2>3. NodeOf(t.root, K, t.layer, t.height, B)
    BY <1>1, <1>4
  <2>4. /\ Descend(t.root, d, k) \in {"unreadable", IF k \in K THEN "found" ELSE "absent"}
        /\ Descend(t.root, d, k) = "unreadable" => PutFails(t.root, d, k)
    BY <1>1, <1>2, <2>3, LookupIs
  <2> QED
    BY <2>1, <2>2, <2>4, Zenon
<1> QED
  BY <1>3, <1>4

LEMMA InsertFits ==
    ASSUME NEW B, B \subseteq {Nil, Blank}, Nil \in B, NEW t, NEW K, Counted(t, K, B), NEW k \in Key,
           ~InsertFails(t, k)
    PROVE  Counted(InsertKey(t, k), K \union {k}, B) /\ InsertKey(t, k).layer = t.layer
<1>1. /\ Shaped(t, K, B) /\ IsFiniteSet(K) /\ t.size = Cardinality(K) /\ (t.height > 0 => t.size >= 2)
  BY DEF Counted
<1>2. Get(t, k) = IF k \in K THEN "found" ELSE "absent"
  BY <1>1, GetIs
<1>3. CASE k \in K
  <2>1. InsertKey(t, k) = t
    BY <1>2, <1>3 DEF InsertKey
  <2>2. K \union {k} = K
    BY <1>3
  <2> QED
    BY <2>1, <2>2
<1>4. CASE k \notin K
  <2> DEFINE n == PutBelow(RootNode(t), Depth(t, k), k)
             K2 == K \union {k}
             s == [t EXCEPT !.root = n]
             g == Grown(s)
             r == [g EXCEPT !.size = g.size + 1]
  <2>1. /\ t \in TreeRecords /\ t.layer \in [Key -> Nat] /\ t.layer \in Layers /\ t.height \in 0..MaxHeight
        /\ t.size \in Nat /\ NodeOf(RootNode(t), K, t.layer, t.height, B)
    <3>1. t \in TreeRecords => t.layer \in Layers
      BY DEF TreeRecords
    <3> QED
      BY <1>1, <3>1, RootIs
  <2>2. NodeOf(n, K2, t.layer, t.height, B)
    <3>1. Depth(t, k) = DepthIn(t.height, t.layer, k)
      BY DEF Depth, DepthIn
    <3>2. ~PutFails(RootNode(t), DepthIn(t.height, t.layer, k), k)
      BY <3>1 DEF InsertFails
    <3> QED
      BY <1>4, <2>1, <3>1, <3>2, PutBelowFits
  <2>3. InsertKey(t, k) = r
    <3>1. Get(t, k) # "found"
      BY <1>2, <1>4
    <3> QED
      BY <3>1, Zenon DEF InsertKey
  <2> HIDE DEF n
  <2>4. s = TreeOf(t.layer, n, t.height, t.size)
    BY <2>1, ExceptTree
  <2>5. K2 # {}
    OBVIOUS
  <2>6. /\ IsFiniteSet(K2) /\ Cardinality(K2) = Cardinality(K) + 1
    BY <1>1, <1>4, CountChanges
  <2> HIDE DEF K2, s
  <2>7. Shaped(s, K2, B) /\ s.layer = t.layer /\ s.height = t.height /\ s.size = t.size
    BY <2>1, <2>2, <2>4, TreeIs
  <2>8. Shaped(g, K2, B) /\ SameBut(s, g) /\ (g.height > 0 => g.size >= 2)
    BY <1>1, <2>5, <2>7, GrownFits
  <2> HIDE DEF g
  <2>9. /\ g \in TreeRecords /\ g.size \in Nat
        /\ r = TreeOf(g.layer, g.root, g.height, g.size + 1)
    <3>1. g \in TreeRecords /\ g.size \in Nat
      BY <2>8, RootIs
    <3> QED
      BY <3>1, ExceptTree
  <2> HIDE DEF r
  <2>10. r \in TreeRecords /\ RootNode(r) = RootNode(g) /\ r.layer = g.layer /\ r.height = g.height /\ r.size = g.size + 1
    BY <2>9 DEF TreeRecords, TreeOf, RootNode
  <2>11. Shaped(r, K2, B)
    BY <2>8, <2>10 DEF Shaped
  <2>12. g.size = t.size /\ g.layer = t.layer
    BY <2>7, <2>8 DEF SameBut
  <2>13. Counted(r, K2, B)
    BY <1>1, <2>6, <2>8, <2>9, <2>10, <2>11, <2>12 DEF Counted
  <2> QED
    BY <2>3, <2>10, <2>12, <2>13 DEF K2
<1> QED
  BY <1>3, <1>4

LEMMA DeleteFits ==
    ASSUME NEW t, NEW K, Counted(t, K, {Nil}), NEW k \in K
    PROVE  Counted(DeleteKey(t, k), K \ {k}, {Nil}) /\ DeleteKey(t, k).layer = t.layer
<1> DEFINE B == {Nil}
           n == CutBelow(t.root, Depth(t, k), k)
           K2 == K \ {k}
           s == [t EXCEPT !.root = LinkTo(n), !.size = t.size - 1]
           r == Shrunk(s)
<1>0. B \subseteq {Nil, Blank} /\ Nil \in B /\ B = {Nil} /\ Counted(t, K, B)
  OBVIOUS
<1> HIDE DEF B
<1>1. /\ Shaped(t, K, B) /\ IsFiniteSet(K) /\ t.size = Cardinality(K) /\ (t.height > 0 => t.size >= 2)
  BY <1>0 DEF Counted
<1>2. /\ t \in TreeRecords /\ t.layer \in [Key -> Nat] /\ t.layer \in Layers /\ t.height \in 0..MaxHeight
      /\ t.size \in Nat /\ NodeOf(t.root, K, t.layer, t.height, B) /\ t.height \in Nat
  <2>1. t \in TreeRecords => t.layer \in Layers
    BY DEF TreeRecords
  <2> QED
    BY <1>0, <1>1, <2>1, RootIs
<1>3. NodeOf(n, K2, t.layer, t.height, B)
  <2>1. Depth(t, k) = DepthIn(t.height, t.layer, k)
    BY DEF Depth, DepthIn
  <2> QED
    BY <1>0, <1>2, <2>1, CutBelowFits
<1>4. DeleteKey(t, k) = r
  BY <1>2 DEF DeleteKey, TreeRecords
<1> HIDE DEF n
<1>5. s = TreeOf(t.layer, LinkTo(n), t.height, t.size - 1)
  <2> DEFINE l == LinkTo(n)
             z == t.size - 1
  <2>1. t \in TreeRecords
    BY <1>2
  <2> HIDE DEF l, z
  <2>2. [t EXCEPT !.root = l, !.size = z] = TreeOf(t.layer, l, t.height, z)
    BY <2>1, ExceptRoot
  <2> QED
    BY <2>2 DEF l, z
<1>6. IsFiniteSet(K2) /\ Cardinality(K2) = Cardinality(K) - 1 /\ Cardinality(K) >= 1
      /\ Cardinality(K2) \in Nat /\ (Cardinality(K2) >= 1 => K2 # {})
  <2>1. IsFiniteSet(K2) /\ Cardinality(K2) = Cardinality(K) - 1 /\ Cardinality(K) >= 1
    BY <1>1, CountChanges
  <2> QED
    BY <2>1, CountChanges
<1> HIDE DEF K2, s
<1>7. Shaped(s, K2, B) /\ s.layer = t.layer /\ s.height = t.height /\ s.size = t.size - 1
  <2>1. t.size - 1 \in Nat
    BY <1>1, <1>6
  <2> QED
    BY <1>0, <1>2, <1>3, <1>5, <2>1, TreeIs
<1>8. s.height > 0 => K2 # {}
  BY <1>1, <1>2, <1>6, <1>7
<1>9. Shaped(r, K2, B) /\ SameBut(s, r) /\ (r.height > 0 => r.size >= 2)
  BY <1>0, <1>7, <1>8, ShrunkFits
<1> HIDE DEF r
<1>10. Counted(r, K2, B)
  BY <1>1, <1>6, <1>7, <1>9 DEF Counted, SameBut
<1> QED
  BY <1>0, <1>4, <1>7, <1>9, <1>10 DEF SameBut, K2

LEMMA DeleteAllFits ==
    ASSUME NEW t, NEW K, Counted(t, K, {Nil}), NEW dead, dead \subseteq K
    PROVE  Counted(DeleteAll(t, Ascending(dead)), K \ dead, {Nil}) /\ DeleteAll(t, Ascending(dead)).layer = t.layer
<1> DEFINE s == Ascending(dead)
           q == Len(s)
           left(i) == K \ {s[j] : j \in 1..i}
           Good(r, i) == Counted(r, left(i), {Nil}) /\ r.layer = t.layer
<1>1. K \subseteq Key /\ IsFiniteSet(K)
  <2>1. IsFiniteSet(K) /\ Shaped(t, K, {Nil})
    BY DEF Counted
  <2>2. NodeOf(RootNode(t), K, t.layer, t.height, {Nil})
    BY <2>1 DEF Shaped
  <2> QED
    BY <2>1, <2>2, NodeIs
<1>2. s \in Seq(Key) /\ Sorted(s) /\ Holds(s, dead)
  <2>1. IsFiniteSet(dead) /\ dead \subseteq Key
    BY <1>1, FS_Subset
  <2> QED
    BY <2>1, AscendingIs
<1> HIDE DEF s
<1>3. q \in Nat /\ (\A i \in 1..q : s[i] \in dead /\ s[i] \in Key) /\ \A x \in dead : \E i \in 1..q : s[i] = x
  BY <1>2 DEF Holds
<1>4. PICK f : IsDeleteAll(f, t, s) /\ DeleteAll(t, s) = f[q]
  BY <1>3, DeleteAllIs
<1>5. \A i \in 0..q : f[i] = IF i = 0 THEN t ELSE DeleteKey(f[i - 1], s[i])
  BY <1>4, Zenon DEF IsDeleteAll
<1> DEFINE good == {i \in 0..q : Good(f[i], i)}
<1>6. 0 \in good
  <2>1. f[0] = t /\ 0 \in 0..q
    BY <1>3, <1>5
  <2>2. left(0) = K
    OBVIOUS
  <2> HIDE DEF left
  <2> QED
    BY <2>1, <2>2
<1>7. ASSUME NEW i \in 0..q, i \in good, i < q PROVE i + 1 \in good
  <2> HIDE DEF q
  <2>1. i + 1 \in 1..q /\ i + 1 \in 0..q /\ i + 1 # 0 /\ (i + 1) - 1 = i
    BY <1>3, <1>7
  <2>2. f[i + 1] = DeleteKey(f[i], s[i + 1])
    BY <1>5, <2>1
  <2>3. s[i + 1] \in left(i)
    <3>1. ASSUME NEW j \in 1..i PROVE s[j] # s[i + 1]
      <4>1. j \in 1..q /\ j < i + 1
        BY <1>3, <1>7
      <4>2. Before(s[j], s[i + 1])
        BY <1>2, <2>1, <4>1 DEF Sorted, q
      <4>3. s[j] \in Key
        BY <1>3, <4>1
      <4> QED
        BY <4>2, <4>3, KeysOrdered
    <3>2. s[i + 1] \in K
      BY <1>3, <2>1
    <3> QED
      BY <3>1, <3>2
  <2>4. left(i + 1) = left(i) \ {s[i + 1]}
    <3>1. \A j : j \in 1..i + 1 <=> j \in 1..i \/ j = i + 1
      BY <1>3, <1>7
    <3> QED
      BY <3>1
  <2>5. Good(f[i], i)
    BY <1>7
  <2> HIDE DEF left
  <2>6. Good(f[i + 1], i + 1)
    <3> DEFINE J == left(i)
               r == f[i]
               k == s[i + 1]
    <3>1. Counted(r, J, {Nil}) /\ r.layer = t.layer /\ k \in J
      BY <2>3, <2>5
    <3> HIDE DEF J, r, k
    <3>2. Counted(DeleteKey(r, k), J \ {k}, {Nil}) /\ DeleteKey(r, k).layer = r.layer
      BY <3>1, DeleteFits
    <3> QED
      BY <2>2, <2>4, <3>1, <3>2 DEF J, r, k
  <2> QED
    BY <2>1, <2>6
<1>8. q \in good
  <2> HIDE DEF good
  <2>1. q \in 0..q
    BY <1>3
  <2> QED
    BY <1>3, <1>6, <1>7, <2>1, UpTo
<1>9. left(q) = K \ dead
  BY <1>3
<1> HIDE DEF left
<1> QED
  BY <1>4, <1>8, <1>9 DEF s

-----------------------------------------------------------------------------
(* The canonical node of a set of keys. *)

Here(S, layer, g) == Ascending({k \in S : layer[k] >= g})

CanonicalNode(f, S, layer, g) ==
    [keys  |-> Here(S, layer, g),
     links |-> [j \in 1..Len(Here(S, layer, g)) + 1 |->
                  IF Between(S, Here(S, layer, g), j) = {} THEN Nil ELSE f[Between(S, Here(S, layer, g), j)]]]

IsCanonical(f, K, layer, h) ==
    f = [g \in 0..h |-> [S \in SUBSET K |-> CanonicalNode(f[g - 1], S, layer, g)]]

LEMMA HereIs ==
    ASSUME NEW layer \in [Key -> Nat], NEW S, S \subseteq Key, IsFiniteSet(S), NEW g
    PROVE  /\ Here(S, layer, g) \in Seq(Key) /\ Len(Here(S, layer, g)) \in Nat
           /\ Sorted(Here(S, layer, g)) /\ Holds(Here(S, layer, g), {k \in S : layer[k] >= g})
<1> DEFINE T == {k \in S : layer[k] >= g}
<1>1. IsFiniteSet(T) /\ T \subseteq Key
  <2>1. T \subseteq S
    OBVIOUS
  <2> HIDE DEF T
  <2> QED
    BY <2>1, FS_Subset
<1> HIDE DEF T
<1>2. Ascending(T) \in Seq(Key) /\ Sorted(Ascending(T)) /\ Holds(Ascending(T), T)
  BY <1>1, AscendingIs
<1>3. Len(Ascending(T)) \in Nat
  BY <1>2
<1> QED
  BY <1>2, <1>3 DEF T, Here

(* Below the leaves there are no keys. *)
LEMMA LeafIs ==
    ASSUME NEW layer \in [Key -> Nat], NEW S, S \subseteq Key, IsFiniteSet(S), NEW p, NEW q
    PROVE  CanonicalNode(p, S, layer, 0) = CanonicalNode(q, S, layer, 0)
<1> DEFINE s == Here(S, layer, 0)
<1>1. s \in Seq(Key) /\ Len(s) \in Nat /\ Sorted(s) /\ Holds(s, {k \in S : layer[k] >= 0})
  BY HereIs
<1>2. \A x \in S : layer[x] >= 0
  OBVIOUS
<1> HIDE DEF s
<1>3. ASSUME NEW j \in 1..Len(s) + 1 PROVE Between(S, s, j) = {}
  <2> SUFFICES ASSUME NEW x \in Between(S, s, j) PROVE FALSE
    OBVIOUS
  <2>1. x \in S /\ \A i \in 1..Len(s) : IF i < j THEN Before(s[i], x) ELSE Before(x, s[i])
    BY <1>1, BetweenIs
  <2>2. PICK i \in 1..Len(s) : s[i] = x
    BY <1>1, <1>2, <2>1 DEF Holds
  <2> QED
    BY <2>1, <2>2, KeysOrdered
<1>4. \A j \in 1..Len(s) + 1 : (IF Between(S, s, j) = {} THEN Nil ELSE p[Between(S, s, j)])
                                  = (IF Between(S, s, j) = {} THEN Nil ELSE q[Between(S, s, j)])
  BY <1>3
<1> QED
  BY <1>4 DEF CanonicalNode, s

LEMMA CanonicalIs ==
    ASSUME NEW layer \in [Key -> Nat], NEW K, K \subseteq Key, IsFiniteSet(K), NEW h \in Nat
    PROVE  \E f : IsCanonical(f, K, layer, h) /\ Canonical(K, layer, h) = f[h][K]
<1> DEFINE At(p, g) == [S \in SUBSET K |-> CanonicalNode(p, S, layer, g)]
           good == {m \in Nat : \E f : f = [g \in 0..m |-> At(f[g - 1], g)]}
<1>1. ASSUME NEW p, NEW q PROVE At(p, 0) = At(q, 0)
  <2>1. \A S \in SUBSET K : CanonicalNode(p, S, layer, 0) = CanonicalNode(q, S, layer, 0)
    <3> SUFFICES ASSUME NEW S \in SUBSET K PROVE CanonicalNode(p, S, layer, 0) = CanonicalNode(q, S, layer, 0)
      OBVIOUS
    <3>1. IsFiniteSet(S) /\ S \subseteq Key
      BY FS_Subset
    <3> QED
      BY <3>1, LeafIs
  <2> QED
    BY <2>1
<1> HIDE DEF At
<1>2. 0 \in good
  <2> DEFINE u == [g \in 0..0 |-> At(0, g)]
  <2>1. u = [g \in 0..0 |-> At(u[g - 1], g)]
    BY <1>1
  <2> HIDE DEF u
  <2> QED
    BY <2>1
<1>3. ASSUME NEW m \in Nat, m \in good PROVE m + 1 \in good
  <2>1. PICK f : f = [g \in 0..m |-> At(f[g - 1], g)]
    BY <1>3
  <2> DEFINE u == [g \in 0..m + 1 |-> IF g = m + 1 THEN At(f[m], g) ELSE f[g]]
  <2>2. ASSUME NEW g \in 0..m + 1 PROVE u[g] = At(u[g - 1], g)
    <3>1. CASE g = 0
      <4>1. u[g] = f[g] /\ g \in 0..m
        BY <3>1
      <4>2. f[g] = At(f[g - 1], g)
        BY <2>1, <4>1
      <4> QED
        BY <1>1, <3>1, <4>1, <4>2
    <3>2. CASE g \in 1..m
      <4>1. u[g] = f[g] /\ g \in 0..m /\ u[g - 1] = f[g - 1]
        BY <3>2
      <4>2. f[g] = At(f[g - 1], g)
        BY <2>1, <4>1
      <4> QED
        BY <4>1, <4>2
    <3>3. CASE g = m + 1
      <4>1. u[g] = At(f[m], g) /\ u[g - 1] = f[m] /\ g - 1 = m
        BY <3>3
      <4> QED
        BY <4>1
    <3> QED
      BY <3>1, <3>2, <3>3
  <2>3. u = [g \in 0..m + 1 |-> u[g]]
    OBVIOUS
  <2> HIDE DEF u
  <2>4. u = [g \in 0..m + 1 |-> At(u[g - 1], g)]
    BY <2>2, <2>3
  <2> QED
    BY <2>4
<1>4. PICK f : f = [g \in 0..h |-> At(f[g - 1], g)]
  <2> HIDE DEF good
  <2>1. h \in good
    BY <1>2, <1>3, OverNat, Bounded
  <2> QED
    BY <2>1 DEF good
<1>5. IsCanonical(f, K, layer, h)
  BY <1>4 DEF At, IsCanonical
<1>6. f = [g \in 0..h |-> [S \in SUBSET K |->
            [keys  |-> Ascending({k \in S : layer[k] >= g}),
             links |-> [j \in 1..Len(Ascending({k \in S : layer[k] >= g})) + 1 |->
                          IF Between(S, Ascending({k \in S : layer[k] >= g}), j) = {} THEN Nil
                          ELSE f[g - 1][Between(S, Ascending({k \in S : layer[k] >= g}), j)]]]]]
  BY <1>4 DEF At, CanonicalNode, Here
<1>7. Canonical(K, layer, h)
        = (CHOOSE u : u = [g \in 0..h |-> [S \in SUBSET K |->
            [keys  |-> Ascending({k \in S : layer[k] >= g}),
             links |-> [j \in 1..Len(Ascending({k \in S : layer[k] >= g})) + 1 |->
                          IF Between(S, Ascending({k \in S : layer[k] >= g}), j) = {} THEN Nil
                          ELSE u[g - 1][Between(S, Ascending({k \in S : layer[k] >= g}), j)]]]]])[h][K]
  BY Zenon DEF Canonical
<1> DEFINE Is(u) == u = [g \in 0..h |-> [S \in SUBSET K |->
            [keys  |-> Ascending({k \in S : layer[k] >= g}),
             links |-> [j \in 1..Len(Ascending({k \in S : layer[k] >= g})) + 1 |->
                          IF Between(S, Ascending({k \in S : layer[k] >= g}), j) = {} THEN Nil
                          ELSE u[g - 1][Between(S, Ascending({k \in S : layer[k] >= g}), j)]]]]]
           w == CHOOSE u : Is(u)
<1>8. Is(w)
  <2>1. \E u : Is(u)
    BY <1>6
  <2> HIDE DEF Is
  <2> QED
    BY <2>1
<1>9. IsCanonical(w, K, layer, h)
  <2> HIDE DEF w
  <2> QED
    BY <1>8 DEF IsCanonical, CanonicalNode, Here
<1>10. Canonical(K, layer, h) = w[h][K]
  BY <1>7
<1> HIDE DEF w
<1> QED
  BY <1>9, <1>10

(* A node that holds keys is the canonical one, but for Blank links. *)
LEMMA CanonicalFits ==
    ASSUME NEW layer \in [Key -> Nat], NEW B, B \subseteq {Nil, Blank}, NEW h \in 0..MaxHeight,
           NEW n, NEW K, K # {}, IsFiniteSet(K), NodeOf(n, K, layer, h, B)
    PROVE  Cleared(n) = Canonical(K, layer, h)
<1>1. K \subseteq Key /\ h \in Nat
  <2>1. K \subseteq Key
    BY NodeIs
  <2> QED
    BY <2>1
<1>2. PICK f : IsCanonical(f, K, layer, h) /\ Canonical(K, layer, h) = f[h][K]
  BY <1>1, CanonicalIs
<1>3. PICK c : IsCleared(c) /\ \A m : Cleared(m) = c[m]
  BY ClearedIs
<1>4. ASSUME NEW g \in 0..h, NEW S \in SUBSET K PROVE f[g][S] = CanonicalNode(f[g - 1], S, layer, g)
  <2>1. f[g] = [J \in SUBSET K |-> CanonicalNode(f[g - 1], J, layer, g)]
    BY <1>2, Zenon DEF IsCanonical
  <2> QED
    BY <2>1
<1>5. ASSUME NEW g \in 0..h, NEW S \in SUBSET K PROVE f[g][S] # Nil
  <2>1. DOMAIN f[g][S] = {"keys", "links"}
    <3>1. DOMAIN CanonicalNode(f[g - 1], S, layer, g) = {"keys", "links"}
      BY DEF CanonicalNode
    <3> QED
      BY <1>4, <3>1
  <2>2. DOMAIN Nil = {"link"}
    BY DEF Nil
  <2>3. "keys" \notin {"link"}
    OBVIOUS
  <2> QED
    BY <2>1, <2>2, <2>3, Zenon
<1>6. ASSUME NEW m \in Tree PROVE c[m] = IF m \in {Nil, Blank} THEN Nil ELSE LinkTo(Relinked(m, c))
  BY <1>3, Zenon DEF IsCleared, Relinked
<1> DEFINE Of(S, e) == IF S = {} THEN Nil ELSE f[e][S]
           good == {e \in 0..h : \A m : \A S \in SUBSET K : NodeOf(m, S, layer, e, B) => c[m] = Of(S, e)}
<1>7. ASSUME NEW e \in 0..h, e = 0 \/ e - 1 \in good,
             NEW m, NEW S \in SUBSET K, NodeOf(m, S, layer, e, B)
      PROVE  c[m] = Of(S, e)
  <2> DEFINE s == Here(S, layer, e)
             C(j) == Between(S, s, j)
             N == Len(s)
             r == Relinked(m, c)
             ls == [j \in 1..N + 1 |-> IF C(j) = {} THEN Nil ELSE f[e - 1][C(j)]]
  <2>1. e \in 0..MaxHeight /\ e \in 0..MaxHeight + 1 /\ S \subseteq Key /\ IsFiniteSet(S)
    <3>1. e \in 0..MaxHeight /\ e \in 0..MaxHeight + 1
      BY Bounded
    <3>2. S \subseteq Key /\ IsFiniteSet(S)
      BY <1>1, FS_Subset
    <3> QED
      BY <3>1, <3>2
  <2>2. s \in Seq(Key) /\ N \in Nat /\ Sorted(s) /\ Holds(s, {k \in S : layer[k] >= e})
    BY <2>1, HereIs
  <2>3. /\ m \in Tree /\ m # Nil /\ m # Blank /\ m.keys \in Seq(Key) /\ DOMAIN m.links = 1..Len(m.keys) + 1
        /\ m \in Nodes(TreesOf[e])
    <3> HIDE DEF s, N, r, ls, C
    <3>1. m \in Nodes(TreesOf[e]) /\ m \in Tree /\ m # Nil /\ m # Blank
      BY <1>7, <2>1, NodeType
    <3>2. m.keys \in Seq(Key)
      BY <1>7, NodeIs
    <3> QED
      BY <3>1, <3>2, NodesAre
  <2>4. m.keys = s
    <3>1. Sorted(m.keys) /\ Holds(m.keys, {k \in S : layer[k] >= e})
      BY <1>7, NodeIs
    <3> DEFINE H == {k \in S : layer[k] >= e}
    <3> HIDE DEF H, s
    <3> QED
      BY <2>2, <2>3, <3>1, SortedOnce
  <2> HIDE DEF s
  <2>5. \A j \in 1..N + 1 : LinkOf(m.links[j], C(j), layer, e, B)
    BY <1>7, <2>4, NodeIs
  <2>6. \A j \in 1..N + 1 : C(j) \in SUBSET K
    BY DEF Between
  <2>7. ASSUME NEW j \in 1..N + 1
        PROVE  c[m.links[j]] = (IF C(j) = {} THEN Nil ELSE f[e - 1][C(j)]) /\ (C(j) # {} => e # 0)
    <3> DEFINE l == m.links[j]
               J == C(j)
    <3>1. LinkOf(l, J, layer, e, B) /\ J \in SUBSET K
      BY <2>5, <2>6
    <3> HIDE DEF l, J
    <3>2. l \in Tree
      BY <2>1, <3>1, LinkType
    <3>3. \/ l \in B /\ J = {}
          \/ e \in 1..MaxHeight + 1 /\ l \notin {Nil, Blank} /\ l # EmptyNode /\ NodeOf(l, J, layer, e - 1, B)
      BY <2>1, <3>1, LinkCases
    <3>4. CASE l \in B /\ J = {}
      <4>1. l \in {Nil, Blank}
        BY <3>4
      <4>2. c[l] = Nil
        BY <1>6, <3>2, <4>1
      <4> QED
        BY <3>4, <4>2 DEF l, J
    <3>5. CASE e \in 1..MaxHeight + 1 /\ NodeOf(l, J, layer, e - 1, B)
      <4>1. e # 0 /\ e - 1 \in good
        BY <1>7, <3>5
      <4>2. c[l] = Of(J, e - 1)
        BY <3>1, <3>5, <4>1, Zenon
      <4> QED
        BY <4>1, <4>2 DEF l, J
    <3> QED
      BY <3>3, <3>4, <3>5
  <2> HIDE DEF C, N
  <2>8. r = [keys |-> s, links |-> ls]
    <3>1. m = [keys |-> m.keys, links |-> m.links]
      BY <2>3 DEF Nodes
    <3>2. \A x, y, z : [[keys |-> x, links |-> y] EXCEPT !.links = z] = [keys |-> x, links |-> z]
      OBVIOUS
    <3> DEFINE z == [i \in DOMAIN m.links |-> c[m.links[i]]]
    <3>3. z = ls
      <4>1. DOMAIN m.links = 1..N + 1
        BY <2>3, <2>4 DEF N
      <4> QED
        BY <2>7, <4>1
    <3> HIDE DEF z, ls
    <3>4. r = [keys |-> m.keys, links |-> z]
      <4>1. r = [m EXCEPT !.links = z]
        BY DEF Relinked, z
      <4> QED
        BY <3>1, <3>2, <4>1, Zenon
    <3> QED
      BY <2>4, <3>3, <3>4
  <2>9. f[e][S] = r
    <3>1. f[e][S] = CanonicalNode(f[e - 1], S, layer, e)
      BY <1>4
    <3> QED
      BY <2>8, <3>1 DEF CanonicalNode, s, C, N
  <2>10. c[m] = LinkTo(r)
    BY <1>6, <2>3
  <2>11. r.links = ls
    BY <2>8
  <2>12. N = 0 => C(1) = S
    BY DEF Between, C, N
  <2>13. DOMAIN ls = 1..N + 1 /\ \A j \in 1..N + 1 : ls[j] = IF C(j) = {} THEN Nil ELSE f[e - 1][C(j)]
    OBVIOUS
  <2>14. DOMAIN <<Nil>> = 1..1 /\ <<Nil>>[1] = Nil
    OBVIOUS
  <2> HIDE DEF ls, r
  <2>15. CASE S = {}
    <3>1. N = 0
      <4>1. ~(1 \in 1..N)
        BY <2>2, <2>15 DEF Holds, N
      <4> QED
        BY <2>2, <4>1 DEF N
    <3>2. ls = <<Nil>>
      <4>1. ls = [j \in 1..1 |-> Nil]
        BY <2>12, <2>15, <3>1 DEF ls
      <4> QED
        BY <4>1
    <3> QED
      BY <2>10, <2>11, <2>15, <3>2 DEF LinkTo, IsEmpty
  <2>16. CASE S # {}
    <3>1. ls # <<Nil>>
      <4>1. CASE N = 0
        <5>1. 1 \in 1..N + 1 /\ C(1) = S /\ C(1) # {}
          BY <2>12, <2>16, <4>1
        <5>2. e # 0
          BY <2>7, <5>1
        <5>3. e - 1 \in 0..h
          BY <5>2
        <5>4. ls[1] = f[e - 1][S]
          BY <2>13, <2>16, <5>1
        <5>5. ls[1] # Nil
          BY <1>5, <5>3, <5>4
        <5> QED
          BY <2>14, <5>5
      <4>2. CASE N # 0
        <5>1. 2 \in 1..N + 1 /\ ~(2 \in 1..1)
          BY <2>2, <4>2 DEF N
        <5> QED
          BY <2>13, <2>14, <5>1
      <4> QED
        BY <4>1, <4>2
    <3> QED
      BY <2>9, <2>10, <2>11, <2>16, <3>1 DEF LinkTo, IsEmpty
  <2> QED
    BY <2>15, <2>16
<1>8. 0 \in good
  <2>1. 0 \in 0..h
    BY <1>1
  <2>2. \A m : \A S \in SUBSET K : NodeOf(m, S, layer, 0, B) => c[m] = Of(S, 0)
    BY <1>7, <2>1
  <2> QED
    BY <2>1, <2>2
<1>9. ASSUME NEW e \in 0..h, e \in good, e < h PROVE e + 1 \in good
  <2> DEFINE g == e + 1
  <2>1. g \in 0..h /\ g - 1 = e
    BY <1>1, <1>9
  <2> HIDE DEF g, good
  <2>2. \A m : \A S \in SUBSET K : NodeOf(m, S, layer, g, B) => c[m] = Of(S, g)
    BY <1>7, <1>9, <2>1
  <2> QED
    BY <2>1, <2>2 DEF good, g
<1>10. h \in good
  <2> HIDE DEF good
  <2>1. h \in 0..h
    BY <1>1
  <2> QED
    BY <1>1, <1>8, <1>9, <2>1, UpTo
<1>11. c[n] = f[h][K]
  BY <1>10
<1> QED
  BY <1>2, <1>3, <1>11

-----------------------------------------------------------------------------
(* The table.  Its tree fits its entries, with links to nothing that are nil or *)
(* blank, and is the empty node or nothing when the table has no entries.       *)

Links == {Nil, Blank}

TableInv ==
    /\ Counted(tree, entries, Links)
    /\ live \subseteq entries
    /\ entries = {} => tree.root \in {Nil, EmptyNode}

LEMMA LinksAre == Links \subseteq {Nil, Blank} /\ Nil \in Links /\ Links = {Nil, Blank} /\ {Nil} \subseteq Links
BY DEF Links

LEMMA CountedIs ==
    ASSUME NEW B, B \subseteq {Nil, Blank}, Nil \in B, NEW t, NEW K, Counted(t, K, B)
    PROVE  /\ Shaped(t, K, B) /\ IsFiniteSet(K) /\ K \subseteq Key /\ t.size = Cardinality(K)
           /\ t \in TreeRecords /\ t.layer \in Layers /\ t.layer \in [Key -> Nat]
           /\ t.height \in 0..MaxHeight /\ t.size \in Nat /\ NodeOf(RootNode(t), K, t.layer, t.height, B)
           /\ t.root \in Tree \ {Blank} /\ (K # {} => t.root # Nil) /\ (t.root # Nil => RootNode(t) = t.root)
           /\ (t.height > 0 => t.size >= 2)
<1>1. Shaped(t, K, B) /\ IsFiniteSet(K) /\ t.size = Cardinality(K) /\ (t.height > 0 => t.size >= 2)
  BY DEF Counted
<1>2. /\ t \in TreeRecords /\ t.layer \in [Key -> Nat] /\ t.height \in 0..MaxHeight
      /\ t.size \in Nat /\ NodeOf(RootNode(t), K, t.layer, t.height, B)
      /\ t.root \in Tree \ {Blank} /\ (K # {} => t.root # Nil) /\ (t.root # Nil => RootNode(t) = t.root)
  BY <1>1, RootIs
<1>3. K \subseteq Key
  BY <1>2, NodeIs
<1>4. t.layer \in Layers
  BY <1>2 DEF TreeRecords
<1> QED
  BY <1>1, <1>2, <1>3, <1>4

LEMMA InitFits == TableInit => TableInv
<1> SUFFICES ASSUME NEW layer \in Layers, tree = EmptyTree(layer), entries = {}, live = {}
             PROVE  TableInv
  BY DEF TableInit
<1>1. layer \in [Key -> Nat] /\ 0 \in 0..MaxHeight /\ 0 \in Nat
  BY Keys, Bounded
<1>2. NodeOf(EmptyNode, {}, layer, 0, Links)
  BY <1>1, LinksAre, EmptyIs
<1> DEFINE t == TreeOf(layer, EmptyNode, 0, 0)
<1>3. tree = t
  BY DEF TreeOf, EmptyTree
<1>4. Shaped(t, {}, Links) /\ t.root = EmptyNode /\ t.height = 0 /\ t.size = 0
  <2> HIDE DEF t
  <2>1. \A r : r = EmptyNode => /\ Shaped(TreeOf(layer, r, 0, 0), {}, Links) /\ TreeOf(layer, r, 0, 0).root = r
                                /\ TreeOf(layer, r, 0, 0).height = 0 /\ TreeOf(layer, r, 0, 0).size = 0
    BY <1>1, <1>2, LinksAre, TreeIs
  <2> QED
    BY <2>1 DEF t
<1> HIDE DEF t
<1>5. IsFiniteSet({}) /\ Cardinality({}) = 0
  BY FS_EmptySet
<1>6. Counted(t, {}, Links)
  BY <1>4, <1>5 DEF Counted
<1> QED
  BY <1>3, <1>4, <1>6 DEF TableInv

LEMMA InsertKeeps ==
    ASSUME TableInv, NEW k \in Key, Insert(k)
    PROVE  TableInv'
<1>1. /\ ~InsertFails(tree, k) /\ tree' = InsertKey(tree, k)
      /\ entries' = entries \union {k} /\ live' = live \union {k}
  BY DEF Insert
<1>2. Counted(tree, entries, Links)
  BY DEF TableInv
<1>3. Counted(InsertKey(tree, k), entries \union {k}, Links)
  BY <1>1, <1>2, LinksAre, InsertFits
<1>4. live' \subseteq entries' /\ entries' # {}
  BY <1>1 DEF TableInv
<1> QED
  BY <1>1, <1>3, <1>4 DEF TableInv

(* The vacuum has read the whole tree: the links that lead nowhere are nil. *)
LEMMA VacuumKeeps ==
    ASSUME TableInv, NEW dead \in (SUBSET (entries \ live)) \ {{}}, Vacuum(dead)
    PROVE  TableInv'
<1>1. /\ Readable(tree.root) /\ tree' = DeleteAll(tree, Ascending(dead))
      /\ entries' = entries \ dead /\ live' = live
  BY DEF Vacuum
<1>2. Counted(tree, entries, Links) /\ live \subseteq entries
  BY DEF TableInv
<1>3. dead \subseteq entries /\ entries # {}
  <2>1. dead \in SUBSET (entries \ live) /\ dead # {}
    <3>1. dead \in SUBSET (entries \ live)
      OBVIOUS
    <3>2. dead \notin {{}}
      OBVIOUS
    <3> QED
      BY <3>1, <3>2
  <2>2. dead \subseteq entries
    BY <2>1
  <2>3. \E k : k \in dead
    BY <2>1
  <2> QED
    BY <2>2, <2>3
<1>4. /\ Shaped(tree, entries, Links) /\ IsFiniteSet(entries) /\ tree.size = Cardinality(entries)
      /\ tree \in TreeRecords /\ tree.layer \in [Key -> Nat]
      /\ tree.height \in 0..MaxHeight /\ NodeOf(RootNode(tree), entries, tree.layer, tree.height, Links)
      /\ RootNode(tree) = tree.root /\ (tree.height > 0 => tree.size >= 2)
  BY <1>2, <1>3, LinksAre, CountedIs
<1>5. NodeOf(RootNode(tree), entries, tree.layer, tree.height, {Nil})
  <2>1. Readable(RootNode(tree))
    BY <1>1, <1>4
  <2>2. NodeOf(RootNode(tree), entries, tree.layer, tree.height, {Nil, Blank})
    BY <1>4, LinksAre
  <2> QED
    BY <1>4, <2>1, <2>2, ReadableFits
<1>6. Counted(tree, entries, {Nil})
  BY <1>4, <1>5 DEF Counted, Shaped
<1> DEFINE t == DeleteAll(tree, Ascending(dead))
           K == entries \ dead
<1>7. Counted(t, K, {Nil})
  BY <1>3, <1>6, DeleteAllFits
<1> HIDE DEF t, K
<1>8. /\ Shaped(t, K, {Nil}) /\ IsFiniteSet(K) /\ t.size = Cardinality(K) /\ t \in TreeRecords
      /\ t.layer \in [Key -> Nat] /\ t.height \in 0..MaxHeight /\ NodeOf(RootNode(t), K, t.layer, t.height, {Nil})
      /\ (t.root # Nil => RootNode(t) = t.root) /\ (t.height > 0 => t.size >= 2)
  BY <1>7, LinksAre, CountedIs
<1>9. NodeOf(RootNode(t), K, t.layer, t.height, Links)
  <2> DEFINE B == {Nil}
  <2>1. B \subseteq {Nil, Blank} /\ B \subseteq Links /\ NodeOf(RootNode(t), K, t.layer, t.height, B)
    BY <1>8, LinksAre
  <2> HIDE DEF B
  <2> QED
    BY <1>8, <2>1, LinksAre, MoreLinks
<1>10. Counted(t, K, Links)
  BY <1>8, <1>9 DEF Counted, Shaped
<1>11. K = {} => t.root \in {Nil, EmptyNode}
  BY <1>8, NoneIsNil
<1>12. live' \subseteq entries'
  BY <1>1, <1>2
<1>13. tree' = t /\ entries' = K
  BY <1>1 DEF t, K
<1> QED
  BY <1>10, <1>11, <1>12, <1>13 DEF TableInv

LEMMA LoadedEmpty == Loaded(EmptyNode) = EmptyNode
<1>1. PICK f : IsLoaded(f) /\ \A n : Loaded(n) = f[n]
  BY LoadedIs
<1>2. EmptyNode \in Tree /\ EmptyNode # Nil /\ EmptyNode # Blank
  <2>1. 0 \in 0..MaxHeight
    BY Bounded
  <2>2. NodeOf(EmptyNode, {}, <<>>, 0, Links)
    BY <2>1, LinksAre, EmptyIs
  <2> QED
    BY <2>1, <2>2, NodeType
<1>3. Childless(EmptyNode)
  BY DEF Childless, EmptyNode
<1>4. f[EmptyNode] = IF EmptyNode \in {Nil, Blank} THEN Blank
                     ELSE IF Childless(EmptyNode) THEN EmptyNode ELSE Relinked(EmptyNode, f)
  BY <1>1, <1>2, Zenon DEF IsLoaded, Relinked
<1> QED
  BY <1>1, <1>2, <1>3, <1>4

LEMMA ReloadKeeps ==
    ASSUME TableInv, Reload
    PROVE  TableInv'
<1>1. tree' = Committed(tree) /\ entries' = entries /\ live' = live
  BY DEF Reload
<1>2. Counted(tree, entries, Links)
  BY DEF TableInv
<1>3. /\ Shaped(tree, entries, Links) /\ IsFiniteSet(entries) /\ tree.size = Cardinality(entries)
      /\ tree \in TreeRecords /\ tree.layer \in Layers /\ tree.layer \in [Key -> Nat]
      /\ tree.height \in 0..MaxHeight /\ tree.size \in Nat
      /\ NodeOf(RootNode(tree), entries, tree.layer, tree.height, Links)
      /\ (tree.root # Nil => RootNode(tree) = tree.root) /\ (tree.height > 0 => tree.size >= 2)
  BY <1>2, LinksAre, CountedIs
<1> DEFINE n == Loaded(RootNode(tree))
           t == TreeOf(tree.layer, n, tree.height, tree.size)
<1>4. tree' = t
  <2> HIDE DEF n
  <2>1. [tree EXCEPT !.root = n] = t
    BY <1>3, ExceptTree
  <2> QED
    BY <1>1, <2>1 DEF Committed, n
<1>5. NodeOf(n, entries, tree.layer, tree.height, Links)
  BY <1>3, LinksAre, LoadedFits
<1>6. entries = {} => n = EmptyNode
  <2>1. entries = {} => RootNode(tree) = EmptyNode
    BY DEF TableInv, RootNode
  <2> QED
    BY <2>1, LoadedEmpty
<1> HIDE DEF n
<1>7. Shaped(t, entries, Links) /\ t.root = n /\ t.height = tree.height /\ t.size = tree.size
  BY <1>3, <1>5, LinksAre, TreeIs
<1> HIDE DEF t
<1>8. Counted(t, entries, Links)
  BY <1>3, <1>7 DEF Counted
<1> QED
  BY <1>1, <1>4, <1>6, <1>7, <1>8 DEF TableInv

LEMMA StepKeeps == TableInv /\ [TableNext]_tableVars => TableInv'
<1> SUFFICES ASSUME TableInv, [TableNext]_tableVars PROVE TableInv'
  OBVIOUS
<1>1. ASSUME NEW k \in Key, Insert(k) PROVE TableInv'
  BY <1>1, InsertKeeps
<1>2. ASSUME NEW k \in Key, Delete(k) PROVE TableInv'
  <2>1. tree' = tree /\ entries' = entries /\ live' \subseteq live
    BY <1>2 DEF Delete
  <2> QED
    BY <2>1 DEF TableInv
<1>3. ASSUME NEW dead \in (SUBSET (entries \ live)) \ {{}}, Vacuum(dead) PROVE TableInv'
  BY <1>3, VacuumKeeps
<1>4. CASE Reload
  BY <1>4, ReloadKeeps
<1>5. CASE UNCHANGED tableVars
  BY <1>5 DEF tableVars, TableInv
<1> QED
  BY <1>1, <1>2, <1>3, <1>4, <1>5 DEF TableNext

(* Every table has a tree whose nodes hold, at every height and between any *)
(* two keys, the keys that belong there.                                    *)
THEOREM TableInvariant == TableSpec => []TableInv
<1>1. TableInit => TableInv
  BY InitFits
<1>2. TableInv /\ [TableNext]_tableVars => TableInv'
  BY StepKeeps
<1> QED
  BY <1>1, <1>2, PTL DEF TableSpec

(* The variables keep their types: no split, merge, growth or loading makes a *)
(* node with the wrong number of links, a tree higher than the bound, or a    *)
(* root that cannot be read.                                                  *)
THEOREM TableTypes == TableSpec => []TableTypeOK
<1>1. TableInv => TableTypeOK
  <2> SUFFICES ASSUME TableInv PROVE TableTypeOK
    OBVIOUS
  <2>1. tree \in TreeRecords /\ entries \subseteq Key
    BY LinksAre, CountedIs DEF TableInv
  <2> QED
    BY <2>1 DEF TableTypeOK, TableInv, TreeRecords
<1> QED
  BY <1>1, TableInvariant, PTL

(* The nodes of a table's tree depend only on its keys and its height (the    *)
(* splits of Insert, the merges of Delete, grow and shrink of mast), so that  *)
(* tables with equal rows share their nodes in the store.                     *)
THEOREM ShapesCanonical == TableSpec => []ShapeCanonical
<1>1. TableInv => ShapeCanonical
  <2> SUFFICES ASSUME TableInv PROVE ShapeCanonical
    OBVIOUS
  <2>1. /\ IsFiniteSet(entries) /\ tree.size = Cardinality(entries) /\ tree.layer \in [Key -> Nat]
        /\ tree.height \in 0..MaxHeight /\ NodeOf(RootNode(tree), entries, tree.layer, tree.height, Links)
        /\ (entries # {} => RootNode(tree) = tree.root)
    BY LinksAre, CountedIs DEF TableInv
  <2>2. CASE entries = {}
    BY <2>1, <2>2 DEF ShapeCanonical, TableInv
  <2>3. CASE entries # {}
    <3>1. NodeOf(tree.root, entries, tree.layer, tree.height, Links)
      BY <2>1, <2>3
    <3>2. Cleared(tree.root) = Canonical(entries, tree.layer, tree.height)
      BY <2>1, <2>3, <3>1, LinksAre, CanonicalFits
    <3> QED
      BY <2>1, <2>3, <3>2 DEF ShapeCanonical
  <2> QED
    BY <2>2, <2>3
<1> QED
  BY <1>1, TableInvariant, PTL

(* Get (mast's Get, which every INSERT, UPDATE, DELETE and lookup calls) goes *)
(* straight to the layer of a key, and is right about it.                     *)
THEOREM LookupsRight == TableSpec => []LookupsAgree
<1>1. TableInv => LookupsAgree
  <2> SUFFICES ASSUME TableInv, NEW k \in Key
               PROVE  Get(tree, k) \in {"unreadable", IF k \in entries THEN "found" ELSE "absent"}
    BY DEF LookupsAgree
  <2>1. Shaped(tree, entries, Links)
    BY DEF TableInv, Counted
  <2> QED
    BY <2>1, LinksAre, GetIs
<1> QED
  BY <1>1, TableInvariant, PTL
====
