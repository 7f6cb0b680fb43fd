----------------------------- MODULE MCTableScan -----------------------------
(* Small instances of TableScan for TLC. *)
EXTENDS TableScan

V(t, n) == [type |-> t, at |-> n]

(* The numbers 1, 2 and 3, the second a real, a text and a blob; in order. *)
MCValues == <<V("INT", 2), V("REAL", 4), V("INT", 6), V("TEXT", 2), V("BLOB", 2)>>
MCFiveKeys == {MCValues[i] : i \in DOMAIN MCValues}

(* Integers that small are exact as reals. *)
MCFloat(n) == n

(* Layers of the keys: those of the numbers 1 to 5, and neighbours at one end high up. *)
LayersOf(s) == [k \in MCFiveKeys |-> CHOOSE l \in 0..2 : \E i \in 1..5 : MCValues[i] = k /\ s[i] = l]
MCTwoLayers == {LayersOf(s) : s \in {<<0, 1, 0, 2, 0>>, <<2, 2, 0, 1, 0>>}}

Two == V("INT", 4)
Txt == V("TEXT", 2)

(* Before, between and after the keys, on a number and the last key, and 3 as a real. *)
MCOperands == {V("INT", 0), V("REAL", 4), V("REAL", 6), V("TEXT", 1), V("BLOB", 2), V("BLOB", 3)}

Terms(ks) == [op : Ops \ {"IGNORE"}, key : ks]
Lower(k)  == [op : {"GT", "GE"}, key : {k}]
Upper(k)  == [op : {"LT", "LE"}, key : {k}]

Selects(ts, desc) == {[terms |-> s, desc |-> d] : s \in ts, d \in desc}

Ranges == Lower(Two) \X Upper(Txt)

(* Two constraints: the same kind of bound twice, on one key, and a contradiction. *)
Pairs == (Lower(Two) \union Upper(Two)) \X Terms({Two}) \union Lower(Txt) \X Upper(Two)
            \union Lower(Txt) \X Lower(Two) \union Upper(Two) \X Upper(Txt)

(* A comparison with NULL, alone and after another; a constraint on another column. *)
Others == {<<a>> : a \in Lower(Null)} \union Lower(Two) \X Lower(Null)
             \union Lower(Two) \X [op : {"IGNORE"}, key : {Two}]

(* No constraint, one on or beside any key, a range; two others, in ascending order. *)
MCQueries == Selects({<<>>} \union {<<a>> : a \in Terms(MCOperands)} \union Ranges, BOOLEAN)
                \union Selects(Pairs \union Others, {FALSE})
=============================================================================
