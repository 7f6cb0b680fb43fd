------------------------------ MODULE SearchTree ------------------------------
(***************************************************************************)
(* The search tree that holds the rows of a table                          *)
(* (internal/third_party/mast), as pure operators on nodes.                *)
(*                                                                         *)
(* A node has keys and one more link than keys; a link is Nil, a node, or  *)
(* Blank: the empty string that unmarshalProto puts where the stored node  *)
(* had a nil link, and that no blob stands for.  The height of a node is   *)
(* its distance from the leaves.  Every key has a layer, computed from its *)
(* value alone, and lives in the node of that height, or in the root if    *)
(* the tree is lower.  Values are left out: nothing here looks at them.    *)
(*                                                                         *)
(* The recursion of the code is that of functions on the set of trees.     *)
(***************************************************************************)
EXTENDS KeyOrder, FiniteSets, SequencesExt

CONSTANTS BranchFactor,
          MaxHeight      \* (bound) the height of trees; the code counts it in a uint8

ASSUME Branching == BranchFactor \in Nat \ {0, 1}
ASSUME Bounded   == MaxHeight \in Nat

Nil   == [link |-> "nil"]
Blank == [link |-> ""]

(* Nodes of sequences of keys, with a link before, between and after them. *)
Nodes(links) == {n \in [keys : Seq(SQLiteValue), links : Seq(links)] :
                    Len(n.links) = Len(n.keys) + 1}

(* What a link may be to: up to h nodes, one below the other. *)
TreesOf[h \in 0..MaxHeight + 1] ==
    {Nil, Blank} \union (IF h = 0 THEN {} ELSE Nodes(TreesOf[h - 1]))

Tree == TreesOf[MaxHeight + 1]

EmptyNode  == [keys |-> <<>>, links |-> <<Nil>>]
IsEmpty(n) == n.links = <<Nil>>

(* An empty node is never linked to. *)
LinkTo(n) == IF IsEmpty(n) THEN Nil ELSE n

(* Links and keys are numbered from 0, as in the code. *)
Link(n, i)        == n.links[i + 1]
WithLink(n, i, l) == [n EXCEPT !.links[i + 1] = l]
HasKey(n, i, k)   == i < Len(n.keys) /\ Same(n.keys[i + 1], k)

(* A set of keys in order. *)
Ascending(K) ==
    [i \in 1..Cardinality(K) |-> CHOOSE k \in K : Cardinality({j \in K : Before(j, k)}) = i - 1]

(* The link below which a key belongs, or the index of the key itself. *)
Slot(n, k) == Cardinality({i \in DOMAIN n.keys : Before(n.keys[i], k)})

(* The keys from number `from` up to number `to` (exclusive), and their links. *)
Part(n, from, to) == [keys  |-> SubSeq(n.keys, from + 1, to),
                      links |-> SubSeq(n.links, from + 1, to + 1)]

-----------------------------------------------------------------------------
(* Looking up. *)

(* What a search finds d levels below a node; a missing child ends the search. *)
Descend(n, d, k) ==
    LET descend[e \in 0..d] == [m \in Tree |->
            LET i == Slot(m, k) IN
            IF e = 0 THEN IF HasKey(m, i, k) THEN "found" ELSE "absent"
            ELSE IF HasKey(m, i, k) \/ Link(m, i) = Nil THEN "absent"
            ELSE IF Link(m, i) = Blank THEN "unreadable"
            ELSE descend[e - 1][Link(m, i)]]
    IN  descend[d][n]

(* How far below the root a key is looked for, and put. *)
Depth(t, k) == IF t.layer[k] < t.height THEN t.height - t.layer[k] ELSE 0

Get(t, k) == IF t.root = Nil THEN "absent" ELSE Descend(t.root, Depth(t, k), k)

-----------------------------------------------------------------------------
(* Inserting. *)

SplitFails(l, k) ==
    LET fails[m \in Tree] == m = Blank \/ (m # Nil /\ fails[Link(m, Slot(m, k))])
    IN  fails[l]

(* Variant of Split: the child at the split goes to the left as a whole. *)
SplitShallow(l, k) ==
    IF l = Nil THEN <<Nil, Nil>>
    ELSE LET i == Slot(l, k) IN
         << LinkTo(Part(l, 0, i)), LinkTo(WithLink(Part(l, i, Len(l.keys)), 0, Nil)) >>

(* The parts of a subtree left and right of a key. *)
Split(l, k) ==
    LET split[m \in Tree] ==
            IF m \in {Nil, Blank} THEN <<Nil, Nil>>
            ELSE LET i     == Slot(m, k)
                     inner == split[Link(m, i)]
                 IN  << LinkTo(WithLink(Part(m, 0, i), i, inner[1])),
                        LinkTo(WithLink(Part(m, i, Len(m.keys)), 0, inner[2])) >>
    IN  split[l]

PutFails(n, d, k) ==
    LET fails[e \in 0..d] == [m \in Tree |->
            LET l == Link(m, Slot(m, k)) IN
            IF e = 0 THEN ~HasKey(m, Slot(m, k), k) /\ SplitFails(l, k)
                     ELSE l = Blank \/ (l # Nil /\ fails[e - 1][l])]
    IN  fails[d][n]

(* A node with a new key, and the subtree in its place split by it. *)
PutInto(n, k) ==
    LET i     == Slot(n, k)
        parts == Split(Link(n, i), k)
    IN  [keys  |-> InsertAt(n.keys, i + 1, k),
         links |-> InsertAt(WithLink(n, i, parts[2]).links, i + 1, parts[1])]

(* The node with a new key d levels below it. *)
PutBelow(n, d, k) ==
    LET put[e \in 0..d] == [m \in Tree |->
            LET i     == Slot(m, k)
                child == IF Link(m, i) = Nil THEN EmptyNode ELSE Link(m, i)
            IN  IF e = 0 THEN PutInto(m, k) ELSE WithLink(m, i, put[e - 1][child])]
    IN  put[d][n]

PowerOf(h) ==
    LET power[i \in 0..h] == IF i = 0 THEN 1 ELSE BranchFactor * power[i - 1] IN power[h]

(* The keys of the root that a higher root would keep. *)
Promoted(t) == {i \in DOMAIN t.root.keys : t.layer[t.root.keys[i]] > t.height}

(* A set of numbers in order. *)
Increasing(S) ==
    [j \in 1..Cardinality(S) |-> CHOOSE i \in S : Cardinality({m \in S : m < i}) = j - 1]

(* One more level: the other keys move to children between the promoted ones. *)
Grow(t) ==
    LET n  == t.root
        up == Increasing(Promoted(t))
        From(j) == IF j = 1 THEN 0 ELSE up[j - 1]
        To(j)   == IF j > Len(up) THEN Len(n.keys) ELSE up[j] - 1
    IN  [t EXCEPT !.height = @ + 1,
                  !.root = [keys  |-> [j \in 1..Len(up) |-> n.keys[up[j]]],
                            links |-> [j \in 1..Len(up) + 1 |->
                                          LinkTo(Part(n, From(j), To(j)))]]]

(* Grown as long as it has the keys for it. *)
Grown(t) ==
    LET grown[i \in 0..(MaxHeight - t.height)] ==
            IF i = 0 THEN t
            ELSE LET g == grown[i - 1] IN
                 IF g.size >= PowerOf(g.height + 1) /\ Promoted(g) # {} THEN Grow(g) ELSE g
    IN  grown[MaxHeight - t.height]

RootNode(t) == IF t.root = Nil THEN EmptyNode ELSE t.root

InsertFails(t, k) == PutFails(RootNode(t), Depth(t, k), k)

(* A key that is there only gets a new value. *)
InsertKey(t, k) ==
    IF Get(t, k) = "found" THEN t
    ELSE LET grown == Grown([t EXCEPT !.root = PutBelow(RootNode(t), Depth(t, k), k)])
         IN  [grown EXCEPT !.size = @ + 1]

-----------------------------------------------------------------------------
(* Deleting. *)

(* Only the vacuum deletes keys, after it has read the whole tree: no link is Blank then. *)

(* Variant of MergeLinks: the subtrees that meet in the middle are not merged. *)
MergeTops(l, r) ==
    IF l = Nil THEN r
    ELSE IF r = Nil THEN l
    ELSE [keys |-> l.keys \o r.keys, links |-> l.links \o Tail(r.links)]

(* Two neighbouring subtrees as one. *)
MergeLinks(l, r) ==
    LET merge[a \in Tree] == [b \in Tree |->
            IF a \in {Nil, Blank} THEN b
            ELSE IF b \in {Nil, Blank} THEN a
            ELSE [keys  |-> a.keys \o b.keys,
                  links |-> Front(a.links) \o <<merge[Last(a.links)][Head(b.links)]>>
                                           \o Tail(b.links)]]
    IN  merge[l][r]

(* A node without a key, and the subtrees beside it merged. *)
CutFrom(n, k) ==
    LET i == Slot(n, k)
        l == MergeLinks(Link(n, i), Link(n, i + 1))
    IN  [keys  |-> RemoveAt(n.keys, i + 1),
         links |-> RemoveAt(WithLink(n, i + 1, l).links, i + 1)]

(* The node without a key that is d levels below it. *)
CutBelow(n, d, k) ==
    LET cut[e \in 0..d] == [m \in Tree |->
            LET i == Slot(m, k) IN
            IF e = 0 THEN CutFrom(m, k) ELSE WithLink(m, i, LinkTo(cut[e - 1][Link(m, i)]))]
    IN  cut[d][n]

(* One level less: the children are joined to the root. *)
Shrink(t) ==
    LET n == t.root
        KeysOf(l)  == IF l = Nil THEN <<>> ELSE l.keys
        LinksOf(l) == IF l = Nil THEN <<Nil>> ELSE l.links
        KeyAt(i)   == IF i \in DOMAIN n.keys THEN <<n.keys[i]>> ELSE <<>>
    IN  [t EXCEPT !.height = @ - 1,
                  !.root = LinkTo([keys  |-> FlattenSeq([i \in DOMAIN n.links |->
                                                KeysOf(n.links[i]) \o KeyAt(i)]),
                                   links |-> FlattenSeq([i \in DOMAIN n.links |->
                                                LinksOf(n.links[i])])])]

(* Shrunk as long as it is too high for its keys. *)
Shrunk(t) ==
    LET shrunk[i \in 0..t.height] ==
            IF i = 0 THEN t
            ELSE LET s == shrunk[i - 1] IN
                 IF s.height > 0 /\ s.size < PowerOf(s.height) THEN Shrink(s) ELSE s
    IN  shrunk[t.height]

DeleteKey(t, k) ==
    Shrunk([t EXCEPT !.root = LinkTo(CutBelow(t.root, Depth(t, k), k)), !.size = @ - 1])

(* A sequence of keys deleted one after another. *)
DeleteAll(t, s) ==
    LET deleted[i \in 0..Len(s)] == IF i = 0 THEN t ELSE DeleteKey(deleted[i - 1], s[i])
    IN  deleted[Len(s)]

-----------------------------------------------------------------------------
(* Storing and loading. *)

Childless(n) == \A i \in DOMAIN n.links : n.links[i] = Nil

(* A node after marshalProto and unmarshalProto: links that are all nil are not stored. *)
Loaded(n) ==
    LET loaded[m \in Tree] ==
            IF m \in {Nil, Blank} THEN Blank
            ELSE IF Childless(m) THEN m
            ELSE [m EXCEPT !.links = [i \in DOMAIN m.links |-> loaded[m.links[i]]]]
    IN  loaded[n]

Readable(n) ==
    LET readable[m \in Tree] ==
            m # Blank /\ (m # Nil => \A i \in DOMAIN m.links : readable[m.links[i]])
    IN  readable[n]

-----------------------------------------------------------------------------
(* What the shape of a tree should be. *)

(* The keys of K between two neighbours in a sequence, before the first, or after the last. *)
Between(K, s, j) == {k \in K : /\ j = 1 \/ Before(s[j - 1], k)
                               /\ j > Len(s) \/ Before(k, s[j])}

(* The node of a height that holds a set of keys. *)
Canonical(K, layer, h) ==
    LET node[g \in 0..h] == [S \in SUBSET K |->
            LET here     == Ascending({k \in S : layer[k] >= g})
                Child(C) == IF C = {} THEN Nil ELSE node[g - 1][C]
            IN  [keys  |-> here,
                 links |-> [j \in 1..Len(here) + 1 |-> Child(Between(S, here, j))]]]
    IN  node[h][K]

(* A node with its links as they were before they were stored. *)
Cleared(n) ==
    LET cleared[m \in Tree] ==
            IF m \in {Nil, Blank} THEN Nil
            ELSE LinkTo([m EXCEPT !.links = [i \in DOMAIN m.links |-> cleared[m.links[i]]]])
    IN  cleared[n]
=============================================================================
