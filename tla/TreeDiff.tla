------------------------------ MODULE TreeDiff ------------------------------
(***************************************************************************)
(* The differences of two trees (internal/third_party/mast/diff.go).       *)
(*                                                                         *)
(* Both trees are walked at once, each with a stack of what is left of it: *)
(* links to consider and entries to yield.  Links are compared by name,    *)
(* and nodes are named by their content: a pair of equal links is skipped. *)
(* The three callers are the merge and kv.DB.Diff, which take the entries  *)
(* and stop at an error; the vacuum, which takes the links of the old tree *)
(* and stops at an error; and azb_changes, which takes the entries and     *)
(* goes on after an error.  Values are left out: `changed` are the keys    *)
(* with different values in the two trees.                                 *)
(***************************************************************************)
EXTENDS SearchTree

RECURSIVE KeysUnder(_), NodesUnder(_)

KeysUnder(l)  == IF l \in {Nil, Blank} THEN {}
                 ELSE Range(l.keys) \union UNION {KeysUnder(l.links[i]) : i \in DOMAIN l.links}

(* A subtree as the set of its nodes; an empty node is not stored. *)
NodesUnder(l) == IF l \in {Nil, Blank, EmptyNode} THEN {}
                 ELSE {l} \union UNION {NodesUnder(l.links[i]) : i \in DOMAIN l.links}

(* Variant of SameNode: only the keys are compared. *)
SameShape(o, n, changed) == o = n

(* The node of the one tree is a node of the other, too. *)
SameNode(o, n, changed) == o = n /\ KeysUnder(o) \intersect changed = {}

Consider(l) == [consider |-> l]
Yield(k)    == [yield |-> k]

(* Variant of Items: nil links are pushed, too. *)
ItemsAndNils(n) ==
    LET Item(i) == <<Consider(n.links[i])>> \o
                   IF i \in DOMAIN n.keys THEN <<Yield(n.keys[i])>> ELSE <<>>
    IN  FlattenSeq([i \in DOMAIN n.links |-> Item(i)])

(* What pushNode puts on a stack, the top first: links and entries in order, no nil link. *)
Items(n) ==
    LET Item(i) == <<Consider(n.links[i])>> \o
                   IF i \in DOMAIN n.keys THEN <<Yield(n.keys[i])>> ELSE <<>>
    IN  SelectSeq(FlattenSeq([i \in DOMAIN n.links |-> Item(i)]), LAMBDA x : x # Consider(Nil))

HasLink(s)    == s # <<>> /\ "consider" \in DOMAIN Head(s)
HasEntry(s)   == s # <<>> /\ "yield" \in DOMAIN Head(s)
TopLink(s)    == Head(s).consider
TopKey(s)     == Head(s).yield
Pop(s)        == IF s = <<>> THEN s ELSE Tail(s)
Opened(s)     == Items(TopLink(s)) \o Tail(s)
Unreadable(s) == HasLink(s) /\ TopLink(s) \in {Nil, Blank}

(* The first key is in this node and not further down. *)
Keyed(s) == TopLink(s).keys # <<>>

KeyBefore(s, t) == Before(TopLink(s).keys[1], TopLink(t).keys[1])

StartDiff(old, new) ==
    [old |-> <<Consider(old)>>, new |-> <<Consider(new)>>,
     entries |-> <<>>, removed |-> {}, failed |-> FALSE]

(* Variant of Fail: nothing is left to compare. *)
FailForGood(d) == [d EXCEPT !.failed = TRUE, !.old = <<>>, !.new = <<>>]

(* A link could not be loaded: what both stacks had on top is lost. *)
Fail(d) == [d EXCEPT !.failed = TRUE, !.old = Pop(@), !.new = Pop(@)]

Report(d, key, kind) == [d EXCEPT !.entries = Append(@, [key |-> key, kind |-> kind])]

ReportLink(d) == [d EXCEPT !.removed = @ \union ({TopLink(d.old)} \ {EmptyNode})]

(* Variant of OpenOld: only links compared to another are reported. *)
OpenOldSilently(d) == [d EXCEPT !.old = Opened(@)]

(* The old link is reported as removed, and descended. *)
OpenOld(d) == [ReportLink(d) EXCEPT !.old = Opened(@)]

OpenNew(d) == [d EXCEPT !.new = Opened(@)]

(* Two links that differ: the one whose first key comes first is descended, or both. *)
DiffLinkPair(d, changed) ==
    IF SameNode(TopLink(d.old), TopLink(d.new), changed)
    THEN [d EXCEPT !.old = Pop(@), !.new = Pop(@)]
    ELSE IF Unreadable(d.old) THEN Fail(d)
    ELSE IF ~Keyed(d.old) THEN OpenOld(d)
    ELSE IF Unreadable(d.new) THEN Fail(d)
    ELSE IF ~Keyed(d.new) THEN OpenNew(ReportLink(d))
    ELSE IF KeyBefore(d.old, d.new) THEN OpenOld(d)
    ELSE IF KeyBefore(d.new, d.old) THEN OpenNew(ReportLink(d))
    ELSE OpenNew(OpenOld(d))

(* Two entries: the one that comes first, or both if they are of one key. *)
DiffEntryPair(d, changed) ==
    LET o == TopKey(d.old)
        n == TopKey(d.new)
    IN  IF Before(o, n) THEN Report([d EXCEPT !.old = Pop(@)], o, "remove")
        ELSE IF Before(n, o) THEN Report([d EXCEPT !.new = Pop(@)], n, "add")
        ELSE LET popped == [d EXCEPT !.old = Pop(@), !.new = Pop(@)]
             IN  IF o \in changed THEN Report(popped, o, "change") ELSE popped

DiffOne(d, changed) ==
    IF HasLink(d.old) /\ HasLink(d.new) THEN DiffLinkPair(d, changed)
    ELSE IF Unreadable(d.old) \/ Unreadable(d.new) THEN Fail(d)
    ELSE IF HasLink(d.old) THEN OpenOld(d)
    ELSE IF HasLink(d.new) THEN OpenNew(d)
    ELSE IF HasEntry(d.old) /\ HasEntry(d.new) THEN DiffEntryPair(d, changed)
    ELSE IF HasEntry(d.old) THEN Report([d EXCEPT !.old = Pop(@)], TopKey(d.old), "remove")
    ELSE Report([d EXCEPT !.new = Pop(@)], TopKey(d.new), "add")

AtEnd(d) == d.old = <<>> /\ d.new = <<>>

RECURSIVE Iterate(_, _), IterateOn(_, _)

(* Mast.diff: the iteration ends at the first error. *)
Iterate(d, changed) ==
    IF AtEnd(d) \/ d.failed THEN d ELSE Iterate(DiffOne(d, changed), changed)

(* NextEntry, called until the end, whatever errors it returns. *)
IterateOn(d, changed) == IF AtEnd(d) THEN d ELSE IterateOn(DiffOne(d, changed), changed)

Diff(old, new, changed) == Iterate(StartDiff(old, new), changed)

(* ChangesCursor.Next takes the entries that have a new value. *)
Changes(old, new, changed) ==
    SelectSeq(IterateOn(StartDiff(old, new), changed).entries, LAMBDA e : e.kind # "remove")

-----------------------------------------------------------------------------
(* What the differences should be. *)

(* The entries that differ, in order, of trees with these keys. *)
Difference(oldKeys, newKeys, changed) ==
    LET K    == (oldKeys \ newKeys) \union (newKeys \ oldKeys) \union (changed \intersect oldKeys)
        Kind(k) == IF k \notin newKeys THEN "remove" ELSE IF k \notin oldKeys THEN "add" ELSE "change"
        s    == Ascending(K)
    IN  [i \in DOMAIN s |-> [key |-> s[i], kind |-> Kind(s[i])]]
=============================================================================
