------------------------------ MODULE TreeCursor ------------------------------
(***************************************************************************)
(* Cursors on a search tree (Cursor in internal/third_party/mast/pub.go).  *)
(* A cursor is a path of nodes from the root down, each with the index of  *)
(* the link followed, or, at the end, of the key the cursor is at.  It     *)
(* stays on the nodes of the clone it was made from.                       *)
(***************************************************************************)
EXTENDS SearchTree

Entry(n, i)  == [node |-> n, index |-> i]
SetTop(p, i) == [p EXCEPT ![Len(p)].index = i]

(* A move ends at a path, with an error or, where the code indexes out of range, a panic. *)
At(p)    == [end |-> "ok", path |-> p]
Error    == [end |-> "error", path |-> <<>>]
Panic    == [end |-> "panic", path |-> <<>>]

(* Mast.load of a link that is not a node: nil is an error, "" is not stored. *)
Loads(l) == l \notin {Nil, Blank}

Start(t) == IF t.root = Nil THEN <<>> ELSE <<Entry(t.root, 0)>>

RECURSIVE MoveMin(_), MoveMax(_), Climb(_), ClimbBack(_), MoveCeil(_, _), ClimbCeil(_)

MoveMin(p) ==
    IF p = <<>> THEN At(p)
    ELSE LET l == Link(Last(p).node, 0) IN
         IF l = Nil THEN At(p)
         ELSE IF ~Loads(l) THEN Error
         ELSE MoveMin(Append(p, Entry(l, 0)))

MoveMax(p) ==
    IF p = <<>> THEN At(p)
    ELSE LET last == Len(Last(p).node.keys)
             l    == Link(Last(p).node, last)
         IN  IF l = Nil THEN At(SetTop(p, last - 1))
             ELSE IF ~Loads(l) THEN Error
             ELSE MoveMax(Append(SetTop(p, last), Entry(l, 0)))

(* Up to the first node with a key to the right of the path. *)
Climb(p) ==
    IF p = <<>> \/ Last(p).index < Len(Last(p).node.keys) THEN At(p) ELSE Climb(Front(p))

(* Variant of MoveForward: a missing child is loaded like any other. *)
ForwardAlwaysDown(p) ==
    IF p = <<>> THEN At(p)
    ELSE LET l == Link(Last(p).node, Last(p).index + 1) IN
         IF Loads(l) THEN MoveMin(Append(SetTop(p, Last(p).index + 1), Entry(l, 0))) ELSE Error

MoveForward(p) ==
    IF p = <<>> THEN At(p)
    ELSE LET n == Last(p).node
             i == Last(p).index + 1
         IN  IF i < Len(n.links) /\ Link(n, i) # Nil
             THEN IF Loads(Link(n, i))
                  THEN MoveMin(Append(SetTop(p, i), Entry(Link(n, i), 0))) ELSE Error
             ELSE IF i < Len(n.keys) THEN At(SetTop(p, i))
             ELSE Climb(Front(p))

(* Variant of ClimbBack: it also stops at index 0. *)
ClimbBackTooFar(p) ==
    IF p = <<>> THEN At(p)
    ELSE IF Last(p).index >= 0 THEN At(SetTop(p, Last(p).index - 1))
    ELSE ClimbBack(Front(p))

(* Up to the first node with a key to the left of the path. *)
ClimbBack(p) ==
    IF p = <<>> THEN At(p)
    ELSE IF Last(p).index > 0 THEN At(SetTop(p, Last(p).index - 1))
    ELSE ClimbBack(Front(p))

(* Whether to go down is decided by link 0, where to go by the link at the index. *)
MoveBackward(p) ==
    IF p = <<>> THEN At(p)
    ELSE LET n == Last(p).node
             l == Link(n, Last(p).index)
         IN  IF Link(n, 0) = Nil THEN ClimbBack(p)
             ELSE IF Loads(l) THEN MoveMax(Append(p, Entry(l, 0))) ELSE Error

(* Up while the path is right of all keys of the node. *)
ClimbCeil(p) ==
    IF p = <<>> \/ Last(p).index # Len(Last(p).node.keys) THEN At(p) ELSE ClimbCeil(Front(p))

MoveCeil(p, k) ==
    IF p = <<>> \/ (k = Null /\ Last(p).node.keys # <<>>) THEN Panic
    ELSE LET n  == Last(p).node
             i  == Slot(n, k)
             p1 == SetTop(p, i)
         IN  IF HasKey(n, i, k) THEN At(p1)
             ELSE IF Link(n, i) = Nil THEN ClimbCeil(p1)
             ELSE IF ~Loads(Link(n, i)) THEN Error
             ELSE MoveCeil(Append(p1, Entry(Link(n, i), 0)), k)
=============================================================================
