----------------------------- MODULE DurableMap -----------------------------
(***************************************************************************)
(* What the key-value store promises, without handles, roots or nodes: one *)
(* map that only ever climbs in the last-write-wins order, and a set of    *)
(* promised writes, none of which the map ever falls behind.               *)
(***************************************************************************)
EXTENDS LWW

VARIABLES value,     \* what a reader of everything published would see
          promised   \* writes whose Commit was reported to succeed

Init ==
    /\ value = EmptyTree
    /\ promised = {}

(* Some tree is published, and writes it or the map cover are promised. *)
Publish ==
    /\ \E t \in Tree : value' = MergeTrees(value, t)
    /\ promised \subseteq promised'
    /\ \A w \in promised' \ promised : AtLeast(value'[w[1]], w[2])

Spec == Init /\ [][Publish]_<<value, promised>>
=============================================================================
