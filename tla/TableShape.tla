----------------------------- MODULE TableShape -----------------------------
(* What the operations of utils/hashtable.c do to the shape of a table.      *)
EXTENDS KeyTree

VARIABLE tree

Init == tree = EmptyTree

Set(k) == tree' = Planted(tree, k)

Remove(k) == tree' = Pruned(tree, k)

Clear == tree' = EmptyTree

Next == Clear \/ \E k \in Keys : Set(k) \/ Remove(k)

Spec == Init /\ [][Next]_tree
=============================================================================
