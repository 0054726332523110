---------------------------- MODULE MCHashtable ----------------------------
(* Hashtable for TLC.  Nodes are told apart by their keys alone, and of their *)
(* fields only those of the nodes in use are kept.  Nothing reads a Parent    *)
(* that is not the node above, so where it leads is left out.                 *)
EXTENDS Hashtable, TLC

ValueSymmetry == Permutations(Values)

KeyAt(n) == IF n = NULL THEN NULL ELSE key[n]

Readable ==
    <<{<<key[n], value[n], KeyAt(left[n]), KeyAt(right[n]),
         n \in Stale>> : n \in used},
      KeyAt(root), count, KeyAt(cursor), {key[n] : n \in seen}, drift>>
=============================================================================
