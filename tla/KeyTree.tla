------------------------------- MODULE KeyTree -------------------------------
(* The shape of a table of utils/hashtable.c, its nodes told apart by their  *)
(* keys: which key's node each one hangs under, and whose Parent field is    *)
(* not the node above.  AdrenoHashtable_TreeRemove sets no Parent: the field *)
(* of the child it moves up still leads to the node given back.              *)
EXTENDS Integers, FiniteSets

CONSTANTS Keys,   \* hashes
          None

ASSUME KeyTreeAssumption == Keys \subseteq Nat /\ IsFiniteSet(Keys)

Trees == [keys : SUBSET Keys, up : [Keys -> Keys \cup {None}], stale : SUBSET Keys]

EmptyTree == [keys |-> {}, up |-> [k \in Keys |-> None], stale |-> {}]

Children(t, k) == {j \in t.keys : t.up[j] = k}

\* Where AdrenoHashtable_Set finds no child to go on to: at a neighbour of k
\* in the order of the keys, on a side where it has no child.
Ends(t, k) ==
    {p \in t.keys : /\ \A j \in t.keys : ~(p < j /\ j < k) /\ ~(k < j /\ j < p)
                    /\ \A c \in Children(t, p) : (c < p) # (k < p)}

\* AdrenoHashtable_Set.
Planted(t, k) ==
    IF k \in t.keys
    THEN t
    ELSE [t EXCEPT !.keys = @ \cup {k},
                   !.up[k] = IF Ends(t, k) = {} THEN None ELSE CHOOSE p \in Ends(t, k) : TRUE]

Least(S) == CHOOSE i \in S : \A j \in S : i <= j

\* The key whose node AdrenoHashtable_TreeRemove unlinks: that of k, or, when
\* it has two children, of the next key, which moves to the node of k.
Gone(t, k) ==
    IF \E i, j \in Children(t, k) : i < k /\ k < j
    THEN Least({j \in t.keys : j > k})
    ELSE k

\* The nodes whose Parent is wrong once k is removed: the child of the node
\* unlinked, unless it becomes the root, and those where it was before.
StaleAfter(t, k) ==
    LET gone == Gone(t, k)
    IN  {j \in t.keys \ {k} :
            \/ j = gone /\ k \in t.stale
            \/ j # gone /\ t.up[j] = gone /\ t.up[gone] # None
            \/ j # gone /\ t.up[j] # gone /\ j \in t.stale}

\* AdrenoHashtable_RemoveHashed.
Pruned(t, k) ==
    LET gone == Gone(t, k)
        Renamed(p) == IF p = k THEN gone ELSE p
    IN  IF k \notin t.keys
        THEN t
        ELSE [keys |-> t.keys \ {k},
              up |-> [j \in Keys |->
                        IF j = k THEN None
                        ELSE IF j = gone THEN t.up[k]
                        ELSE IF t.up[j] = gone THEN Renamed(t.up[gone])
                        ELSE Renamed(t.up[j])],
              stale |-> StaleAfter(t, k)]

\* The nodes whose Parent field AdrenoHashtableIterator_Next reads on its way
\* from k: none when k has a right child, or else k and those it climbs to.
Leaving(t, k) ==
    LET climb[j \in Keys] ==
            {j} \cup IF t.up[j] # None /\ t.up[j] < j THEN climb[t.up[j]] ELSE {}
    IN  IF \E c \in Children(t, k) : k < c THEN {} ELSE climb[k]
=============================================================================
