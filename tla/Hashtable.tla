------------------------------ MODULE Hashtable ------------------------------
(* utils/hashtable.c: a binary search tree over the hashes of the keys.  Its *)
(* nodes come from AHT_NodePool, of which only the promise of Heap is used;  *)
(* a node given back keeps its fields, the pool writes outside it.  An       *)
(* iterator holds one node and finds the next through the Parent fields.     *)
(* Two keys with one hash are one key.  The callers never change a table     *)
(* while they iterate over it.                                               *)
EXTENDS Integers, FiniteSets

CONSTANTS Nodes,        \* bound: the nodes of the pool
          Keys,         \* hashes
          Values,
          NULL,
          CountMod,     \* NodeCount is unsigned: it wraps
          IterateAnyway \* the caller iterates over a table where removals
                        \* have left a Parent field wrong, as OP_RMELEM
                        \* makes AdrenoValue_Free do

ASSUME HashtableAssumption ==
    /\ Keys \subseteq Nat /\ Keys # {} /\ Values # {}
    /\ NULL \notin Nodes \cup Values
    /\ CountMod \in Nat \ {0}
    /\ IterateAnyway \in BOOLEAN

VARIABLES key, value, parent, left, right,   \* the fields of every node
          root,       \* RootNode
          count,      \* NodeCount
          used,       \* the nodes allocated
          cursor,     \* CurrentNode; NULL when nobody iterates
          seen,       \* history: the nodes the iterator has been at
          removed,    \* history: a key has been removed since the table was empty
          drift       \* history: NodeCount's errors

fields == <<key, value, parent, left, right>>
iterator == <<cursor, seen>>
vars == <<fields, root, count, used, iterator, removed, drift>>

Pointers == Nodes \cup {NULL}

TypeOK ==
    /\ key \in [Nodes -> Keys]
    /\ value \in [Nodes -> Values]
    /\ parent \in [Nodes -> Pointers]
    /\ left \in [Nodes -> Pointers]
    /\ right \in [Nodes -> Pointers]
    /\ root \in Pointers
    /\ count \in 0..(CountMod - 1)
    /\ used \subseteq Nodes
    /\ cursor \in Pointers
    /\ seen \subseteq Nodes
    /\ removed \in BOOLEAN
    /\ drift \in 0..(CountMod - 1)
-----------------------------------------------------------------------------
Child(n, k) == IF k < key[n] THEN left[n] ELSE right[n]

\* Where the search for k ends: at its node, or at the node it belongs under.
End(k) ==
    LET end[n \in Nodes] ==
            IF key[n] = k \/ Child(n, k) = NULL THEN n ELSE end[Child(n, k)]
    IN  end[root]

Found(k) == root # NULL /\ key[End(k)] = k

LeftMost(n) ==
    LET leftmost[m \in Nodes] == IF left[m] = NULL THEN m ELSE leftmost[left[m]]
    IN  leftmost[n]

\* The nodes of the tree below and at n.
Tree(n) ==
    LET tree[m \in Pointers] ==
            IF m = NULL THEN {} ELSE {m} \cup tree[left[m]] \cup tree[right[m]]
    IN  tree[n]

\* Fault, as those below: the right subtree is forgotten.
OnlyLeftChild(n) == left[n]

OnlyChild(n) == IF left[n] # NULL THEN left[n] ELSE right[n]

\* Fault: the child that moves up gets its Parent.
UnlinkSetsParent(gone, child) ==
    /\ left' = [n \in Nodes |-> IF n \in Tree(root) /\ left[n] = gone
                                THEN child ELSE left[n]]
    /\ right' = [n \in Nodes |-> IF n \in Tree(root) /\ right[n] = gone
                                 THEN child ELSE right[n]]
    /\ root' = IF gone = root THEN child ELSE root
    /\ parent' = IF child # NULL
                 THEN [parent EXCEPT ![child] = parent[gone]] ELSE parent

\* AdrenoHashtable_TreeRemove unlinks gone; its parameter parent is the node
\* the descent came from, not the Parent field, and no Parent field is set.
\* The root is unlinked from auxRoot instead, and its child's Parent cleared.
Unlink(gone, child) ==
    /\ left' = [n \in Nodes |-> IF n \in Tree(root) /\ left[n] = gone
                                THEN child ELSE left[n]]
    /\ right' = [n \in Nodes |-> IF n \in Tree(root) /\ right[n] = gone
                                 THEN child ELSE right[n]]
    /\ root' = IF gone = root THEN child ELSE root
    /\ parent' = IF gone = root /\ child # NULL
                 THEN [parent EXCEPT ![child] = NULL] ELSE parent

\* A node with two children takes the least entry to its right, whose node is
\* the one that goes.
RemoveNode(target, gone, child, freed) ==
    /\ key' = [key EXCEPT ![target] = key[gone]]
    /\ value' = [value EXCEPT ![target] = value[gone]]
    /\ Unlink(gone, child)
    /\ used' = used \ {freed}
    /\ count' = (count - 1) % CountMod
    /\ removed' = (root' # NULL)
    /\ drift' = drift

Going(target) ==
    IF left[target] # NULL /\ right[target] # NULL
    THEN LeftMost(right[target]) ELSE target
-----------------------------------------------------------------------------
\* Faults: each operator is one of the definitions below with a plausible
\* mistake; some property must notice when it takes that definition's place.
RemoveFreesTarget(k) ==         \* the node found is freed, not the one unlinked
    /\ cursor = NULL
    /\ Found(k)
    /\ LET gone == Going(End(k))
       IN  RemoveNode(End(k), gone, OnlyChild(gone), End(k))
    /\ UNCHANGED iterator

SetAgainCounts(k, v) ==         \* a new value is counted like a new node
    /\ cursor = NULL
    /\ Found(k)
    /\ value' = [value EXCEPT ![End(k)] = v]
    /\ count' = (count + 1) % CountMod
    /\ UNCHANGED <<key, parent, left, right, root, used, iterator, removed, drift>>

UpOnce(n) == parent[n]          \* the iterator does not climb past one node
-----------------------------------------------------------------------------
\* AdrenoHashtable_Initialize; the fields of a node not allocated yet are
\* whatever the pool's page holds.
Init ==
    /\ key \in [Nodes -> {CHOOSE k \in Keys : TRUE}]
    /\ value \in [Nodes -> {CHOOSE v \in Values : TRUE}]
    /\ parent = [n \in Nodes |-> NULL]
    /\ left = [n \in Nodes |-> NULL]
    /\ right = [n \in Nodes |-> NULL]
    /\ root = NULL
    /\ count = 0
    /\ used = {}
    /\ cursor = NULL
    /\ seen = {}
    /\ removed = FALSE
    /\ drift = 0

\* CREATE_NODE.
Create(n, k, v, up) ==
    /\ n \notin used
    /\ used' = used \cup {n}
    /\ key' = [key EXCEPT ![n] = k]
    /\ value' = [value EXCEPT ![n] = v]
    /\ parent' = [parent EXCEPT ![n] = up]

\* AdrenoHashtable_Set: the first node, which is not counted, a node below
\* another, or a new value.
SetFirst(n, k, v) ==
    /\ cursor = NULL
    /\ root = NULL
    /\ Create(n, k, v, NULL)
    /\ left' = [left EXCEPT ![n] = NULL]
    /\ right' = [right EXCEPT ![n] = NULL]
    /\ root' = n
    /\ drift' = (drift + 1) % CountMod
    /\ UNCHANGED <<count, iterator, removed>>

SetBelow(n, k, v) ==
    /\ cursor = NULL
    /\ root # NULL /\ ~Found(k)
    /\ LET up == End(k)
       IN  /\ Create(n, k, v, up)
           /\ left' = [left EXCEPT ![n] = NULL,
                                   ![up] = IF k < key[up] THEN n ELSE @]
           /\ right' = [right EXCEPT ![n] = NULL,
                                     ![up] = IF k > key[up] THEN n ELSE @]
    /\ count' = (count + 1) % CountMod
    /\ UNCHANGED <<root, iterator, removed, drift>>

SetAgain(k, v) ==
    /\ cursor = NULL
    /\ Found(k)
    /\ value' = [value EXCEPT ![End(k)] = v]
    /\ UNCHANGED <<key, parent, left, right, root, count, used, iterator, removed,
                   drift>>

\* AdrenoHashtable_RemoveHashed counts one node less in any table with a root.
Remove(k) ==
    /\ cursor = NULL
    /\ Found(k)
    /\ LET gone == Going(End(k))
       IN  RemoveNode(End(k), gone, OnlyChild(gone), gone)
    /\ UNCHANGED iterator

RemoveMiss(k) ==
    /\ cursor = NULL
    /\ root # NULL /\ ~Found(k)
    /\ count' = (count - 1) % CountMod
    /\ drift' = (drift + 1) % CountMod
    /\ UNCHANGED <<fields, root, used, iterator, removed>>

\* AdrenoHashtable_Clear removes the root until there is none; what that
\* leaves in the nodes it gives back is not kept track of.
Clear ==
    /\ cursor = NULL
    /\ root' = NULL
    /\ count' = 0
    /\ used' = {}
    /\ removed' = FALSE
    /\ drift' = 0
    /\ UNCHANGED <<fields, iterator>>

\* Every node in use is the Parent of its children, and the root has none.
ParentsHold ==
    /\ root # NULL => parent[root] = NULL
    /\ \A n \in used : /\ left[n] # NULL => parent[left[n]] = n
                       /\ right[n] # NULL => parent[right[n]] = n

\* AdrenoHashtable_CreateIterator does not survive an empty table.
CreateIterator ==
    /\ cursor = NULL
    /\ root # NULL
    /\ IterateAnyway \/ ParentsHold
    /\ cursor' = LeftMost(root)
    /\ seen' = {}
    /\ UNCHANGED <<fields, root, count, used, removed, drift>>

\* Where AdrenoHashtableIterator_Next goes from n when nothing is to its right.
Up(n) ==
    LET up[m \in Nodes] == IF parent[m] # NULL /\ right[parent[m]] = m
                           THEN up[parent[m]] ELSE parent[m]
    IN  up[n]

IteratorNext ==
    /\ cursor # NULL
    /\ cursor' = IF right[cursor] # NULL THEN LeftMost(right[cursor]) ELSE Up(cursor)
    /\ seen' = IF cursor' = NULL THEN {} ELSE seen \cup {cursor}
    /\ UNCHANGED <<fields, root, count, used, removed, drift>>

Next ==
    \/ \E k \in Keys, v \in Values :
          \/ \E n \in Nodes : SetFirst(n, k, v) \/ SetBelow(n, k, v)
          \/ SetAgain(k, v)
    \/ \E k \in Keys : Remove(k) \/ RemoveMiss(k)
    \/ Clear
    \/ CreateIterator
    \/ IteratorNext

Spec == Init /\ [][Next]_vars
-----------------------------------------------------------------------------
\* What AdrenoHashtable_Get finds.
Contents == [k \in Keys |-> IF Found(k) THEN value[End(k)] ELSE NULL]

Dict == INSTANCE Dictionary WITH Absent <- NULL, dict <- Contents

\* After any sequence of operations a search finds exactly what was set and
\* not removed since.
IsDictionary == Dict!Spec

\* The nodes allocated are the nodes of the tree: none leaks, and none is in
\* the tree after the pool has it back.
NodesAreInTree == used = Tree(root)

\* NodeCount is the number of nodes, less one for every first node and for
\* every removal of a key that was not there.
CountDrifts == count = (Cardinality(Tree(root)) - drift) % CountMod

\* The node above n in the tree, if there is one.
Above(n) == {m \in used : n \in {left[m], right[m]}}

\* The nodes whose Parent field is another than the node above.
Stale == {n \in used : IF Above(n) = {} THEN parent[n] # NULL
                       ELSE parent[n] \notin Above(n)}

KeysOf(nodes) == {key[n] : n \in nodes}

KeyAbove(k) ==
    LET above == KeysOf(UNION {Above(n) : n \in {m \in used : key[m] = k}})
    IN  IF above = {} THEN NULL ELSE CHOOSE i \in above : TRUE

KeyShape ==
    INSTANCE TableShape WITH
        None <- NULL,
        tree <- [keys |-> KeysOf(used),
                 up |-> [k \in Keys |-> KeyAbove(k)],
                 stale |-> KeysOf(Stale)]

\* What an operation does to the shape of the tree, and which Parent fields a
\* removal leaves wrong, depends on the keys alone: not on the nodes the pool
\* hands out again, nor on what the removals before have left in the fields.
HasTableShape == KeyShape!Spec

\* An iterator over a table whose Parent fields are right, removals or not, is
\* at every node once, in the order of the keys.
IteratesInOrder ==
    [][/\ cursor' # NULL =>
             cursor' \in Tree(root) /\ \A n \in seen' : key[n] < key[cursor']
       /\ cursor # NULL /\ cursor' = NULL => seen \cup {cursor} = Tree(root)]_vars
=============================================================================
