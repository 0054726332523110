-------------------------- MODULE HashtableProofs --------------------------
(* The tree of Hashtable is a search tree of the nodes in use, whatever the  *)
(* order of the operations.  What lies below a node is kept as a function    *)
(* sub, which the steps change as simply as the fields; induction over the   *)
(* tree is the choice of a node with least sub.                              *)
EXTENDS Hashtable, FiniteSetTheorems, WellFoundedInduction, TLAPS

\* U are the nodes of a tree with the fields K, L and R and the root r, and
\* sub[n] are those below and at n.
Branches(U, K, L, R, sub) ==
    \A n \in U :
       /\ L[n] \in U \cup {NULL} /\ R[n] \in U \cup {NULL}
       /\ sub[n] = {n} \cup sub[L[n]] \cup sub[R[n]]
       /\ \A m \in sub[L[n]] : K[m] < K[n]
       /\ \A m \in sub[R[n]] : K[n] < K[m]

SearchTree(U, K, L, R, r, sub) ==
    /\ U \subseteq Nodes /\ IsFiniteSet(U)
    /\ K \in [Nodes -> Nat]
    /\ r \in U \cup {NULL}
    /\ sub \in [U \cup {NULL} -> SUBSET U]
    /\ sub[NULL] = {} /\ sub[r] = U
    /\ Branches(U, K, L, R, sub)

\* A set of nodes that holds every node whose children it holds, holds all.
LEMMA BottomUp ==
    ASSUME NEW U, NEW K, NEW L, NEW R, NEW r, NEW sub,
           SearchTree(U, K, L, R, r, sub), NEW S,
           \A n \in U : (L[n] # NULL => L[n] \in S) /\ (R[n] # NULL => R[n] \in S) => n \in S
    PROVE  U \subseteq S
<1> SUFFICES ASSUME ~(U \subseteq S) PROVE FALSE
  OBVIOUS
<1> DEFINE B == {sub[n] : n \in U \ S}
<1>1. IsFiniteSet(U) /\ NULL \notin U /\ \A n \in U : sub[n] \subseteq U
  BY HashtableAssumption DEF SearchTree
<1>2. B \subseteq FiniteSubsetsOf(U) /\ B # {}
  <2>1. \A n \in U : IsFiniteSet(sub[n])
    BY <1>1, FS_Subset
  <2> QED BY <1>1, <2>1 DEF FiniteSubsetsOf
<1>3. PICK s \in B : \A t \in B : <<t, s>> \notin StrictSubsetOrdering(U)
  <2> HIDE DEF B
  <2> QED BY <1>2, FS_StrictSubsetOrderingWellFounded, WFMin
<1>4. PICK n \in U \ S : s = sub[n]
  BY <1>3
<1>5. \A m \in U : m \notin S => ~(sub[m] \subseteq sub[n] /\ sub[m] # sub[n])
  BY <1>1, <1>3, <1>4 DEF StrictSubsetOrdering
<1>6. /\ L[n] \in U \cup {NULL} /\ R[n] \in U \cup {NULL}
      /\ sub[n] = {n} \cup sub[L[n]] \cup sub[R[n]]
      /\ \A m \in sub[L[n]] : K[m] < K[n]
      /\ \A m \in sub[R[n]] : K[n] < K[m]
      /\ K[n] \in Nat
  BY <1>4 DEF SearchTree, Branches
<1>7. n \notin sub[L[n]] /\ n \notin sub[R[n]]
  BY <1>6
<1> QED BY <1>4, <1>5, <1>6, <1>7

\* Likewise from the root down.
LEMMA TopDown ==
    ASSUME NEW U, NEW K, NEW L, NEW R, NEW r, NEW sub,
           SearchTree(U, K, L, R, r, sub), NEW S,
           r # NULL => r \in S,
           \A n \in U \cap S : (L[n] # NULL => L[n] \in S) /\ (R[n] # NULL => R[n] \in S)
    PROVE  U \subseteq S
<1> DEFINE T == {n \in U : n \in S => sub[n] \subseteq S}
<1>1. \A n \in U : (L[n] # NULL => L[n] \in T) /\ (R[n] # NULL => R[n] \in T) => n \in T
  <2> SUFFICES ASSUME NEW n \in U, n \in S,
                      L[n] # NULL => L[n] \in T, R[n] # NULL => R[n] \in T
               PROVE  sub[n] \subseteq S
    OBVIOUS
  <2>1. /\ sub[n] = {n} \cup sub[L[n]] \cup sub[R[n]] /\ sub[NULL] = {}
    BY DEF SearchTree, Branches
  <2> QED BY <2>1
<1>2. U \subseteq T
  <2> HIDE DEF T
  <2> QED BY <1>1, BottomUp
<1>3. sub[r] = U /\ r \in U \cup {NULL} /\ sub[NULL] = {}
  BY DEF SearchTree
<1> QED BY <1>2, <1>3

LEMMA Nested ==
    ASSUME NEW U, NEW K, NEW L, NEW R, NEW r, NEW sub,
           SearchTree(U, K, L, R, r, sub)
    PROVE  \A n \in U : \A m \in sub[n] : sub[m] \subseteq sub[n]
<1> DEFINE S == {n \in U : \A m \in sub[n] : sub[m] \subseteq sub[n]}
<1>1. \A n \in U : (L[n] # NULL => L[n] \in S) /\ (R[n] # NULL => R[n] \in S) => n \in S
  <2> SUFFICES ASSUME NEW n \in U, NEW m \in sub[n],
                      L[n] # NULL => L[n] \in S, R[n] # NULL => R[n] \in S
               PROVE  sub[m] \subseteq sub[n]
    OBVIOUS
  <2>1. sub[n] = {n} \cup sub[L[n]] \cup sub[R[n]] /\ sub[NULL] = {}
    BY DEF SearchTree, Branches
  <2> QED BY <2>1
<1> HIDE DEF S
<1>2. U \subseteq S
  BY <1>1, BottomUp
<1> QED BY <1>2 DEF S

\* What the fields of one node say of the nodes below it.
LEMMA AtNode ==
    ASSUME NEW U, NEW K, NEW L, NEW R, NEW r, NEW sub,
           SearchTree(U, K, L, R, r, sub), NEW n \in U
    PROVE  /\ n \in sub[n] /\ sub[n] \subseteq U /\ K[n] \in Nat
           /\ n # NULL /\ n \in Nodes
           /\ L[n] \in U \cup {NULL} /\ R[n] \in U \cup {NULL}
           /\ sub[n] = {n} \cup sub[L[n]] \cup sub[R[n]]
           /\ sub[L[n]] \subseteq U /\ sub[R[n]] \subseteq U
           /\ n \notin sub[L[n]] /\ n \notin sub[R[n]]
           /\ sub[L[n]] \cap sub[R[n]] = {}
           /\ \A m \in sub[L[n]] : K[m] < K[n]
           /\ \A m \in sub[R[n]] : K[n] < K[m]
           /\ L[n] # NULL => L[n] \in sub[L[n]]
           /\ R[n] # NULL => R[n] \in sub[R[n]]
           /\ sub[NULL] = {}
<1>1. /\ L[n] \in U \cup {NULL} /\ R[n] \in U \cup {NULL}
      /\ sub[n] = {n} \cup sub[L[n]] \cup sub[R[n]]
      /\ \A m \in sub[L[n]] : K[m] < K[n]
      /\ \A m \in sub[R[n]] : K[n] < K[m]
      /\ sub[NULL] = {}
  BY DEF SearchTree, Branches
<1>2. /\ U \subseteq Nodes /\ K \in [Nodes -> Nat] /\ n # NULL
      /\ \A m \in U \cup {NULL} : sub[m] \subseteq U
  BY HashtableAssumption DEF SearchTree
<1>3. \A m \in U : m \in sub[m]
  BY DEF SearchTree, Branches
<1>4. /\ K[n] \in Nat /\ \A m \in U : K[m] \in Nat
  BY <1>2
<1>5. sub[L[n]] \subseteq U /\ sub[R[n]] \subseteq U
  BY <1>1, <1>2
<1>6. \A m \in U : ~(K[m] < K[n] /\ K[n] < K[m])
  BY <1>4
<1>7. sub[L[n]] \cap sub[R[n]] = {} /\ n \notin sub[L[n]] /\ n \notin sub[R[n]]
  BY <1>1, <1>4, <1>5, <1>6
<1> QED BY <1>1, <1>2, <1>3, <1>4, <1>5, <1>7
-----------------------------------------------------------------------------
(* The three changes of a tree: a node with at most one child is unlinked, a *)
(* node takes another key, a node is put under another.                      *)

\* What is below a node when g is gone, and when n is put under up.
Without(sub, U, g) == [m \in (U \ {g}) \cup {NULL} |-> sub[m] \ {g}]

Grown(sub, U, up, n) ==
    [m \in U \cup {n} \cup {NULL} |->
       IF m = n THEN {n} ELSE IF up \in sub[m] THEN sub[m] \cup {n} ELSE sub[m]]

\* The fields and the root after g, whose only child is c, is unlinked.
Unlinked(U, L, R, r, g, c, L2, R2, r2) ==
    /\ g \in U
    /\ \/ L[g] = NULL /\ c = R[g]
       \/ R[g] = NULL /\ c = L[g]
    /\ \A m \in U \ {g} : /\ L2[m] = IF L[m] = g THEN c ELSE L[m]
                         /\ R2[m] = IF R[m] = g THEN c ELSE R[m]
    /\ r2 = IF r = g THEN c ELSE r

LEMMA UnlinkedTree ==
    ASSUME NEW U, NEW K, NEW L, NEW R, NEW r, NEW sub,
           SearchTree(U, K, L, R, r, sub), NEW g, NEW c, NEW L2, NEW R2, NEW r2,
           Unlinked(U, L, R, r, g, c, L2, R2, r2)
    PROVE  SearchTree(U \ {g}, K, L2, R2, r2, Without(sub, U, g))
<1>0. /\ g \in U
      /\ \/ L[g] = NULL /\ c = R[g]
         \/ R[g] = NULL /\ c = L[g]
      /\ \A m \in U \ {g} : L2[m] = IF L[m] = g THEN c ELSE L[m]
      /\ \A m \in U \ {g} : R2[m] = IF R[m] = g THEN c ELSE R[m]
      /\ r2 = IF r = g THEN c ELSE r
  BY DEF Unlinked
<1> DEFINE V == U \ {g}
           sub2 == [m \in V \cup {NULL} |-> sub[m] \ {g}]
<1>1. /\ U \subseteq Nodes /\ IsFiniteSet(U)
      /\ K \in [Nodes -> Nat]
      /\ r \in U \cup {NULL} /\ sub[r] = U
      /\ sub \in [U \cup {NULL} -> SUBSET U]
      /\ sub[NULL] = {}
      /\ g # NULL /\ NULL \notin U
  BY <1>0, HashtableAssumption DEF SearchTree
<1>2. /\ c \in V \cup {NULL} /\ g \notin sub[c] /\ sub[c] = sub[g] \ {g}
  BY <1>0, <1>1, AtNode
<1>3. \A x \in U \cup {NULL} : LET y == IF x = g THEN c ELSE x
                               IN  y \in V \cup {NULL} /\ sub2[y] = sub[x] \ {g}
  BY <1>1, <1>2
<1>4. r2 \in V \cup {NULL} /\ sub2[r2] = V
  BY <1>0, <1>1, <1>3
<1>5. sub2 \in [V \cup {NULL} -> SUBSET V] /\ sub2[NULL] = {}
  BY <1>1
<1>6. Branches(V, K, L2, R2, sub2)
  <2> SUFFICES ASSUME NEW n \in V
               PROVE  /\ L2[n] \in V \cup {NULL} /\ R2[n] \in V \cup {NULL}
                      /\ sub2[n] = {n} \cup sub2[L2[n]] \cup sub2[R2[n]]
                      /\ \A m \in sub2[L2[n]] : K[m] < K[n]
                      /\ \A m \in sub2[R2[n]] : K[n] < K[m]
    BY DEF Branches
  <2>1. /\ L[n] \in U \cup {NULL} /\ R[n] \in U \cup {NULL}
        /\ sub[n] = {n} \cup sub[L[n]] \cup sub[R[n]]
        /\ \A m \in sub[L[n]] : K[m] < K[n]
        /\ \A m \in sub[R[n]] : K[n] < K[m]
    BY DEF SearchTree, Branches
  <2>2. /\ L2[n] \in V \cup {NULL} /\ sub2[L2[n]] = sub[L[n]] \ {g}
        /\ R2[n] \in V \cup {NULL} /\ sub2[R2[n]] = sub[R[n]] \ {g}
    BY <1>0, <1>3, <2>1
  <2>3. sub2[n] = sub[n] \ {g} /\ n # g
    OBVIOUS
  <2> HIDE DEF sub2
  <2> QED BY <2>1, <2>2, <2>3
<1>7. V \subseteq Nodes /\ IsFiniteSet(V)
  BY <1>1, FS_Subset
<1>8. sub2 = Without(sub, U, g)
  BY DEF Without
<1> HIDE DEF sub2
<1> QED BY <1>1, <1>4, <1>5, <1>6, <1>7, <1>8 DEF SearchTree

LEMMA RekeyedTree ==
    ASSUME NEW U, NEW K, NEW L, NEW R, NEW r, NEW sub,
           SearchTree(U, K, L, R, r, sub), NEW t \in U, NEW x \in Nat,
           \A n \in U : (t \in sub[L[n]] => x < K[n]) /\ (t \in sub[R[n]] => K[n] < x),
           \A m \in sub[L[t]] : K[m] < x,
           \A m \in sub[R[t]] : x < K[m],
           NEW K2, K2 = [K EXCEPT ![t] = x]
    PROVE  SearchTree(U, K2, L, R, r, sub)
<1>1. U \subseteq Nodes /\ K \in [Nodes -> Nat]
  BY DEF SearchTree
<1>2. K2 \in [Nodes -> Nat] /\ K2[t] = x /\ \A m \in Nodes \ {t} : K2[m] = K[m]
  BY <1>1
<1>3. Branches(U, K2, L, R, sub)
  <2> SUFFICES ASSUME NEW n \in U
               PROVE  /\ L[n] \in U \cup {NULL} /\ R[n] \in U \cup {NULL}
                      /\ sub[n] = {n} \cup sub[L[n]] \cup sub[R[n]]
                      /\ \A m \in sub[L[n]] : K2[m] < K2[n]
                      /\ \A m \in sub[R[n]] : K2[n] < K2[m]
    BY DEF Branches
  <2>1. /\ L[n] \in U \cup {NULL} /\ R[n] \in U \cup {NULL}
        /\ sub[n] = {n} \cup sub[L[n]] \cup sub[R[n]]
        /\ sub[L[n]] \subseteq U /\ sub[R[n]] \subseteq U
        /\ \A m \in sub[L[n]] : K[m] < K[n]
        /\ \A m \in sub[R[n]] : K[n] < K[m]
        /\ n \notin sub[L[n]] /\ n \notin sub[R[n]]
    BY AtNode
  <2>2. \A m \in sub[L[n]] : K2[m] < K2[n]
    BY <1>1, <1>2, <2>1
  <2>3. \A m \in sub[R[n]] : K2[n] < K2[m]
    BY <1>1, <1>2, <2>1
  <2> QED BY <2>1, <2>2, <2>3
<1> QED BY <1>2, <1>3 DEF SearchTree

\* The fields after n, with the key x, is put under up.
Grafted(U, K, L, R, sub, up, n, x, K2, L2, R2) ==
    /\ up \in U /\ n \in Nodes \ U /\ x \in Nat
    /\ \A m \in U : /\ up \in sub[L[m]] => x < K[m]
                    /\ up \in sub[R[m]] => K[m] < x
    /\ K2 = [K EXCEPT ![n] = x]
    /\ \A m \in U \ {up} : L2[m] = L[m] /\ R2[m] = R[m]
    /\ L2[n] = NULL /\ R2[n] = NULL
    /\ \/ x < K[up] /\ L[up] = NULL /\ L2[up] = n /\ R2[up] = R[up]
       \/ K[up] < x /\ R[up] = NULL /\ R2[up] = n /\ L2[up] = L[up]

LEMMA GraftedTree ==
    ASSUME NEW U, NEW K, NEW L, NEW R, NEW r, NEW sub,
           SearchTree(U, K, L, R, r, sub), NEW up, NEW n, NEW x, NEW K2, NEW L2, NEW R2,
           Grafted(U, K, L, R, sub, up, n, x, K2, L2, R2)
    PROVE  SearchTree(U \cup {n}, K2, L2, R2, r, Grown(sub, U, up, n))
<1>0. /\ up \in U /\ n \in Nodes \ U /\ x \in Nat
      /\ \A m \in U : /\ up \in sub[L[m]] => x < K[m]
                      /\ up \in sub[R[m]] => K[m] < x
      /\ K2 = [K EXCEPT ![n] = x]
      /\ \A m \in U \ {up} : L2[m] = L[m] /\ R2[m] = R[m]
      /\ L2[n] = NULL /\ R2[n] = NULL
      /\ \/ x < K[up] /\ L[up] = NULL /\ L2[up] = n /\ R2[up] = R[up]
         \/ K[up] < x /\ R[up] = NULL /\ R2[up] = n /\ L2[up] = L[up]
  BY DEF Grafted
<1> USE <1>0
<1> DEFINE V == U \cup {n}
           sub2 == [m \in V \cup {NULL} |->
                      IF m = n THEN {n} ELSE IF up \in sub[m] THEN sub[m] \cup {n} ELSE sub[m]]
<1>1. /\ U \subseteq Nodes /\ IsFiniteSet(U)
      /\ K \in [Nodes -> Nat]
      /\ r \in U \cup {NULL} /\ sub[r] = U
      /\ sub \in [U \cup {NULL} -> SUBSET U]
      /\ sub[NULL] = {}
      /\ n # NULL /\ NULL \notin U
  BY HashtableAssumption DEF SearchTree
<1>2. /\ V \subseteq Nodes /\ IsFiniteSet(V)
  BY <1>1, FS_AddElement
<1>3. K2 \in [Nodes -> Nat] /\ K2[n] = x /\ \A m \in U : K2[m] = K[m]
  BY <1>1
<1>4. r \in V \cup {NULL} /\ sub2[r] = V
  BY <1>1
<1>5. sub2 \in [V \cup {NULL} -> SUBSET V] /\ sub2[NULL] = {}
  BY <1>1
<1>6. Branches(V, K2, L2, R2, sub2)
  <2> SUFFICES ASSUME NEW m \in V
               PROVE  /\ L2[m] \in V \cup {NULL} /\ R2[m] \in V \cup {NULL}
                      /\ sub2[m] = {m} \cup sub2[L2[m]] \cup sub2[R2[m]]
                      /\ \A y \in sub2[L2[m]] : K2[y] < K2[m]
                      /\ \A y \in sub2[R2[m]] : K2[m] < K2[y]
    BY DEF Branches
  <2>1. CASE m = n
    <3>1. sub2[n] = {n} /\ sub2[NULL] = {}
      BY <1>1
    <3> QED BY <2>1, <3>1
  <2>2. CASE m \in U
    <3>1. /\ m \in sub[m]
          /\ L[m] \in U \cup {NULL} /\ R[m] \in U \cup {NULL}
          /\ sub[m] = {m} \cup sub[L[m]] \cup sub[R[m]]
          /\ sub[L[m]] \subseteq U /\ sub[R[m]] \subseteq U
          /\ m \notin sub[L[m]] /\ m \notin sub[R[m]]
          /\ \A y \in sub[L[m]] : K[y] < K[m]
          /\ \A y \in sub[R[m]] : K[m] < K[y]
      BY <2>2, AtNode
    <3>2. \A y \in U \cup {NULL} : sub2[y] = IF up \in sub[y] THEN sub[y] \cup {n} ELSE sub[y]
      BY <1>1
    <3>3. sub2[n] = {n} /\ sub2[NULL] = {}
      BY <1>1
    <3>4. CASE m # up
      <4>1. L2[m] = L[m] /\ R2[m] = R[m]
        BY <2>2, <3>4
      <4>2. \A y \in sub2[L[m]] : K2[y] < K2[m]
        <5>1. \A y \in sub2[L[m]] : y \in sub[L[m]] \/ (y = n /\ up \in sub[L[m]])
          BY <3>1, <3>2
        <5>2. up \in sub[L[m]] => x < K[m]
          BY <2>2
        <5>3. K2[n] = x /\ K2[m] = K[m] /\ \A y \in sub[L[m]] : K2[y] = K[y]
          BY <2>2, <1>3, <3>1
        <5> HIDE <1>0
        <5> QED BY <3>1, <5>1, <5>2, <5>3
      <4>3. \A y \in sub2[R[m]] : K2[m] < K2[y]
        <5>1. \A y \in sub2[R[m]] : y \in sub[R[m]] \/ (y = n /\ up \in sub[R[m]])
          BY <3>1, <3>2
        <5>2. up \in sub[R[m]] => K[m] < x
          BY <2>2
        <5>3. K2[n] = x /\ K2[m] = K[m] /\ \A y \in sub[R[m]] : K2[y] = K[y]
          BY <2>2, <1>3, <3>1
        <5> HIDE <1>0
        <5> QED BY <3>1, <5>1, <5>2, <5>3
      <4>4. sub2[m] = {m} \cup sub2[L[m]] \cup sub2[R[m]]
        <5> HIDE DEF sub2
        <5> QED BY <2>2, <3>1, <3>2, <3>4
      <4> HIDE DEF sub2
      <4> QED BY <3>1, <4>1, <4>2, <4>3, <4>4
    <3>5. CASE m = up
      <4>1. sub2[m] = sub[m] \cup {n}
        BY <2>2, <3>1, <3>2, <3>5
      <4>2. up \notin sub[L[m]] /\ up \notin sub[R[m]]
        BY <3>1, <3>5
      <4>3. sub2[L[m]] = sub[L[m]] /\ sub2[R[m]] = sub[R[m]]
        <5> HIDE DEF sub2
        <5> QED BY <3>1, <3>2, <4>2
      <4>4. sub[NULL] = {}
        BY <1>1
      <4> HIDE DEF sub2
      <4>5. CASE x < K[up] /\ L[up] = NULL /\ L2[up] = n /\ R2[up] = R[up]
        <5>1. L2[m] = n /\ R2[m] = R[m] /\ sub[L[m]] = {}
          BY <3>5, <4>4, <4>5
        <5>2. \A y \in sub2[R[m]] : K2[m] < K2[y]
          BY <2>2, <3>1, <4>3, <1>3
        <5>3. \A y \in sub2[n] : K2[y] < K2[m]
          BY <3>3, <3>5, <4>5, <1>3
        <5>4. sub2[m] = {m} \cup sub2[n] \cup sub2[R[m]]
          BY <3>1, <3>3, <4>1, <4>3, <5>1
        <5> QED BY <3>1, <5>1, <5>2, <5>3, <5>4
      <4>6. CASE K[up] < x /\ R[up] = NULL /\ R2[up] = n /\ L2[up] = L[up]
        <5>1. R2[m] = n /\ L2[m] = L[m] /\ sub[R[m]] = {}
          BY <3>5, <4>4, <4>6
        <5>2. \A y \in sub2[L[m]] : K2[y] < K2[m]
          BY <2>2, <3>1, <4>3, <1>3
        <5>3. \A y \in sub2[n] : K2[m] < K2[y]
          BY <3>3, <3>5, <4>6, <1>3
        <5>4. sub2[m] = {m} \cup sub2[L[m]] \cup sub2[n]
          BY <3>1, <3>3, <4>1, <4>3, <5>1
        <5> QED BY <3>1, <5>1, <5>2, <5>3, <5>4
      <4> QED BY <4>5, <4>6
    <3> QED BY <3>4, <3>5
  <2> QED BY <2>1, <2>2
<1>7. sub2 = Grown(sub, U, up, n)
  BY DEF Grown
<1> HIDE DEF sub2
<1> QED BY <1>1, <1>2, <1>3, <1>4, <1>5, <1>6, <1>7 DEF SearchTree
-----------------------------------------------------------------------------
(* The recursive functions of Hashtable are defined by their equations, also *)
(* where the fields of nodes not in use lead nowhere or in circles.          *)

FieldsTyped ==
    /\ key \in [Nodes -> Keys]
    /\ value \in [Nodes -> Values]
    /\ parent \in [Nodes -> Pointers]
    /\ left \in [Nodes -> Pointers]
    /\ right \in [Nodes -> Pointers]
    /\ root \in Pointers
    /\ count \in 0..(CountMod - 1)
    /\ used \subseteq Nodes
    /\ removed \in BOOLEAN
    /\ drift \in 0..(CountMod - 1)

Follows(e, D, T, next) == e = [n \in D |-> IF n \in T THEN n ELSE e[next[n]]]

LEMMA FollowExists ==
    ASSUME NEW D, NEW T, NEW next, \A n \in D \ T : next[n] \in D
    PROVE  \E e : Follows(e, D, T, next)
<1> DEFINE Closed == {S \in SUBSET D : \A n \in S \ T : next[n] \in S}
           reach(n) == {m \in D : \A S \in Closed : n \in S => m \in S}
           e == [n \in D |-> CHOOSE m : m \in T \cap reach(n)]
<1>1. \A n \in D \cap T : T \cap reach(n) = {n}
  <2> SUFFICES ASSUME NEW n \in D \cap T PROVE T \cap reach(n) = {n}
    OBVIOUS
  <2>1. {n} \in Closed /\ n \in reach(n)
    OBVIOUS
  <2> HIDE DEF Closed
  <2> QED BY <2>1
<1>2. \A n \in D \ T : T \cap reach(n) = T \cap reach(next[n])
  <2> SUFFICES ASSUME NEW n \in D \ T PROVE T \cap reach(n) = T \cap reach(next[n])
    OBVIOUS
  <2>1. ASSUME NEW m \in T \cap reach(n), NEW S \in Closed, next[n] \in S PROVE m \in S
    <3>1. S \cup {n} \in Closed
      BY <2>1
    <3> HIDE DEF Closed
    <3> QED BY <2>1, <3>1
  <2>2. ASSUME NEW m \in T \cap reach(next[n]), NEW S \in Closed, n \in S PROVE m \in S
    <3>1. next[n] \in S
      BY <2>2
    <3> HIDE DEF Closed
    <3> QED BY <2>2, <3>1
  <2> HIDE DEF Closed
  <2> QED BY <2>1, <2>2
<1>3. \A n \in D : e[n] = CHOOSE m : m \in T \cap reach(n)
  OBVIOUS
<1>4. \A n \in D : e[n] = IF n \in T THEN n ELSE e[next[n]]
  <2> HIDE DEF e, reach
  <2>1. ASSUME NEW n \in D \cap T PROVE e[n] = n
    <3>1. e[n] = CHOOSE m : m \in {n}
      BY <1>1, <1>3
    <3> QED BY <3>1
  <2>2. ASSUME NEW n \in D \ T PROVE e[n] = e[next[n]]
    <3>1. T \cap reach(n) = T \cap reach(next[n]) /\ next[n] \in D
      BY <1>2
    <3> QED BY <1>3, <3>1
  <2> QED BY <2>1, <2>2
<1>5. e = [n \in D |-> IF n \in T THEN n ELSE e[next[n]]]
  <2>1. e = [n \in D |-> e[n]]
    OBVIOUS
  <2> HIDE DEF e
  <2> QED BY <1>4, <2>1
<1> QED BY <1>5 DEF Follows

GathersTree(e, L, R) ==
    e = [m \in Pointers |-> IF m = NULL THEN {} ELSE {m} \cup e[L[m]] \cup e[R[m]]]

LEMMA GatherExists ==
    ASSUME NEW L \in [Nodes -> Pointers], NEW R \in [Nodes -> Pointers]
    PROVE  \E e : GathersTree(e, L, R)
<1> DEFINE Closed == {S \in SUBSET Nodes : \A m \in S : /\ L[m] # NULL => L[m] \in S
                                                        /\ R[m] # NULL => R[m] \in S}
           reach(m) == IF m = NULL THEN {}
                       ELSE {x \in Nodes : \A S \in Closed : m \in S => x \in S}
           e == [m \in Pointers |-> reach(m)]
<1>0. \A m \in Nodes : m # NULL /\ L[m] \in Pointers /\ R[m] \in Pointers
  BY HashtableAssumption DEF Pointers
<1>1. \A m \in Nodes : reach(m) = {m} \cup reach(L[m]) \cup reach(R[m])
  <2> SUFFICES ASSUME NEW m \in Nodes PROVE reach(m) = {m} \cup reach(L[m]) \cup reach(R[m])
    OBVIOUS
  <2> DEFINE W == {m} \cup reach(L[m]) \cup reach(R[m])
  <2>1. \A x \in Nodes : x \in reach(x) /\ reach(x) \in Closed
    <3> SUFFICES ASSUME NEW x \in Nodes PROVE x \in reach(x) /\ reach(x) \in Closed
      OBVIOUS
    <3>1. reach(x) = {y \in Nodes : \A S \in Closed : x \in S => y \in S}
      BY <1>0
    <3>2. ASSUME NEW y \in reach(x)
          PROVE (L[y] # NULL => L[y] \in reach(x)) /\ (R[y] # NULL => R[y] \in reach(x))
      <4>1. \A S \in Closed : y \in S => (L[y] # NULL => L[y] \in S) /\ (R[y] # NULL => R[y] \in S)
        OBVIOUS
      <4>2. y \in Nodes /\ L[y] \in Pointers /\ R[y] \in Pointers
        BY <3>1, <3>2, <1>0
      <4> HIDE DEF Closed, reach
      <4> QED BY <3>1, <3>2, <4>1, <4>2 DEF Pointers
    <3> QED BY <3>1, <3>2
  <2>2. reach(NULL) = {} /\ \A x \in Nodes : \A y \in reach(x) : \A S \in Closed : x \in S => y \in S
    BY <1>0
  <2>3. \A x \in Nodes, y \in Nodes : (\A S \in Closed : x \in S => y \in S) => y \in reach(x)
    BY <1>0
  <2>4. \A S \in Closed : S \subseteq Nodes /\ \A x \in S : (L[x] # NULL => L[x] \in S) /\ (R[x] # NULL => R[x] \in S)
    OBVIOUS
  <2>5. W \in Closed
    <3>1. W \subseteq Nodes
      <4> HIDE DEF Closed, reach
      <4> QED BY <1>0, <2>1, <2>2, <2>4 DEF Pointers
    <3>2. ASSUME NEW x \in W PROVE (L[x] # NULL => L[x] \in W) /\ (R[x] # NULL => R[x] \in W)
      <4> HIDE DEF Closed, reach
      <4> QED BY <1>0, <2>1, <2>2, <2>4, <3>2 DEF Pointers
    <3> QED BY <3>1, <3>2
  <2>6. reach(m) \subseteq W
    <3> HIDE DEF reach, Closed
    <3> QED BY <2>2, <2>5
  <2>7. W \subseteq reach(m)
    <3>1. ASSUME NEW x \in Nodes, x \in reach(L[m]) \/ x \in reach(R[m]) PROVE x \in reach(m)
      <4> HIDE DEF reach, Closed
      <4> QED BY <3>1, <2>2, <2>3, <2>4, <1>0 DEF Pointers
    <3>2. W \subseteq Nodes /\ m \in reach(m)
      BY <2>1, <2>5
    <3> HIDE DEF reach, Closed
    <3> QED BY <3>1, <3>2
  <2> QED BY <2>6, <2>7
<1>2. \A m \in Pointers : e[m] = reach(m)
  OBVIOUS
<1>3. reach(NULL) = {}
  OBVIOUS
<1>4. \A m \in Pointers : e[m] = IF m = NULL THEN {} ELSE {m} \cup e[L[m]] \cup e[R[m]]
  <2> HIDE DEF e, reach
  <2> QED BY <1>0, <1>1, <1>2, <1>3 DEF Pointers
<1>5. e = [m \in Pointers |-> IF m = NULL THEN {} ELSE {m} \cup e[L[m]] \cup e[R[m]]]
  <2>1. e = [m \in Pointers |-> e[m]]
    OBVIOUS
  <2> HIDE DEF e
  <2> QED BY <1>4, <2>1
<1> QED BY <1>5 DEF GathersTree

LEMMA EndEquation ==
    ASSUME FieldsTyped, NEW k \in Keys
    PROVE  \E e : /\ \A n \in Nodes : e[n] = IF key[n] = k \/ Child(n, k) = NULL
                                             THEN n ELSE e[Child(n, k)]
                  /\ End(k) = e[root]
<1> DEFINE end[n \in Nodes] == IF key[n] = k \/ Child(n, k) = NULL THEN n ELSE end[Child(n, k)]
           T == {n \in Nodes : key[n] = k \/ Child(n, k) = NULL}
           next == [n \in Nodes |-> Child(n, k)]
<1>1. \A n \in Nodes : Child(n, k) \in Pointers
  BY DEF Child, FieldsTyped
<1>2. \A n \in Nodes \ T : next[n] \in Nodes
  BY <1>1 DEF Pointers
<1>3. PICK e : Follows(e, Nodes, T, next)
  <2> HIDE DEF T, next
  <2> QED BY <1>2, FollowExists
<1>4. e = [n \in Nodes |-> IF key[n] = k \/ Child(n, k) = NULL THEN n ELSE e[Child(n, k)]]
  BY <1>3 DEF Follows
<1>5. end = [n \in Nodes |-> IF key[n] = k \/ Child(n, k) = NULL THEN n ELSE end[Child(n, k)]]
  BY <1>4
<1>6. End(k) = end[root]
  BY DEF End
<1> HIDE DEF end
<1> QED BY <1>5, <1>6

LEMMA LeftMostEquation ==
    ASSUME FieldsTyped
    PROVE  \E e : /\ \A n \in Nodes : e[n] = IF left[n] = NULL THEN n ELSE e[left[n]]
                  /\ \A n \in Nodes : LeftMost(n) = e[n]
<1> DEFINE leftmost[m \in Nodes] == IF left[m] = NULL THEN m ELSE leftmost[left[m]]
           T == {n \in Nodes : left[n] = NULL}
<1>1. \A n \in Nodes \ T : left[n] \in Nodes
  BY DEF Pointers, FieldsTyped
<1>2. PICK e : Follows(e, Nodes, T, left)
  <2> HIDE DEF T
  <2> QED BY <1>1, FollowExists
<1>3. e = [m \in Nodes |-> IF left[m] = NULL THEN m ELSE e[left[m]]]
  BY <1>2 DEF Follows
<1>4. leftmost = [m \in Nodes |-> IF left[m] = NULL THEN m ELSE leftmost[left[m]]]
  BY <1>3
<1>5. \A n \in Nodes : LeftMost(n) = leftmost[n]
  BY DEF LeftMost
<1> HIDE DEF leftmost
<1> QED BY <1>4, <1>5

LEMMA UpEquation ==
    ASSUME FieldsTyped
    PROVE  \E e : /\ \A n \in Nodes : e[n] = IF parent[n] # NULL /\ right[parent[n]] = n
                                             THEN e[parent[n]] ELSE parent[n]
                  /\ \A n \in Nodes : Up(n) = e[n]
<1> DEFINE up[m \in Nodes] == IF parent[m] # NULL /\ right[parent[m]] = m
                              THEN up[parent[m]] ELSE parent[m]
           T == {m \in Nodes : ~(parent[m] # NULL /\ right[parent[m]] = m)}
<1>1. \A n \in Nodes \ T : parent[n] \in Nodes
  BY DEF Pointers, FieldsTyped
<1>2. PICK f : Follows(f, Nodes, T, parent)
  <2> HIDE DEF T
  <2> QED BY <1>1, FollowExists
<1> DEFINE e == [m \in Nodes |-> parent[f[m]]]
<1>3. \A m \in Nodes : f[m] = IF m \in T THEN m ELSE f[parent[m]]
  BY <1>2 DEF Follows
<1>4. \A m \in Nodes : e[m] = IF parent[m] # NULL /\ right[parent[m]] = m
                              THEN e[parent[m]] ELSE parent[m]
  BY <1>1, <1>3
<1>5. e = [m \in Nodes |-> IF parent[m] # NULL /\ right[parent[m]] = m
                           THEN e[parent[m]] ELSE parent[m]]
  <2>1. e = [m \in Nodes |-> e[m]]
    OBVIOUS
  <2> HIDE DEF e
  <2> QED BY <1>4, <2>1
<1>6. up = [m \in Nodes |-> IF parent[m] # NULL /\ right[parent[m]] = m
                            THEN up[parent[m]] ELSE parent[m]]
  <2> HIDE DEF e
  <2> QED BY <1>5
<1>7. \A n \in Nodes : Up(n) = up[n]
  BY DEF Up
<1> HIDE DEF up
<1> QED BY <1>6, <1>7

LEMMA TreeEquation ==
    ASSUME FieldsTyped
    PROVE  \E e : /\ e[NULL] = {}
                  /\ \A n \in Nodes : e[n] = {n} \cup e[left[n]] \cup e[right[n]]
                  /\ \A n \in Pointers : Tree(n) = e[n]
<1> DEFINE tree[m \in Pointers] == IF m = NULL THEN {} ELSE {m} \cup tree[left[m]] \cup tree[right[m]]
<1>1. PICK e : GathersTree(e, left, right)
  BY GatherExists DEF FieldsTyped
<1>2. e = [m \in Pointers |-> IF m = NULL THEN {} ELSE {m} \cup e[left[m]] \cup e[right[m]]]
  BY <1>1 DEF GathersTree
<1>3. tree = [m \in Pointers |-> IF m = NULL THEN {} ELSE {m} \cup tree[left[m]] \cup tree[right[m]]]
  BY <1>2
<1>4. \A n \in Pointers : Tree(n) = tree[n]
  BY DEF Tree
<1>5. \A n \in Nodes : n # NULL
  BY HashtableAssumption
<1> HIDE DEF tree
<1> QED BY <1>3, <1>4, <1>5 DEF Pointers
-----------------------------------------------------------------------------
Shape == \E sub : SearchTree(used, key, left, right, root, sub)

\* The tree that the property speaks of is the one the proof keeps.
LEMMA TreeIsSub ==
    ASSUME FieldsTyped, NEW sub, SearchTree(used, key, left, right, root, sub)
    PROVE  (\A n \in used \cup {NULL} : Tree(n) = sub[n]) /\ Tree(root) = used
<1>1. PICK e : /\ e[NULL] = {}
               /\ \A n \in Nodes : e[n] = {n} \cup e[left[n]] \cup e[right[n]]
               /\ \A n \in Pointers : Tree(n) = e[n]
  BY TreeEquation
<1> DEFINE S == {n \in used : e[n] = sub[n]}
<1>2. \A n \in used : (left[n] # NULL => left[n] \in S) /\ (right[n] # NULL => right[n] \in S) => n \in S
  <2> SUFFICES ASSUME NEW n \in used,
                      left[n] # NULL => left[n] \in S, right[n] # NULL => right[n] \in S
               PROVE  e[n] = sub[n]
    OBVIOUS
  <2>1. n \in Nodes /\ sub[n] = {n} \cup sub[left[n]] \cup sub[right[n]] /\ sub[NULL] = {}
    BY AtNode
  <2> QED BY <1>1, <2>1
<1>3. used \subseteq S
  <2> HIDE DEF S
  <2> QED BY <1>2, BottomUp
<1>4. used \subseteq Nodes /\ sub[NULL] = {} /\ sub[root] = used /\ root \in used \cup {NULL}
  BY DEF SearchTree
<1> QED BY <1>1, <1>3, <1>4 DEF Pointers

\* A search ends at the node with the key, or at the node the key belongs
\* under: the nodes on the way there all point towards it.
LEMMA EndInTree ==
    ASSUME FieldsTyped, NEW sub, SearchTree(used, key, left, right, root, sub),
           NEW k \in Keys, root # NULL
    PROVE  LET z == End(k)
           IN  /\ z \in used
               /\ key[z] = k \/ Child(z, k) = NULL
               /\ \A m \in used : key[m] = k => m = z
               /\ \A m \in used : z \in sub[m] /\ m # z => z \in sub[Child(m, k)] /\ key[m] # k
<1>1. PICK e : /\ \A n \in Nodes : e[n] = IF key[n] = k \/ Child(n, k) = NULL
                                          THEN n ELSE e[Child(n, k)]
               /\ End(k) = e[root]
  BY EndEquation
<1> DEFINE Good(n) == LET z == e[n]
                      IN  /\ z \in sub[n]
                          /\ key[z] = k \/ Child(z, k) = NULL
                          /\ \A m \in sub[n] : key[m] = k => m = z
                          /\ \A m \in sub[n] : z \in sub[m] /\ m # z =>
                                                  z \in sub[Child(m, k)] /\ key[m] # k
           S == {n \in used : Good(n)}
<1>2. \A n \in used : (left[n] # NULL => left[n] \in S) /\ (right[n] # NULL => right[n] \in S) => n \in S
  <2> SUFFICES ASSUME NEW n \in used,
                      left[n] # NULL => left[n] \in S, right[n] # NULL => right[n] \in S
               PROVE  Good(n)
    OBVIOUS
  <2>1. /\ n \in sub[n] /\ sub[n] \subseteq used /\ key[n] \in Nat /\ n \in Nodes
        /\ left[n] \in used \cup {NULL} /\ right[n] \in used \cup {NULL}
        /\ sub[n] = {n} \cup sub[left[n]] \cup sub[right[n]]
        /\ sub[left[n]] \subseteq used /\ sub[right[n]] \subseteq used
        /\ n \notin sub[left[n]] /\ n \notin sub[right[n]]
        /\ sub[left[n]] \cap sub[right[n]] = {}
        /\ sub[NULL] = {}
    BY AtNode
  <2>2. (\A m \in sub[left[n]] : key[m] < key[n]) /\ (\A m \in sub[right[n]] : key[n] < key[m])
    BY AtNode
  <2>3. k \in Nat /\ \A m \in used : key[m] \in Nat
    BY HashtableAssumption DEF SearchTree
  <2>4. \A m \in used : \A y \in sub[m] : sub[y] \subseteq sub[m]
    BY Nested
  <2>5. \A m \in used : m \in sub[m]
    BY AtNode
  <2>6. CASE key[n] = k
    <3>1. e[n] = n
      BY <1>1, <2>1, <2>6
    <3>2. \A m \in sub[n] : key[m] = k => m = n
      BY <2>1, <2>2, <2>3, <2>6
    <3>3. \A m \in sub[n] : m # n => n \notin sub[m]
      <4> SUFFICES ASSUME NEW m \in sub[n], m # n PROVE n \notin sub[m]
        OBVIOUS
      <4>1. CASE m \in sub[left[n]]
        <5>1. sub[m] \subseteq sub[left[n]]
          BY <4>1, <2>1, <2>4
        <5> QED BY <5>1, <2>1
      <4>2. CASE m \in sub[right[n]]
        <5>1. sub[m] \subseteq sub[right[n]]
          BY <4>2, <2>1, <2>4
        <5> QED BY <5>1, <2>1
      <4> QED BY <4>1, <4>2, <2>1
    <3> QED BY <2>1, <2>6, <3>1, <3>2, <3>3
  <2>7. CASE key[n] # k
    <3> DEFINE c == Child(n, k)
               o == IF k < key[n] THEN right[n] ELSE left[n]
    <3>1. /\ c \in used \cup {NULL} /\ o \in used \cup {NULL}
          /\ sub[n] = {n} \cup sub[c] \cup sub[o]
          /\ sub[c] \subseteq used /\ sub[o] \subseteq used
          /\ n \notin sub[c] /\ n \notin sub[o] /\ sub[c] \cap sub[o] = {}
          /\ \A m \in sub[o] : key[m] # k
          /\ c # NULL => c \in S
      <4>1. CASE k < key[n]
        <5>1. c = left[n] /\ o = right[n]
          BY <4>1 DEF Child
        <5>2. \A m \in sub[right[n]] : key[m] # k
          BY <2>1, <2>2, <2>3, <4>1
        <5> HIDE DEF c, o, S
        <5> QED BY <2>1, <5>1, <5>2
      <4>2. CASE ~(k < key[n])
        <5>1. c = right[n] /\ o = left[n]
          BY <4>2 DEF Child
        <5>2. \A m \in sub[left[n]] : key[m] # k
          BY <2>1, <2>2, <2>3, <4>2, <2>7
        <5> HIDE DEF c, o, S
        <5> QED BY <2>1, <5>1, <5>2
      <4> QED BY <4>1, <4>2
    <3>2. c = Child(n, k)
      OBVIOUS
    <3> HIDE DEF c, o
    <3>3. CASE c = NULL
      <4>1. e[n] = n
        BY <1>1, <2>1, <3>2, <3>3
      <4>2. \A m \in sub[n] : m # n => m \in sub[o] /\ key[m] # k
        BY <2>1, <3>1, <3>3
      <4>3. \A m \in sub[n] : m # n => n \notin sub[m]
        <5> SUFFICES ASSUME NEW m \in sub[n], m # n PROVE n \notin sub[m]
          OBVIOUS
        <5>1. m \in sub[o] /\ o \in used
          BY <2>1, <3>1, <4>2
        <5>2. sub[m] \subseteq sub[o]
          BY <5>1, <2>4
        <5> QED BY <5>2, <3>1
      <4> QED BY <2>1, <2>7, <3>2, <3>3, <4>1, <4>2, <4>3
    <3>4. CASE c # NULL
      <4>1. e[n] = e[c]
        BY <1>1, <2>1, <2>7, <3>2, <3>4
      <4>2. Good(c) /\ c \in used
        BY <3>1, <3>4
      <4> DEFINE z == e[n]
      <4>3. /\ z \in sub[c]
            /\ key[z] = k \/ Child(z, k) = NULL
            /\ \A m \in sub[c] : key[m] = k => m = z
            /\ \A m \in sub[c] : z \in sub[m] /\ m # z => z \in sub[Child(m, k)] /\ key[m] # k
        BY <4>1, <4>2
      <4> HIDE DEF z
      <4>4. z \in sub[n]
        BY <3>1, <4>3
      <4>5. \A m \in sub[n] : key[m] = k => m = z
        BY <2>7, <3>1, <4>3
      <4>6. \A m \in sub[n] : z \in sub[m] /\ m # z => z \in sub[Child(m, k)] /\ key[m] # k
        <5> SUFFICES ASSUME NEW m \in sub[n], z \in sub[m], m # z
                     PROVE  z \in sub[Child(m, k)] /\ key[m] # k
          OBVIOUS
        <5>1. CASE m = n
          BY <5>1, <2>7, <3>2, <4>3
        <5>2. CASE m \in sub[c]
          BY <5>2, <4>3
        <5>3. CASE m \in sub[o]
          <6>1. o \in used
            BY <5>3, <3>1, <2>1
          <6>2. sub[m] \subseteq sub[o]
            BY <5>3, <6>1, <2>4
          <6> QED BY <6>2, <3>1, <4>3
        <5> QED BY <5>1, <5>2, <5>3, <3>1
      <4> QED BY <4>3, <4>4, <4>5, <4>6 DEF z
    <3> QED BY <3>3, <3>4
  <2> QED BY <2>6, <2>7
<1>3. used \subseteq S
  <2> HIDE DEF S
  <2> QED BY <1>2, BottomUp
<1>4. root \in used /\ sub[root] = used
  BY DEF SearchTree
<1>5. Good(root)
  BY <1>3, <1>4
<1> QED BY <1>1, <1>4, <1>5

\* The leftmost node of a tree has the least key.
LEMMA LeftMostInTree ==
    ASSUME FieldsTyped, NEW sub, SearchTree(used, key, left, right, root, sub), NEW n \in used
    PROVE  LET z == LeftMost(n)
           IN  /\ z \in sub[n] /\ left[z] = NULL
               /\ \A m \in sub[n] : m # z => key[z] < key[m]
<1>1. PICK e : /\ \A m \in Nodes : e[m] = IF left[m] = NULL THEN m ELSE e[left[m]]
               /\ \A m \in Nodes : LeftMost(m) = e[m]
  BY LeftMostEquation
<1> DEFINE Good(m) == /\ e[m] \in sub[m] /\ left[e[m]] = NULL
                      /\ \A x \in sub[m] : x # e[m] => key[e[m]] < key[x]
           S == {m \in used : Good(m)}
<1>2. \A m \in used : (left[m] # NULL => left[m] \in S) /\ (right[m] # NULL => right[m] \in S) => m \in S
  <2> SUFFICES ASSUME NEW m \in used, left[m] # NULL => left[m] \in S
               PROVE  Good(m)
    OBVIOUS
  <2>1. /\ m \in sub[m] /\ m \in Nodes
        /\ left[m] \in used \cup {NULL}
        /\ sub[m] = {m} \cup sub[left[m]] \cup sub[right[m]]
        /\ sub[left[m]] \subseteq used /\ sub[right[m]] \subseteq used
        /\ sub[NULL] = {}
        /\ \A x \in sub[left[m]] : key[x] < key[m]
        /\ \A x \in sub[right[m]] : key[m] < key[x]
    BY AtNode
  <2>2. \A x \in used : key[x] \in Nat
    BY AtNode
  <2>3. CASE left[m] = NULL
    BY <1>1, <2>1, <2>3
  <2>4. CASE left[m] # NULL
    <3>1. Good(left[m]) /\ e[m] = e[left[m]]
      BY <1>1, <2>1, <2>4
    <3>2. key[e[m]] < key[m] /\ e[m] \in used
      BY <2>1, <3>1
    <3>3. \A x \in sub[right[m]] : key[e[m]] < key[x]
      BY <2>1, <2>2, <3>2
    <3> QED BY <2>1, <3>1, <3>2, <3>3
  <2> QED BY <2>3, <2>4
<1>3. used \subseteq S
  <2> HIDE DEF S
  <2> QED BY <1>2, BottomUp
<1>4. n \in Nodes
  BY DEF SearchTree
<1> QED BY <1>1, <1>3, <1>4

\* The node that goes has at most one child, and when it is not the target its
\* key is the least above the target's.
LEMMA GoingInTree ==
    ASSUME FieldsTyped, NEW sub, SearchTree(used, key, left, right, root, sub), NEW t \in used
    PROVE  LET g == Going(t)
           IN  /\ g \in used
               /\ \/ left[g] = NULL /\ OnlyChild(g) = right[g]
                  \/ right[g] = NULL /\ OnlyChild(g) = left[g]
               /\ g # t => /\ g \in sub[right[t]]
                           /\ \A m \in sub[right[t]] : m # g => key[g] < key[m]
<1>1. CASE left[t] # NULL /\ right[t] # NULL
  <2>1. right[t] \in used /\ sub[right[t]] \subseteq used
    BY <1>1, AtNode
  <2>2. Going(t) = LeftMost(right[t])
    BY <1>1 DEF Going
  <2> QED BY <2>1, <2>2, LeftMostInTree DEF OnlyChild
<1>2. CASE ~(left[t] # NULL /\ right[t] # NULL)
  <2>1. Going(t) = t
    BY <1>2 DEF Going
  <2> QED BY <1>2, <2>1 DEF OnlyChild
<1> QED BY <1>1, <1>2
-----------------------------------------------------------------------------
(* The steps keep the shape.                                                 *)

LEMMA SetFirstShape ==
    ASSUME FieldsTyped, Shape, NEW n \in Nodes, NEW k \in Keys, NEW v \in Values, SetFirst(n, k, v)
    PROVE  Shape'
<1>1. PICK sub : SearchTree(used, key, left, right, root, sub)
  BY DEF Shape
<1>2. used = {}
  BY <1>1 DEF SearchTree, SetFirst
<1> DEFINE sub2 == [m \in {n, NULL} |-> IF m = n THEN {n} ELSE {}]
<1>3. n # NULL /\ k \in Nat
  BY HashtableAssumption
<1>4. /\ used' = {n} /\ root' = n /\ left'[n] = NULL /\ right'[n] = NULL
      /\ key' \in [Nodes -> Nat]
  <2>1. key \in [Nodes -> Nat]
    BY <1>1 DEF SearchTree
  <2> QED BY <1>2, <1>3, <2>1 DEF SetFirst, Create, FieldsTyped
<1>5. sub2[n] = {n} /\ sub2[NULL] = {} /\ sub2 \in [{n} \cup {NULL} -> SUBSET {n}]
  BY <1>3
<1>6. IsFiniteSet({n})
  BY FS_Singleton
<1> HIDE DEF sub2
<1>7. Branches(used', key', left', right', sub2)
  BY <1>4, <1>5 DEF Branches
<1>8. SearchTree(used', key', left', right', root', sub2)
  BY <1>4, <1>5, <1>6, <1>7 DEF SearchTree
<1> QED BY <1>8 DEF Shape

LEMMA SetBelowPlace ==
    ASSUME FieldsTyped, NEW sub, SearchTree(used, key, left, right, root, sub),
           NEW n \in Nodes, NEW k \in Keys, NEW v \in Values, SetBelow(n, k, v),
           NEW up, up = End(k)
    PROVE  /\ up \in used /\ n \in Nodes \ used /\ k \in Nat /\ up # n
           /\ \A m \in used : key[m] # k
           /\ \A m \in used : /\ up \in sub[left[m]] => k < key[m]
                              /\ up \in sub[right[m]] => key[m] < k
           /\ key' = [key EXCEPT ![n] = k] /\ value' = [value EXCEPT ![n] = v]
           /\ used' = used \cup {n} /\ root' = root
           /\ left'[n] = NULL /\ right'[n] = NULL
           /\ \A m \in Nodes \ {up, n} : left'[m] = left[m] /\ right'[m] = right[m]
           /\ \/ k < key[up] /\ left[up] = NULL /\ left'[up] = n /\ right'[up] = right[up]
              \/ key[up] < k /\ right[up] = NULL /\ right'[up] = n /\ left'[up] = left[up]
           /\ left' \in [Nodes -> Pointers] /\ right' \in [Nodes -> Pointers]
           /\ parent' = [parent EXCEPT ![n] = up]
<1>1. root # NULL /\ n \notin used /\ key[up] # k
  BY DEF SetBelow, Create, Found
<1>2. /\ up \in used
      /\ key[up] = k \/ Child(up, k) = NULL
      /\ \A m \in used : key[m] = k => m = up
      /\ \A m \in used : up \in sub[m] /\ m # up => up \in sub[Child(m, k)] /\ key[m] # k
  BY <1>1, EndInTree
<1>3. k \in Nat /\ \A m \in used : key[m] \in Nat
  BY HashtableAssumption DEF SearchTree
<1>4. \A m \in used : key[m] # k
  BY <1>1, <1>2
<1>5. \A m \in used : /\ up \in sub[left[m]] => k < key[m]
                      /\ up \in sub[right[m]] => key[m] < k
  <2> SUFFICES ASSUME NEW m \in used
               PROVE  /\ up \in sub[left[m]] => k < key[m]
                      /\ up \in sub[right[m]] => key[m] < k
    OBVIOUS
  <2>1. /\ sub[m] = {m} \cup sub[left[m]] \cup sub[right[m]]
        /\ m \notin sub[left[m]] /\ m \notin sub[right[m]]
        /\ sub[left[m]] \cap sub[right[m]] = {}
    BY AtNode
  <2> QED BY <1>2, <1>3, <1>4, <2>1 DEF Child
<1>6. /\ used' = used \cup {n} /\ root' = root
      /\ key' = [key EXCEPT ![n] = k] /\ value' = [value EXCEPT ![n] = v]
      /\ parent' = [parent EXCEPT ![n] = up]
      /\ left' = [left EXCEPT ![n] = NULL, ![up] = IF k < key[up] THEN n ELSE @]
      /\ right' = [right EXCEPT ![n] = NULL, ![up] = IF k > key[up] THEN n ELSE @]
  BY DEF SetBelow, Create
<1>7. /\ left \in [Nodes -> Pointers] /\ right \in [Nodes -> Pointers]
      /\ up \in Nodes /\ up # n /\ n \in Pointers /\ NULL \in Pointers
  BY <1>1, <1>2 DEF FieldsTyped, Pointers
<1>8. /\ left'[n] = NULL /\ right'[n] = NULL
      /\ \A m \in Nodes \ {up, n} : left'[m] = left[m] /\ right'[m] = right[m]
      /\ left'[up] = IF k < key[up] THEN n ELSE left[up]
      /\ right'[up] = IF k > key[up] THEN n ELSE right[up]
      /\ left' \in [Nodes -> Pointers] /\ right' \in [Nodes -> Pointers]
  BY <1>6, <1>7
<1>9. \/ k < key[up] /\ left[up] = NULL /\ left'[up] = n /\ right'[up] = right[up]
      \/ key[up] < k /\ right[up] = NULL /\ right'[up] = n /\ left'[up] = left[up]
  BY <1>1, <1>2, <1>3, <1>8 DEF Child
<1> QED BY <1>1, <1>2, <1>3, <1>4, <1>5, <1>6, <1>7, <1>8, <1>9

LEMMA SetBelowShape ==
    ASSUME FieldsTyped, Shape, NEW n \in Nodes, NEW k \in Keys, NEW v \in Values, SetBelow(n, k, v)
    PROVE  Shape'
<1>1. PICK sub : SearchTree(used, key, left, right, root, sub)
  BY DEF Shape
<1> DEFINE up == End(k)
<1>2. /\ up \in used /\ n \in Nodes \ used /\ k \in Nat
      /\ \A m \in used : /\ up \in sub[left[m]] => k < key[m]
                         /\ up \in sub[right[m]] => key[m] < k
      /\ key' = [key EXCEPT ![n] = k]
      /\ used' = used \cup {n} /\ root' = root
      /\ left'[n] = NULL /\ right'[n] = NULL
      /\ \A m \in Nodes \ {up, n} : left'[m] = left[m] /\ right'[m] = right[m]
      /\ \/ k < key[up] /\ left[up] = NULL /\ left'[up] = n /\ right'[up] = right[up]
         \/ key[up] < k /\ right[up] = NULL /\ right'[up] = n /\ left'[up] = left[up]
  BY <1>1, SetBelowPlace
<1>3. \A m \in used \ {up} : left'[m] = left[m] /\ right'[m] = right[m]
  BY <1>1, <1>2 DEF SearchTree
<1> HIDE DEF up
<1>4. SearchTree(used \cup {n}, key', left', right', root, Grown(sub, used, up, n))
  <2>1. Grafted(used, key, left, right, sub, up, n, k, key', left', right')
    BY <1>2, <1>3 DEF Grafted
  <2> QED BY <1>1, <2>1, GraftedTree
<1> QED BY <1>2, <1>4 DEF Shape

LEMMA RemoveShape ==
    ASSUME FieldsTyped, Shape, NEW k \in Keys, Remove(k)
    PROVE  /\ Shape'
           /\ LET t == End(k)
                  g == Going(t)
              IN  /\ t \in used /\ g \in used /\ key[t] = k
                  /\ used' = used \ {g}
                  /\ OnlyChild(g) \in Pointers
                  /\ \A m \in used : key[m] = k => m = t
<1>1. PICK sub : SearchTree(used, key, left, right, root, sub)
  BY DEF Shape
<1> DEFINE t == End(k)
           g == Going(t)
           c == OnlyChild(g)
           sub1 == Without(sub, used, g)
<1>2. t \in used /\ key[t] = k /\ \A m \in used : key[m] = k => m = t
  BY <1>1, EndInTree DEF Remove, Found
<1>3. /\ g \in used
      /\ \/ left[g] = NULL /\ c = right[g]
         \/ right[g] = NULL /\ c = left[g]
      /\ g # t => /\ g \in sub[right[t]]
                  /\ \A m \in sub[right[t]] : m # g => key[g] < key[m]
  BY <1>1, <1>2, GoingInTree
<1>4. /\ key' = [key EXCEPT ![t] = key[g]]
      /\ left' = [n \in Nodes |-> IF n \in Tree(root) /\ left[n] = g THEN c ELSE left[n]]
      /\ right' = [n \in Nodes |-> IF n \in Tree(root) /\ right[n] = g THEN c ELSE right[n]]
      /\ root' = IF g = root THEN c ELSE root
      /\ used' = used \ {g}
  BY DEF Remove, RemoveNode, Unlink
<1>5. /\ \A m \in used \ {g} : left'[m] = IF left[m] = g THEN c ELSE left[m]
      /\ \A m \in used \ {g} : right'[m] = IF right[m] = g THEN c ELSE right[m]
      /\ root' = IF root = g THEN c ELSE root
  <2>1. Tree(root) = used /\ used \subseteq Nodes
    BY <1>1, TreeIsSub DEF SearchTree
  <2> HIDE DEF t, g, c
  <2> QED BY <1>4, <2>1
<1> HIDE DEF t, g, c
<1>6. SearchTree(used \ {g}, key, left', right', root', sub1)
  <2>1. Unlinked(used, left, right, root, g, c, left', right', root')
    BY <1>3, <1>5 DEF Unlinked
  <2> HIDE DEF sub1
  <2>2. SearchTree(used \ {g}, key, left', right', root', Without(sub, used, g))
    BY <1>1, <2>1, UnlinkedTree
  <2> QED BY <2>2 DEF sub1
<1>7. CASE g = t
  <2>1. key' = key
    BY <1>4, <1>7 DEF FieldsTyped
  <2>2. SearchTree(used', key', left', right', root', sub1)
    BY <1>4, <1>6, <2>1
  <2> QED BY <1>2, <1>3, <1>4, <2>2 DEF Shape, t, g, c, FieldsTyped
<1>8. CASE g # t
  <2>1. /\ \A n \in used : key[n] \in Nat
        /\ \A n \in used : n \in sub[n]
        /\ sub \in [used \cup {NULL} -> SUBSET used] /\ sub[NULL] = {}
        /\ NULL \notin used
    BY <1>1, HashtableAssumption DEF SearchTree, Branches
  <2>2. sub[g] = {g} \cup sub[c] /\ g \notin sub[c] /\ c \in used \cup {NULL} /\ c # g
    <3>1. /\ g \in sub[g] /\ g # NULL
          /\ left[g] \in used \cup {NULL} /\ right[g] \in used \cup {NULL}
          /\ sub[g] = {g} \cup sub[left[g]] \cup sub[right[g]]
          /\ g \notin sub[left[g]] /\ g \notin sub[right[g]]
          /\ sub[NULL] = {}
      BY <1>1, <1>3, AtNode
    <3> QED BY <1>3, <2>1, <3>1
  <2>3. \A n \in used \ {g} : sub1[left'[n]] = sub[left[n]] \ {g} /\ sub1[right'[n]] = sub[right[n]] \ {g}
    <3> SUFFICES ASSUME NEW n \in used \ {g}
                 PROVE  sub1[left'[n]] = sub[left[n]] \ {g} /\ sub1[right'[n]] = sub[right[n]] \ {g}
      OBVIOUS
    <3>1. left[n] \in used \cup {NULL} /\ right[n] \in used \cup {NULL}
      BY <1>1, AtNode
    <3>2. \A x \in used \cup {NULL} : x # g => sub1[x] = sub[x] \ {g}
      BY <2>1 DEF Without
    <3>3. sub1[c] = sub[g] \ {g}
      <4> HIDE DEF sub1
      <4> QED BY <2>2, <3>2
    <3> HIDE DEF sub1
    <3> QED BY <1>5, <3>1, <3>2, <3>3
  <2>4. \A n \in used, x \in used : x \in sub[n] => sub[x] \subseteq sub[n]
    BY <1>1, Nested
  <2>5. /\ sub[t] = {t} \cup sub[left[t]] \cup sub[right[t]] /\ g \in sub[t]
        /\ \A m \in sub[left[t]] : key[m] < key[t]
        /\ key[t] < key[g]
        /\ sub[left[t]] \subseteq used /\ sub[right[t]] \subseteq used
    BY <1>1, <1>2, <1>3, <1>8, AtNode
  <2>6. \A n \in used : /\ t \in sub[left[n]] => key[g] < key[n]
                        /\ t \in sub[right[n]] => key[n] < key[g]
    <3> SUFFICES ASSUME NEW n \in used
                 PROVE  /\ t \in sub[left[n]] => key[g] < key[n]
                        /\ t \in sub[right[n]] => key[n] < key[g]
      OBVIOUS
    <3>1. /\ left[n] \in used \cup {NULL} /\ right[n] \in used \cup {NULL}
          /\ \A m \in sub[left[n]] : key[m] < key[n]
          /\ \A m \in sub[right[n]] : key[n] < key[m]
          /\ sub[NULL] = {}
      BY <1>1, AtNode
    <3> QED BY <1>2, <2>4, <2>5, <3>1
  <2>7. \A n \in used \ {g} : /\ t \in sub1[left'[n]] => key[g] < key[n]
                              /\ t \in sub1[right'[n]] => key[n] < key[g]
    <3> HIDE DEF sub1
    <3> QED BY <2>3, <2>6
  <2>8. /\ \A m \in sub1[left'[t]] : key[m] < key[g]
        /\ \A m \in sub1[right'[t]] : key[g] < key[m]
    <3>1. /\ sub1[left'[t]] = sub[left[t]] \ {g} /\ sub1[right'[t]] = sub[right[t]] \ {g}
      <4> HIDE DEF sub1
      <4> QED BY <1>2, <1>8, <2>3
    <3>2. \A m \in sub[left[t]] : key[m] < key[g]
      BY <1>2, <1>3, <2>1, <2>5
    <3>3. \A m \in sub[right[t]] : m # g => key[g] < key[m]
      BY <1>3, <1>8
    <3> HIDE DEF sub1
    <3> QED BY <3>1, <3>2, <3>3
  <2>9. t \in used \ {g} /\ key[g] \in Nat
    BY <1>2, <1>3, <1>8, <2>1
  <2> HIDE DEF sub1
  <2>10. SearchTree(used \ {g}, key', left', right', root', sub1)
    BY <1>4, <1>6, <2>7, <2>8, <2>9, RekeyedTree
  <2> QED BY <1>2, <1>3, <1>4, <2>10 DEF Shape, t, g, c, FieldsTyped
<1> QED BY <1>7, <1>8
-----------------------------------------------------------------------------
LEMMA Quotient ==
    ASSUME NEW M \in Nat \ {0}, NEW x \in Int
    PROVE  x \div M \in Int /\ x = M * (x \div M) + (x % M) /\ x % M \in 0..(M - 1)
<1>1. x \div M \in Int
  OBVIOUS
<1>2. x % M \in 0..(M - 1)
  OBVIOUS
<1>3. x = M * (x \div M) + (x % M)
  BY Z3T(60)
<1> QED BY <1>1, <1>2, <1>3

LEMMA Small ==
    ASSUME NEW M \in Nat \ {0}, NEW d \in Int, NEW p \in Int, p = M * d, p < M, p > 0 - M
    PROVE  d = 0
<1>1. CASE d >= 1
  <2>1. M * d >= M
    BY <1>1
  <2> QED BY <2>1
<1>2. CASE d <= -1
  <2>1. M * d <= 0 - M
    BY <1>2
  <2> QED BY <2>1
<1> QED BY <1>1, <1>2

LEMMA Congruent ==
    ASSUME NEW M \in Nat \ {0}, NEW x \in Int, NEW y \in Int, NEW d \in Int, x = M * d + y
    PROVE  x % M = y % M
<1> DEFINE qx == x \div M
           qy == y \div M
           rx == x % M
           ry == y % M
           e == qx - qy - d
<1>1. /\ qx \in Int /\ rx \in 0..(M - 1) /\ x = M * qx + rx
      /\ qy \in Int /\ ry \in 0..(M - 1) /\ y = M * qy + ry
  BY Quotient
<1> HIDE DEF qx, qy, rx, ry
<1>2. e \in Int /\ M * e = M * qx - M * qy - M * d
  BY <1>1
<1>3. M * e = ry - rx
  <2> DEFINE a == M * qx
             b == M * qy
             c == M * d
             f == M * e
  <2>1. a \in Int /\ b \in Int /\ c \in Int /\ f = a - b - c /\ x = a + rx /\ y = b + ry /\ x = c + y
    BY <1>1, <1>2
  <2> HIDE DEF a, b, c, f
  <2>2. f = ry - rx
    BY <1>1, <2>1
  <2> QED BY <2>2 DEF f
<1> HIDE DEF e
<1>4. ry - rx \in Int /\ ry - rx < M /\ ry - rx > 0 - M
  BY <1>1
<1>5. e = 0
  BY <1>2, <1>3, <1>4, Small
<1>6. M * e = 0
  BY <1>5
<1>7. rx = ry
  BY <1>1, <1>3, <1>6
<1> QED BY <1>7 DEF rx, ry

\* The counter wraps: what is added to a remainder and taken from it.
LEMMA Wraps ==
    ASSUME NEW M \in Nat \ {0}, NEW x \in Int
    PROVE  /\ x % M \in 0..(M - 1)
           /\ (x + M) % M = x % M /\ (x - M) % M = x % M
           /\ ((x % M) + 1) % M = (x + 1) % M
           /\ ((x % M) - 1) % M = (x - 1) % M
<1> DEFINE q == x \div M
           r == x % M
<1>1. q \in Int /\ r \in 0..(M - 1) /\ x = M * q + r
  BY Quotient
<1> HIDE DEF q, r
<1>2. (x + M) % M = x % M
  <2>1. x + M \in Int /\ 1 \in Int /\ x + M = M * 1 + x
    OBVIOUS
  <2> QED BY <2>1, Congruent
<1>3. (x - M) % M = x % M
  <2>1. x - M \in Int /\ x = M * 1 + (x - M) /\ 1 \in Int
    OBVIOUS
  <2> QED BY <2>1, Congruent
<1>4. (r + 1) % M = (x + 1) % M
  <2>1. r + 1 \in Int /\ x + 1 \in Int /\ x + 1 = M * q + (r + 1)
    BY <1>1
  <2> QED BY <1>1, <2>1, Congruent
<1>5. (r - 1) % M = (x - 1) % M
  <2>1. r - 1 \in Int /\ x - 1 \in Int /\ x - 1 = M * q + (r - 1)
    BY <1>1
  <2> QED BY <1>1, <2>1, Congruent
<1> QED BY <1>1, <1>2, <1>3, <1>4, <1>5 DEF r

LEMMA CountSteps ==
    ASSUME NEW n \in Nat, NEW d \in 0..(CountMod - 1)
    PROVE  LET c == (n - d) % CountMod
           IN  /\ (c + 1) % CountMod = ((n + 1) - d) % CountMod
               /\ (c - 1) % CountMod = ((n - 1) - d) % CountMod
               /\ c = ((n + 1) - ((d + 1) % CountMod)) % CountMod
               /\ (c - 1) % CountMod = (n - ((d + 1) % CountMod)) % CountMod
               /\ c \in 0..(CountMod - 1)
<1> DEFINE M == CountMod
           x == n - d
           d2 == (d + 1) % M
<1>1. M \in Nat \ {0}
  BY HashtableAssumption
<1> HIDE DEF M
<1>2. x \in Int /\ d \in 0..(M - 1)
  BY DEF M
<1>3. /\ x % M \in 0..(M - 1)
      /\ ((x % M) + 1) % M = (x + 1) % M
      /\ ((x % M) - 1) % M = (x - 1) % M
  BY <1>1, <1>2, Wraps
<1>4. (n + 1) - d = x + 1 /\ (n - 1) - d = x - 1
  BY <1>1, <1>2
<1>5. (n - d2) % M = (x - 1) % M
  <2>1. CASE d + 1 = M
    <3>1. d2 = 0
      BY <1>1, <2>1
    <3>2. x - 1 = n - M /\ n \in Int
      BY <1>1, <1>2, <2>1
    <3>3. (n - M) % M = n % M
      BY <1>1, <3>2, Wraps
    <3>4. n - 0 = n
      BY <3>2
    <3> HIDE DEF d2, x
    <3> QED BY <3>1, <3>2, <3>3, <3>4
  <2>2. CASE d + 1 # M
    <3>1. d + 1 \in 0..(M - 1)
      BY <1>1, <1>2, <2>2
    <3>2. d2 = d + 1
      BY <1>1, <3>1
    <3>3. n - (d + 1) = x - 1
      BY <1>1, <1>2
    <3> HIDE DEF d2, x
    <3> QED BY <3>2, <3>3
  <2> QED BY <2>1, <2>2
<1>6. ((n + 1) - d2) % M = x % M
  <2>1. CASE d + 1 = M
    <3>1. d2 = 0
      BY <1>1, <2>1
    <3>2. x = (n + 1) - M /\ n + 1 \in Int
      BY <1>1, <1>2, <2>1
    <3>3. ((n + 1) - M) % M = (n + 1) % M
      BY <1>1, <3>2, Wraps
    <3>4. (n + 1) - 0 = n + 1
      BY <3>2
    <3> HIDE DEF d2, x
    <3> QED BY <3>1, <3>2, <3>3, <3>4
  <2>2. CASE d + 1 # M
    <3>1. d + 1 \in 0..(M - 1)
      BY <1>1, <1>2, <2>2
    <3>2. d2 = d + 1
      BY <1>1, <3>1
    <3>3. (n + 1) - (d + 1) = x
      BY <1>1, <1>2
    <3> HIDE DEF d2, x
    <3> QED BY <3>2, <3>3
  <2> QED BY <2>1, <2>2
<1> HIDE DEF d2, x
<1> QED BY <1>3, <1>4, <1>5, <1>6 DEF M, d2, x
-----------------------------------------------------------------------------
CountsNodes == count = (Cardinality(used) - drift) % CountMod

\* Before the first removal the Parent fields are right.
TableInv == FieldsTyped /\ Shape /\ CountsNodes /\ (removed \/ ParentsHold)

LEMMA FiniteUsed ==
    ASSUME Shape
    PROVE  /\ IsFiniteSet(used) /\ Cardinality(used) \in Nat /\ used \subseteq Nodes
           /\ root = NULL => used = {}
  BY FS_CardinalityType DEF Shape, SearchTree

LEMMA EmptyTree ==
    ASSUME NEW K \in [Nodes -> Nat], NEW L, NEW R
    PROVE  \E sub : SearchTree({}, K, L, R, NULL, sub)
<1> DEFINE sub == [m \in {NULL} |-> {}]
<1>1. sub[NULL] = {} /\ sub \in [{NULL} -> SUBSET {}] /\ IsFiniteSet({})
  BY FS_EmptySet
<1> HIDE DEF sub
<1>2. SearchTree({}, K, L, R, NULL, sub)
  BY <1>1 DEF SearchTree, Branches
<1> QED BY <1>2

LEMMA NoneCounted ==
    /\ 0 \in 0..(CountMod - 1)
    /\ Cardinality({}) = 0
    /\ (0 - 0) % CountMod = 0
<1>1. CountMod \in Nat \ {0}
  BY HashtableAssumption
<1>2. 0 % CountMod = 0
  BY <1>1
<1>3. 0 - 0 = 0
  OBVIOUS
<1> QED BY <1>1, <1>2, <1>3, FS_EmptySet

LEMMA InitTable == Init => TableInv
<1> SUFFICES ASSUME Init PROVE TableInv
  OBVIOUS
<1>1. CountMod \in Nat \ {0} /\ Keys # {} /\ Values # {} /\ Keys \subseteq Nat
  BY HashtableAssumption
<1>2. (CHOOSE k \in Keys : TRUE) \in Keys /\ (CHOOSE v \in Values : TRUE) \in Values
  BY <1>1
<1>3. key \in [Nodes -> Keys] /\ value \in [Nodes -> Values]
  BY <1>2 DEF Init
<1>4. FieldsTyped
  <2>1. /\ root \in Pointers /\ NULL \in Pointers
        /\ count \in 0..(CountMod - 1) /\ drift \in 0..(CountMod - 1)
    BY NoneCounted DEF Init, Pointers
  <2> QED BY <1>3, <2>1 DEF Init, FieldsTyped
<1>5. Shape
  <2>1. key \in [Nodes -> Nat] /\ used = {} /\ root = NULL
    BY <1>1, <1>3 DEF Init
  <2> QED BY <2>1, EmptyTree DEF Shape
<1>6. CountsNodes
  BY NoneCounted DEF Init, CountsNodes
<1>7. ParentsHold
  BY DEF Init, ParentsHold
<1> QED BY <1>4, <1>5, <1>6, <1>7 DEF TableInv

LEMMA SetFirstTable ==
    ASSUME TableInv, NEW n \in Nodes, NEW k \in Keys, NEW v \in Values, SetFirst(n, k, v)
    PROVE  TableInv'
<1>1. Shape'
  BY SetFirstShape DEF TableInv
<1>2. used = {} /\ used' = {n}
  BY FiniteUsed DEF TableInv, SetFirst, Create
<1>3. /\ drift \in 0..(CountMod - 1) /\ (drift + 1) % CountMod \in 0..(CountMod - 1)
      /\ drift' = (drift + 1) % CountMod /\ count' = count
  <2>1. CountMod \in Nat \ {0} /\ drift + 1 \in Int /\ drift \in 0..(CountMod - 1)
    BY HashtableAssumption DEF TableInv, FieldsTyped
  <2> QED BY <2>1, Wraps DEF SetFirst
<1>4. FieldsTyped'
  BY <1>3 DEF TableInv, FieldsTyped, SetFirst, Create, Pointers
<1>5. CountsNodes'
  <2>1. Cardinality(used) = 0 /\ Cardinality(used') = 0 + 1 /\ 0 \in Nat
    BY <1>2, FS_EmptySet, FS_Singleton
  <2>2. count = (0 - drift) % CountMod
    BY <2>1 DEF TableInv, CountsNodes
  <2>3. count' = ((0 + 1) - drift') % CountMod
    BY <1>3, <2>1, <2>2, CountSteps
  <2> QED BY <2>1, <2>3 DEF CountsNodes
<1>6. ParentsHold'
  <2>1. /\ root' = n /\ left'[n] = NULL /\ right'[n] = NULL /\ parent'[n] = NULL
    BY DEF SetFirst, Create, TableInv, FieldsTyped
  <2> QED BY <1>2, <2>1 DEF ParentsHold
<1> QED BY <1>1, <1>4, <1>5, <1>6 DEF TableInv

LEMMA SetBelowTable ==
    ASSUME TableInv, NEW n \in Nodes, NEW k \in Keys, NEW v \in Values, SetBelow(n, k, v)
    PROVE  TableInv'
<1>1. Shape'
  BY SetBelowShape DEF TableInv
<1>2. PICK sub : SearchTree(used, key, left, right, root, sub)
  BY DEF TableInv, Shape
<1> DEFINE up == End(k)
<1>3. /\ up \in used /\ n \in Nodes \ used /\ up # n
      /\ key' = [key EXCEPT ![n] = k] /\ value' = [value EXCEPT ![n] = v]
      /\ used' = used \cup {n} /\ root' = root
      /\ left'[n] = NULL /\ right'[n] = NULL
      /\ \A m \in Nodes \ {up, n} : left'[m] = left[m] /\ right'[m] = right[m]
      /\ \/ k < key[up] /\ left[up] = NULL /\ left'[up] = n /\ right'[up] = right[up]
         \/ key[up] < k /\ right[up] = NULL /\ right'[up] = n /\ left'[up] = left[up]
      /\ left' \in [Nodes -> Pointers] /\ right' \in [Nodes -> Pointers]
      /\ parent' = [parent EXCEPT ![n] = up]
  BY <1>2, SetBelowPlace DEF TableInv
<1> HIDE DEF up
<1>4. FieldsTyped
  BY DEF TableInv
<1>5. /\ count \in 0..(CountMod - 1) /\ drift \in 0..(CountMod - 1)
      /\ count' = (count + 1) % CountMod /\ drift' = drift /\ removed' = removed
  BY <1>4 DEF SetBelow, FieldsTyped
<1>6. used \subseteq Nodes /\ IsFiniteSet(used) /\ Cardinality(used) \in Nat
  BY FiniteUsed DEF TableInv
<1>7. FieldsTyped'
  <2>1. count + 1 \in Int /\ CountMod \in Nat \ {0}
    BY <1>5, HashtableAssumption
  <2>2. (count + 1) % CountMod \in 0..(CountMod - 1)
    BY <2>1, Wraps
  <2>3. /\ key' \in [Nodes -> Keys] /\ value' \in [Nodes -> Values]
        /\ parent' \in [Nodes -> Pointers]
    BY <1>3, <1>4, <1>6 DEF FieldsTyped, Pointers
  <2> QED BY <1>3, <1>4, <1>5, <1>6, <2>2, <2>3 DEF FieldsTyped
<1>8. CountsNodes'
  <2>1. Cardinality(used') = Cardinality(used) + 1
    BY <1>3, <1>6, FS_AddElement
  <2>2. count = (Cardinality(used) - drift) % CountMod
    BY DEF TableInv, CountsNodes
  <2>3. count' = ((Cardinality(used) + 1) - drift) % CountMod
    BY <1>5, <1>6, <2>2, CountSteps
  <2> QED BY <1>5, <2>1, <2>3 DEF CountsNodes
<1>9. ASSUME ParentsHold PROVE ParentsHold'
  <2>1. /\ parent'[n] = up /\ \A m \in Nodes : m # n => parent'[m] = parent[m]
    BY <1>3, <1>4 DEF FieldsTyped
  <2>2. root' # NULL => parent'[root'] = NULL
    <3>1. root # NULL => root \in used
      BY <1>2 DEF SearchTree
    <3> QED BY <1>3, <1>6, <1>9, <2>1, <3>1 DEF ParentsHold
  <2>3. ASSUME NEW m \in used'
        PROVE  /\ left'[m] # NULL => parent'[left'[m]] = m
               /\ right'[m] # NULL => parent'[right'[m]] = m
    <3>1. CASE m = n
      BY <1>3, <3>1
    <3>2. CASE m \in used
      <4>1. left[m] \in used \cup {NULL} /\ right[m] \in used \cup {NULL}
        BY <1>2, <3>2, AtNode
      <4>2. /\ left[m] # NULL => parent'[left[m]] = m
            /\ right[m] # NULL => parent'[right[m]] = m
        BY <1>3, <1>6, <1>9, <2>1, <3>2, <4>1 DEF ParentsHold
      <4>3. CASE m = up
        BY <1>3, <2>1, <4>2, <4>3
      <4>4. CASE m # up
        <5>1. m \in Nodes \ {up, n}
          BY <1>3, <1>6, <3>2, <4>4
        <5> QED BY <1>3, <4>2, <5>1
      <4> QED BY <4>3, <4>4
    <3> QED BY <1>3, <2>3, <3>1, <3>2
  <2> QED BY <2>2, <2>3 DEF ParentsHold
<1> QED BY <1>1, <1>5, <1>7, <1>8, <1>9 DEF TableInv

LEMMA RemoveTable ==
    ASSUME TableInv, NEW k \in Keys, Remove(k)
    PROVE  TableInv'
<1> DEFINE t == End(k)
           g == Going(t)
           c == OnlyChild(g)
<1>1. /\ Shape' /\ t \in used /\ g \in used /\ used' = used \ {g}
      /\ c \in Pointers
  BY RemoveShape DEF TableInv
<1>2. /\ key' = [key EXCEPT ![t] = key[g]] /\ value' = [value EXCEPT ![t] = value[g]]
      /\ left' = [n \in Nodes |-> IF n \in Tree(root) /\ left[n] = g THEN c ELSE left[n]]
      /\ right' = [n \in Nodes |-> IF n \in Tree(root) /\ right[n] = g THEN c ELSE right[n]]
      /\ root' = IF g = root THEN c ELSE root
      /\ parent' = IF g = root /\ c # NULL THEN [parent EXCEPT ![c] = NULL] ELSE parent
      /\ count' = (count - 1) % CountMod
      /\ removed' = (root' # NULL) /\ drift' = drift
  BY DEF Remove, RemoveNode, Unlink
<1> HIDE DEF t, g, c
<1>3. FieldsTyped
  BY DEF TableInv
<1>4. used \subseteq Nodes /\ IsFiniteSet(used) /\ Cardinality(used) \in Nat
  BY FiniteUsed DEF TableInv
<1>5. count \in 0..(CountMod - 1) /\ drift \in 0..(CountMod - 1)
  BY <1>3 DEF FieldsTyped
<1>6. FieldsTyped'
  <2>1. count - 1 \in Int /\ CountMod \in Nat \ {0}
    BY <1>5, HashtableAssumption
  <2>2. (count - 1) % CountMod \in 0..(CountMod - 1)
    BY <2>1, Wraps
  <2>3. key' \in [Nodes -> Keys] /\ value' \in [Nodes -> Values]
    BY <1>1, <1>2, <1>3, <1>4 DEF FieldsTyped
  <2>4. left' \in [Nodes -> Pointers] /\ right' \in [Nodes -> Pointers]
    BY <1>1, <1>2, <1>3 DEF FieldsTyped
  <2>5. parent' \in [Nodes -> Pointers] /\ root' \in Pointers
    BY <1>1, <1>2, <1>3 DEF FieldsTyped, Pointers
  <2> QED BY <1>1, <1>2, <1>3, <1>4, <2>2, <2>3, <2>4, <2>5 DEF FieldsTyped
<1>7. CountsNodes'
  <2>1. Cardinality(used') = Cardinality(used) - 1
    BY <1>1, <1>4, FS_RemoveElement
  <2>2. count = (Cardinality(used) - drift) % CountMod
    BY DEF TableInv, CountsNodes
  <2>3. count' = ((Cardinality(used) - 1) - drift) % CountMod
    BY <1>2, <1>4, <1>5, <2>2, CountSteps
  <2> QED BY <1>2, <2>1, <2>3 DEF CountsNodes
<1>8. ASSUME ~removed' PROVE ParentsHold'
  <2>1. root' = NULL
    BY <1>2, <1>8
  <2>2. used' = {}
    BY <1>1, <2>1 DEF Shape, SearchTree
  <2> QED BY <2>1, <2>2 DEF ParentsHold
<1> QED BY <1>1, <1>6, <1>7, <1>8 DEF TableInv

LEMMA RemoveMissTable ==
    ASSUME TableInv, NEW k \in Keys, RemoveMiss(k)
    PROVE  TableInv'
<1>1. FieldsTyped /\ CountMod \in Nat \ {0}
  BY HashtableAssumption DEF TableInv
<1>2. /\ count' = (count - 1) % CountMod /\ drift' = (drift + 1) % CountMod
      /\ UNCHANGED <<key, value, parent, left, right, root, used, removed>>
  BY DEF RemoveMiss, fields
<1>3. /\ count \in 0..(CountMod - 1) /\ drift \in 0..(CountMod - 1)
  BY <1>1 DEF FieldsTyped
<1>4. count' \in 0..(CountMod - 1) /\ drift' \in 0..(CountMod - 1)
  <2>1. count - 1 \in Int /\ drift + 1 \in Int
    BY <1>1, <1>3
  <2> QED BY <1>1, <1>2, <2>1, Wraps
<1>5. FieldsTyped'
  BY <1>1, <1>2, <1>4 DEF FieldsTyped
<1>6. CountsNodes'
  <2>1. Cardinality(used) \in Nat
    BY FiniteUsed DEF TableInv
  <2>2. count = (Cardinality(used) - drift) % CountMod
    BY DEF TableInv, CountsNodes
  <2>3. count' = (Cardinality(used) - drift') % CountMod
    BY <1>2, <1>3, <2>1, <2>2, CountSteps
  <2> QED BY <1>2, <2>3 DEF CountsNodes
<1>7. Shape' /\ (removed' \/ ParentsHold')
  BY <1>2 DEF TableInv, Shape, ParentsHold
<1> QED BY <1>5, <1>6, <1>7 DEF TableInv

LEMMA ClearTable ==
    ASSUME TableInv, Clear
    PROVE  TableInv'
<1>1. FieldsTyped
  BY DEF TableInv
<1>2. /\ root' = NULL /\ count' = 0 /\ used' = {} /\ removed' = FALSE /\ drift' = 0
      /\ UNCHANGED <<key, value, parent, left, right>>
  BY DEF Clear, fields
<1>3. key' \in [Nodes -> Nat]
  BY <1>1, <1>2, HashtableAssumption DEF FieldsTyped
<1>4. Shape'
  BY <1>2, <1>3, EmptyTree DEF Shape
<1>5. FieldsTyped'
  BY <1>1, <1>2, NoneCounted DEF FieldsTyped, Pointers
<1>6. CountsNodes' /\ ParentsHold'
  BY <1>2, NoneCounted DEF CountsNodes, ParentsHold
<1> QED BY <1>4, <1>5, <1>6 DEF TableInv

LEMMA SetAgainTable ==
    ASSUME TableInv, NEW k \in Keys, NEW v \in Values, SetAgain(k, v)
    PROVE  TableInv'
<1>1. /\ value' = [value EXCEPT ![End(k)] = v]
      /\ UNCHANGED <<key, parent, left, right, root, count, used, removed, drift>>
  BY DEF SetAgain
<1>2. FieldsTyped'
  BY <1>1 DEF TableInv, FieldsTyped
<1> QED BY <1>1, <1>2 DEF TableInv, Shape, CountsNodes, ParentsHold

LEMMA OthersTable ==
    ASSUME TableInv,
           UNCHANGED <<key, value, parent, left, right, root, count, used, removed, drift>>
    PROVE  TableInv'
  BY DEF TableInv, FieldsTyped, Shape, CountsNodes, ParentsHold

LEMMA StepTable == TableInv /\ [Next]_vars => TableInv'
<1> SUFFICES ASSUME TableInv, [Next]_vars PROVE TableInv'
  OBVIOUS
<1>1. ASSUME NEW k \in Keys, NEW v \in Values, NEW n \in Nodes,
             SetFirst(n, k, v) \/ SetBelow(n, k, v)
      PROVE  TableInv'
  BY <1>1, SetFirstTable, SetBelowTable
<1>2. ASSUME NEW k \in Keys, NEW v \in Values, SetAgain(k, v) PROVE TableInv'
  BY <1>2, SetAgainTable
<1>3. ASSUME NEW k \in Keys, Remove(k) \/ RemoveMiss(k) PROVE TableInv'
  BY <1>3, RemoveTable, RemoveMissTable
<1>4. CASE Clear
  BY <1>4, ClearTable
<1>5. CASE CreateIterator \/ IteratorNext
  BY <1>5, OthersTable DEF CreateIterator, IteratorNext, fields
<1>6. CASE UNCHANGED vars
  BY <1>6, OthersTable DEF vars, fields
<1> QED BY <1>1, <1>2, <1>3, <1>4, <1>5, <1>6 DEF Next

LEMMA AlwaysTable == Spec => []TableInv
<1>1. Init => TableInv
  BY InitTable
<1>2. TableInv /\ [Next]_vars => TableInv'
  BY StepTable
<1> QED BY <1>1, <1>2, PTL DEF Spec

\* The nodes allocated are those of the tree: TreeRemove gives back the node it
\* has unlinked, whichever of the two that is, and loses none.
THEOREM TableKeepsNodes == Spec => []NodesAreInTree
<1>1. TableInv => NodesAreInTree
  BY TreeIsSub DEF TableInv, Shape, NodesAreInTree
<1> QED BY <1>1, AlwaysTable, PTL

\* NodeCount is wrong by exactly the first nodes and the removals of keys that
\* were not there, also after it has wrapped.
THEOREM TableCounts == Spec => []CountDrifts
<1>1. TableInv => CountDrifts
  BY TreeIsSub DEF TableInv, Shape, CountDrifts, CountsNodes
<1> QED BY <1>1, AlwaysTable, PTL
-----------------------------------------------------------------------------
(* The table is a dictionary.                                                *)

\* d gives every key that a node of U has the value of that node, and no other
\* key a value.
Describes(d, U, K, V) ==
    /\ d = [k \in Keys |-> d[k]]
    /\ \A k \in Keys : /\ \A m \in U : K[m] = k => d[k] = V[m]
                       /\ (\A m \in U : K[m] # k) => d[k] = NULL

ContentsDescribe == Describes(Contents, used, key, value)

LEMMA SearchesFind == TableInv => ContentsDescribe
<1> SUFFICES ASSUME TableInv PROVE ContentsDescribe
  OBVIOUS
<1>1. PICK sub : SearchTree(used, key, left, right, root, sub)
  BY DEF TableInv, Shape
<1>2. FieldsTyped
  BY DEF TableInv
<1>3. \A k \in Keys : Contents[k] = IF Found(k) THEN value[End(k)] ELSE NULL
  BY DEF Contents
<1>4. Contents = [k \in Keys |-> Contents[k]]
  BY DEF Contents
<1>5. ASSUME NEW k \in Keys
      PROVE  /\ \A m \in used : key[m] = k => Contents[k] = value[m]
             /\ (\A m \in used : key[m] # k) => Contents[k] = NULL
  <2>1. CASE root = NULL
    <3>1. used = {}
      BY <1>1, <2>1 DEF SearchTree
    <3>2. ~Found(k)
      BY <2>1 DEF Found
    <3> QED BY <1>3, <3>1, <3>2
  <2>2. CASE root # NULL
    <3>1. End(k) \in used /\ \A m \in used : key[m] = k => m = End(k)
      BY <1>1, <1>2, <2>2, EndInTree
    <3>2. Found(k) <=> key[End(k)] = k
      BY <2>2 DEF Found
    <3> QED BY <1>3, <3>1, <3>2
  <2> QED BY <2>1, <2>2
<1> QED BY <1>4, <1>5 DEF ContentsDescribe, Describes

LEMMA SearchesFindNext == TableInv' => ContentsDescribe'
  BY SearchesFind, PTL

\* Two nodes of a tree have different keys.
LEMMA KeysApart ==
    ASSUME TableInv, NEW m \in used, NEW n \in used, key[m] = key[n]
    PROVE  m = n
<1>1. PICK sub : SearchTree(used, key, left, right, root, sub)
  BY DEF TableInv, Shape
<1>2. root # NULL /\ key[m] \in Keys
  BY <1>1 DEF SearchTree, TableInv, FieldsTyped
<1> QED BY <1>1, <1>2, EndInTree DEF TableInv

\* Two descriptions of one set of nodes are the same.
LEMMA SameContents ==
    ASSUME NEW d, NEW e, NEW U, NEW K, NEW V, Describes(d, U, K, V), Describes(e, U, K, V)
    PROVE  d = e
<1>1. \A k \in Keys : d[k] = e[k]
  BY DEF Describes
<1> QED BY <1>1 DEF Describes

LEMMA SetFirstContents ==
    ASSUME TableInv, NEW n \in Nodes, NEW k \in Keys, NEW v \in Values, SetFirst(n, k, v)
    PROVE  Contents' = [Contents EXCEPT ![k] = v]
<1>1. used = {} /\ FieldsTyped
  BY FiniteUsed DEF TableInv, SetFirst
<1>2. Describes(Contents, used, key, value)
  BY SearchesFind DEF ContentsDescribe
<1>3. Describes(Contents', used', key', value')
  BY SetFirstTable, SearchesFindNext DEF ContentsDescribe
<1>4. /\ used' = {n} /\ key'[n] = k /\ value'[n] = v
  BY <1>1 DEF SetFirst, Create, FieldsTyped
<1>5. \A j \in Keys : Contents'[j] = [Contents EXCEPT ![k] = v][j]
  BY <1>1, <1>2, <1>3, <1>4 DEF Describes
<1> QED BY <1>2, <1>3, <1>5 DEF Describes

LEMMA SetBelowContents ==
    ASSUME TableInv, NEW n \in Nodes, NEW k \in Keys, NEW v \in Values, SetBelow(n, k, v)
    PROVE  Contents' = [Contents EXCEPT ![k] = v]
<1>1. PICK sub : SearchTree(used, key, left, right, root, sub)
  BY DEF TableInv, Shape
<1>2. FieldsTyped /\ used \subseteq Nodes
  BY <1>1 DEF TableInv, SearchTree
<1>3. Describes(Contents, used, key, value)
  BY SearchesFind DEF ContentsDescribe
<1>4. Describes(Contents', used', key', value')
  BY SetBelowTable, SearchesFindNext DEF ContentsDescribe
<1>5. /\ n \in Nodes \ used /\ used' = used \cup {n}
      /\ \A m \in used : key[m] # k
      /\ key' = [key EXCEPT ![n] = k] /\ value' = [value EXCEPT ![n] = v]
  BY <1>1, <1>2, SetBelowPlace
<1>6. /\ key'[n] = k /\ value'[n] = v
      /\ \A m \in used : key'[m] = key[m] /\ value'[m] = value[m]
  BY <1>2, <1>5 DEF FieldsTyped
<1>7. ASSUME NEW j \in Keys PROVE Contents'[j] = IF j = k THEN v ELSE Contents[j]
  <2>1. CASE j = k
    BY <1>4, <1>5, <1>6, <2>1 DEF Describes
  <2>2. ASSUME j # k, NEW m \in used, key[m] = j PROVE Contents'[j] = Contents[j]
    <3>1. Contents'[j] = value'[m]
      BY <1>4, <1>5, <1>6, <2>2 DEF Describes
    <3>2. Contents[j] = value[m]
      BY <1>3, <2>2 DEF Describes
    <3> QED BY <1>6, <2>2, <3>1, <3>2
  <2>3. ASSUME j # k, \A m \in used : key[m] # j PROVE Contents'[j] = Contents[j]
    <3>1. \A m \in used' : key'[m] # j
      BY <1>5, <1>6, <2>3
    <3> QED BY <1>3, <1>4, <2>3, <3>1 DEF Describes
  <2> QED BY <2>1, <2>2, <2>3
<1>8. Contents = [j \in Keys |-> Contents[j]] /\ Contents' = [j \in Keys |-> Contents'[j]]
  BY <1>3, <1>4 DEF Describes
<1> QED BY <1>7, <1>8

LEMMA SetAgainContents ==
    ASSUME TableInv, NEW k \in Keys, NEW v \in Values, SetAgain(k, v)
    PROVE  Contents' = [Contents EXCEPT ![k] = v]
<1>1. PICK sub : SearchTree(used, key, left, right, root, sub)
  BY DEF TableInv, Shape
<1>2. FieldsTyped /\ used \subseteq Nodes
  BY <1>1 DEF TableInv, SearchTree
<1>3. Describes(Contents, used, key, value)
  BY SearchesFind DEF ContentsDescribe
<1>4. Describes(Contents', used', key', value')
  BY SetAgainTable, SearchesFindNext DEF ContentsDescribe
<1> DEFINE t == End(k)
<1>5. t \in used /\ key[t] = k
  BY <1>1, <1>2, EndInTree DEF SetAgain, Found
<1>6. value' = [value EXCEPT ![t] = v] /\ used' = used /\ key' = key
  BY DEF SetAgain
<1> HIDE DEF t
<1>7. value'[t] = v /\ \A m \in used : m # t => value'[m] = value[m]
  BY <1>2, <1>5, <1>6 DEF FieldsTyped
<1>8. ASSUME NEW j \in Keys PROVE Contents'[j] = IF j = k THEN v ELSE Contents[j]
  <2>1. CASE j = k
    BY <1>4, <1>5, <1>6, <1>7, <2>1 DEF Describes
  <2>2. ASSUME j # k, NEW m \in used, key[m] = j PROVE Contents'[j] = Contents[j]
    <3>1. Contents'[j] = value'[m]
      BY <1>4, <1>6, <2>2 DEF Describes
    <3>2. Contents[j] = value[m]
      BY <1>3, <2>2 DEF Describes
    <3> QED BY <1>5, <1>7, <2>2, <3>1, <3>2
  <2>3. ASSUME j # k, \A m \in used : key[m] # j PROVE Contents'[j] = Contents[j]
    BY <1>3, <1>4, <1>6, <2>3 DEF Describes
  <2> QED BY <2>1, <2>2, <2>3
<1>9. Contents = [j \in Keys |-> Contents[j]] /\ Contents' = [j \in Keys |-> Contents'[j]]
  BY <1>3, <1>4 DEF Describes
<1> QED BY <1>8, <1>9

LEMMA RemoveContents ==
    ASSUME TableInv, NEW k \in Keys, Remove(k)
    PROVE  Contents' = [Contents EXCEPT ![k] = NULL]
<1> DEFINE t == End(k)
           g == Going(t)
<1>1. FieldsTyped /\ used \subseteq Nodes
  BY FiniteUsed DEF TableInv
<1>2. Describes(Contents, used, key, value)
  BY SearchesFind DEF ContentsDescribe
<1>3. Describes(Contents', used', key', value')
  BY RemoveTable, SearchesFindNext DEF ContentsDescribe
<1>4. /\ t \in used /\ g \in used /\ key[t] = k /\ used' = used \ {g}
      /\ \A m \in used : key[m] = k => m = t
  BY RemoveShape DEF TableInv
<1>5. key' = [key EXCEPT ![t] = key[g]] /\ value' = [value EXCEPT ![t] = value[g]]
  BY DEF Remove, RemoveNode
<1> HIDE DEF t, g
<1>6. /\ key'[t] = key[g] /\ value'[t] = value[g]
      /\ \A m \in used : m # t => key'[m] = key[m] /\ value'[m] = value[m]
  BY <1>1, <1>4, <1>5 DEF FieldsTyped
<1>7. ASSUME NEW j \in Keys PROVE Contents'[j] = IF j = k THEN NULL ELSE Contents[j]
  <2>1. CASE j = k
    <3>1. \A m \in used' : key'[m] # k
      BY <1>4, <1>6
    <3> QED BY <1>3, <2>1, <3>1 DEF Describes
  <2>2. ASSUME j # k, NEW m \in used, key[m] = j PROVE Contents'[j] = Contents[j]
    <3>1. Contents[j] = value[m]
      BY <1>2, <2>2 DEF Describes
    <3> DEFINE h == IF m = g THEN t ELSE m
    <3>2. h \in used' /\ key'[h] = j /\ value'[h] = value[m]
      BY <1>4, <1>6, <2>2
    <3> HIDE DEF h
    <3>3. Contents'[j] = value'[h]
      BY <1>3, <3>2 DEF Describes
    <3> QED BY <3>1, <3>2, <3>3
  <2>3. ASSUME j # k, \A m \in used : key[m] # j PROVE Contents'[j] = Contents[j]
    <3>1. \A m \in used' : key'[m] # j
      BY <1>4, <1>6, <2>3
    <3> QED BY <1>2, <1>3, <2>3, <3>1 DEF Describes
  <2> QED BY <2>1, <2>2, <2>3
<1>8. Contents = [j \in Keys |-> Contents[j]] /\ Contents' = [j \in Keys |-> Contents'[j]]
  BY <1>2, <1>3 DEF Describes
<1> QED BY <1>7, <1>8

LEMMA ClearContents ==
    ASSUME TableInv, Clear
    PROVE  Contents' = [k \in Keys |-> NULL]
<1>1. Describes(Contents', used', key', value')
  BY ClearTable, SearchesFindNext DEF ContentsDescribe
<1>2. used' = {}
  BY DEF Clear
<1>3. \A k \in Keys : Contents'[k] = NULL
  BY <1>1, <1>2 DEF Describes
<1> QED BY <1>1, <1>3 DEF Describes

LEMMA OtherContents ==
    ASSUME TableInv, TableInv', UNCHANGED <<used, key, value>>
    PROVE  Contents' = Contents
<1>1. Describes(Contents, used, key, value)
  BY SearchesFind DEF ContentsDescribe
<1>2. Describes(Contents', used, key, value)
  BY SearchesFindNext DEF ContentsDescribe
<1> QED BY <1>1, <1>2, SameContents

\* After any sequence of operations a search finds exactly what was set and not
\* removed since: the entry that replaces a removed one stays in the order, and
\* no entry is lost with the node that goes.
THEOREM TableIsDictionary == Spec => IsDictionary
<1>1. Init => Dict!Init
  <2> SUFFICES ASSUME Init PROVE Contents = [k \in Keys |-> NULL]
    BY DEF Dict!Init
  <2>1. Describes(Contents, used, key, value) /\ used = {}
    BY InitTable, SearchesFind DEF ContentsDescribe, Init
  <2>2. \A k \in Keys : Contents[k] = NULL
    BY <2>1 DEF Describes
  <2> QED BY <2>1, <2>2 DEF Describes
<1>2. TableInv /\ [Next]_vars => [Dict!Next]_Contents
  <2> SUFFICES ASSUME TableInv, [Next]_vars PROVE Dict!Next \/ Contents' = Contents
    OBVIOUS
  <2>1. TableInv'
    BY StepTable
  <2>2. ASSUME NEW k \in Keys, NEW v \in Values, Contents' = [Contents EXCEPT ![k] = v]
        PROVE  Dict!Next
    BY <2>2 DEF Dict!Next, Dict!Set
  <2>3. ASSUME NEW k \in Keys, Contents' = [Contents EXCEPT ![k] = NULL]
        PROVE  Dict!Next
    BY <2>3 DEF Dict!Next, Dict!Remove
  <2>4. ASSUME NEW k \in Keys, NEW v \in Values, NEW n \in Nodes,
               SetFirst(n, k, v) \/ SetBelow(n, k, v)
        PROVE  Dict!Next
    BY <2>2, <2>4, SetFirstContents, SetBelowContents
  <2>5. ASSUME NEW k \in Keys, NEW v \in Values, SetAgain(k, v) PROVE Dict!Next
    BY <2>2, <2>5, SetAgainContents
  <2>6. ASSUME NEW k \in Keys, Remove(k) PROVE Dict!Next
    BY <2>3, <2>6, RemoveContents
  <2>7. ASSUME NEW k \in Keys, RemoveMiss(k) PROVE Contents' = Contents
    BY <2>1, <2>7, OtherContents DEF RemoveMiss, fields
  <2>8. CASE Clear
    BY <2>8, ClearContents DEF Dict!Next, Dict!Clear
  <2>9. CASE CreateIterator \/ IteratorNext \/ UNCHANGED vars
    BY <2>1, <2>9, OtherContents DEF CreateIterator, IteratorNext, vars, fields
  <2> QED BY <2>4, <2>5, <2>6, <2>7, <2>8, <2>9 DEF Next
<1> QED BY <1>1, <1>2, AlwaysTable, PTL DEF Spec, IsDictionary, Dict!Spec
-----------------------------------------------------------------------------
(* The iterator.                                                             *)

\* Climbing from a node ends at the least node above all those below it, or
\* nowhere when there is none.
LEMMA UpInTree ==
    ASSUME FieldsTyped, ParentsHold,
           NEW sub, SearchTree(used, key, left, right, root, sub), NEW n \in used
    PROVE  LET a == Up(n)
           IN  /\ a \in used \cup {NULL}
               /\ a # NULL => \A y \in sub[n] : key[y] < key[a]
               /\ \A x \in used : x \notin sub[n] =>
                     (\A y \in sub[n] : key[x] < key[y]) \/ (a # NULL /\ key[a] <= key[x])
<1>1. PICK e : /\ \A m \in Nodes : e[m] = IF parent[m] # NULL /\ right[parent[m]] = m
                                          THEN e[parent[m]] ELSE parent[m]
               /\ \A m \in Nodes : Up(m) = e[m]
  BY UpEquation
<1> DEFINE Good(m) == /\ e[m] \in used \cup {NULL}
                      /\ e[m] # NULL => \A y \in sub[m] : key[y] < key[e[m]]
                      /\ \A x \in used : x \notin sub[m] =>
                            (\A y \in sub[m] : key[x] < key[y]) \/ (e[m] # NULL /\ key[e[m]] <= key[x])
           S == {m \in used : Good(m)}
<1>2. used \subseteq Nodes /\ sub[root] = used /\ \A m \in used : key[m] \in Nat
  BY DEF SearchTree
<1>3. root # NULL => root \in S
  <2> SUFFICES ASSUME root # NULL PROVE root \in S
    OBVIOUS
  <2>1. root \in used /\ parent[root] = NULL
    BY DEF SearchTree, ParentsHold
  <2>2. e[root] = NULL
    BY <1>1, <1>2, <2>1
  <2> QED BY <1>2, <2>1, <2>2
<1>4. \A m \in used \cap S : (left[m] # NULL => left[m] \in S) /\ (right[m] # NULL => right[m] \in S)
  <2> SUFFICES ASSUME NEW m \in used, Good(m)
               PROVE  (left[m] # NULL => left[m] \in S) /\ (right[m] # NULL => right[m] \in S)
    OBVIOUS
  <2> DEFINE a == e[m]
  <2>0. /\ a \in used \cup {NULL}
        /\ a # NULL => \A y \in sub[m] : key[y] < key[a]
        /\ \A x \in used : x \notin sub[m] =>
              (\A y \in sub[m] : key[x] < key[y]) \/ (a # NULL /\ key[a] <= key[x])
    OBVIOUS
  <2>1. /\ m \in sub[m] /\ sub[m] \subseteq used /\ m \in Nodes /\ m # NULL
        /\ left[m] \in used \cup {NULL} /\ right[m] \in used \cup {NULL}
        /\ sub[m] = {m} \cup sub[left[m]] \cup sub[right[m]]
        /\ sub[left[m]] \cap sub[right[m]] = {}
        /\ left[m] # NULL => left[m] \in sub[left[m]]
    BY AtNode
  <2>2. (\A y \in sub[left[m]] : key[y] < key[m]) /\ (\A y \in sub[right[m]] : key[m] < key[y])
    BY AtNode
  <2>3. ASSUME left[m] # NULL PROVE left[m] \in S
    <3> DEFINE l == left[m]
    <3>1. l \in used /\ parent[l] = m /\ l \in Nodes
      BY <1>2, <2>1, <2>3 DEF ParentsHold
    <3>2. right[m] # l
      BY <2>1, <2>3
    <3>3. e[l] = m
      BY <1>1, <2>1, <3>1, <3>2
    <3>4. \A y \in sub[l] : key[y] < key[m]
      BY <2>2
    <3>5. ASSUME NEW x \in used, x \notin sub[l]
          PROVE  (\A y \in sub[l] : key[x] < key[y]) \/ key[m] <= key[x]
      <4> HIDE DEF a
      <4>1. CASE x \in sub[m]
        <5>1. x = m \/ x \in sub[right[m]]
          BY <2>1, <3>5, <4>1
        <5> QED BY <1>2, <2>2, <5>1
      <4>2. CASE x \notin sub[m]
        <5>1. (\A y \in sub[m] : key[x] < key[y]) \/ (a \in used /\ key[a] <= key[x] /\ key[m] < key[a])
          BY <2>0, <2>1, <3>5, <4>2
        <5>2. CASE \A y \in sub[m] : key[x] < key[y]
          BY <2>1, <5>2
        <5>3. CASE a \in used /\ key[a] <= key[x] /\ key[m] < key[a]
          BY <1>2, <5>3
        <5> QED BY <5>1, <5>2, <5>3
      <4> QED BY <4>1, <4>2
    <3> HIDE DEF l, a
    <3>6. Good(l)
      BY <2>1, <3>1, <3>3, <3>4, <3>5
    <3> QED BY <3>1, <3>6 DEF l
  <2>4. ASSUME right[m] # NULL PROVE right[m] \in S
    <3> DEFINE r == right[m]
    <3>1. r \in used /\ parent[r] = m /\ r \in Nodes
      BY <1>2, <2>1, <2>4 DEF ParentsHold
    <3>2. e[r] = a
      BY <1>1, <2>1, <3>1
    <3>3. a # NULL => \A y \in sub[r] : key[y] < key[a]
      BY <2>0, <2>1
    <3>4. ASSUME NEW x \in used, x \notin sub[r]
          PROVE  (\A y \in sub[r] : key[x] < key[y]) \/ (a # NULL /\ key[a] <= key[x])
      <4> HIDE DEF a
      <4>1. CASE x \in sub[m]
        <5>1. x = m \/ x \in sub[left[m]]
          BY <2>1, <3>4, <4>1
        <5>2. key[x] <= key[m]
          BY <1>2, <2>2, <5>1
        <5>3. \A y \in sub[r] : y \in used /\ key[m] < key[y]
          BY <2>1, <2>2
        <5>4. \A y \in sub[r] : key[x] < key[y]
          BY <1>2, <5>2, <5>3
        <5> QED BY <5>4
      <4>2. CASE x \notin sub[m]
        BY <2>0, <2>1, <3>4, <4>2
      <4> QED BY <4>1, <4>2
    <3> HIDE DEF r, a
    <3>5. Good(r)
      BY <2>0, <3>1, <3>2, <3>3, <3>4
    <3> QED BY <3>1, <3>5 DEF r
  <2> QED BY <2>3, <2>4
<1>5. used \subseteq S
  <2> HIDE DEF S
  <2> QED BY <1>3, <1>4, TopDown
<1> QED BY <1>1, <1>2, <1>5

Before(n) == {m \in used : key[m] < key[n]}

\* Where the iterator goes from n: to the node that follows it in the order.
LEMMA NextInOrder ==
    ASSUME TableInv, ParentsHold, NEW n \in used,
           NEW d, d = IF right[n] # NULL THEN LeftMost(right[n]) ELSE Up(n)
    PROVE  /\ d \in used \cup {NULL}
           /\ d # NULL => Before(d) = Before(n) \cup {n}
           /\ d = NULL => used = Before(n) \cup {n}
<1>1. PICK sub : SearchTree(used, key, left, right, root, sub)
  BY DEF TableInv, Shape
<1>2. FieldsTyped /\ ParentsHold
  BY DEF TableInv
<1>3. used \subseteq Nodes /\ NULL \notin used /\ \A m \in used : key[m] \in Nat
  BY <1>1, HashtableAssumption DEF SearchTree
<1>4. /\ n \in sub[n] /\ sub[n] \subseteq used
      /\ right[n] \in used \cup {NULL}
      /\ sub[n] = {n} \cup sub[left[n]] \cup sub[right[n]]
      /\ sub[left[n]] \subseteq used /\ sub[right[n]] \subseteq used
      /\ sub[NULL] = {}
  BY <1>1, AtNode
<1>5. (\A y \in sub[left[n]] : key[y] < key[n]) /\ (\A y \in sub[right[n]] : key[n] < key[y])
  BY <1>1, AtNode
<1> DEFINE a == Up(n)
<1>6. /\ a \in used \cup {NULL}
      /\ a # NULL => \A y \in sub[n] : key[y] < key[a]
      /\ \A x \in used : x \notin sub[n] =>
            (\A y \in sub[n] : key[x] < key[y]) \/ (a # NULL /\ key[a] <= key[x])
  BY <1>1, <1>2, UpInTree
<1>7. right[n] = NULL => d = a
  OBVIOUS
<1> HIDE DEF a
<1>8. CASE right[n] # NULL
  <2>1. d = LeftMost(right[n]) /\ right[n] \in used
    BY <1>4, <1>8
  <2>2. d \in sub[right[n]] /\ \A m \in sub[right[n]] : m # d => key[d] < key[m]
    BY <1>1, <1>2, <2>1, LeftMostInTree
  <2>3. d \in used /\ d \in sub[n] /\ key[n] < key[d]
    BY <1>4, <1>5, <2>2
  <2>4. \A x \in used : key[x] < key[d] <=> key[x] < key[n] \/ x = n
    <3> SUFFICES ASSUME NEW x \in used PROVE key[x] < key[d] <=> key[x] < key[n] \/ x = n
      OBVIOUS
    <3>1. CASE x \in sub[right[n]]
      BY <1>3, <1>5, <2>2, <2>3, <3>1
    <3>2. CASE x \in sub[left[n]] \/ x = n
      BY <1>3, <1>5, <2>3, <3>2
    <3>3. CASE x \notin sub[n]
      <4>1. CASE \A y \in sub[n] : key[x] < key[y]
        BY <1>4, <2>3, <4>1
      <4>2. CASE a # NULL /\ key[a] <= key[x]
        <5>1. a \in used /\ key[d] < key[a] /\ key[n] < key[a]
          BY <1>4, <1>6, <2>3, <4>2
        <5>2. ~(key[x] < key[d]) /\ ~(key[x] < key[n])
          BY <1>3, <2>3, <4>2, <5>1
        <5> QED BY <1>4, <3>3, <5>2
      <4> QED BY <1>6, <3>3, <4>1, <4>2
    <3> QED BY <1>4, <3>1, <3>2, <3>3
  <2> QED BY <1>3, <2>3, <2>4 DEF Before
<1>9. CASE right[n] = NULL
  <2>1. d = a /\ sub[n] = {n} \cup sub[left[n]]
    BY <1>4, <1>7, <1>9
  <2>2. CASE d # NULL
    <3>1. d \in used /\ key[n] < key[d]
      BY <1>4, <1>6, <2>1, <2>2
    <3>2. \A x \in used : key[x] < key[d] <=> key[x] < key[n] \/ x = n
      <4> SUFFICES ASSUME NEW x \in used PROVE key[x] < key[d] <=> key[x] < key[n] \/ x = n
        OBVIOUS
      <4>1. CASE x \in sub[n]
        BY <1>5, <1>6, <2>1, <2>2, <3>1, <4>1
      <4>2. CASE x \notin sub[n]
        <5>1. (\A y \in sub[n] : key[x] < key[y]) \/ key[d] <= key[x]
          BY <1>6, <2>1, <4>2
        <5>2. CASE \A y \in sub[n] : key[x] < key[y]
          BY <1>3, <1>4, <3>1, <5>2
        <5>3. CASE key[d] <= key[x]
          BY <1>3, <1>4, <3>1, <4>2, <5>3
        <5> QED BY <5>1, <5>2, <5>3
      <4> QED BY <4>1, <4>2
    <3> QED BY <2>2, <3>1, <3>2 DEF Before
  <2>3. CASE d = NULL
    <3>1. \A x \in used : key[x] < key[n] \/ x = n
      <4> SUFFICES ASSUME NEW x \in used PROVE key[x] < key[n] \/ x = n
        OBVIOUS
      <4>1. CASE x \in sub[n]
        BY <1>5, <2>1, <4>1
      <4>2. CASE x \notin sub[n]
        BY <1>4, <1>6, <2>1, <2>3, <4>2
      <4> QED BY <4>1, <4>2
    <3> QED BY <2>3, <3>1 DEF Before
  <2> QED BY <2>2, <2>3
<1> QED BY <1>8, <1>9

\* The iterator starts at the node nothing is before.
LEMMA FirstInOrder ==
    ASSUME TableInv, root # NULL
    PROVE  LeftMost(root) \in used /\ Before(LeftMost(root)) = {}
<1>1. PICK sub : SearchTree(used, key, left, right, root, sub)
  BY DEF TableInv, Shape
<1>2. root \in used /\ sub[root] = used /\ \A m \in used : key[m] \in Nat
  BY <1>1 DEF SearchTree
<1> DEFINE z == LeftMost(root)
<1>3. z \in used /\ \A m \in used : m # z => key[z] < key[m]
  BY <1>1, <1>2, LeftMostInTree DEF TableInv
<1> HIDE DEF z
<1>4. Before(z) = {}
  BY <1>2, <1>3 DEF Before
<1> QED BY <1>3, <1>4 DEF z

\* An iterator has been at the nodes before its own, of a table whose Parent
\* fields are right.
CursorInv ==
    IF cursor = NULL THEN seen = {}
    ELSE ParentsHold /\ cursor \in used /\ seen = Before(cursor)

LEMMA InitCursor == Init => CursorInv
  BY DEF Init, CursorInv

LEMMA StepCursor ==
    ~IterateAnyway /\ TableInv /\ CursorInv /\ [Next]_vars => CursorInv'
<1> SUFFICES ASSUME ~IterateAnyway, TableInv, CursorInv, [Next]_vars PROVE CursorInv'
  OBVIOUS
<1>1. ASSUME cursor = NULL, UNCHANGED <<cursor, seen>> PROVE CursorInv'
  BY <1>1 DEF CursorInv
<1>2. ASSUME NEW k \in Keys, NEW v \in Values, NEW n \in Nodes,
             SetFirst(n, k, v) \/ SetBelow(n, k, v)
      PROVE  CursorInv'
  BY <1>1, <1>2 DEF SetFirst, SetBelow, iterator
<1>3. ASSUME NEW k \in Keys, NEW v \in Values, SetAgain(k, v) PROVE CursorInv'
  BY <1>1, <1>3 DEF SetAgain, iterator
<1>4. ASSUME NEW k \in Keys, Remove(k) \/ RemoveMiss(k) PROVE CursorInv'
  BY <1>1, <1>4 DEF Remove, RemoveMiss, iterator
<1>5. CASE Clear
  BY <1>1, <1>5 DEF Clear, iterator
<1>6. CASE CreateIterator
  <2>1. /\ cursor' = LeftMost(root) /\ seen' = {} /\ root # NULL /\ ParentsHold
        /\ UNCHANGED <<used, key, parent, left, right, root>>
    BY <1>6 DEF CreateIterator, fields
  <2>2. LeftMost(root) \in used /\ Before(LeftMost(root)) = {}
    BY <2>1, FirstInOrder
  <2>3. LeftMost(root) # NULL
    BY <2>2, FiniteUsed, HashtableAssumption DEF TableInv
  <2> QED BY <2>1, <2>2, <2>3 DEF CursorInv, Before, ParentsHold
<1>7. CASE IteratorNext
  <2> DEFINE d == IF right[cursor] # NULL THEN LeftMost(right[cursor]) ELSE Up(cursor)
  <2>1. /\ cursor # NULL /\ cursor' = d
        /\ seen' = IF cursor' = NULL THEN {} ELSE seen \cup {cursor}
        /\ UNCHANGED <<used, key, parent, left, right, root>>
    BY <1>7 DEF IteratorNext, fields
  <2>2. ParentsHold /\ cursor \in used /\ seen = Before(cursor)
    BY <2>1 DEF CursorInv
  <2>3. /\ d \in used \cup {NULL}
        /\ d # NULL => Before(d) = Before(cursor) \cup {cursor}
    BY <2>2, NextInOrder
  <2> HIDE DEF d
  <2>4. CASE d = NULL
    BY <2>1, <2>4 DEF CursorInv
  <2>5. CASE d # NULL
    <3>1. cursor' # NULL /\ ParentsHold' /\ cursor' \in used' /\ seen' = Before(d)
      BY <2>1, <2>2, <2>3, <2>5 DEF ParentsHold
    <3>2. Before(cursor)' = Before(d)
      BY <2>1 DEF Before
    <3> QED BY <3>1, <3>2 DEF CursorInv
  <2> QED BY <2>4, <2>5
<1>8. CASE UNCHANGED vars
  BY <1>8 DEF vars, fields, iterator, CursorInv, Before, ParentsHold
<1> QED BY <1>2, <1>3, <1>4, <1>5, <1>6, <1>7, <1>8 DEF Next

LEMMA AlwaysCursor ==
    ASSUME ~IterateAnyway
    PROVE  Spec => [](TableInv /\ CursorInv)
<1>1. Init => TableInv /\ CursorInv
  BY InitTable, InitCursor
<1>2. TableInv /\ CursorInv /\ [Next]_vars => (TableInv /\ CursorInv)'
  BY StepTable, StepCursor
<1> QED BY <1>1, <1>2, PTL DEF Spec

\* The Parent fields are right in every table that no key was removed from, as
\* the tables of functions are, which AdrenoScript_Save, AdrenoScript_Free and
\* AdrenoVM_Free iterate over.
THEOREM ParentsHoldAtFirst == Spec => [](~removed => ParentsHold)
<1>1. TableInv => (~removed => ParentsHold)
  BY DEF TableInv
<1> QED BY <1>1, AlwaysTable, PTL

\* The variables of a table that is only iterated over while its Parent fields
\* are right have their types; else the cursor may be where no field says what
\* follows.
THEOREM TableTyped ==
    ASSUME ~IterateAnyway
    PROVE  Spec => []TypeOK
<1>1. TableInv /\ CursorInv => TypeOK
  BY FiniteUsed DEF TableInv, CursorInv, FieldsTyped, TypeOK, Pointers, Before
<1> QED BY <1>1, AlwaysCursor, PTL

\* An iterator over a table whose Parent fields are right, whatever has been set
\* and removed, is at every node once, in the order of the keys, and ends.
THEOREM TableIteratesInOrder ==
    ASSUME ~IterateAnyway
    PROVE  Spec => IteratesInOrder
<1> DEFINE A == /\ cursor' # NULL =>
                      cursor' \in Tree(root) /\ \A n \in seen' : key[n] < key[cursor']
                /\ cursor # NULL /\ cursor' = NULL => seen \cup {cursor} = Tree(root)
<1>1. TableInv /\ CursorInv /\ [Next]_vars => [A]_vars
  <2> SUFFICES ASSUME TableInv, CursorInv, Next PROVE A
    OBVIOUS
  <2>1. Tree(root) = used
    BY TreeIsSub DEF TableInv, Shape
  <2>2. ASSUME cursor = NULL, cursor' = cursor PROVE A
    BY <2>2
  <2>3. ASSUME NEW k \in Keys, NEW v \in Values, NEW n \in Nodes,
               SetFirst(n, k, v) \/ SetBelow(n, k, v)
        PROVE  A
    <3>1. cursor = NULL /\ cursor' = cursor
      BY <2>3 DEF SetFirst, SetBelow, iterator
    <3> HIDE DEF A
    <3> QED BY <2>2, <3>1
  <2>4. ASSUME NEW k \in Keys, NEW v \in Values, SetAgain(k, v) PROVE A
    <3>1. cursor = NULL /\ cursor' = cursor
      BY <2>4 DEF SetAgain, iterator
    <3> HIDE DEF A
    <3> QED BY <2>2, <3>1
  <2>5. ASSUME NEW k \in Keys, Remove(k) \/ RemoveMiss(k) PROVE A
    <3>1. cursor = NULL /\ cursor' = cursor
      BY <2>5 DEF Remove, RemoveMiss, iterator
    <3> HIDE DEF A
    <3> QED BY <2>2, <3>1
  <2>6. CASE Clear
    <3>1. cursor = NULL /\ cursor' = cursor
      BY <2>6 DEF Clear, iterator
    <3> HIDE DEF A
    <3> QED BY <2>2, <3>1
  <2>7. CASE CreateIterator
    <3>1. cursor = NULL /\ cursor' = LeftMost(root) /\ seen' = {} /\ root # NULL
      BY <2>7 DEF CreateIterator
    <3>2. LeftMost(root) \in used
      BY <3>1, FirstInOrder
    <3> QED BY <2>1, <3>1, <3>2
  <2>8. CASE IteratorNext
    <3> DEFINE d == IF right[cursor] # NULL THEN LeftMost(right[cursor]) ELSE Up(cursor)
    <3>1. /\ cursor # NULL /\ cursor' = d
          /\ seen' = IF cursor' = NULL THEN {} ELSE seen \cup {cursor}
      BY <2>8 DEF IteratorNext
    <3>2. ParentsHold /\ cursor \in used /\ seen = Before(cursor)
      BY <3>1 DEF CursorInv
    <3>3. /\ d \in used \cup {NULL}
          /\ d # NULL => Before(d) = Before(cursor) \cup {cursor}
          /\ d = NULL => used = Before(cursor) \cup {cursor}
      BY <3>2, NextInOrder
    <3> HIDE DEF d
    <3>4. cursor' # NULL => \A n \in seen' : key[n] < key[cursor']
      BY <3>1, <3>2, <3>3 DEF Before
    <3> QED BY <2>1, <3>1, <3>2, <3>3, <3>4
  <2> HIDE DEF A
  <2> QED BY <2>3, <2>4, <2>5, <2>6, <2>7, <2>8 DEF Next
<1> QED BY <1>1, AlwaysCursor, PTL DEF Spec, IteratesInOrder
=============================================================================
