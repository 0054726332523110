------------------------- MODULE AdrenoArraysProofs -------------------------
(* For all cells, keys and sizes: counters of strings and arrays are exact   *)
(* and memory is sound until an element is loaded or an array is freed that  *)
(* OP_RMELEM has tangled, and element cells of references are never given    *)
(* back.                                                                     *)
EXTENDS AdrenoArrays, FiniteSetTheorems, SequenceTheorems, WellFoundedInduction, TLAPS

Records == OfType(Types \ {"array"}) \cup Arrays

\* What is true of a heap at any time, in any state.
HeapOK(h) ==
    /\ h = [cell |-> h.cell, fault |-> h.fault, values |-> h.values, freeing |-> h.freeing]
    /\ h.cell \in [Cells -> Records]
    /\ h.fault \in {"RUN", "CRASH", "WILD"}
    /\ h.values \in Seq(Values)
    /\ h.freeing \in Seq([array : Cells, keys : SUBSET Keys])
    /\ \A i \in DOMAIN h.freeing :
          /\ h.cell[h.freeing[i].array].type # "ref"
          /\ h.cell[h.freeing[i].array].type = "array" =>
                h.freeing[i].keys \subseteq Elements(h.cell[h.freeing[i].array])

\* Releasing changes counters and gives cells back, but no reference's.
Shrinks(old, new) ==
    \A c \in Cells :
        \/ old[c].type # "ref" /\ new[c] = FreeCell
        \/ /\ new[c].type = old[c].type /\ new[c].to = old[c].to
           /\ new[c].type = "array" => new[c].elems = old[c].elems
           /\ new[c].type \in Reused => new[c] = old[c]

-----------------------------------------------------------------------------
(* Records and counting.                                                     *)

LEMMA RcFacts ==
    /\ RcMod \in Nat \ {0, 1} /\ 0 \in 0..(RcMod - 1) /\ 1 \in 0..(RcMod - 1)
    /\ \A x \in Int : x % RcMod \in 0..(RcMod - 1)
<1>1. RcMod \in Nat \ {0, 1}
  BY ArraysAssumption
<1>2. \A x \in Int : x % RcMod \in 0..(RcMod - 1)
  BY <1>1
<1> QED BY <1>1, <1>2

LEMMA RecordFacts ==
    ASSUME NEW v \in Records
    PROVE  /\ v.type \in Types /\ v.to \in Cells \cup {None} /\ v.rc \in 0..(RcMod - 1)
           /\ v.flags \in SUBSET {"FREE", "COLLECT"}
           /\ v.type = "ref" <=> v.to \in Cells
           /\ v.type = "array" => v \in Arrays
           /\ v.type # "array" => v = [type |-> v.type, to |-> v.to, rc |-> v.rc, flags |-> v.flags]
<1>1. CASE v \in Arrays
  BY <1>1, ArraysAssumption DEF Arrays, Types
<1>2. CASE v \in OfType(Types \ {"array"})
  BY <1>2 DEF OfType, Types
<1> QED BY <1>1, <1>2 DEF Records

LEMMA Recounted ==
    ASSUME NEW v \in Records, NEW n \in 0..(RcMod - 1)
    PROVE  LET w == [v EXCEPT !.rc = n]
           IN  /\ w \in Records /\ w.type = v.type /\ w.to = v.to /\ w.rc = n /\ w.flags = v.flags
               /\ v.type = "array" => w.elems = v.elems /\ w.key = v.key
<1>1. CASE v \in Arrays
  BY <1>1 DEF Arrays, Records
<1>2. CASE v \in OfType(Types \ {"array"})
  BY <1>2 DEF OfType, Records
<1> QED BY <1>1, <1>2 DEF Records

LEMMA LeastNatural ==
    ASSUME NEW S \in SUBSET Nat, S # {}
    PROVE  \E n \in S : \A m \in S : n <= m
<1> DEFINE T == {0..n : n \in S}
<1>1. T \subseteq FiniteSubsetsOf(Nat) /\ T # {}
  <2>1. \A n \in S : 0..n \in SUBSET Nat /\ IsFiniteSet(0..n)
    BY FS_Interval
  <2> QED BY <2>1 DEF FiniteSubsetsOf
<1>2. PICK x \in T : \A y \in T : <<y, x>> \notin StrictSubsetOrdering(Nat)
  <2> HIDE DEF T
  <2> QED BY <1>1, FS_StrictSubsetOrderingWellFounded, WFMin
<1>3. PICK n \in S : x = 0..n
  BY <1>2
<1> SUFFICES ASSUME NEW m \in S, m < n PROVE FALSE
  OBVIOUS
<1>4. <<0..m, 0..n>> \notin StrictSubsetOrdering(Nat)
  BY <1>2, <1>3
<1>5. 0..m \subseteq 0..n /\ n \in 0..n /\ n \notin 0..m /\ 0..n \subseteq Nat
  OBVIOUS
<1> QED BY <1>4, <1>5 DEF StrictSubsetOrdering

LEMMA LeastIn ==
    ASSUME NEW K \in SUBSET Keys, K # {}
    PROVE  Least(K) \in K
<1>1. K \in SUBSET Nat
  BY KeyTreeAssumption
<1>2. \E n \in K : \A m \in K : n <= m
  BY <1>1, LeastNatural
<1> QED BY <1>2 DEF Least

\* What a store or a removal makes of the tree of a table is a tree.
LEMMA TreeFacts ==
    /\ EmptyTree \in Trees
    /\ \A t \in Trees, k \in Keys : Planted(t, k) \in Trees /\ Pruned(t, k) \in Trees
<1>1. EmptyTree \in Trees
  BY DEF EmptyTree, Trees
<1>2. ASSUME NEW t \in Trees, NEW k \in Keys PROVE Planted(t, k) \in Trees
  <2> DEFINE above == IF Ends(t, k) = {} THEN None ELSE CHOOSE p \in Ends(t, k) : TRUE
  <2>1. above \in Keys \cup {None}
    <3>1. Ends(t, k) \subseteq Keys
      BY DEF Ends, Trees
    <3>2. Ends(t, k) # {} => (CHOOSE p \in Ends(t, k) : TRUE) \in Ends(t, k)
      OBVIOUS
    <3> QED BY <3>1, <3>2
  <2> HIDE DEF above
  <2>2. k \notin t.keys => [t EXCEPT !.keys = @ \cup {k}, !.up[k] = above] \in Trees
    BY <2>1 DEF Trees
  <2> QED BY <2>2 DEF Planted, above
<1>3. ASSUME NEW t \in Trees, NEW k \in Keys PROVE Pruned(t, k) \in Trees
  <2> DEFINE gone == Gone(t, k)
             Renamed(p) == IF p = k THEN gone ELSE p
             up == [j \in Keys |->
                      IF j = k THEN None
                      ELSE IF j = gone THEN t.up[k]
                      ELSE IF t.up[j] = gone THEN Renamed(t.up[gone])
                      ELSE Renamed(t.up[j])]
  <2>1. CASE k \notin t.keys
    BY <2>1 DEF Pruned
  <2>2. CASE k \in t.keys
    <3>1. t.keys \in SUBSET Keys /\ t.up \in [Keys -> Keys \cup {None}]
      BY DEF Trees
    <3>2. gone \in Keys
      <4>1. CASE \E i, j \in Children(t, k) : i < k /\ k < j
        <5>1. {j \in t.keys : j > k} \in SUBSET Keys /\ {j \in t.keys : j > k} # {}
          <6>1. PICK j \in Children(t, k) : k < j
            BY <4>1
          <6>2. j \in t.keys /\ j \in Nat /\ k \in Nat
            BY <3>1, <6>1, KeyTreeAssumption DEF Children
          <6>3. j > k
            BY <6>1, <6>2
          <6> QED BY <3>1, <6>2, <6>3
        <5>2. Least({j \in t.keys : j > k}) \in {j \in t.keys : j > k}
          BY <5>1, LeastIn
        <5> QED BY <3>1, <4>1, <5>2 DEF Gone
      <4>2. CASE ~\E i, j \in Children(t, k) : i < k /\ k < j
        <5>1. gone = k
          BY <4>2 DEF Gone
        <5> QED BY <5>1
      <4> QED BY <4>1, <4>2
    <3>3. StaleAfter(t, k) \in SUBSET Keys
      BY <3>1 DEF StaleAfter
    <3>4. up \in [Keys -> Keys \cup {None}]
      <4> HIDE DEF gone
      <4> QED BY <3>1, <3>2
    <3>5. Pruned(t, k) = [keys |-> t.keys \ {k}, up |-> up, stale |-> StaleAfter(t, k)]
      BY <2>2 DEF Pruned
    <3> HIDE DEF up
    <3> QED BY <3>1, <3>3, <3>4, <3>5 DEF Trees
  <2> QED BY <2>1, <2>2
<1> QED BY <1>1, <1>2, <1>3

LEMMA FreeFacts ==
    /\ FreeCell \in Records /\ FreeCell.type = "free" /\ FreeCell.to = None
    /\ FreeCell.rc = 0 /\ FreeCell.flags = {}
BY RcFacts, ArraysAssumption DEF FreeCell, Records, OfType, Types

\* Cells of S that refer to o.
Tos(S, cells, o) == Cardinality({c \in S : cells[c].to = o})

LEMMA TosType ==
    ASSUME NEW S \in SUBSET Cells, NEW f, NEW o
    PROVE  Tos(S, f, o) \in Nat /\ IsFiniteSet(S) /\ Tos(S, f, o) <= Cardinality(S)
<1>1. IsFiniteSet(S) /\ {c \in S : f[c].to = o} \subseteq S
  BY ArraysAssumption, FS_Subset
<1> QED BY <1>1, FS_Subset, FS_CardinalityType DEF Tos

LEMMA TosSame ==
    ASSUME NEW S, NEW f, NEW g, NEW o, \A c \in S : f[c].to = g[c].to
    PROVE  Tos(S, f, o) = Tos(S, g, o)
<1>1. {c \in S : f[c].to = o} = {c \in S : g[c].to = o}
  OBVIOUS
<1> QED BY <1>1 DEF Tos

\* How many references to o are in v.
Hits(v, o) == IF v.to = o THEN 1 ELSE 0

LEMMA HitsType == \A v, o : Hits(v, o) \in {0, 1} /\ Hits(v, o) \in Nat
BY DEF Hits

LEMMA TosMore ==
    ASSUME NEW S \in SUBSET Cells, NEW e \in Cells, e \notin S, NEW f, NEW o
    PROVE  Tos(S \cup {e}, f, o) = Tos(S, f, o) + Hits(f[e], o)
<1> DEFINE A == {c \in S : f[c].to = o}
           B == {c \in S \cup {e} : f[c].to = o}
<1>1. IsFiniteSet(A) /\ Cardinality(A) \in Nat /\ e \notin A
  <2>1. IsFiniteSet(S) /\ A \subseteq S
    BY TosType
  <2> QED BY <2>1, FS_Subset, FS_CardinalityType
<1>2. CASE f[e].to = o
  <2>1. B = A \cup {e}
    BY <1>2
  <2> HIDE DEF A, B
  <2>2. Cardinality(B) = Cardinality(A) + 1
    BY <1>1, <2>1, FS_AddElement
  <2> QED BY <1>2, <2>2 DEF Tos, Hits, A, B
<1>3. CASE f[e].to # o
  <2>1. B = A
    BY <1>3
  <2>2. Cardinality(B) = Cardinality(A)
    BY <2>1
  <2> QED BY <1>1, <1>3, <2>2 DEF Tos, Hits
<1> QED BY <1>2, <1>3

LEMMA TosOne ==
    ASSUME NEW S \in SUBSET Cells, NEW f, NEW c \in S
    PROVE  Tos(S, f, f[c].to) > 0
<1>1. S \ {c} \in SUBSET Cells /\ c \in Cells /\ c \notin S \ {c} /\ (S \ {c}) \cup {c} = S
  OBVIOUS
<1>2. Tos((S \ {c}) \cup {c}, f, f[c].to) = Tos(S \ {c}, f, f[c].to) + 1
  BY <1>1, TosMore DEF Hits
<1>3. Tos(S \ {c}, f, f[c].to) \in Nat
  BY <1>1, TosType
<1> QED BY <1>1, <1>2, <1>3

-----------------------------------------------------------------------------
(* Values that refer to a cell.                                              *)

LEMMA PointingType ==
    ASSUME NEW V, NEW s \in Seq(V), NEW o
    PROVE  /\ Pointing(s, o) \in Nat /\ Pointing(s, o) <= Len(s)
           /\ IsFiniteSet({i \in DOMAIN s : s[i].to = o})
<1>1. DOMAIN s = 1..Len(s) /\ Len(s) \in Nat
  OBVIOUS
<1>2. IsFiniteSet(1..Len(s)) /\ Cardinality(1..Len(s)) = Len(s)
  BY <1>1, FS_Interval
<1> DEFINE A == {i \in DOMAIN s : s[i].to = o}
<1>3. A \subseteq 1..Len(s)
  BY <1>1
<1> HIDE DEF A
<1>4. IsFiniteSet(A) /\ Cardinality(A) <= Cardinality(1..Len(s)) /\ Cardinality(A) \in Nat
  BY <1>2, <1>3, FS_Subset, FS_CardinalityType
<1> QED BY <1>2, <1>4 DEF Pointing, A

LEMMA PointingNone == \A o : Pointing(<<>>, o) = 0
<1> TAKE o
<1>1. {i \in DOMAIN <<>> : <<>>[i].to = o} = {}
  OBVIOUS
<1> QED BY <1>1, FS_EmptySet DEF Pointing

LEMMA PointingBoth ==
    ASSUME NEW V, NEW s \in Seq(V), NEW t \in Seq(V), NEW o
    PROVE  Pointing(s \o t, o) = Pointing(s, o) + Pointing(t, o)
<1> DEFINE n == Len(s)
           u == s \o t
           A == {i \in DOMAIN s : s[i].to = o}
           B == {i \in DOMAIN t : t[i].to = o}
           C == {i \in DOMAIN u : u[i].to = o}
           D == {i \in C : i > n}
           shift == [i \in B |-> n + i]
<1>1. /\ n \in Nat /\ Len(t) \in Nat /\ DOMAIN s = 1..n /\ DOMAIN t = 1..Len(t)
      /\ DOMAIN u = 1..(n + Len(t))
      /\ \A i \in 1..n : u[i] = s[i]
      /\ \A i \in 1..Len(t) : u[n + i] = t[i]
  <2>1. /\ u \in Seq(V) /\ Len(u) = Len(s) + Len(t)
        /\ \A i \in 1..(Len(s) + Len(t)) : u[i] = IF i <= Len(s) THEN s[i] ELSE t[i - Len(s)]
    BY ConcatProperties
  <2>2. n \in Nat /\ Len(t) \in Nat /\ DOMAIN s = 1..n /\ DOMAIN t = 1..Len(t)
    OBVIOUS
  <2>3. DOMAIN u = 1..(n + Len(t))
    BY <2>1
  <2> HIDE DEF u
  <2>4. ASSUME NEW i \in 1..n PROVE u[i] = s[i]
    BY <2>1, <2>2
  <2>5. ASSUME NEW i \in 1..Len(t) PROVE u[n + i] = t[i]
    <3>1. n + i \in 1..(n + Len(t)) /\ ~(n + i <= n) /\ (n + i) - n = i
      BY <2>2
    <3> QED BY <2>1, <3>1
  <2> QED BY <2>2, <2>3, <2>4, <2>5
<1>2. IsFiniteSet(A) /\ IsFiniteSet(B) /\ Cardinality(A) \in Nat /\ Cardinality(B) \in Nat
  BY PointingType, FS_CardinalityType
<1> HIDE DEF u
<1>3. C = A \cup D /\ A \cap D = {}
  BY <1>1
<1>4. D = {shift[i] : i \in B}
  <2>1. ASSUME NEW i \in D PROVE i - n \in B /\ i = shift[i - n]
    BY <1>1
  <2>2. ASSUME NEW i \in B PROVE shift[i] \in D
    BY <1>1
  <2> QED BY <2>1, <2>2
<1>5. IsFiniteSet(D) /\ Cardinality(D) = Cardinality(B)
  <2>1. shift \in Bijection(B, D)
    <3>1. \A i, j \in B : shift[i] = shift[j] => i = j
      BY <1>1
    <3>2. shift \in [B -> D]
      BY <1>4
    <3> HIDE DEF shift, B, D
    <3> QED BY <1>4, <3>1, <3>2 DEF Bijection, Injection, Surjection, IsInjective
  <2> HIDE DEF shift, B, D
  <2> QED BY <1>2, <2>1, FS_Bijection DEF ExistsBijection
<1> HIDE DEF A, B, C, D, n
<1>6. Cardinality(A \cup D) = Cardinality(A) + Cardinality(D) - Cardinality(A \cap D)
  BY <1>2, <1>5, FS_Union
<1>7. Cardinality(C) = Cardinality(A) + Cardinality(B)
  <2>1. Cardinality(A \cap D) = 0
    BY <1>3, FS_EmptySet
  <2> QED BY <1>2, <1>3, <1>5, <1>6, <2>1
<1> QED BY <1>7 DEF Pointing, A, B, C, u

LEMMA PointingOne ==
    ASSUME NEW v, NEW o
    PROVE  Pointing(<<v>>, o) = Hits(v, o)
<1>1. CASE v.to = o
  <2>1. {i \in DOMAIN <<v>> : <<v>>[i].to = o} = {1}
    BY <1>1
  <2> QED BY <1>1, <2>1, FS_Singleton DEF Pointing, Hits
<1>2. CASE v.to # o
  <2>1. {i \in DOMAIN <<v>> : <<v>>[i].to = o} = {}
    BY <1>2
  <2> QED BY <1>2, <2>1, FS_EmptySet DEF Pointing, Hits
<1> QED BY <1>1, <1>2

LEMMA PointingSome ==
    ASSUME NEW V, NEW s \in Seq(V), NEW i \in DOMAIN s
    PROVE  Pointing(s, s[i].to) > 0
<1> DEFINE A == {j \in DOMAIN s : s[j].to = s[i].to}
<1>1. IsFiniteSet(A) /\ Cardinality(A) \in Nat /\ i \in A
  BY PointingType, FS_CardinalityType
<1>2. Cardinality(A) # 0
  BY <1>1, FS_EmptySet
<1> QED BY <1>1, <1>2 DEF Pointing

-----------------------------------------------------------------------------
(* What one step of a release does to the heap, in any state.                *)

HeapOf(cells, fault, values, freeing) ==
    [cell |-> cells, fault |-> fault, values |-> values, freeing |-> freeing]

LEMMA DereferenceIs ==
    ASSUME NEW h, HeapOK(h), NEW o \in Cells
    PROVE  LET c == h.cell[o]
               less == (c.rc - 1) % RcMod
               r == Dereference(h, o)
           IN  \/ c.type \in Reused /\ r = HeapOf(h.cell, "WILD", h.values, h.freeing)
               \/ /\ c.type \notin Reused /\ less # 0
                  /\ r = HeapOf([h.cell EXCEPT ![o] = [c EXCEPT !.rc = less]],
                                h.fault, h.values, h.freeing)
               \/ /\ c.type \notin Reused \cup {"array"} /\ less = 0
                  /\ r = HeapOf([h.cell EXCEPT ![o] = FreeCell], h.fault, h.values, h.freeing)
               \/ /\ c.type = "array" /\ less = 0 /\ Elements(c) = {}
                  /\ r = HeapOf(h.cell, "CRASH", h.values, h.freeing)
               \/ /\ c.type = "array" /\ less = 0 /\ Elements(c) # {}
                  /\ r = HeapOf([h.cell EXCEPT ![o] = [c EXCEPT !.rc = 0]], h.fault, h.values,
                                <<[array |-> o, keys |-> Elements(c)]>> \o h.freeing)
<1> DEFINE c == h.cell[o]
           less == (c.rc - 1) % RcMod
           r == Dereference(h, o)
<1>1. h = HeapOf(h.cell, h.fault, h.values, h.freeing)
  BY DEF HeapOK, HeapOf
<1>2. CASE c.type \in Reused
  <2>1. r = Failed(h, "WILD")
    BY <1>2 DEF Dereference, Reused
  <2>2. Failed(h, "WILD") = HeapOf(h.cell, "WILD", h.values, h.freeing)
    BY <1>1 DEF Failed, HeapOf
  <2> QED BY <1>2, <2>1, <2>2
<1>3. CASE c.type \notin Reused /\ less # 0
  <2>1. r = [h EXCEPT !.cell[o].rc = less]
    <3>1. ~(c.type \in Reused) /\ less # 0
      BY <1>3
    <3> QED BY <3>1 DEF Dereference
  <2> HIDE DEF r, less
  <2>2. r = HeapOf([h.cell EXCEPT ![o] = [c EXCEPT !.rc = less]], h.fault, h.values, h.freeing)
    BY <1>1, <2>1 DEF HeapOf
  <2> QED BY <1>3, <2>2 DEF r, less
<1>4. CASE c.type \notin Reused \cup {"array"} /\ less = 0
  <2>1. r = [h EXCEPT !.cell[o] = FreeCell]
    BY <1>4 DEF Dereference
  <2> HIDE DEF r, less
  <2>2. r = HeapOf([h.cell EXCEPT ![o] = FreeCell], h.fault, h.values, h.freeing)
    BY <1>1, <2>1 DEF HeapOf
  <2> QED BY <1>4, <2>2 DEF r, less
<1>5. CASE c.type = "array" /\ less = 0 /\ Elements(c) = {}
  <2>1. r = Failed(h, "CRASH")
    BY <1>5 DEF Dereference, Reused
  <2>2. Failed(h, "CRASH") = HeapOf(h.cell, "CRASH", h.values, h.freeing)
    BY <1>1 DEF Failed, HeapOf
  <2> QED BY <1>5, <2>1, <2>2
<1>6. CASE c.type = "array" /\ less = 0 /\ Elements(c) # {}
  <2> DEFINE E == Elements(c)
  <2>1. r = [h EXCEPT !.cell[o].rc = 0, !.freeing = <<[array |-> o, keys |-> E]>> \o @]
    BY <1>6 DEF Dereference, Reused
  <2> HIDE DEF r, less, E
  <2>2. r = HeapOf([h.cell EXCEPT ![o] = [c EXCEPT !.rc = 0]], h.fault, h.values,
                   <<[array |-> o, keys |-> E]>> \o h.freeing)
    BY <1>1, <2>1 DEF HeapOf
  <2> QED BY <1>6, <2>2 DEF r, less, E
<1> QED BY <1>2, <1>3, <1>4, <1>5, <1>6

\* A cell in a heap replaced by one of the same kind, or by a free one.
LEMMA PutFacts ==
    ASSUME NEW f \in [Cells -> Records], NEW o \in Cells, NEW v \in Records
    PROVE  LET g == [f EXCEPT ![o] = v]
           IN  g \in [Cells -> Records] /\ g[o] = v /\ \A c \in Cells : c # o => g[c] = f[c]
OBVIOUS

LEMMA ElementsAgree ==
    ASSUME NEW v, NEW w, v.elems = w.elems
    PROVE  Elements(v) = Elements(w)
BY DEF Elements

LEMMA FreeingMore ==
    ASSUME NEW F, NEW s \in Seq(F), NEW f \in F
    PROVE  LET t == <<f>> \o s
           IN  /\ t \in Seq(F) /\ DOMAIN t = 1..(Len(s) + 1) /\ Len(t) = Len(s) + 1
               /\ t[1] = f /\ \A i \in DOMAIN s : t[i + 1] = s[i]
               /\ \A i \in DOMAIN t : i = 1 \/ (i - 1 \in DOMAIN s /\ t[i] = s[i - 1])
<1> DEFINE t == <<f>> \o s
<1>1. <<f>> \in Seq(F) /\ Len(<<f>>) = 1 /\ <<f>>[1] = f
  OBVIOUS
<1>2. /\ t \in Seq(F) /\ Len(t) = 1 + Len(s)
      /\ \A i \in 1..(1 + Len(s)) : t[i] = IF i <= 1 THEN <<f>>[i] ELSE s[i - 1]
  BY <1>1, ConcatProperties
<1>3. Len(s) \in Nat /\ DOMAIN s = 1..Len(s)
  OBVIOUS
<1> HIDE DEF t
<1>4. DOMAIN t = 1..(Len(s) + 1)
  BY <1>2, <1>3
<1>5. t[1] = f
  BY <1>1, <1>2, <1>3
<1>6. ASSUME NEW i \in DOMAIN t, i # 1 PROVE i - 1 \in DOMAIN s /\ t[i] = s[i - 1]
  BY <1>2, <1>3, <1>4, <1>6
<1>7. ASSUME NEW i \in DOMAIN s PROVE t[i + 1] = s[i]
  <2>1. i + 1 \in DOMAIN t /\ i + 1 # 1 /\ (i + 1) - 1 = i
    BY <1>3, <1>4
  <2> QED BY <1>6, <2>1
<1> QED BY <1>2, <1>3, <1>4, <1>5, <1>6, <1>7 DEF t

Frames == [array : Cells, keys : SUBSET Keys]

\* The frames' part of HeapOK.
FramesOK(cells, freeing) ==
    \A i \in DOMAIN freeing :
        /\ cells[freeing[i].array].type # "ref"
        /\ cells[freeing[i].array].type = "array" =>
              freeing[i].keys \subseteq Elements(cells[freeing[i].array])

LEMMA HeapIs ==
    ASSUME NEW cells \in [Cells -> Records], NEW fault \in {"RUN", "CRASH", "WILD"},
           NEW values \in Seq(Values), NEW freeing \in Seq(Frames), FramesOK(cells, freeing)
    PROVE  LET h == HeapOf(cells, fault, values, freeing)
           IN  /\ HeapOK(h)
               /\ h.cell = cells /\ h.fault = fault /\ h.values = values /\ h.freeing = freeing
BY DEF HeapOK, HeapOf, FramesOK, Frames

LEMMA FramesStay ==
    ASSUME NEW old \in [Cells -> Records], NEW new \in [Cells -> Records], Shrinks(old, new),
           NEW freeing \in Seq(Frames), FramesOK(old, freeing)
    PROVE  FramesOK(new, freeing)
<1> SUFFICES ASSUME NEW i \in DOMAIN freeing
             PROVE  LET a == freeing[i].array
                    IN  /\ new[a].type # "ref"
                        /\ new[a].type = "array" => freeing[i].keys \subseteq Elements(new[a])
  BY DEF FramesOK
<1> DEFINE a == freeing[i].array
<1>1. freeing[i] \in Frames
  OBVIOUS
<1>2. a \in Cells
  BY <1>1 DEF Frames
<1>3. /\ old[a].type # "ref"
      /\ old[a].type = "array" => freeing[i].keys \subseteq Elements(old[a])
  BY DEF FramesOK
<1>4. \/ new[a] = FreeCell
      \/ new[a].type = old[a].type /\ (new[a].type = "array" => new[a].elems = old[a].elems)
  BY <1>2 DEF Shrinks
<1> HIDE DEF a
<1>5. CASE new[a] = FreeCell
  BY <1>5, FreeFacts DEF a
<1>6. CASE new[a].type = old[a].type /\ (new[a].type = "array" => new[a].elems = old[a].elems)
  BY <1>3, <1>6, ElementsAgree DEF a
<1> QED BY <1>4, <1>5, <1>6

LEMMA ShrinksBy ==
    ASSUME NEW f \in [Cells -> Records], NEW o \in Cells, NEW v \in Records,
           f[o].type # "ref",
           \/ v = FreeCell
           \/ /\ f[o].type \notin Reused
              /\ v.type = f[o].type /\ v.to = f[o].to
              /\ v.type = "array" => v.elems = f[o].elems
    PROVE  Shrinks(f, [f EXCEPT ![o] = v])
<1> DEFINE g == [f EXCEPT ![o] = v]
<1>1. g[o] = v /\ \A c \in Cells : c # o => g[c] = f[c]
  BY PutFacts
<1> HIDE DEF g
<1>2. ASSUME NEW c \in Cells
      PROVE  \/ f[c].type # "ref" /\ g[c] = FreeCell
             \/ /\ g[c].type = f[c].type /\ g[c].to = f[c].to
                /\ g[c].type = "array" => g[c].elems = f[c].elems
                /\ g[c].type \in Reused => g[c] = f[c]
  <2>1. CASE c # o
    BY <1>1, <2>1
  <2>2. CASE c = o
    BY <1>1, <2>2
  <2> QED BY <2>1, <2>2
<1> QED BY <1>2 DEF Shrinks, g

LEMMA ShrinksTransitive ==
    ASSUME NEW f, NEW g, NEW h, Shrinks(f, g), Shrinks(g, h)
    PROVE  Shrinks(f, h)
<1> SUFFICES ASSUME NEW c \in Cells
             PROVE  \/ f[c].type # "ref" /\ h[c] = FreeCell
                    \/ /\ h[c].type = f[c].type /\ h[c].to = f[c].to
                       /\ h[c].type = "array" => h[c].elems = f[c].elems
                       /\ h[c].type \in Reused => h[c] = f[c]
  BY DEF Shrinks
<1>1. /\ \/ f[c].type # "ref" /\ g[c] = FreeCell
         \/ /\ g[c].type = f[c].type /\ g[c].to = f[c].to
            /\ g[c].type = "array" => g[c].elems = f[c].elems
            /\ g[c].type \in Reused => g[c] = f[c]
      /\ \/ g[c].type # "ref" /\ h[c] = FreeCell
         \/ /\ h[c].type = g[c].type /\ h[c].to = g[c].to
            /\ h[c].type = "array" => h[c].elems = g[c].elems
            /\ h[c].type \in Reused => h[c] = g[c]
  BY DEF Shrinks
<1> USE FreeFacts DEF Reused
<1> QED BY <1>1

LEMMA ShrinksNot == \A f : Shrinks(f, f)
BY DEF Shrinks

LEMMA HeapParts ==
    ASSUME NEW h, HeapOK(h)
    PROVE  /\ h = HeapOf(h.cell, h.fault, h.values, h.freeing)
           /\ h.cell \in [Cells -> Records] /\ h.fault \in {"RUN", "CRASH", "WILD"}
           /\ h.values \in Seq(Values) /\ h.freeing \in Seq(Frames) /\ FramesOK(h.cell, h.freeing)
BY DEF HeapOK, HeapOf, Frames, FramesOK

\* A step that leaves the frames as they are, or puts another in front.
LEMMA ShrunkHeap ==
    ASSUME NEW h, HeapOK(h), NEW cells \in [Cells -> Records], Shrinks(h.cell, cells),
           NEW fault \in {"RUN", "CRASH", "WILD"}
    PROVE  LET r == HeapOf(cells, fault, h.values, h.freeing)
           IN  HeapOK(r) /\ r.values = h.values /\ r.cell = cells /\ r.fault = fault
               /\ r.freeing = h.freeing
<1>1. h.values \in Seq(Values) /\ h.freeing \in Seq(Frames) /\ FramesOK(cells, h.freeing)
  BY HeapParts, FramesStay
<1> QED BY <1>1, HeapIs

LEMMA DereferenceTyped ==
    ASSUME NEW h, HeapOK(h), NEW o \in Cells
    PROVE  LET r == Dereference(h, o)
           IN  HeapOK(r) /\ Shrinks(h.cell, r.cell) /\ r.values = h.values
<1> DEFINE c == h.cell[o]
           less == (c.rc - 1) % RcMod
           r == Dereference(h, o)
           E == Elements(c)
           f == [array |-> o, keys |-> E]
<1>0. /\ h.cell \in [Cells -> Records] /\ h.fault \in {"RUN", "CRASH", "WILD"}
      /\ h.values \in Seq(Values) /\ h.freeing \in Seq(Frames) /\ FramesOK(h.cell, h.freeing)
  BY HeapParts
<1>1. c \in Records
  BY <1>0
<1>2. less \in 0..(RcMod - 1) /\ 0 \in 0..(RcMod - 1)
  <2>1. c.rc - 1 \in Int
    BY <1>1, RecordFacts, RcFacts
  <2> QED BY <2>1, RcFacts
<1>3. \/ c.type \in Reused /\ r = HeapOf(h.cell, "WILD", h.values, h.freeing)
      \/ /\ c.type \notin Reused /\ less # 0
         /\ r = HeapOf([h.cell EXCEPT ![o] = [c EXCEPT !.rc = less]], h.fault, h.values, h.freeing)
      \/ /\ c.type \notin Reused \cup {"array"} /\ less = 0
         /\ r = HeapOf([h.cell EXCEPT ![o] = FreeCell], h.fault, h.values, h.freeing)
      \/ /\ c.type = "array" /\ less = 0 /\ E = {}
         /\ r = HeapOf(h.cell, "CRASH", h.values, h.freeing)
      \/ /\ c.type = "array" /\ less = 0 /\ E # {}
         /\ r = HeapOf([h.cell EXCEPT ![o] = [c EXCEPT !.rc = 0]], h.fault, h.values,
                       <<f>> \o h.freeing)
  BY DereferenceIs
<1> HIDE DEF r, less
<1>4. ASSUME r = HeapOf(h.cell, "WILD", h.values, h.freeing)
             \/ r = HeapOf(h.cell, "CRASH", h.values, h.freeing)
      PROVE  HeapOK(r) /\ Shrinks(h.cell, r.cell) /\ r.values = h.values
  BY <1>0, <1>4, ShrinksNot, ShrunkHeap
<1>5. ASSUME NEW n \in 0..(RcMod - 1), c.type \notin Reused
      PROVE  LET g == [h.cell EXCEPT ![o] = [c EXCEPT !.rc = n]]
             IN  g \in [Cells -> Records] /\ Shrinks(h.cell, g)
                 /\ g[o].type = c.type /\ (c.type = "array" => g[o].elems = c.elems)
  <2> DEFINE v == [c EXCEPT !.rc = n]
             g == [h.cell EXCEPT ![o] = v]
  <2>1. /\ v \in Records /\ v.type = c.type /\ v.to = c.to
        /\ c.type = "array" => v.elems = c.elems
    BY <1>1, <1>5, Recounted
  <2>2. h.cell[o].type # "ref"
    BY <1>5 DEF Reused
  <2> HIDE DEF v
  <2>3. g \in [Cells -> Records] /\ g[o] = v
    BY <1>0, <2>1, PutFacts
  <2>4. Shrinks(h.cell, g)
    BY <1>0, <1>5, <2>1, <2>2, ShrinksBy
  <2> QED BY <2>1, <2>3, <2>4 DEF v
<1>6. CASE c.type \notin Reused /\ r = HeapOf([h.cell EXCEPT ![o] = [c EXCEPT !.rc = less]],
                                              h.fault, h.values, h.freeing)
  <2> DEFINE g == [h.cell EXCEPT ![o] = [c EXCEPT !.rc = less]]
  <2>1. g \in [Cells -> Records] /\ Shrinks(h.cell, g)
    BY <1>2, <1>5, <1>6
  <2> DEFINE q == HeapOf(g, h.fault, h.values, h.freeing)
  <2>2. r = q
    BY <1>6
  <2> HIDE DEF g
  <2>3. HeapOK(q) /\ q.values = h.values /\ q.cell = g
    BY <1>0, <2>1, ShrunkHeap
  <2> HIDE DEF q
  <2> QED BY <2>1, <2>2, <2>3 DEF r
<1>7. CASE c.type \notin Reused /\ r = HeapOf([h.cell EXCEPT ![o] = FreeCell], h.fault, h.values, h.freeing)
  <2> DEFINE g == [h.cell EXCEPT ![o] = FreeCell]
  <2>1. g \in [Cells -> Records]
    BY <1>0, FreeFacts, PutFacts
  <2>2. Shrinks(h.cell, g)
    BY <1>0, <1>7, FreeFacts, ShrinksBy DEF Reused
  <2> DEFINE q == HeapOf(g, h.fault, h.values, h.freeing)
  <2>3. r = q
    BY <1>7
  <2> HIDE DEF g
  <2>4. HeapOK(q) /\ q.values = h.values /\ q.cell = g
    BY <1>0, <2>1, <2>2, ShrunkHeap
  <2> HIDE DEF q
  <2> QED BY <2>2, <2>3, <2>4 DEF r
<1>8. CASE c.type = "array" /\ r = HeapOf([h.cell EXCEPT ![o] = [c EXCEPT !.rc = 0]], h.fault,
                                          h.values, <<f>> \o h.freeing)
  <2> DEFINE g == [h.cell EXCEPT ![o] = [c EXCEPT !.rc = 0]]
             s == <<f>> \o h.freeing
  <2>1. g \in [Cells -> Records] /\ Shrinks(h.cell, g) /\ g[o].type = "array" /\ g[o].elems = c.elems
    BY <1>2, <1>5, <1>8 DEF Reused
  <2>2. f \in Frames /\ f.array = o /\ f.keys = E
    BY DEF Frames, Elements
  <2>3. Elements(g[o]) = E
    BY <2>1, ElementsAgree
  <2>4. FramesOK(g, h.freeing)
    BY <1>0, <2>1, FramesStay
  <2> DEFINE q == HeapOf(g, h.fault, h.values, s)
  <2>0. r = q
    BY <1>8
  <2> HIDE DEF f, g, c, E
  <2>5. /\ s \in Seq(Frames) /\ s[1] = f
        /\ \A i \in DOMAIN s : i = 1 \/ (i - 1 \in DOMAIN h.freeing /\ s[i] = h.freeing[i - 1])
    BY <1>0, <2>2, FreeingMore
  <2> HIDE DEF s
  <2>6. FramesOK(g, s)
    BY <2>1, <2>2, <2>3, <2>4, <2>5 DEF FramesOK
  <2>7. HeapOK(q) /\ q.cell = g /\ q.values = h.values
    BY <1>0, <2>1, <2>5, <2>6, HeapIs
  <2> HIDE DEF q
  <2> QED BY <2>0, <2>1, <2>7 DEF r
<1> QED BY <1>3, <1>4, <1>6, <1>7, <1>8 DEF r, Reused

\* The frame on top without one key.
Spent(h) ==
    LET f == Head(h.freeing)
    IN  HeapOf(h.cell, h.fault, h.values,
               <<[array |-> f.array, keys |-> f.keys \ {Least(f.keys)}]>> \o Tail(h.freeing))

NextElement(h) ==
    LET f == Head(h.freeing)
    IN  Counted(h, h.cell[f.array].elems[Least(f.keys)])

LEMMA FrameFacts ==
    ASSUME NEW h, HeapOK(h), h.freeing # <<>>
    PROVE  LET f == Head(h.freeing)
               rest == Tail(h.freeing)
           IN  /\ f = h.freeing[1] /\ 1 \in DOMAIN h.freeing /\ f \in Frames
               /\ f = [array |-> f.array, keys |-> f.keys]
               /\ f.array \in Cells /\ f.keys \in SUBSET Keys
               /\ rest \in Seq(Frames) /\ DOMAIN h.freeing = 1..(Len(rest) + 1)
               /\ DOMAIN rest = 1..Len(rest) /\ Len(rest) \in Nat
               /\ \A i \in DOMAIN rest : i + 1 \in DOMAIN h.freeing /\ rest[i] = h.freeing[i + 1]
               /\ h.cell[f.array].type # "ref"
               /\ h.cell[f.array].type = "array" => f.keys \subseteq Elements(h.cell[f.array])
               /\ FramesOK(h.cell, rest)
<1> DEFINE s == h.freeing
           f == Head(s)
           rest == Tail(s)
<1>1. s \in Seq(Frames) /\ s # <<>> /\ FramesOK(h.cell, s)
  BY HeapParts
<1> HIDE DEF s
<1>2. Len(s) \in Nat \ {0} /\ DOMAIN s = 1..Len(s) /\ f = s[1] /\ 1 \in DOMAIN s
  BY <1>1
<1>3. /\ f \in Frames /\ rest \in Seq(Frames) /\ Len(rest) = Len(s) - 1
      /\ \A i \in 1..Len(rest) : rest[i] = s[i + 1]
  BY <1>1, HeadTailProperties
<1>4. DOMAIN rest = 1..Len(rest) /\ Len(rest) \in Nat /\ Len(s) = Len(rest) + 1
  BY <1>2, <1>3
<1>5. ASSUME NEW i \in DOMAIN rest PROVE i + 1 \in DOMAIN s /\ rest[i] = s[i + 1]
  BY <1>2, <1>3, <1>4
<1>6. f = [array |-> f.array, keys |-> f.keys] /\ f.array \in Cells /\ f.keys \in SUBSET Keys
  BY <1>3 DEF Frames
<1> HIDE DEF f, rest
<1>7. /\ h.cell[f.array].type # "ref"
      /\ h.cell[f.array].type = "array" => f.keys \subseteq Elements(h.cell[f.array])
  BY <1>1, <1>2 DEF FramesOK
<1>8. FramesOK(h.cell, rest)
  BY <1>1, <1>5 DEF FramesOK
<1> QED BY <1>2, <1>3, <1>4, <1>5, <1>6, <1>7, <1>8 DEF f, rest, s

LEMMA SpentFacts ==
    ASSUME NEW h, HeapOK(h), h.freeing # <<>>,
           h.cell[Head(h.freeing).array].type = "array", Head(h.freeing).keys # {}
    PROVE  LET f == Head(h.freeing)
               k == Least(f.keys)
               e == h.cell[f.array].elems[k]
               g == Spent(h)
           IN  /\ k \in f.keys /\ k \in Keys /\ e \in Cells /\ e # None
               /\ NextElement(h) \in Cells
               /\ NextElement(h) = IF h.cell[e].type = "ref" THEN h.cell[e].to ELSE e
               /\ HeapOK(g) /\ g.cell = h.cell /\ g.fault = h.fault /\ g.values = h.values
               /\ g.freeing = <<[array |-> f.array, keys |-> f.keys \ {k}]>> \o Tail(h.freeing)
<1> DEFINE f == Head(h.freeing)
           k == Least(f.keys)
           c == h.cell[f.array]
           e == c.elems[k]
           rest == Tail(h.freeing)
           n == [array |-> f.array, keys |-> f.keys \ {k}]
           s == <<n>> \o rest
<1>1. /\ f.array \in Cells /\ f.keys \in SUBSET Keys /\ rest \in Seq(Frames)
      /\ f.keys \subseteq Elements(c) /\ FramesOK(h.cell, rest)
  BY FrameFacts
<1>2. /\ h.cell \in [Cells -> Records] /\ h.fault \in {"RUN", "CRASH", "WILD"}
      /\ h.values \in Seq(Values)
  BY HeapParts
<1>3. k \in f.keys /\ k \in Keys
  BY <1>1, LeastIn
<1>4. c \in Arrays
  BY <1>1, <1>2, RecordFacts
<1>5. e \in Cells /\ e # None
  <2>1. k \in Elements(c)
    BY <1>1, <1>3
  <2>2. e # None
    BY <2>1 DEF Elements
  <2>3. c.elems \in [Keys -> Cells \cup {None}]
    BY <1>4 DEF Arrays
  <2> QED BY <1>3, <2>2, <2>3
<1>6. NextElement(h) = IF h.cell[e].type = "ref" THEN h.cell[e].to ELSE e
  BY DEF NextElement, Counted
<1>7. NextElement(h) \in Cells
  <2>1. h.cell[e] \in Records
    BY <1>2, <1>5
  <2> HIDE DEF e
  <2> QED BY <1>5, <1>6, <2>1, RecordFacts
<1>8. n \in Frames /\ n.array = f.array /\ n.keys = f.keys \ {k}
  BY <1>1 DEF Frames
<1> HIDE DEF n
<1>9. /\ s \in Seq(Frames) /\ s[1] = n
      /\ \A i \in DOMAIN s : i = 1 \/ (i - 1 \in DOMAIN rest /\ s[i] = rest[i - 1])
  <2> HIDE DEF rest
  <2> QED BY <1>1, <1>8, FreeingMore
<1>10. FramesOK(h.cell, s)
  <2>1. n.keys \subseteq Elements(h.cell[n.array]) /\ h.cell[n.array].type = "array"
    BY <1>1, <1>8
  <2> HIDE DEF s, rest
  <2> QED BY <1>1, <1>9, <2>1 DEF FramesOK
<1>11. Spent(h) = HeapOf(h.cell, h.fault, h.values, s)
  BY DEF Spent, n
<1> HIDE DEF s
<1>12. LET g == HeapOf(h.cell, h.fault, h.values, s)
       IN  HeapOK(g) /\ g.cell = h.cell /\ g.fault = h.fault /\ g.values = h.values /\ g.freeing = s
  BY <1>2, <1>9, <1>10, HeapIs
<1> QED BY <1>3, <1>5, <1>6, <1>7, <1>11, <1>12 DEF s, n

LEMMA FreeNextIs ==
    ASSUME NEW h, HeapOK(h), h.freeing # <<>>
    PROVE  LET f == Head(h.freeing)
               r == FreeNext(h)
           IN  \/ /\ h.cell[f.array].type # "array" \/ Strays(h.cell[f.array], f.keys)
                  /\ r = HeapOf(h.cell, "WILD", h.values, h.freeing)
               \/ /\ h.cell[f.array].type = "array" /\ f.keys = {}
                  /\ r = HeapOf([h.cell EXCEPT ![f.array] = FreeCell], h.fault, h.values, Tail(h.freeing))
               \/ /\ h.cell[f.array].type = "array" /\ f.keys # {}
                  /\ r = Dereference(Spent(h), NextElement(h))
<1> DEFINE f == Head(h.freeing)
           r == FreeNext(h)
           rest == Tail(h.freeing)
           astray == h.cell[f.array].type # "array" \/ Strays(h.cell[f.array], f.keys)
<1>1. h = HeapOf(h.cell, h.fault, h.values, h.freeing)
  BY HeapParts
<1>3. CASE astray
  <2>1. r = Failed(h, "WILD")
    BY <1>3 DEF FreeNext
  <2>2. Failed(h, "WILD") = HeapOf(h.cell, "WILD", h.values, h.freeing)
    BY <1>1 DEF Failed, HeapOf
  <2> QED BY <1>3, <2>1, <2>2
<1>4. CASE ~astray /\ f.keys = {}
  <2>1. r = [h EXCEPT !.cell[f.array] = FreeCell, !.freeing = Tail(@)]
    BY <1>4 DEF FreeNext
  <2> HIDE DEF r, f
  <2>2. r = HeapOf([h.cell EXCEPT ![f.array] = FreeCell], h.fault, h.values, Tail(h.freeing))
    BY <1>1, <2>1 DEF HeapOf
  <2> QED BY <1>4, <2>2 DEF r, f
<1>5. CASE ~astray /\ f.keys # {}
  <2> DEFINE n == [array |-> f.array, keys |-> f.keys \ {Least(f.keys)}]
             g == [h EXCEPT !.freeing = <<n>> \o Tail(@)]
  <2>1. r = Dereference(g, NextElement(h))
    BY <1>5 DEF FreeNext, NextElement
  <2>2. g = Spent(h)
    <3>1. g = HeapOf(h.cell, h.fault, h.values, <<n>> \o Tail(h.freeing))
      <4> HIDE DEF n
      <4> QED BY <1>1 DEF HeapOf
    <3> HIDE DEF g
    <3> QED BY <3>1 DEF Spent
  <2> HIDE DEF g
  <2> QED BY <1>5, <2>1, <2>2
<1> QED BY <1>3, <1>4, <1>5

LEMMA FreeNextTyped ==
    ASSUME NEW h, HeapOK(h), h.freeing # <<>>
    PROVE  LET r == FreeNext(h)
           IN  HeapOK(r) /\ Shrinks(h.cell, r.cell)
<1> DEFINE f == Head(h.freeing)
           a == f.array
           r == FreeNext(h)
           rest == Tail(h.freeing)
           cells == [h.cell EXCEPT ![a] = FreeCell]
<1>1. \/ r = HeapOf(h.cell, "WILD", h.values, h.freeing)
      \/ /\ h.cell[a].type = "array" /\ f.keys = {}
         /\ r = HeapOf(cells, h.fault, h.values, rest)
      \/ /\ h.cell[a].type = "array" /\ f.keys # {}
         /\ r = Dereference(Spent(h), NextElement(h))
  BY FreeNextIs
<1>2. /\ h.cell \in [Cells -> Records] /\ h.fault \in {"RUN", "CRASH", "WILD"}
      /\ h.values \in Seq(Values)
  BY HeapParts
<1>3. a \in Cells /\ rest \in Seq(Frames) /\ FramesOK(h.cell, rest)
  BY FrameFacts
<1> HIDE DEF r, rest, a
<1>4. CASE r = HeapOf(h.cell, "WILD", h.values, h.freeing)
  <2>1. HeapOK(r) /\ r.cell = h.cell
    BY <1>2, <1>4, ShrinksNot, ShrunkHeap
  <2> QED BY <2>1, ShrinksNot DEF r
<1>5. CASE h.cell[a].type = "array" /\ r = HeapOf(cells, h.fault, h.values, rest)
  <2>1. cells \in [Cells -> Records]
    BY <1>2, <1>3, FreeFacts, PutFacts
  <2>2. Shrinks(h.cell, cells)
    BY <1>2, <1>3, <1>5, FreeFacts, ShrinksBy
  <2> HIDE DEF cells
  <2>3. FramesOK(cells, rest)
    BY <1>2, <1>3, <2>1, <2>2, FramesStay
  <2>4. HeapOK(r) /\ r.cell = cells
    BY <1>2, <1>3, <1>5, <2>1, <2>3, HeapIs
  <2> QED BY <2>2, <2>4 DEF r
<1>6. CASE h.cell[a].type = "array" /\ f.keys # {} /\ r = Dereference(Spent(h), NextElement(h))
  <2>1. HeapOK(Spent(h)) /\ Spent(h).cell = h.cell /\ NextElement(h) \in Cells
    BY <1>6, SpentFacts DEF a
  <2>2. HeapOK(r) /\ Shrinks(Spent(h).cell, r.cell)
    BY <1>6, <2>1, DereferenceTyped
  <2> QED BY <2>1, <2>2 DEF r
<1> QED BY <1>1, <1>4, <1>5, <1>6

LEMMA ReleaseNextIs ==
    ASSUME NEW h, HeapOK(h), h.values # <<>>
    PROVE  LET v == Head(h.values)
               rest == HeapOf(h.cell, h.fault, Tail(h.values), h.freeing)
               r == ReleaseNext(h)
           IN  \/ v.type = "ref" /\ r = Dereference(rest, v.to)
               \/ v.type # "ref" /\ "FREE" \in v.flags
                  /\ r = HeapOf(h.cell, "WILD", h.values, h.freeing)
               \/ v.type # "ref" /\ r = rest
<1> DEFINE v == Head(h.values)
           rest == [h EXCEPT !.values = Tail(@)]
           r == ReleaseNext(h)
<1>1. h = HeapOf(h.cell, h.fault, h.values, h.freeing)
  BY HeapParts
<1>2. rest = HeapOf(h.cell, h.fault, Tail(h.values), h.freeing)
  BY <1>1 DEF HeapOf
<1>3. \/ v.type = "ref" /\ r = Dereference(rest, v.to)
      \/ v.type # "ref" /\ "FREE" \in v.flags /\ r = Failed(h, "WILD")
      \/ v.type # "ref" /\ r = rest
  <2> HIDE DEF v
  <2> QED BY DEF ReleaseNext, v
<1>4. Failed(h, "WILD") = HeapOf(h.cell, "WILD", h.values, h.freeing)
  BY <1>1 DEF Failed, HeapOf
<1> HIDE DEF v, rest, r
<1> QED BY <1>2, <1>3, <1>4 DEF v, r

LEMMA ValueFacts ==
    ASSUME NEW v \in Values
    PROVE  /\ v \in Records /\ v.type \in {"null", "int", "ref"} /\ (v.type = "ref" <=> v.to \in Cells)
           /\ v.type # "ref" => v.to = None
           /\ v = [type |-> v.type, to |-> v.to, rc |-> v.rc, flags |-> v.flags]
<1>1. v \in OfType(Types \ {"array"}) /\ v.type \in {"null", "int", "ref"}
  BY DEF Values, OfType, Types
<1>2. v \in Records
  BY <1>1 DEF Records
<1> QED BY <1>1, <1>2, RecordFacts

LEMMA ReleaseNextTyped ==
    ASSUME NEW h, HeapOK(h), h.values # <<>>
    PROVE  LET r == ReleaseNext(h)
           IN  HeapOK(r) /\ Shrinks(h.cell, r.cell)
<1> DEFINE v == Head(h.values)
           rest == HeapOf(h.cell, h.fault, Tail(h.values), h.freeing)
           r == ReleaseNext(h)
<1>1. \/ v.type = "ref" /\ r = Dereference(rest, v.to)
      \/ r = HeapOf(h.cell, "WILD", h.values, h.freeing)
      \/ r = rest
  BY ReleaseNextIs
<1>2. /\ h.cell \in [Cells -> Records] /\ h.fault \in {"RUN", "CRASH", "WILD"}
      /\ h.values \in Seq(Values) /\ h.freeing \in Seq(Frames) /\ FramesOK(h.cell, h.freeing)
  BY HeapParts
<1>3. v \in Values /\ Tail(h.values) \in Seq(Values)
  BY <1>2
<1>4. HeapOK(rest) /\ rest.cell = h.cell
  <2> DEFINE t == Tail(h.values)
  <2>1. t \in Seq(Values)
    BY <1>3
  <2> HIDE DEF t
  <2>2. LET q == HeapOf(h.cell, h.fault, t, h.freeing) IN HeapOK(q) /\ q.cell = h.cell
    BY <1>2, <2>1, HeapIs
  <2> QED BY <2>2 DEF t
<1> HIDE DEF r, rest, v
<1>5. CASE v.type = "ref" /\ r = Dereference(rest, v.to)
  <2>1. v.to \in Cells
    BY <1>3, <1>5, ValueFacts
  <2>2. HeapOK(r) /\ Shrinks(rest.cell, r.cell)
    BY <1>4, <1>5, <2>1, DereferenceTyped
  <2> QED BY <1>4, <2>2 DEF r
<1>6. CASE r = HeapOf(h.cell, "WILD", h.values, h.freeing)
  <2>1. HeapOK(r) /\ r.cell = h.cell
    BY <1>2, <1>6, ShrinksNot, ShrunkHeap
  <2> QED BY <2>1, ShrinksNot DEF r
<1>7. CASE r = rest
  BY <1>4, <1>7, ShrinksNot DEF r
<1> QED BY <1>1, <1>5, <1>6, <1>7

LEMMA GoTyped ==
    ASSUME NEW h, HeapOK(h)
    PROVE  HeapOK(Go(h)) /\ Shrinks(h.cell, Go(h).cell)
<1>1. CASE Done(h)
  BY <1>1, ShrinksNot DEF Go
<1>2. CASE ~Done(h) /\ h.freeing # <<>>
  BY <1>2, FreeNextTyped DEF Go
<1>3. CASE ~Done(h) /\ h.freeing = <<>>
  <2>1. h.values # <<>>
    <3>1. h.fault = "RUN"
      BY <1>3 DEF Done
    <3> QED BY <1>3, <3>1 DEF Done
  <2> QED BY <1>3, <2>1, ReleaseNextTyped DEF Go
<1> QED BY <1>1, <1>2, <1>3

-----------------------------------------------------------------------------
(* The run of a release.                                                     *)

LEMMA RunExists ==
    ASSUME NEW start
    PROVE  \E f : f = [n \in Nat |-> IF n = 0 THEN start ELSE Go(f[n - 1])]
<1> DEFINE Upto(g, n) == \A k \in 0..n : g[k] = IF k = 0 THEN start ELSE Go(g[k - 1])
           Bad == {n \in Nat : ~\E g : Upto(g, n)}
<1>1. Bad = {}
  <2> SUFFICES ASSUME Bad # {} PROVE FALSE
    OBVIOUS
  <2>1. PICK n \in Bad : \A j \in Bad : n <= j
    <3>1. Bad \in SUBSET Nat
      OBVIOUS
    <3> HIDE DEF Bad
    <3> QED BY <3>1, LeastNatural
  <2>2. n \in Nat /\ ~\E g : Upto(g, n)
    OBVIOUS
  <2>3. PICK g : n = 0 \/ Upto(g, n - 1)
    <3>1. CASE n = 0
      BY <3>1
    <3>2. CASE n # 0
      <4>1. n - 1 \in Nat /\ n - 1 \notin Bad
        <5>1. n - 1 \in Nat /\ ~(n <= n - 1)
          BY <2>2, <3>2
        <5> HIDE DEF Bad
        <5> QED BY <2>1, <5>1
      <4> QED BY <4>1
    <3> QED BY <3>1, <3>2
  <2> DEFINE h == [k \in 0..n |-> IF k = 0 THEN start ELSE Go(g[k - 1])]
  <2>4. ASSUME NEW k \in 0..n PROVE h[k] = IF k = 0 THEN start ELSE Go(h[k - 1])
    <3>1. CASE k = 0
      BY <3>1
    <3>2. CASE k # 0
      <4>1. k - 1 \in 0..(n - 1) /\ k - 1 \in 0..n /\ n # 0
        BY <2>2, <3>2
      <4>2. g[k - 1] = IF k - 1 = 0 THEN start ELSE Go(g[(k - 1) - 1])
        BY <2>3, <4>1
      <4>3. h[k - 1] = g[k - 1]
        BY <4>1, <4>2
      <4>4. h[k] = Go(g[k - 1])
        BY <3>2
      <4> HIDE DEF h
      <4> QED BY <3>2, <4>3, <4>4
    <3> QED BY <3>1, <3>2
  <2>5. Upto(h, n)
    <3> HIDE DEF h
    <3> QED BY <2>4
  <2> HIDE DEF h
  <2> QED BY <2>2, <2>5
<1>2. ASSUME NEW m \in Nat, NEW n \in Nat, m <= n, NEW g, NEW h, Upto(g, m), Upto(h, n)
      PROVE  g[m] = h[m]
  <2> DEFINE Off == {k \in 0..m : g[k] # h[k]}
  <2> SUFFICES ASSUME Off # {} PROVE FALSE
    OBVIOUS
  <2>1. PICK k \in Off : \A j \in Off : k <= j
    <3>1. Off \in SUBSET Nat
      OBVIOUS
    <3> HIDE DEF Off
    <3> QED BY <3>1, LeastNatural
  <2>2. k \in 0..m /\ k \in 0..n /\ g[k] # h[k]
    BY <1>2
  <2>3. k # 0
    BY <1>2, <2>2
  <2>4. k - 1 \in 0..m /\ ~(k <= k - 1)
    BY <2>2, <2>3
  <2>5. k - 1 \notin Off
    <3> HIDE DEF Off
    <3> QED BY <2>1, <2>4
  <2>6. g[k - 1] = h[k - 1]
    BY <2>4, <2>5
  <2> QED BY <1>2, <2>2, <2>3, <2>6
<1> DEFINE G(n) == CHOOSE g : Upto(g, n)
           f == [k \in Nat |-> G(k)[k]]
<1>3. \A n \in Nat : Upto(G(n), n)
  <2> HIDE DEF Upto
  <2> QED BY <1>1
<1>4. ASSUME NEW k \in Nat PROVE f[k] = IF k = 0 THEN start ELSE Go(f[k - 1])
  <2>1. k \in 0..k
    OBVIOUS
  <2>2. G(k)[k] = IF k = 0 THEN start ELSE Go(G(k)[k - 1])
    <3> HIDE DEF G
    <3> QED BY <1>3, <2>1
  <2>3. CASE k = 0
    BY <2>2, <2>3
  <2>4. CASE k # 0
    <3>1. k - 1 \in Nat /\ k - 1 <= k
      BY <2>4
    <3>2. G(k - 1)[k - 1] = G(k)[k - 1]
      <4> HIDE DEF G, Upto
      <4> QED BY <1>2, <1>3, <3>1
    <3>3. f[k] = G(k)[k] /\ f[k - 1] = G(k - 1)[k - 1]
      BY <3>1
    <3> HIDE DEF f, G
    <3> QED BY <2>2, <2>4, <3>2, <3>3
  <2> QED BY <2>3, <2>4
<1>5. f = [k \in Nat |-> f[k]]
  OBVIOUS
<1> HIDE DEF f
<1>6. f = [n \in Nat |-> IF n = 0 THEN start ELSE Go(f[n - 1])]
  BY <1>4, <1>5
<1> QED BY <1>6

\* The heaps a release passes through.
IsRun(run, start) == run[0] = start /\ \A n \in Nat : run[n + 1] = Go(run[n])

LEMMA ReleaseRun ==
    ASSUME NEW h, NEW s
    PROVE  \E run : IsRun(run, [h EXCEPT !.values = s]) /\ Release(h, s) = run[Enough(h, s)]
<1> DEFINE start == [h EXCEPT !.values = s]
           run == CHOOSE f : f = [n \in Nat |-> IF n = 0 THEN start ELSE Go(f[n - 1])]
<1>1. Release(h, s) = run[Enough(h, s)]
  BY DEF Release
<1> HIDE DEF start
<1>2. run = [n \in Nat |-> IF n = 0 THEN start ELSE Go(run[n - 1])]
  BY RunExists
<1> HIDE DEF run
<1>3. run[0] = start
  BY <1>2
<1>4. ASSUME NEW n \in Nat PROVE run[n + 1] = Go(run[n])
  <2>1. n + 1 \in Nat /\ n + 1 # 0 /\ (n + 1) - 1 = n
    OBVIOUS
  <2> QED BY <1>2, <2>1
<1>5. IsRun(run, start)
  BY <1>3, <1>4 DEF IsRun
<1> QED BY <1>1, <1>5 DEF start

LEMMA TablesFinite ==
    ASSUME NEW h
    PROVE  IsFiniteSet(Tables(h))
BY ArraysAssumption, FS_Subset DEF Tables

LEMMA EnoughType ==
    ASSUME NEW h, NEW s \in Seq(Values)
    PROVE  Enough(h, s) \in Nat /\ Cardinality(Tables(h)) \in Nat /\ Cardinality(Keys) \in Nat
           /\ Enough(h, s) = Len(s) + Cardinality(Tables(h)) * (Cardinality(Keys) + 2)
<1>1. Cardinality(Tables(h)) \in Nat /\ Cardinality(Keys) \in Nat /\ Len(s) \in Nat
  BY TablesFinite, KeyTreeAssumption, FS_CardinalityType
<1>2. \A x, y \in Nat : x * (y + 2) \in Nat
  OBVIOUS
<1> QED BY <1>1, <1>2 DEF Enough

LEMMA RunTyped ==
    ASSUME NEW start, HeapOK(start), NEW run, IsRun(run, start), NEW m \in Nat
    PROVE  HeapOK(run[m]) /\ Shrinks(start.cell, run[m].cell)
<1> DEFINE P(n) == HeapOK(run[n]) /\ Shrinks(start.cell, run[n].cell)
           Bad == {n \in Nat : ~P(n)}
<1> SUFFICES ASSUME Bad # {} PROVE FALSE
  OBVIOUS
<1>1. PICK n \in Bad : \A j \in Bad : n <= j
  <2>1. Bad \in SUBSET Nat
    OBVIOUS
  <2> HIDE DEF Bad
  <2> QED BY <2>1, LeastNatural
<1>2. n \in Nat /\ ~P(n)
  OBVIOUS
<1>3. n # 0
  BY <1>2, ShrinksNot DEF IsRun
<1>4. n - 1 \in Nat /\ ~(n <= n - 1) /\ (n - 1) + 1 = n
  BY <1>2, <1>3
<1>5. P(n - 1)
  <2>1. n - 1 \notin Bad
    <3> HIDE DEF Bad
    <3> QED BY <1>1, <1>4
  <2> HIDE DEF P
  <2> QED BY <1>4, <2>1
<1>6. run[n] = Go(run[n - 1])
  BY <1>4 DEF IsRun
<1>7. HeapOK(run[n]) /\ Shrinks(run[n - 1].cell, run[n].cell)
  BY <1>5, <1>6, GoTyped
<1>8. Shrinks(start.cell, run[n].cell)
  BY <1>5, <1>7, ShrinksTransitive
<1> QED BY <1>2, <1>7, <1>8

\* A heap between instructions, and the heap when values are to be released.
LEMMA StartIs ==
    ASSUME NEW h, HeapOK(h), NEW s \in Seq(Values)
    PROVE  LET g == [h EXCEPT !.values = s]
           IN  /\ g = HeapOf(h.cell, h.fault, s, h.freeing) /\ HeapOK(g)
               /\ g.cell = h.cell /\ g.fault = h.fault /\ g.values = s /\ g.freeing = h.freeing
<1> DEFINE g == [h EXCEPT !.values = s]
<1>1. /\ h = HeapOf(h.cell, h.fault, h.values, h.freeing)
      /\ h.cell \in [Cells -> Records] /\ h.fault \in {"RUN", "CRASH", "WILD"}
      /\ h.freeing \in Seq(Frames) /\ FramesOK(h.cell, h.freeing)
  BY HeapParts
<1>2. g = HeapOf(h.cell, h.fault, s, h.freeing)
  BY <1>1 DEF HeapOf
<1> HIDE DEF g
<1>3. HeapOK(g) /\ g.cell = h.cell /\ g.fault = h.fault /\ g.values = s /\ g.freeing = h.freeing
  BY <1>1, <1>2, HeapIs
<1> QED BY <1>2, <1>3 DEF g

LEMMA ReleaseTyped ==
    ASSUME NEW h, HeapOK(h), NEW s \in Seq(Values)
    PROVE  HeapOK(Release(h, s)) /\ Shrinks(h.cell, Release(h, s).cell)
<1> DEFINE start == [h EXCEPT !.values = s]
<1>1. HeapOK(start) /\ start.cell = h.cell
  BY StartIs
<1>2. PICK run : IsRun(run, start) /\ Release(h, s) = run[Enough(h, s)]
  BY ReleaseRun
<1> HIDE DEF start
<1> QED BY <1>1, <1>2, EnoughType, RunTyped

-----------------------------------------------------------------------------
(* What is true of a heap as long as no element has been loaded: who is      *)
(* referred to, from where, and how often.                                   *)

\* The array has the element and no call of AdrenoValue_Free has taken it.
Has(h, a, k) ==
    /\ h.cell[a].type = "array" /\ h.cell[a].elems[k] # None
    /\ \A i \in DOMAIN h.freeing : h.freeing[i].array = a => k \in h.freeing[i].keys

\* The cells of elements, those that have left their array included.
HeldBy(h, orph) ==
    {c \in Cells : \/ c \in orph
                   \/ \E a \in Cells, k \in Keys : Has(h, a, k) /\ h.cell[a].elems[k] = c}

HeldTo(h, orph, o) == Tos(HeldBy(h, orph), h.cell, o)

Rc(h, o) == IF h.cell[o].type \in {"string", "array"} THEN h.cell[o].rc ELSE 0

Copies == {"ref", "int", "null"}

\* An element's cell is a copy of a value, and belongs to one place only.
Placed(h, orph) ==
    /\ orph \subseteq Cells
    /\ \A c \in orph : h.cell[c].type \in Copies
    /\ \A a \in Cells, k \in Keys : Has(h, a, k) =>
          h.cell[h.cell[a].elems[k]].type \in Copies /\ h.cell[a].elems[k] \notin orph
    /\ \A a, b \in Cells, k, j \in Keys :
          Has(h, a, k) /\ Has(h, b, j) /\ h.cell[a].elems[k] = h.cell[b].elems[j] => a = b /\ k = j

\* Every call of AdrenoValue_Free frees an array of its own.
Apart(h) ==
    /\ \A i \in DOMAIN h.freeing :
          h.cell[h.freeing[i].array].type = "array" /\ h.cell[h.freeing[i].array].rc = 0
    /\ \A i, j \in DOMAIN h.freeing : h.freeing[i].array = h.freeing[j].array => i = j

Plain(values) == \A i \in DOMAIN values : values[i].flags = {}

\* base[o]: references to o from outside the heap.
Exact(h, orph, base) ==
    \A o \in Cells : Rc(h, o) = base[o] + Pointing(h.values, o) + HeldTo(h, orph, o)

Good(h, orph, base) ==
    /\ HeapOK(h) /\ h.fault = "RUN" /\ base \in [Cells -> Nat]
    /\ Plain(h.values) /\ Placed(h, orph) /\ Apart(h) /\ Exact(h, orph, base)

\* An array is being freed whose table was left with a wrong Parent.
Knotted(cells) ==
    \E a \in Cells : cells[a].type = "array" /\ cells[a].rc = 0 /\ cells[a].tree.stale # {}

Sound(h, orph, base) ==
    /\ HeapOK(h)
    /\ h.fault = "WILD" => Knotted(h.cell)
    /\ h.fault = "RUN" => Good(h, orph, base)

\* The steps a release still has to make, the values to be released aside:
\* an element of an array, or the array itself.
Left(h) ==
    {x \in Cells \X (Keys \cup {-1}) :
        /\ h.cell[x[1]].type = "array"
        /\ x[2] # -1 => Has(h, x[1], x[2])}

LEMMA HasSpot ==
    ASSUME NEW h, HeapOK(h), NEW a \in Cells, NEW k \in Keys, Has(h, a, k)
    PROVE  h.cell[a].elems[k] \in Cells
<1>1. h.cell[a] \in Arrays
  BY HeapParts, RecordFacts DEF Has
<1>2. h.cell[a].elems \in [Keys -> Cells \cup {None}]
  BY <1>1 DEF Arrays
<1> QED BY <1>2 DEF Has

LEMMA HeldCopies ==
    ASSUME NEW h, NEW orph, Placed(h, orph), NEW c \in HeldBy(h, orph)
    PROVE  c \in Cells /\ h.cell[c].type \in Copies
BY DEF HeldBy, Placed

LEMMA HeldType ==
    ASSUME NEW h, NEW orph, NEW o
    PROVE  HeldBy(h, orph) \in SUBSET Cells /\ HeldTo(h, orph, o) \in Nat
<1>1. HeldBy(h, orph) \in SUBSET Cells
  BY DEF HeldBy
<1> QED BY <1>1, TosType DEF HeldTo

\* The elements of h and g are the same.
SameElements(h, g) ==
    \A a \in Cells, k \in Keys :
        /\ Has(g, a, k) <=> Has(h, a, k)
        /\ Has(h, a, k) => g.cell[a].elems[k] = h.cell[a].elems[k]

Alike(S, h, g) == \A c \in S : g.cell[c].type = h.cell[c].type /\ g.cell[c].to = h.cell[c].to

LEMMA HasHeld ==
    ASSUME NEW h, HeapOK(h), NEW orph, NEW a \in Cells, NEW k \in Keys, Has(h, a, k)
    PROVE  h.cell[a].elems[k] \in HeldBy(h, orph)
BY HasSpot DEF HeldBy

LEMMA HeldStays ==
    ASSUME NEW h, HeapOK(h), NEW g, NEW orph, Placed(h, orph), SameElements(h, g),
           Alike(HeldBy(h, orph), h, g)
    PROVE  /\ Placed(g, orph) /\ HeldBy(g, orph) = HeldBy(h, orph)
           /\ \A o : HeldTo(g, orph, o) = HeldTo(h, orph, o)
<1>1. HeldBy(g, orph) = HeldBy(h, orph)
  BY DEF HeldBy, SameElements
<1>2. \A o : HeldTo(g, orph, o) = HeldTo(h, orph, o)
  <2> TAKE o
  <2> DEFINE H == HeldBy(h, orph)
             x == h.cell
             y == g.cell
  <2>1. \A c \in H : x[c].to = y[c].to
    BY DEF Alike
  <2> HIDE DEF x, y, H
  <2>2. Tos(H, x, o) = Tos(H, y, o)
    BY <2>1, TosSame
  <2> QED BY <1>1, <2>2 DEF HeldTo, H, x, y
<1>3. Placed(g, orph)
  <2>1. orph \subseteq Cells /\ \A c \in orph : g.cell[c].type \in Copies
    <3>1. \A c \in orph : c \in HeldBy(h, orph) /\ h.cell[c].type \in Copies
      BY DEF Placed, HeldBy
    <3> QED BY <3>1 DEF Placed, Alike
  <2>2. ASSUME NEW a \in Cells, NEW k \in Keys, Has(g, a, k)
        PROVE  g.cell[g.cell[a].elems[k]].type \in Copies /\ g.cell[a].elems[k] \notin orph
               /\ Has(h, a, k) /\ g.cell[a].elems[k] = h.cell[a].elems[k]
    <3>1. Has(h, a, k) /\ g.cell[a].elems[k] = h.cell[a].elems[k]
      BY <2>2 DEF SameElements
    <3>2. h.cell[h.cell[a].elems[k]].type \in Copies /\ h.cell[a].elems[k] \notin orph
      BY <3>1 DEF Placed
    <3>3. h.cell[a].elems[k] \in HeldBy(h, orph)
      BY <3>1, HasHeld
    <3> QED BY <3>1, <3>2, <3>3 DEF Alike
  <2> QED BY <2>1, <2>2 DEF Placed
<1> QED BY <1>1, <1>2, <1>3

Elsewhere(o, f, g) == \A c \in Cells : c # o => g[c] = f[c]

\* One cell changes, which is no element's.
LEMMA OneChanged ==
    ASSUME NEW h, NEW g, NEW orph, NEW up, NEW base \in [Cells -> Nat], NEW o \in Cells,
           Good(h, orph, up), HeapOK(g), g.fault = "RUN", g.values = h.values, Apart(g),
           o \notin HeldBy(h, orph), SameElements(h, g),
           Elsewhere(o, h.cell, g.cell), Elsewhere(o, up, base),
           Rc(g, o) - base[o] = Rc(h, o) - up[o]
    PROVE  Good(g, orph, base)
<1>1. HeapOK(h) /\ Placed(h, orph) /\ Plain(g.values)
  BY DEF Good
<1>2. Alike(HeldBy(h, orph), h, g)
  BY HeldType DEF Alike, Elsewhere
<1>3. Placed(g, orph) /\ \A c : HeldTo(g, orph, c) = HeldTo(h, orph, c)
  BY <1>1, <1>2, HeldStays
<1>4. ASSUME NEW c \in Cells
      PROVE  Rc(g, c) = base[c] + Pointing(g.values, c) + HeldTo(g, orph, c)
  <2> DEFINE P == Pointing(h.values, c)
             H == HeldTo(h, orph, c)
  <2>1. Rc(h, c) = up[c] + P + H
    BY DEF Good, Exact
  <2>2. P \in Nat /\ H \in Nat /\ up[c] \in Nat /\ base[c] \in Nat
    <3>1. h.values \in Seq(Values)
      BY <1>1, HeapParts
    <3>2. P \in Nat /\ H \in Nat
      BY <3>1, PointingType, HeldType
    <3> QED BY <3>2 DEF Good
  <2>3. g.values = h.values /\ HeldTo(g, orph, c) = H
    BY <1>3
  <2>4. CASE c = o
    <3>1. Rc(g, o) \in Int
      <4>1. g.cell[o] \in Records
        BY HeapParts
      <4>2. g.cell[o].rc \in Int
        BY <4>1, RecordFacts, RcFacts
      <4> QED BY <4>2 DEF Rc
    <3>2. Rc(g, c) = base[c] + P + H
      <4> HIDE DEF P, H
      <4> QED BY <2>1, <2>2, <2>4, <3>1
    <3> QED BY <2>3, <3>2
  <2>5. CASE c # o
    <3>1. Rc(g, c) = Rc(h, c) /\ base[c] = up[c]
      BY <2>5 DEF Rc, Elsewhere
    <3> QED BY <2>1, <2>3, <3>1
  <2> QED BY <2>4, <2>5
<1> QED BY <1>1, <1>3, <1>4 DEF Good, Exact

LEMMA LeftLess ==
    ASSUME NEW h, NEW g, SameElements(h, g),
           \A c \in Cells : g.cell[c].type = "array" => h.cell[c].type = "array"
    PROVE  Left(g) \subseteq Left(h)
<1> SUFFICES ASSUME NEW x \in Left(g) PROVE x \in Left(h)
  OBVIOUS
<1>1. /\ x \in Cells \X (Keys \cup {-1}) /\ x[1] \in Cells /\ x[2] \in Keys \cup {-1}
      /\ g.cell[x[1]].type = "array" /\ (x[2] # -1 => Has(g, x[1], x[2]))
  BY DEF Left
<1> DEFINE a == x[1]
           k == x[2]
<1>2. h.cell[a].type = "array"
  BY <1>1
<1>3. k # -1 => Has(h, a, k)
  BY <1>1 DEF SameElements
<1> QED BY <1>1, <1>2, <1>3 DEF Left

SameArrays(h, g) ==
    \A a \in Cells :
        \/ g.cell[a].type # "array" /\ h.cell[a].type # "array"
        \/ g.cell[a].type = "array" /\ h.cell[a].type = "array" /\ g.cell[a].elems = h.cell[a].elems

\* As long as the calls of AdrenoValue_Free are the same.
LEMMA SameFrames ==
    ASSUME NEW h, NEW g, g.freeing = h.freeing, SameArrays(h, g)
    PROVE  SameElements(h, g)
<1> SUFFICES ASSUME NEW a \in Cells, NEW k \in Keys
             PROVE  /\ Has(g, a, k) <=> Has(h, a, k)
                    /\ Has(h, a, k) => g.cell[a].elems[k] = h.cell[a].elems[k]
  BY DEF SameElements
<1>1. CASE g.cell[a].type # "array" /\ h.cell[a].type # "array"
  BY <1>1 DEF Has
<1>2. CASE g.cell[a].type = "array" /\ h.cell[a].type = "array" /\ g.cell[a].elems = h.cell[a].elems
  BY <1>2 DEF Has
<1> QED BY <1>1, <1>2 DEF SameArrays

LEMMA FrameCells ==
    ASSUME NEW h, HeapOK(h), NEW i \in DOMAIN h.freeing
    PROVE  h.freeing[i] \in Frames /\ h.freeing[i].array \in Cells
<1>1. h.freeing \in Seq(Frames)
  BY HeapParts
<1>2. h.freeing[i] \in Frames
  BY <1>1
<1> QED BY <1>2 DEF Frames

\* What is referred to from outside is a string or an array, and counts it.
Counts(h, orph, o) ==
    LET c == h.cell[o]
    IN  /\ c \in Records /\ c.type \in {"string", "array"} /\ c.rc \in 1..(RcMod - 1)
        /\ (c.rc - 1) % RcMod = c.rc - 1 /\ Rc(h, o) = c.rc
        /\ o \notin HeldBy(h, orph)
        /\ \A i \in DOMAIN h.freeing : h.freeing[i].array # o

LEMMA CountedFacts ==
    ASSUME NEW h, NEW orph, NEW up, NEW o \in Cells, Good(h, orph, up), up[o] > 0
    PROVE  Counts(h, orph, o)
<1> DEFINE c == h.cell[o]
<1>1. HeapOK(h) /\ Placed(h, orph) /\ Apart(h) /\ h.cell \in [Cells -> Records] /\ h.values \in Seq(Values)
  BY HeapParts DEF Good
<1>2. Rc(h, o) > 0
  <2>1. Rc(h, o) = up[o] + Pointing(h.values, o) + HeldTo(h, orph, o)
    BY DEF Good, Exact
  <2>2. Pointing(h.values, o) \in Nat /\ HeldTo(h, orph, o) \in Nat /\ up[o] \in Nat
    BY <1>1, PointingType, HeldType DEF Good
  <2> QED BY <2>1, <2>2
<1>3. c.type \in {"string", "array"} /\ Rc(h, o) = c.rc
  BY <1>2 DEF Rc
<1>4. c \in Records /\ c.rc \in 0..(RcMod - 1)
  BY <1>1, RecordFacts
<1>5. c.rc \in 1..(RcMod - 1)
  BY <1>2, <1>3, <1>4, RcFacts
<1>6. (c.rc - 1) % RcMod = c.rc - 1
  <2>1. \A M \in Nat \ {0} : \A x \in 0..(M - 1) : x % M = x
    OBVIOUS
  <2>2. c.rc - 1 \in 0..(RcMod - 1)
    BY <1>5, RcFacts
  <2> HIDE DEF c
  <2> QED BY <2>1, <2>2, RcFacts
<1>7. o \notin HeldBy(h, orph)
  BY <1>1, <1>3, HeldCopies DEF Copies
<1>8. ASSUME NEW i \in DOMAIN h.freeing PROVE h.freeing[i].array # o
  <2>1. h.cell[h.freeing[i].array].rc = 0
    BY <1>1 DEF Apart
  <2> QED BY <1>5, <2>1
<1> QED BY <1>3, <1>4, <1>5, <1>6, <1>7, <1>8 DEF Counts

\* The cell counts one less, or its last reference has gone.
LEMMA CountedDown ==
    ASSUME NEW h, NEW orph, NEW up, NEW base \in [Cells -> Nat], NEW o \in Cells,
           Good(h, orph, up), up[o] = base[o] + 1, \A c \in Cells : c # o => base[c] = up[c],
           NEW v \in Records,
           \/ /\ v.type = h.cell[o].type /\ v.rc = h.cell[o].rc - 1
              /\ v.type = "array" => v.elems = h.cell[o].elems
           \/ v = FreeCell /\ h.cell[o].type = "string" /\ h.cell[o].rc = 1,
           NEW g, HeapOK(g), g.fault = "RUN", g.values = h.values, g.freeing = h.freeing,
           g.cell = [h.cell EXCEPT ![o] = v]
    PROVE  Good(g, orph, base) /\ Left(g) \subseteq Left(h)
<1> DEFINE c == h.cell[o]
<1>1. up[o] > 0 /\ HeapOK(h) /\ Apart(h) /\ h.cell \in [Cells -> Records]
  BY HeapParts DEF Good
<1>2. /\ c.type \in {"string", "array"} /\ Rc(h, o) = c.rc /\ o \notin HeldBy(h, orph)
      /\ \A i \in DOMAIN h.freeing : h.freeing[i].array # o
      /\ c.rc \in 1..(RcMod - 1)
  BY <1>1, CountedFacts DEF Counts
<1>3. g.cell[o] = v /\ \A d \in Cells : d # o => g.cell[d] = h.cell[d]
  BY <1>1
<1>4. /\ v.type = "array" <=> c.type = "array"
      /\ v.type = "array" => v.elems = c.elems
      /\ Rc(g, o) = c.rc - 1
  BY <1>2, <1>3, FreeFacts, RcFacts DEF Rc
<1>5. SameArrays(h, g)
  BY <1>3, <1>4 DEF SameArrays
<1>6. SameElements(h, g)
  BY <1>5, SameFrames
<1>7. Apart(g)
  <2>1. \A i \in DOMAIN h.freeing : h.freeing[i].array \in Cells
    BY <1>1, FrameCells
  <2> QED BY <1>1, <1>2, <1>3, <2>1 DEF Apart
<1>8. Rc(g, o) - base[o] = Rc(h, o) - up[o]
  <2>1. base[o] \in Nat
    OBVIOUS
  <2>2. \A r, b \in Int : (r - 1) - b = r - (b + 1)
    OBVIOUS
  <2>3. c.rc \in Int
    BY <1>2, RcFacts
  <2> HIDE DEF c
  <2> QED BY <1>2, <1>4, <2>1, <2>2, <2>3
<1>9. Good(g, orph, base)
  <2>1. Elsewhere(o, h.cell, g.cell) /\ Elsewhere(o, up, base)
    BY <1>3 DEF Elsewhere
  <2> QED BY <1>2, <1>6, <1>7, <1>8, <2>1, OneChanged
<1>10. Left(g) \subseteq Left(h)
  BY <1>5, <1>6, LeftLess DEF SameArrays
<1> QED BY <1>9, <1>10

\* The array's last reference has gone, and a call of AdrenoValue_Free begins.
LEMMA FreeingBegins ==
    ASSUME NEW h, NEW orph, NEW up, NEW base \in [Cells -> Nat], NEW o \in Cells,
           Good(h, orph, up), up[o] = base[o] + 1, \A c \in Cells : c # o => base[c] = up[c],
           NEW v \in Records, h.cell[o].type = "array", h.cell[o].rc = 1,
           v.type = "array", v.rc = 0, v.elems = h.cell[o].elems,
           NEW f \in Frames, f.array = o, f.keys = Elements(h.cell[o]),
           NEW g, HeapOK(g), g.fault = "RUN", g.values = h.values,
           g.freeing = <<f>> \o h.freeing,
           g.cell = [h.cell EXCEPT ![o] = v]
    PROVE  Good(g, orph, base) /\ Left(g) \subseteq Left(h)
<1> DEFINE c == h.cell[o]
           s == h.freeing
           t == g.freeing
<1>1. up[o] > 0 /\ HeapOK(h) /\ Apart(h) /\ h.cell \in [Cells -> Records] /\ s \in Seq(Frames)
  BY HeapParts DEF Good
<1>2. /\ Rc(h, o) = c.rc /\ o \notin HeldBy(h, orph)
      /\ \A i \in DOMAIN s : s[i].array # o
  <2>1. Counts(h, orph, o)
    BY <1>1, CountedFacts
  <2> QED BY <2>1 DEF Counts
<1>3. g.cell[o] = v /\ \A d \in Cells : d # o => g.cell[d] = h.cell[d]
  BY <1>1
<1>4. /\ DOMAIN t = 1..(Len(s) + 1) /\ t[1] = f /\ \A i \in DOMAIN s : t[i + 1] = s[i]
      /\ \A i \in DOMAIN t : i = 1 \/ (i - 1 \in DOMAIN s /\ t[i] = s[i - 1])
      /\ DOMAIN s = 1..Len(s) /\ Len(s) \in Nat
  <2>1. t = <<f>> \o s
    OBVIOUS
  <2>2. DOMAIN s = 1..Len(s) /\ Len(s) \in Nat
    BY <1>1
  <2> HIDE DEF s, t
  <2> QED BY <1>1, <2>1, <2>2, FreeingMore
<1>5. Rc(g, o) = 0
  BY <1>3 DEF Rc
<1>6. SameElements(h, g)
  <2> SUFFICES ASSUME NEW a \in Cells, NEW k \in Keys
               PROVE  /\ Has(g, a, k) <=> Has(h, a, k)
                      /\ Has(h, a, k) => g.cell[a].elems[k] = h.cell[a].elems[k]
    BY DEF SameElements
  <2>1. CASE a = o
    <3>1. Has(h, a, k) <=> c.elems[k] # None
      BY <1>2, <2>1 DEF Has
    <3>2. c.elems[k] # None <=> k \in f.keys
      BY DEF Elements
    <3>3. ASSUME NEW i \in DOMAIN t, t[i].array = o PROVE i = 1
      BY <1>2, <1>4, <3>3
    <3>4. 1 \in DOMAIN t
      BY <1>4
    <3>5. Has(g, a, k) <=> c.elems[k] # None
      <4> HIDE DEF t, c
      <4> QED BY <1>3, <1>4, <2>1, <3>2, <3>3, <3>4 DEF Has, t, c
    <3> QED BY <1>3, <2>1, <3>1, <3>5
  <2>2. CASE a # o
    <3>1. (\A i \in DOMAIN t : t[i].array = a => k \in t[i].keys)
            <=> (\A i \in DOMAIN s : s[i].array = a => k \in s[i].keys)
      <4>1. ASSUME \A i \in DOMAIN t : t[i].array = a => k \in t[i].keys, NEW i \in DOMAIN s, s[i].array = a
            PROVE  k \in s[i].keys
        <5>1. i + 1 \in DOMAIN t /\ t[i + 1] = s[i]
          <6> HIDE DEF s, t
          <6> QED BY <1>4
        <5> QED BY <4>1, <5>1
      <4>2. ASSUME \A i \in DOMAIN s : s[i].array = a => k \in s[i].keys, NEW i \in DOMAIN t, t[i].array = a
            PROVE  k \in t[i].keys
        BY <1>4, <2>2, <4>2
      <4> QED BY <4>1, <4>2
    <3>2. g.cell[a] = h.cell[a]
      BY <1>3, <2>2
    <3> QED BY <3>1, <3>2 DEF Has
  <2> QED BY <2>1, <2>2
<1>7. Apart(g)
  <2> HIDE DEF t
  <2>1. \A i \in DOMAIN s : s[i].array \in Cells
    BY <1>1, FrameCells
  <2>2. ASSUME NEW i \in DOMAIN t PROVE g.cell[t[i].array].type = "array" /\ g.cell[t[i].array].rc = 0
    <3>1. CASE i = 1
      BY <1>3, <1>4, <3>1
    <3>2. CASE i # 1
      <4>1. i - 1 \in DOMAIN s /\ t[i] = s[i - 1]
        BY <1>4, <3>2
      <4>2. t[i].array \in Cells /\ t[i].array # o
        BY <1>2, <2>1, <4>1
      <4>3. h.cell[t[i].array].type = "array" /\ h.cell[t[i].array].rc = 0
        BY <1>1, <4>1 DEF Apart
      <4> QED BY <1>3, <4>2, <4>3
    <3> QED BY <3>1, <3>2
  <2>3. ASSUME NEW i \in DOMAIN t, NEW j \in DOMAIN t, t[i].array = t[j].array PROVE i = j
    <3>1. CASE i = 1 \/ j = 1
      BY <1>2, <1>4, <2>3, <3>1
    <3>2. CASE i # 1 /\ j # 1
      <4>1. i - 1 \in DOMAIN s /\ t[i] = s[i - 1] /\ j - 1 \in DOMAIN s /\ t[j] = s[j - 1]
        BY <1>4, <3>2
      <4>2. i - 1 = j - 1
        BY <1>1, <2>3, <4>1 DEF Apart
      <4>3. i \in Int /\ j \in Int
        <5> HIDE DEF s
        <5> QED BY <1>4
      <4> QED BY <4>2, <4>3
    <3> QED BY <3>1, <3>2
  <2> QED BY <2>2, <2>3 DEF Apart, t
<1>8. Rc(g, o) - base[o] = Rc(h, o) - up[o]
  <2>1. base[o] \in Nat
    OBVIOUS
  <2> QED BY <1>2, <1>5, <2>1
<1>9. Good(g, orph, base)
  <2>1. Elsewhere(o, h.cell, g.cell) /\ Elsewhere(o, up, base)
    BY <1>3 DEF Elsewhere
  <2> QED BY <1>2, <1>6, <1>7, <1>8, <2>1, OneChanged
<1>10. Left(g) \subseteq Left(h)
  BY <1>3, <1>6, LeftLess
<1> QED BY <1>9, <1>10

LEMMA HeapOfIs ==
    ASSUME NEW cells, NEW fault, NEW values, NEW freeing, NEW h, h = HeapOf(cells, fault, values, freeing)
    PROVE  h.cell = cells /\ h.fault = fault /\ h.values = values /\ h.freeing = freeing
BY DEF HeapOf

\* A reference that is gone: the cell it counted in is one less.
LEMMA DereferenceGood ==
    ASSUME NEW h, NEW orph, NEW up, NEW base \in [Cells -> Nat], NEW o \in Cells,
           Good(h, orph, up), up[o] = base[o] + 1, Elsewhere(o, up, base)
    PROVE  LET r == Dereference(h, o)
           IN  Sound(r, orph, base) /\ (r.fault = "RUN" => Left(r) \subseteq Left(h))
<1> DEFINE c == h.cell[o]
           less == (c.rc - 1) % RcMod
           r == Dereference(h, o)
           E == Elements(c)
           f == [array |-> o, keys |-> E]
<1>1. HeapOK(h) /\ h.fault = "RUN" /\ up[o] > 0 /\ \A d \in Cells : d # o => base[d] = up[d]
  BY DEF Good, Elsewhere
<1>2. HeapOK(r)
  BY <1>1, DereferenceTyped
<1>3. \/ c.type \in Reused /\ r = HeapOf(h.cell, "WILD", h.values, h.freeing)
      \/ /\ c.type \notin Reused /\ less # 0
         /\ r = HeapOf([h.cell EXCEPT ![o] = [c EXCEPT !.rc = less]], h.fault, h.values, h.freeing)
      \/ /\ c.type \notin Reused \cup {"array"} /\ less = 0
         /\ r = HeapOf([h.cell EXCEPT ![o] = FreeCell], h.fault, h.values, h.freeing)
      \/ /\ c.type = "array" /\ less = 0 /\ E = {}
         /\ r = HeapOf(h.cell, "CRASH", h.values, h.freeing)
      \/ /\ c.type = "array" /\ less = 0 /\ E # {}
         /\ r = HeapOf([h.cell EXCEPT ![o] = [c EXCEPT !.rc = 0]], h.fault, h.values,
                       <<f>> \o h.freeing)
  BY <1>1, DereferenceIs
<1>4. Counts(h, orph, o)
  BY <1>1, CountedFacts
<1>5. /\ c \in Records /\ c.type \in {"string", "array"} /\ c.rc \in 1..(RcMod - 1)
      /\ less = c.rc - 1 /\ less \in 0..(RcMod - 1) /\ 0 \in 0..(RcMod - 1)
  <2>1. /\ c \in Records /\ c.type \in {"string", "array"} /\ c.rc \in 1..(RcMod - 1)
        /\ less = c.rc - 1
    BY <1>4 DEF Counts
  <2> HIDE DEF c, less
  <2> QED BY <2>1, RcFacts
<1> HIDE DEF r, less
<1>6. ASSUME Good(r, orph, base) /\ Left(r) \subseteq Left(h)
      PROVE  Sound(r, orph, base) /\ (r.fault = "RUN" => Left(r) \subseteq Left(h))
  BY <1>2, <1>6 DEF Good, Sound
<1>7. CASE r = HeapOf([h.cell EXCEPT ![o] = [c EXCEPT !.rc = less]], h.fault, h.values, h.freeing)
  <2> DEFINE v == [c EXCEPT !.rc = less]
             g == [h.cell EXCEPT ![o] = v]
  <2>1. /\ v \in Records /\ v.type = c.type /\ v.rc = c.rc - 1
        /\ v.type = "array" => v.elems = c.elems
    BY <1>5, Recounted
  <2> HIDE DEF g
  <2>2. r.cell = g /\ r.fault = "RUN" /\ r.values = h.values /\ r.freeing = h.freeing
    BY <1>1, <1>7, HeapOfIs DEF g
  <2> HIDE DEF v
  <2>3. Good(r, orph, base) /\ Left(r) \subseteq Left(h)
    BY <1>1, <1>2, <2>1, <2>2, CountedDown DEF g
  <2> QED BY <1>6, <2>3 DEF r
<1>8. CASE /\ c.type \notin Reused \cup {"array"} /\ less = 0
           /\ r = HeapOf([h.cell EXCEPT ![o] = FreeCell], h.fault, h.values, h.freeing)
  <2> DEFINE g == [h.cell EXCEPT ![o] = FreeCell]
  <2> HIDE DEF g
  <2>1. r.cell = g /\ r.fault = "RUN" /\ r.values = h.values /\ r.freeing = h.freeing
    BY <1>1, <1>8, HeapOfIs DEF g
  <2>2. c.type = "string" /\ c.rc = 1
    <3>1. c.type = "string"
      BY <1>5, <1>8
    <3>2. c.rc = 1
      <4> HIDE DEF c
      <4> QED BY <1>5, <1>8, RcFacts
    <3> QED BY <3>1, <3>2
  <2>3. Good(r, orph, base) /\ Left(r) \subseteq Left(h)
    BY <1>1, <1>2, <2>1, <2>2, FreeFacts, CountedDown DEF g
  <2> QED BY <1>6, <2>3 DEF r
<1>9. CASE r = HeapOf(h.cell, "CRASH", h.values, h.freeing)
  <2>1. r.fault = "CRASH"
    BY <1>9, HeapOfIs
  <2> QED BY <1>2, <2>1 DEF Sound, r
<1>10. CASE /\ c.type = "array" /\ less = 0
            /\ r = HeapOf([h.cell EXCEPT ![o] = [c EXCEPT !.rc = 0]], h.fault, h.values, <<f>> \o h.freeing)
  <2> DEFINE v == [c EXCEPT !.rc = 0]
             g == [h.cell EXCEPT ![o] = v]
             t == <<f>> \o h.freeing
  <2>1. v \in Records /\ v.type = "array" /\ v.rc = 0 /\ v.elems = c.elems
    BY <1>5, <1>10, Recounted
  <2>2. c.rc = 1
    <3> HIDE DEF c
    <3> QED BY <1>5, <1>10, RcFacts
  <2>3. f \in Frames /\ f.array = o /\ f.keys = Elements(c)
    BY DEF Frames, Elements
  <2> HIDE DEF g, f, t
  <2>4. r.cell = g /\ r.fault = "RUN" /\ r.values = h.values /\ r.freeing = t
    <3>1. r = HeapOf(g, h.fault, h.values, t)
      BY <1>10 DEF g, t
    <3> QED BY <1>1, <3>1, HeapOfIs
  <2> HIDE DEF v
  <2>5. Good(r, orph, base) /\ Left(r) \subseteq Left(h)
    <3>1. r.freeing = <<f>> \o h.freeing /\ r.cell = [h.cell EXCEPT ![o] = v]
      BY <2>4 DEF g, t
    <3>2. \A d \in Cells : d # o => base[d] = up[d]
      BY <1>1
    <3> HIDE DEF c
    <3>3. h.cell[o].type = "array" /\ h.cell[o].rc = 1 /\ v.elems = h.cell[o].elems
          /\ f.keys = Elements(h.cell[o])
      BY <1>10, <2>1, <2>2, <2>3 DEF c
    <3> QED BY <1>2, <2>1, <2>3, <2>4, <3>1, <3>2, <3>3, FreeingBegins
  <2> QED BY <1>6, <2>5 DEF r
<1>11. c.type \notin Reused
  BY <1>5 DEF Reused
<1> QED BY <1>3, <1>7, <1>8, <1>9, <1>10, <1>11 DEF r

\* An integer or a null that was an element of an array which is freed.
LEMMA PlainDropped ==
    ASSUME NEW h, NEW orph, NEW base, NEW e \in Cells,
           Good(h, orph, base), h.cell[e].type \in {"int", "null"}, e \notin HeldBy(h, orph)
    PROVE  LET r == Dereference(h, e)
           IN  Good(r, orph, base) /\ Left(r) \subseteq Left(h)
<1> DEFINE c == h.cell[e]
           less == (c.rc - 1) % RcMod
           r == Dereference(h, e)
<1>1. HeapOK(h) /\ h.fault = "RUN" /\ base \in [Cells -> Nat] /\ Apart(h) /\ h.cell \in [Cells -> Records]
  BY HeapParts DEF Good
<1>2. HeapOK(r)
  BY <1>1, DereferenceTyped
<1>3. \/ r = HeapOf([h.cell EXCEPT ![e] = [c EXCEPT !.rc = less]], h.fault, h.values, h.freeing)
      \/ r = HeapOf([h.cell EXCEPT ![e] = FreeCell], h.fault, h.values, h.freeing)
  <2>1. c.type \notin Reused /\ c.type # "array"
    BY DEF Reused
  <2> HIDE DEF r, less
  <2> QED BY <1>1, <2>1, DereferenceIs DEF r, less
<1>4. c \in Records /\ less \in 0..(RcMod - 1)
  <2>1. c \in Records
    BY <1>1
  <2>2. c.rc - 1 \in Int
    BY <2>1, RecordFacts, RcFacts
  <2> QED BY <2>1, <2>2, RcFacts
<1> HIDE DEF r, less
<1>5. PICK v \in Records : /\ v.type \in {"int", "null", "free"}
                           /\ r = HeapOf([h.cell EXCEPT ![e] = v], h.fault, h.values, h.freeing)
  <2>1. CASE r = HeapOf([h.cell EXCEPT ![e] = [c EXCEPT !.rc = less]], h.fault, h.values, h.freeing)
    <3> DEFINE v == [c EXCEPT !.rc = less]
    <3>1. v \in Records /\ v.type = c.type
      BY <1>4, Recounted
    <3>2. r = HeapOf([h.cell EXCEPT ![e] = v], h.fault, h.values, h.freeing)
      BY <2>1
    <3> HIDE DEF v
    <3> QED BY <3>1, <3>2
  <2>2. CASE r = HeapOf([h.cell EXCEPT ![e] = FreeCell], h.fault, h.values, h.freeing)
    BY <2>2, FreeFacts
  <2> QED BY <1>3, <2>1, <2>2
<1>6. /\ r.cell = [h.cell EXCEPT ![e] = v] /\ r.fault = "RUN" /\ r.values = h.values
      /\ r.freeing = h.freeing
  <2> DEFINE g == [h.cell EXCEPT ![e] = v]
  <2> HIDE DEF g
  <2>1. r = HeapOf(g, h.fault, h.values, h.freeing)
    BY <1>5 DEF g
  <2>2. r.cell = g /\ r.fault = "RUN" /\ r.values = h.values /\ r.freeing = h.freeing
    BY <1>1, <2>1, HeapOfIs
  <2> QED BY <2>2 DEF g
<1>7. r.cell[e] = v /\ Elsewhere(e, h.cell, r.cell) /\ Elsewhere(e, base, base)
  BY <1>1, <1>6 DEF Elsewhere
<1>8. SameArrays(h, r)
  BY <1>5, <1>7 DEF SameArrays, Elsewhere
<1>9. SameElements(h, r)
  BY <1>6, <1>8, SameFrames
<1>10. Apart(r)
  <2>1. \A i \in DOMAIN h.freeing : h.freeing[i].array \in Cells /\ h.freeing[i].array # e
    BY <1>1, FrameCells DEF Apart
  <2> QED BY <1>1, <1>6, <1>7, <2>1 DEF Apart, Elsewhere
<1>11. Rc(r, e) = 0 /\ Rc(h, e) = 0
  BY <1>5, <1>7 DEF Rc
<1>12. Good(r, orph, base)
  BY <1>1, <1>2, <1>6, <1>7, <1>9, <1>10, <1>11, OneChanged
<1>13. Left(r) \subseteq Left(h)
  BY <1>8, <1>9, LeftLess DEF SameArrays
<1> QED BY <1>12, <1>13 DEF r

\* What Has says of the frames, for one frame more.
LEMMA TopFrame ==
    ASSUME NEW h, HeapOK(h), Apart(h), h.freeing # <<>>
    PROVE  LET f == Head(h.freeing)
               rest == Tail(h.freeing)
           IN  /\ f \in Frames /\ f.array \in Cells /\ f.keys \in SUBSET Keys
               /\ rest \in Seq(Frames) /\ FramesOK(h.cell, rest)
               /\ h.cell[f.array].type = "array" /\ h.cell[f.array].rc = 0
               /\ f.keys \subseteq Elements(h.cell[f.array])
               /\ \A i \in DOMAIN rest : /\ rest[i].array # f.array /\ rest[i].array \in Cells
                                         /\ h.cell[rest[i].array].type = "array"
                                         /\ h.cell[rest[i].array].rc = 0
               /\ \A i, j \in DOMAIN rest : rest[i].array = rest[j].array => i = j
               /\ \A a, k : Has(h, a, k) <=>
                     /\ h.cell[a].type = "array" /\ h.cell[a].elems[k] # None
                     /\ a = f.array => k \in f.keys
                     /\ \A i \in DOMAIN rest : rest[i].array = a => k \in rest[i].keys
<1> DEFINE s == h.freeing
           f == Head(s)
           rest == Tail(s)
<1>1. /\ f = s[1] /\ 1 \in DOMAIN s /\ f \in Frames /\ f.array \in Cells /\ f.keys \in SUBSET Keys
      /\ rest \in Seq(Frames) /\ DOMAIN s = 1..(Len(rest) + 1)
      /\ DOMAIN rest = 1..Len(rest) /\ Len(rest) \in Nat
      /\ \A i \in DOMAIN rest : i + 1 \in DOMAIN s /\ rest[i] = s[i + 1]
      /\ h.cell[f.array].type = "array" => f.keys \subseteq Elements(h.cell[f.array])
      /\ FramesOK(h.cell, rest)
  BY FrameFacts
<1>2. /\ \A i \in DOMAIN s : h.cell[s[i].array].type = "array" /\ h.cell[s[i].array].rc = 0
      /\ \A i, j \in DOMAIN s : s[i].array = s[j].array => i = j
      /\ \A i \in DOMAIN s : s[i].array \in Cells
  BY FrameCells DEF Apart
<1> HIDE DEF s, f, rest
<1>3. h.cell[f.array].type = "array" /\ h.cell[f.array].rc = 0
      /\ f.keys \subseteq Elements(h.cell[f.array])
  BY <1>1, <1>2
<1>4. ASSUME NEW i \in DOMAIN rest
      PROVE  /\ rest[i].array # f.array /\ rest[i].array \in Cells
             /\ h.cell[rest[i].array].type = "array" /\ h.cell[rest[i].array].rc = 0
  <2>1. i + 1 \in DOMAIN s /\ rest[i] = s[i + 1] /\ i + 1 # 1
    BY <1>1
  <2> QED BY <1>1, <1>2, <2>1
<1>5. ASSUME NEW i \in DOMAIN rest, NEW j \in DOMAIN rest, rest[i].array = rest[j].array
      PROVE  i = j
  <2>1. i + 1 \in DOMAIN s /\ rest[i] = s[i + 1] /\ j + 1 \in DOMAIN s /\ rest[j] = s[j + 1]
    BY <1>1
  <2>2. i + 1 = j + 1 /\ i \in Int /\ j \in Int
    BY <1>1, <1>2, <1>5, <2>1
  <2> QED BY <2>2
<1>6. ASSUME NEW a, NEW k
      PROVE  (\A i \in DOMAIN s : s[i].array = a => k \in s[i].keys)
               <=> /\ a = f.array => k \in f.keys
                   /\ \A i \in DOMAIN rest : rest[i].array = a => k \in rest[i].keys
  <2>1. ASSUME NEW i \in DOMAIN s, i # 1 PROVE i - 1 \in DOMAIN rest /\ rest[i - 1] = s[i]
    <3>1. i - 1 \in DOMAIN rest /\ (i - 1) + 1 = i
      BY <1>1, <2>1
    <3> QED BY <1>1, <3>1
  <2> QED BY <1>1, <2>1
<1>7. ASSUME NEW a, NEW k
      PROVE  Has(h, a, k) <=>
                /\ h.cell[a].type = "array" /\ h.cell[a].elems[k] # None
                /\ a = f.array => k \in f.keys
                /\ \A i \in DOMAIN rest : rest[i].array = a => k \in rest[i].keys
  BY <1>6 DEF Has, s
<1> QED BY <1>1, <1>3, <1>4, <1>5, <1>7 DEF s, f, rest

HasWith(h, f, rest, a, k) ==
    /\ h.cell[a].type = "array" /\ h.cell[a].elems[k] # None
    /\ a = f.array => k \in f.keys
    /\ \A i \in DOMAIN rest : rest[i].array = a => k \in rest[i].keys

LEMMA TopHas ==
    ASSUME NEW h, HeapOK(h), Apart(h), NEW f, NEW rest, h.freeing # <<>>,
           f = Head(h.freeing), rest = Tail(h.freeing), NEW a, NEW k
    PROVE  Has(h, a, k) <=> HasWith(h, f, rest, a, k)
BY TopFrame DEF HasWith

LEMMA Topmost ==
    ASSUME NEW F, NEW s \in Seq(F), NEW f \in F
    PROVE  <<f>> \o s # <<>> /\ Head(<<f>> \o s) = f /\ Tail(<<f>> \o s) = s
<1> DEFINE t == <<f>> \o s
<1>1. /\ t \in Seq(F) /\ DOMAIN t = 1..(Len(s) + 1) /\ Len(t) = Len(s) + 1 /\ t[1] = f
      /\ \A i \in DOMAIN s : t[i + 1] = s[i]
  BY FreeingMore
<1>2. DOMAIN s = 1..Len(s) /\ Len(s) \in Nat
  OBVIOUS
<1> HIDE DEF t
<1>3. t # <<>> /\ Head(t) = f
  BY <1>1, <1>2
<1>4. Tail(t) = s
  <2>1. /\ Tail(t) \in Seq(F) /\ Len(Tail(t)) = Len(t) - 1
        /\ \A i \in 1..Len(Tail(t)) : Tail(t)[i] = t[i + 1]
    BY <1>1, <1>3, HeadTailProperties
  <2>2. Len(Tail(t)) = Len(s)
    BY <1>1, <1>2, <2>1
  <2>3. \A i \in 1..Len(s) : Tail(t)[i] = s[i]
    BY <1>1, <1>2, <2>1, <2>2
  <2> DEFINE u == Tail(t)
  <2> HIDE DEF u
  <2>4. u = s
    <3>1. u \in Seq(F) /\ Len(u) = Len(s) /\ \A i \in 1..Len(s) : u[i] = s[i]
      BY <2>1, <2>2, <2>3 DEF u
    <3> QED BY <3>1, SeqEqual
  <2> QED BY <2>4 DEF u
<1> QED BY <1>3, <1>4 DEF t

LEMMA LeftIn ==
    ASSUME NEW h, NEW a \in Cells, NEW k \in Keys \cup {-1}
    PROVE  <<a, k>> \in Left(h) <=> h.cell[a].type = "array" /\ (k # -1 => Has(h, a, k))
BY DEF Left

\* The array whose elements are done goes back to the pool.
LEMMA GaveBack ==
    ASSUME NEW h, NEW orph, NEW base, Good(h, orph, base), h.freeing # <<>>, Head(h.freeing).keys = {}
    PROVE  LET a == Head(h.freeing).array
               r == HeapOf([h.cell EXCEPT ![a] = FreeCell], h.fault, h.values, Tail(h.freeing))
           IN  HeapOK(r) => Good(r, orph, base) /\ Left(r) \subseteq Left(h) /\ Left(r) # Left(h)
<1> DEFINE f == Head(h.freeing)
           a == f.array
           rest == Tail(h.freeing)
           cells == [h.cell EXCEPT ![a] = FreeCell]
           r == HeapOf(cells, h.fault, h.values, rest)
<1>1. /\ HeapOK(h) /\ h.fault = "RUN" /\ base \in [Cells -> Nat] /\ Placed(h, orph) /\ Apart(h)
      /\ h.cell \in [Cells -> Records]
  BY HeapParts DEF Good
<1>2. /\ a \in Cells /\ h.cell[a].type = "array" /\ h.cell[a].rc = 0
      /\ \A i \in DOMAIN rest : /\ rest[i].array # a /\ rest[i].array \in Cells
                                /\ h.cell[rest[i].array].type = "array" /\ h.cell[rest[i].array].rc = 0
      /\ \A i, j \in DOMAIN rest : rest[i].array = rest[j].array => i = j
      /\ \A b, k : Has(h, b, k) <=>
            /\ h.cell[b].type = "array" /\ h.cell[b].elems[k] # None
            /\ b = a => k \in f.keys
            /\ \A i \in DOMAIN rest : rest[i].array = b => k \in rest[i].keys
  BY <1>1, TopFrame
<1>3. f.keys = {}
  OBVIOUS
<1>4. cells[a] = FreeCell /\ Elsewhere(a, h.cell, cells)
  BY <1>1, <1>2 DEF Elsewhere
<1> HIDE DEF f, a, rest, cells
<1>5. r.cell = cells /\ r.fault = "RUN" /\ r.values = h.values /\ r.freeing = rest
  <2> DEFINE q == r
  <2>1. q = HeapOf(cells, h.fault, h.values, rest)
    OBVIOUS
  <2> HIDE DEF q
  <2>2. q.cell = cells /\ q.fault = "RUN" /\ q.values = h.values /\ q.freeing = rest
    BY <1>1, <2>1, HeapOfIs
  <2> QED BY <2>2 DEF q
<1> SUFFICES ASSUME HeapOK(r) PROVE Good(r, orph, base) /\ Left(r) \subseteq Left(h) /\ Left(r) # Left(h)
  BY DEF r, f, a, rest, cells
<1> HIDE DEF r
<1>6. SameElements(h, r)
  <2> SUFFICES ASSUME NEW b \in Cells, NEW k \in Keys
               PROVE  /\ Has(r, b, k) <=> Has(h, b, k)
                      /\ Has(h, b, k) => r.cell[b].elems[k] = h.cell[b].elems[k]
    BY DEF SameElements
  <2>1. CASE b = a
    BY <1>2, <1>3, <1>4, <1>5, <2>1, FreeFacts DEF Has
  <2>2. CASE b # a
    <3>1. r.cell[b] = h.cell[b]
      BY <1>4, <1>5, <2>2 DEF Elsewhere
    <3>2. Has(r, b, k) <=> /\ h.cell[b].type = "array" /\ h.cell[b].elems[k] # None
                           /\ \A i \in DOMAIN rest : rest[i].array = b => k \in rest[i].keys
      BY <1>5, <3>1 DEF Has
    <3> QED BY <1>2, <2>2, <3>1, <3>2
  <2> QED BY <2>1, <2>2
<1>7. Apart(r)
  BY <1>2, <1>4, <1>5 DEF Apart, Elsewhere
<1>8. a \notin HeldBy(h, orph)
  BY <1>1, <1>2, HeldCopies DEF Copies
<1>9. Rc(r, a) = 0 /\ Rc(h, a) = 0
  BY <1>2, <1>4, <1>5, FreeFacts DEF Rc
<1>10. Good(r, orph, base)
  BY <1>1, <1>2, <1>4, <1>5, <1>6, <1>7, <1>8, <1>9, OneChanged DEF Elsewhere
<1>11. Left(r) \subseteq Left(h)
  BY <1>4, <1>5, <1>6, FreeFacts, LeftLess DEF Elsewhere
<1>12. <<a, -1>> \in Left(h) /\ <<a, -1>> \notin Left(r)
  BY <1>2, <1>4, <1>5, FreeFacts, LeftIn
<1> QED BY <1>10, <1>11, <1>12

\* Its next element leaves the array.
LEMMA Taken ==
    ASSUME NEW h, NEW orph, NEW base, Good(h, orph, base), h.freeing # <<>>, Head(h.freeing).keys # {}
    PROVE  LET g == Spent(h)
               e == h.cell[Head(h.freeing).array].elems[Least(Head(h.freeing).keys)]
           IN  /\ e \in Cells /\ HeapOK(g) /\ g.cell = h.cell /\ g.fault = "RUN" /\ g.values = h.values
               /\ Placed(g, orph) /\ Apart(g)
               /\ HeldBy(h, orph) = HeldBy(g, orph) \cup {e} /\ e \notin HeldBy(g, orph)
               /\ Left(g) \subseteq Left(h) /\ Left(g) # Left(h)
               /\ NextElement(h) = IF h.cell[e].type = "ref" THEN h.cell[e].to ELSE e
<1> DEFINE f == Head(h.freeing)
           a == f.array
           k == Least(f.keys)
           e == h.cell[a].elems[k]
           n == [array |-> a, keys |-> f.keys \ {k}]
           g == Spent(h)
           rest == Tail(h.freeing)
<1>1. /\ HeapOK(h) /\ h.fault = "RUN" /\ Placed(h, orph) /\ Apart(h) /\ f.keys # {}
  BY DEF Good
<1>2. /\ f.keys \in SUBSET Keys /\ a \in Cells /\ h.cell[a].type = "array" /\ h.cell[a].rc = 0
      /\ rest \in Seq(Frames)
      /\ f.keys \subseteq Elements(h.cell[a])
      /\ \A i \in DOMAIN rest : /\ rest[i].array # a /\ rest[i].array \in Cells
                                /\ h.cell[rest[i].array].type = "array" /\ h.cell[rest[i].array].rc = 0
      /\ \A i, j \in DOMAIN rest : rest[i].array = rest[j].array => i = j
      /\ \A b, j : Has(h, b, j) <=>
            /\ h.cell[b].type = "array" /\ h.cell[b].elems[j] # None
            /\ b = a => j \in f.keys
            /\ \A i \in DOMAIN rest : rest[i].array = b => j \in rest[i].keys
  BY <1>1, TopFrame
<1>3. /\ k \in f.keys /\ k \in Keys /\ e \in Cells /\ e # None /\ HeapOK(g)
      /\ NextElement(h) = (IF h.cell[e].type = "ref" THEN h.cell[e].to ELSE e)
      /\ g.cell = h.cell /\ g.fault = h.fault /\ g.values = h.values
      /\ g.freeing = <<n>> \o rest
  BY <1>1, <1>2, SpentFacts
<1>4. n \in Frames /\ n.array = a /\ n.keys = f.keys \ {k}
  BY <1>2 DEF Frames
<1>5. g.freeing # <<>> /\ Head(g.freeing) = n /\ Tail(g.freeing) = rest
  <2> DEFINE t == <<n>> \o rest
  <2>1. t # <<>> /\ Head(t) = n /\ Tail(t) = rest
    <3> HIDE DEF n, rest
    <3>1. n \in Frames /\ rest \in Seq(Frames)
      BY <1>2, <1>4
    <3> QED BY <3>1, Topmost
  <2>2. g.freeing = t
    BY <1>3
  <2> HIDE DEF t, g, n, rest
  <2> QED BY <2>1, <2>2
<1> HIDE DEF g, n, e, k, a, f, rest
<1>6. Apart(g)
  <2> DEFINE t == g.freeing
  <2>1. /\ DOMAIN t = 1..(Len(rest) + 1) /\ t[1] = n /\ DOMAIN rest = 1..Len(rest) /\ Len(rest) \in Nat
        /\ \A i \in DOMAIN t : i = 1 \/ (i - 1 \in DOMAIN rest /\ t[i] = rest[i - 1])
    <3>1. t = <<n>> \o rest
      BY <1>3
    <3>2. DOMAIN rest = 1..Len(rest) /\ Len(rest) \in Nat
      BY <1>2
    <3> HIDE DEF t
    <3> QED BY <1>2, <1>4, <3>1, <3>2, FreeingMore
  <2> HIDE DEF t
  <2>2. ASSUME NEW i \in DOMAIN t
        PROVE  g.cell[t[i].array].type = "array" /\ g.cell[t[i].array].rc = 0
    BY <1>2, <1>3, <1>4, <2>1
  <2>3. ASSUME NEW i \in DOMAIN t, NEW j \in DOMAIN t, t[i].array = t[j].array PROVE i = j
    <3>1. CASE i = 1 \/ j = 1
      BY <1>2, <1>4, <2>1, <2>3, <3>1
    <3>2. CASE i # 1 /\ j # 1
      <4>1. i - 1 \in DOMAIN rest /\ t[i] = rest[i - 1] /\ j - 1 \in DOMAIN rest /\ t[j] = rest[j - 1]
        BY <2>1, <3>2
      <4>2. i - 1 = j - 1 /\ i \in Int /\ j \in Int
        BY <1>2, <2>1, <2>3, <4>1
      <4> QED BY <4>2
    <3> QED BY <3>1, <3>2
  <2> QED BY <2>2, <2>3 DEF Apart, t
<1>7. ASSUME NEW b, NEW j
      PROVE  Has(g, b, j) <=> Has(h, b, j) /\ ~(b = a /\ j = k)
  <2>1. Has(g, b, j) <=>
            /\ g.cell[b].type = "array" /\ g.cell[b].elems[j] # None
            /\ b = n.array => j \in n.keys
            /\ \A i \in DOMAIN rest : rest[i].array = b => j \in rest[i].keys
    <3>1. HeapOK(g) /\ g.freeing # <<>> /\ n = Head(g.freeing) /\ rest = Tail(g.freeing)
      BY <1>3, <1>5
    <3>2. Has(g, b, j) <=> HasWith(g, n, rest, b, j)
      BY <1>6, <3>1, TopHas
    <3> QED BY <3>2 DEF HasWith
  <2> QED BY <1>2, <1>3, <1>4, <2>1
<1>8. Has(h, a, k) /\ h.cell[a].elems[k] = e
  <2>1. k \in Elements(h.cell[a])
    BY <1>2, <1>3
  <2> QED BY <1>2, <1>3, <2>1 DEF Elements, e
<1>9. Placed(g, orph)
  BY <1>1, <1>3, <1>7 DEF Placed
<1>10. HeldBy(h, orph) = HeldBy(g, orph) \cup {e}
  BY <1>1, <1>2, <1>3, <1>7, <1>8 DEF HeldBy
<1>11. e \notin HeldBy(g, orph)
  <2>1. e \notin orph
    BY <1>1, <1>2, <1>3, <1>8 DEF Placed
  <2>2. ASSUME NEW b \in Cells, NEW j \in Keys, Has(g, b, j) PROVE g.cell[b].elems[j] # e
    BY <1>1, <1>2, <1>3, <1>7, <1>8, <2>2 DEF Placed
  <2> QED BY <2>1, <2>2 DEF HeldBy
<1>12. Left(g) \subseteq Left(h)
  <2> SUFFICES ASSUME NEW x \in Left(g) PROVE x \in Left(h)
    OBVIOUS
  <2> QED BY <1>3, <1>7 DEF Left
<1>13. <<a, k>> \in Left(h) /\ <<a, k>> \notin Left(g)
  <2>1. k # -1
    BY <1>3, KeyTreeAssumption
  <2> QED BY <1>2, <1>3, <1>7, <1>8, <2>1, LeftIn
<1> QED BY <1>1, <1>3, <1>6, <1>9, <1>10, <1>11, <1>12, <1>13 DEF g, e, k, a, f

LEMMA OneUp ==
    ASSUME NEW base \in [Cells -> Nat], NEW o \in Cells
    PROVE  \E up \in [Cells -> Nat] : up[o] = base[o] + 1 /\ Elsewhere(o, up, base)
<1> DEFINE up == [c \in Cells |-> IF c = o THEN base[o] + 1 ELSE base[c]]
<1>1. up \in [Cells -> Nat] /\ up[o] = base[o] + 1 /\ \A c \in Cells : c # o => up[c] = base[c]
  OBVIOUS
<1> HIDE DEF up
<1> QED BY <1>1 DEF Elsewhere

LEMMA HeldGain ==
    ASSUME NEW h, NEW g, NEW orph, NEW e \in Cells, e \notin HeldBy(g, orph), g.cell = h.cell,
           HeldBy(h, orph) = HeldBy(g, orph) \cup {e}, NEW o
    PROVE  HeldTo(h, orph, o) = HeldTo(g, orph, o) + Hits(h.cell[e], o)
<1> DEFINE S == HeldBy(g, orph)
           x == h.cell
<1>1. S \in SUBSET Cells /\ e \notin S /\ HeldBy(h, orph) = S \cup {e} /\ g.cell = x
  BY HeldType
<1> HIDE DEF S, x
<1>2. Tos(S \cup {e}, x, o) = Tos(S, x, o) + Hits(x[e], o)
  BY <1>1, TosMore
<1> QED BY <1>1, <1>2 DEF HeldTo, S, x

LEMMA TakenGood ==
    ASSUME NEW h, NEW orph, NEW base, Good(h, orph, base), h.freeing # <<>>, Head(h.freeing).keys # {},
           NEW e, e = h.cell[Head(h.freeing).array].elems[Least(Head(h.freeing).keys)],
           NEW up \in [Cells -> Nat], \A c \in Cells : up[c] = base[c] + Hits(h.cell[e], c)
    PROVE  Good(Spent(h), orph, up)
<1> DEFINE g == Spent(h)
<1>1. HeapOK(h) /\ h.fault = "RUN" /\ base \in [Cells -> Nat] /\ Plain(h.values) /\ h.values \in Seq(Values)
  BY HeapParts DEF Good
<1>2. /\ e \in Cells /\ HeapOK(g) /\ g.cell = h.cell /\ g.fault = "RUN" /\ g.values = h.values
      /\ Placed(g, orph) /\ Apart(g)
      /\ HeldBy(h, orph) = HeldBy(g, orph) \cup {e} /\ e \notin HeldBy(g, orph)
  BY Taken
<1> HIDE DEF g
<1>3. ASSUME NEW c \in Cells
      PROVE  Rc(g, c) = up[c] + Pointing(g.values, c) + HeldTo(g, orph, c)
  <2> DEFINE S == HeldBy(g, orph)
             H == HeldTo(g, orph, c)
             P == Pointing(h.values, c)
  <2>1. S \in SUBSET Cells /\ H \in Nat /\ P \in Nat
    BY <1>1, HeldType, PointingType
  <2>2. HeldTo(h, orph, c) = H + Hits(h.cell[e], c)
    <3>1. /\ e \in Cells /\ g.cell = h.cell
          /\ HeldBy(h, orph) = HeldBy(g, orph) \cup {e} /\ e \notin HeldBy(g, orph)
      BY <1>2
    <3> QED BY ONLY <3>1, HeldGain
  <2>3. Rc(h, c) = base[c] + P + HeldTo(h, orph, c)
    BY DEF Good, Exact
  <2>4. Rc(g, c) = Rc(h, c)
    BY <1>2 DEF Rc
  <2>5. up[c] = base[c] + Hits(h.cell[e], c) /\ base[c] \in Nat
    BY <1>1
  <2>6. Rc(h, c) = up[c] + P + H
    <3> DEFINE one == Hits(h.cell[e], c)
    <3>1. one \in Nat
      BY HitsType
    <3>2. Rc(h, c) = base[c] + P + (H + one)
      BY <2>2, <2>3
    <3>3. up[c] = base[c] + one /\ base[c] \in Nat
      BY <2>5
    <3> HIDE DEF P, H, one
    <3>4. \A w, x, y, z \in Nat : w + x + (y + z) = (w + z) + x + y
      OBVIOUS
    <3>5. base[c] + P + (H + one) = (base[c] + one) + P + H
      BY <2>1, <3>1, <3>3, <3>4
    <3> QED BY <3>2, <3>3, <3>5
  <2> QED BY <1>2, <2>4, <2>6
<1> QED BY <1>1, <1>2, <1>3 DEF Good, Exact, g

LEMMA FreeNextGood ==
    ASSUME NEW h, NEW orph, NEW base, Good(h, orph, base), h.freeing # <<>>
    PROVE  LET r == FreeNext(h)
           IN  /\ Sound(r, orph, base)
               /\ r.fault = "RUN" => Left(r) \subseteq Left(h) /\ Left(r) # Left(h) /\ r.values = h.values
<1> DEFINE f == Head(h.freeing)
           a == f.array
           e == h.cell[a].elems[Least(f.keys)]
           o == NextElement(h)
           g == Spent(h)
           r == FreeNext(h)
<1>1. HeapOK(h) /\ h.fault = "RUN" /\ base \in [Cells -> Nat] /\ h.cell \in [Cells -> Records] /\ Apart(h)
  BY HeapParts DEF Good
<1>2. h.cell[a].type = "array" /\ a \in Cells
  BY <1>1, TopFrame
<1>3. HeapOK(r)
  BY <1>1, FreeNextTyped
<1>4. \/ Knotted(h.cell) /\ r = HeapOf(h.cell, "WILD", h.values, h.freeing)
      \/ /\ f.keys = {}
         /\ r = HeapOf([h.cell EXCEPT ![a] = FreeCell], h.fault, h.values, Tail(h.freeing))
      \/ /\ f.keys # {}
         /\ r = Dereference(g, o)
  <2>1. h.cell[a].rc = 0
    BY <1>1, TopFrame
  <2>2. Strays(h.cell[a], f.keys) => Knotted(h.cell)
    BY <1>2, <2>1 DEF Strays, Knotted
  <2> HIDE DEF r
  <2> QED BY <1>1, <1>2, <2>2, FreeNextIs DEF r
<1>5. CASE /\ f.keys = {}
           /\ r = HeapOf([h.cell EXCEPT ![a] = FreeCell], h.fault, h.values, Tail(h.freeing))
  <2> DEFINE q == HeapOf([h.cell EXCEPT ![a] = FreeCell], h.fault, h.values, Tail(h.freeing))
  <2>1. r = q
    BY <1>5
  <2>2. HeapOK(q) => Good(q, orph, base) /\ Left(q) \subseteq Left(h) /\ Left(q) # Left(h)
    BY <1>5, GaveBack
  <2>3. q.values = h.values
    BY DEF HeapOf
  <2> HIDE DEF q
  <2>4. HeapOK(q) /\ q.fault = "RUN"
    BY <1>3, <2>1, <2>2 DEF Good
  <2>5. Sound(q, orph, base) /\ Left(q) \subseteq Left(h) /\ Left(q) # Left(h) /\ q.values = h.values
    BY <2>2, <2>3, <2>4 DEF Sound
  <2> HIDE DEF r
  <2> QED BY <2>1, <2>5 DEF r
<1>6. CASE f.keys # {} /\ r = Dereference(g, o)
  <2>1. /\ e \in Cells /\ HeapOK(g) /\ g.cell = h.cell /\ g.fault = "RUN" /\ g.values = h.values
        /\ Placed(g, orph) /\ Apart(g)
        /\ HeldBy(h, orph) = HeldBy(g, orph) \cup {e} /\ e \notin HeldBy(g, orph)
        /\ Left(g) \subseteq Left(h) /\ Left(g) # Left(h)
        /\ o = (IF h.cell[e].type = "ref" THEN h.cell[e].to ELSE e)
    BY <1>6, Taken
  <2>2. h.cell[e] \in Records /\ h.cell[e].type \in Copies
    <3>1. e \in HeldBy(h, orph) /\ Placed(h, orph)
      BY <2>1 DEF Good
    <3> HIDE DEF e
    <3> QED BY <1>1, <2>1, <3>1, HeldCopies
  <2>3. (h.cell[e].type = "ref" <=> h.cell[e].to \in Cells) /\ o \in Cells
    <3> HIDE DEF e
    <3>1. h.cell[e].type = "ref" <=> h.cell[e].to \in Cells
      BY <2>2, RecordFacts
    <3> HIDE DEF o
    <3> QED BY <2>1, <3>1
  <2>4. r.values = h.values
    <3> HIDE DEF g, o
    <3> QED BY <1>6, <2>1, <2>3, DereferenceTyped
  <2>5. Sound(r, orph, base) /\ (r.fault = "RUN" => Left(r) \subseteq Left(g))
    <3>1. CASE h.cell[e].type = "ref"
      <4>1. h.cell[e].to = o
        <5> HIDE DEF e, o
        <5> QED BY <2>1, <3>1
      <4>2. PICK up \in [Cells -> Nat] : up[o] = base[o] + 1 /\ Elsewhere(o, up, base)
        <5> HIDE DEF o
        <5> QED BY <1>1, <2>3, OneUp
      <4>3. \A c \in Cells : up[c] = base[c] + Hits(h.cell[e], c)
        <5> HIDE DEF e, o
        <5> QED BY <1>1, <4>1, <4>2 DEF Hits, Elsewhere
      <4>4. Good(g, orph, up)
        BY <1>6, <4>2, <4>3, TakenGood
      <4> HIDE DEF g, o, r
      <4>5. Sound(Dereference(g, o), orph, base)
            /\ (Dereference(g, o).fault = "RUN" => Left(Dereference(g, o)) \subseteq Left(g))
        BY <1>1, <2>3, <4>2, <4>4, DereferenceGood
      <4> QED BY <1>6, <4>5
    <3>2. CASE h.cell[e].type # "ref"
      <4>1. o = e /\ h.cell[e].type \in {"int", "null"}
        <5> HIDE DEF e, o
        <5> QED BY <2>1, <2>2, <3>2 DEF Copies
      <4>2. \A c \in Cells : base[c] = base[c] + Hits(h.cell[e], c)
        <5> HIDE DEF e
        <5> QED BY <1>1, <2>3, <3>2 DEF Hits
      <4>3. Good(g, orph, base)
        BY <1>1, <1>6, <4>2, TakenGood
      <4> HIDE DEF g, e, o, r
      <4>4. g.cell[o].type \in {"int", "null"} /\ o \in Cells /\ o \notin HeldBy(g, orph)
        BY <2>1, <4>1
      <4>5. Good(Dereference(g, o), orph, base) /\ Left(Dereference(g, o)) \subseteq Left(g)
        BY <4>3, <4>4, PlainDropped
      <4>6. Good(r, orph, base) /\ Left(r) \subseteq Left(g)
        BY <1>6, <4>5
      <4> QED BY <4>6 DEF Sound, Good
    <3> QED BY <3>1, <3>2
  <2> HIDE DEF g, r, e, o
  <2>6. r.fault = "RUN" => Left(r) \subseteq Left(h) /\ Left(r) # Left(h)
    BY <2>1, <2>5
  <2> QED BY <2>4, <2>5, <2>6 DEF r
<1>7. CASE Knotted(h.cell) /\ r = HeapOf(h.cell, "WILD", h.values, h.freeing)
  <2> HIDE DEF r
  <2>1. r.fault = "WILD" /\ r.cell = h.cell
    BY <1>7, HeapOfIs
  <2> QED BY <1>3, <1>7, <2>1 DEF Sound, r
<1> QED BY <1>4, <1>5, <1>6, <1>7

LEMMA PointingNext ==
    ASSUME NEW V, NEW s \in Seq(V), s # <<>>, NEW o
    PROVE  Pointing(s, o) = Pointing(Tail(s), o) + Hits(Head(s), o)
<1> DEFINE t == Tail(s)
           v == Head(s)
<1>1. t \in Seq(V) /\ v \in V
  BY HeadTailProperties
<1>2. s = <<v>> \o t
  <2> DEFINE u == <<v>> \o t
  <2>1. /\ u \in Seq(V) /\ Len(u) = Len(t) + 1 /\ u[1] = v
        /\ \A i \in DOMAIN u : i = 1 \/ (i - 1 \in DOMAIN t /\ u[i] = t[i - 1])
        /\ DOMAIN u = 1..(Len(t) + 1)
    <3> HIDE DEF t, v
    <3> QED BY <1>1, FreeingMore
  <2>2. Len(t) = Len(s) - 1 /\ v = s[1] /\ \A i \in 1..Len(t) : t[i] = s[i + 1]
    BY HeadTailProperties
  <2>3. DOMAIN t = 1..Len(t) /\ Len(t) \in Nat /\ Len(s) \in Nat
    BY <1>1
  <2> HIDE DEF t, v, u
  <2>4. \A i \in 1..Len(s) : u[i] = s[i]
    <3> TAKE i \in 1..Len(s)
    <3>1. CASE i = 1
      BY <2>1, <2>2, <3>1
    <3>2. CASE i # 1
      <4>1. i - 1 \in 1..Len(t) /\ (i - 1) + 1 = i /\ i \in DOMAIN u
        BY <2>1, <2>2, <2>3, <3>2
      <4> QED BY <2>1, <2>2, <3>2, <4>1
    <3> QED BY <3>1, <3>2
  <2>5. Len(u) = Len(s)
    BY <2>1, <2>2, <2>3
  <2>6. s = u
    BY <2>1, <2>4, <2>5, SeqEqual
  <2> QED BY <2>6 DEF u
<1> HIDE DEF t, v
<1>3. <<v>> \in Seq(V)
  BY <1>1
<1>4. Pointing(<<v>> \o t, o) = Pointing(<<v>>, o) + Pointing(t, o)
  BY <1>1, <1>3, PointingBoth
<1>5. Pointing(<<v>>, o) = Hits(v, o)
  BY PointingOne
<1>6. Pointing(t, o) \in Nat
  BY <1>1, PointingType
<1> DEFINE one == Hits(v, o)
<1>7. one \in Nat /\ Pointing(<<v>>, o) = one
  BY <1>5, HitsType
<1> HIDE DEF one
<1>8. Pointing(s, o) = Pointing(t, o) + one
  BY <1>2, <1>4, <1>6, <1>7
<1> QED BY <1>8 DEF t, v, one

LEMMA PlainTail ==
    ASSUME NEW s \in Seq(Values), s # <<>>, Plain(s)
    PROVE  /\ Head(s) \in Values /\ Head(s).flags = {} /\ Tail(s) \in Seq(Values) /\ Plain(Tail(s))
           /\ Len(s) \in Nat /\ Len(Tail(s)) \in Nat /\ Len(s) = Len(Tail(s)) + 1
<1>1. /\ Head(s) = s[1] /\ 1 \in DOMAIN s /\ DOMAIN s = 1..Len(s) /\ Len(s) \in Nat \ {0}
      /\ Head(s) \in Values
  OBVIOUS
<1>2. /\ Tail(s) \in Seq(Values) /\ Len(Tail(s)) = Len(s) - 1
      /\ \A i \in 1..Len(Tail(s)) : Tail(s)[i] = s[i + 1]
  BY HeadTailProperties
<1> DEFINE t == Tail(s)
<1>3. DOMAIN t = 1..Len(t) /\ Len(t) \in Nat
  BY <1>2
<1> HIDE DEF t
<1>4. Plain(t)
  <2> SUFFICES ASSUME NEW i \in DOMAIN t PROVE t[i].flags = {}
    BY DEF Plain
  <2>1. i + 1 \in DOMAIN s /\ t[i] = s[i + 1]
    BY <1>1, <1>2, <1>3 DEF t
  <2> QED BY <2>1 DEF Plain
<1> QED BY <1>1, <1>2, <1>3, <1>4 DEF Plain, t

LEMMA ReleaseNextGood ==
    ASSUME NEW h, NEW orph, NEW base, Good(h, orph, base), h.values # <<>>
    PROVE  LET r == ReleaseNext(h)
           IN  /\ Sound(r, orph, base)
               /\ r.fault = "RUN" => Left(r) \subseteq Left(h) /\ r.values = Tail(h.values)
<1> DEFINE v == Head(h.values)
           t == Tail(h.values)
           rest == HeapOf(h.cell, h.fault, t, h.freeing)
           r == ReleaseNext(h)
<1>1. /\ HeapOK(h) /\ h.fault = "RUN" /\ base \in [Cells -> Nat] /\ Placed(h, orph) /\ Apart(h)
      /\ h.cell \in [Cells -> Records] /\ h.freeing \in Seq(Frames) /\ FramesOK(h.cell, h.freeing)
      /\ h.values \in Seq(Values) /\ Plain(h.values)
  BY HeapParts DEF Good
<1>2. v \in Values /\ v.flags = {} /\ t \in Seq(Values) /\ Plain(t)
  BY <1>1, PlainTail
<1>3. \/ v.type = "ref" /\ r = Dereference(rest, v.to)
      \/ v.type # "ref" /\ r = rest
  <2>1. "FREE" \notin v.flags
    BY <1>2
  <2> HIDE DEF rest, r, v
  <2> QED BY <1>1, <2>1, ReleaseNextIs DEF rest, r, v
<1> HIDE DEF r, v
<1>4. /\ HeapOK(rest) /\ rest.cell = h.cell /\ rest.fault = "RUN" /\ rest.values = t
      /\ rest.freeing = h.freeing
  <2> HIDE DEF t
  <2>1. /\ h.cell \in [Cells -> Records] /\ h.fault \in {"RUN", "CRASH", "WILD"}
        /\ t \in Seq(Values) /\ h.freeing \in Seq(Frames) /\ FramesOK(h.cell, h.freeing)
    BY <1>1, <1>2
  <2>2. LET q == HeapOf(h.cell, h.fault, t, h.freeing)
        IN  HeapOK(q) /\ q.cell = h.cell /\ q.fault = h.fault /\ q.values = t
            /\ q.freeing = h.freeing
    BY ONLY <2>1, HeapIs
  <2> QED BY <1>1, <2>2
<1> HIDE DEF rest
<1>5. /\ \A a, k : Has(rest, a, k) <=> Has(h, a, k)
      /\ Apart(rest)
  BY <1>1, <1>4 DEF Has, Apart
<1>6. /\ HeldBy(rest, orph) = HeldBy(h, orph) /\ \A o : HeldTo(rest, orph, o) = HeldTo(h, orph, o)
      /\ Placed(rest, orph) /\ Left(rest) = Left(h)
  <2>1. HeldBy(rest, orph) = HeldBy(h, orph)
    BY <1>4, <1>5 DEF HeldBy
  <2> QED BY <1>1, <1>4, <1>5, <2>1 DEF HeldTo, Placed, Left
<1>7. ASSUME NEW up \in [Cells -> Nat], \A c \in Cells : up[c] = base[c] + Hits(v, c)
      PROVE  Good(rest, orph, up)
  <2>1. ASSUME NEW c \in Cells
        PROVE  Rc(rest, c) = up[c] + Pointing(rest.values, c) + HeldTo(rest, orph, c)
    <3> DEFINE P == Pointing(t, c)
               H == HeldTo(h, orph, c)
               b == base[c]
               one == Hits(v, c)
    <3>1. Rc(h, c) = b + Pointing(h.values, c) + H
      BY DEF Good, Exact
    <3>2. Pointing(h.values, c) = P + one
      BY ONLY <1>1, h.values # <<>>, PointingNext DEF v
    <3>3. P \in Nat /\ H \in Nat /\ b \in Nat /\ one \in Nat
      BY <1>1, <1>2, PointingType, HeldType, HitsType
    <3>4. \A w, x, y, z \in Nat : w + (x + y) + z = (w + y) + x + z
      OBVIOUS
    <3>5. up[c] = b + one /\ Rc(rest, c) = Rc(h, c) /\ rest.values = t /\ HeldTo(rest, orph, c) = H
      BY <1>4, <1>6, <1>7 DEF Rc
    <3> HIDE DEF P, H, b, one
    <3>6. Rc(h, c) = (b + one) + P + H
      BY <3>1, <3>2, <3>3, <3>4
    <3> QED BY <3>5, <3>6 DEF P
  <2> QED BY <1>2, <1>4, <1>5, <1>6, <2>1 DEF Good, Exact
<1>8. CASE v.type = "ref" /\ r = Dereference(rest, v.to)
  <2> DEFINE o == v.to
  <2>1. o \in Cells
    BY <1>2, <1>8, ValueFacts
  <2>2. PICK up \in [Cells -> Nat] : up[o] = base[o] + 1 /\ Elsewhere(o, up, base)
    <3> HIDE DEF o
    <3> QED BY <1>1, <2>1, OneUp
  <2>3. \A c \in Cells : up[c] = base[c] + Hits(v, c)
    <3>1. \A c \in Cells : c # o => base[c] = up[c] /\ base[c] \in Nat
      BY <1>1, <2>2 DEF Elsewhere
    <3> QED BY <2>2, <3>1 DEF Hits
  <2>4. Good(rest, orph, up)
    BY <1>7, <2>3
  <2> DEFINE q == Dereference(rest, o)
  <2>5. r = q
    BY <1>8
  <2> HIDE DEF o
  <2>6. Sound(q, orph, base) /\ (q.fault = "RUN" => Left(q) \subseteq Left(rest))
    BY <1>1, <2>1, <2>2, <2>4, DereferenceGood
  <2>7. q.values = rest.values
    BY <1>4, <2>1, DereferenceTyped
  <2> HIDE DEF q
  <2> QED BY <1>4, <1>6, <2>5, <2>6, <2>7 DEF r
<1>9. CASE v.type # "ref" /\ r = rest
  <2>1. v.to \notin Cells
    BY <1>2, <1>9, ValueFacts
  <2>2. \A c \in Cells : base[c] = base[c] + Hits(v, c)
    <3>1. \A c \in Cells : base[c] \in Nat /\ c # v.to
      BY <1>1, <2>1
    <3> QED BY <3>1 DEF Hits
  <2>3. Good(r, orph, base)
    BY <1>1, <1>7, <1>9, <2>2
  <2> QED BY <1>4, <1>6, <1>9, <2>3 DEF Good, Sound, r
<1> QED BY <1>3, <1>8, <1>9

\* Every step makes the work that is left smaller.
LEMMA GoGood ==
    ASSUME NEW h, NEW orph, NEW base, Good(h, orph, base), ~Done(h)
    PROVE  LET r == Go(h)
           IN  /\ Sound(r, orph, base)
               /\ r.fault = "RUN" =>
                     /\ Left(r) \subseteq Left(h) /\ Len(r.values) \in Nat /\ Len(h.values) \in Nat
                     /\ Len(r.values) <= Len(h.values)
                     /\ Left(r) # Left(h) \/ Len(r.values) < Len(h.values)
<1> DEFINE r == Go(h)
<1>1. h.values \in Seq(Values) /\ Plain(h.values) /\ h.fault = "RUN"
  BY HeapParts DEF Good
<1>2. CASE h.freeing # <<>>
  <2>1. r = FreeNext(h)
    BY <1>2 DEF Go
  <2> HIDE DEF r
  <2>2. /\ Sound(r, orph, base)
        /\ r.fault = "RUN" => Left(r) \subseteq Left(h) /\ Left(r) # Left(h) /\ r.values = h.values
    BY <1>2, <2>1, FreeNextGood
  <2> QED BY <1>1, <2>2 DEF r
<1>3. CASE h.freeing = <<>>
  <2>1. h.values # <<>> /\ r = ReleaseNext(h)
    BY <1>1, <1>3 DEF Go, Done
  <2> HIDE DEF r
  <2>2. /\ Sound(r, orph, base)
        /\ r.fault = "RUN" => Left(r) \subseteq Left(h) /\ r.values = Tail(h.values)
    BY <2>1, ReleaseNextGood
  <2> DEFINE t == Tail(h.values)
  <2>3. Len(h.values) \in Nat /\ Len(t) \in Nat /\ Len(h.values) = Len(t) + 1
    BY <1>1, <2>1, PlainTail
  <2> HIDE DEF t
  <2>4. Len(t) < Len(h.values) /\ Len(t) <= Len(h.values)
    BY <2>3
  <2> QED BY <2>2, <2>3, <2>4 DEF r, t
<1> QED BY <1>2, <1>3

-----------------------------------------------------------------------------
(* A release comes to its end.                                               *)

LEMMA LeftFinite ==
    ASSUME NEW h
    PROVE  /\ IsFiniteSet(Left(h)) /\ Cardinality(Left(h)) \in Nat
           /\ Cardinality(Left(h)) <= Cardinality(Tables(h)) * (Cardinality(Keys) + 1)
<1> DEFINE K == Keys \cup {-1}
           T == Tables(h)
           X == T \X K
<1>1. IsFiniteSet(T) /\ IsFiniteSet(Keys) /\ -1 \notin Keys
  BY TablesFinite, KeyTreeAssumption
<1>2. IsFiniteSet(K) /\ Cardinality(K) = Cardinality(Keys) + 1
  BY <1>1, FS_AddElement
<1>3. Left(h) \subseteq X
  BY DEF Left, Tables
<1> HIDE DEF K, T
<1>4. IsFiniteSet(X) /\ Cardinality(X) = Cardinality(T) * Cardinality(K)
  BY <1>1, <1>2, FS_Product
<1> HIDE DEF X
<1> QED BY <1>2, <1>3, <1>4, FS_Subset, FS_CardinalityType DEF T

Work(h) == Cardinality(Left(h)) + Len(h.values)

LEMMA WorkType ==
    ASSUME NEW h, HeapOK(h)
    PROVE  Work(h) \in Nat /\ Len(h.values) \in Nat
<1>1. Len(h.values) \in Nat
  BY HeapParts
<1> QED BY <1>1, LeftFinite DEF Work

LEMMA WorkLess ==
    ASSUME NEW h, NEW orph, NEW base, Good(h, orph, base), ~Done(h)
    PROVE  Sound(Go(h), orph, base) /\ (Go(h).fault = "RUN" => Work(Go(h)) < Work(h))
<1> DEFINE r == Go(h)
<1>1. /\ Sound(r, orph, base)
      /\ r.fault = "RUN" =>
            /\ Left(r) \subseteq Left(h) /\ Len(r.values) \in Nat /\ Len(h.values) \in Nat
            /\ Len(r.values) <= Len(h.values)
            /\ Left(r) # Left(h) \/ Len(r.values) < Len(h.values)
  BY GoGood
<1> HIDE DEF r
<1>2. ASSUME r.fault = "RUN" PROVE Work(r) < Work(h)
  <2> DEFINE A == Left(r)
             B == Left(h)
             m == Len(r.values)
             n == Len(h.values)
  <2>1. IsFiniteSet(B) /\ Cardinality(A) \in Nat /\ Cardinality(B) \in Nat
    BY LeftFinite
  <2>2. A \subseteq B /\ m \in Nat /\ n \in Nat /\ m <= n /\ (A # B \/ m < n)
    BY <1>1, <1>2
  <2> HIDE DEF A, B, m, n
  <2>3. Cardinality(A) <= Cardinality(B) /\ (A # B => Cardinality(A) < Cardinality(B))
    BY <2>1, <2>2, FS_Subset
  <2>4. Cardinality(A) + m < Cardinality(B) + n
    BY <2>1, <2>2, <2>3
  <2> QED BY <2>4 DEF Work, A, B, m, n
<1> QED BY <1>1, <1>2 DEF r

LEMMA WorkLeft ==
    ASSUME NEW h, NEW orph, NEW base, Good(h, orph, base), ~Done(h)
    PROVE  Work(h) > 0
<1>1. HeapOK(h) /\ Apart(h) /\ h.fault = "RUN" /\ h.values \in Seq(Values)
  BY HeapParts DEF Good
<1>2. IsFiniteSet(Left(h)) /\ Cardinality(Left(h)) \in Nat /\ Len(h.values) \in Nat
  BY <1>1, LeftFinite
<1>3. CASE h.freeing # <<>>
  <2> DEFINE a == Head(h.freeing).array
  <2>1. a \in Cells /\ h.cell[a].type = "array"
    BY <1>1, <1>3, TopFrame
  <2> HIDE DEF a
  <2>2. <<a, -1>> \in Left(h)
    BY <2>1, LeftIn
  <2>3. Cardinality(Left(h)) # 0
    BY <1>2, <2>2, FS_EmptySet
  <2> QED BY <1>2, <2>3 DEF Work
<1>4. CASE h.freeing = <<>>
  <2>1. h.values # <<>>
    BY <1>1, <1>4 DEF Done
  <2>2. Len(h.values) # 0
    BY <1>1, <2>1
  <2> QED BY <1>2, <2>2 DEF Work
<1> QED BY <1>3, <1>4

LEMMA RunGood ==
    ASSUME NEW start, NEW orph, NEW base, Good(start, orph, base),
           NEW run, IsRun(run, start), NEW m \in Nat
    PROVE  Sound(run[m], orph, base) /\ (~Done(run[m]) => Work(run[m]) + m <= Work(start))
<1> DEFINE P(n) == Sound(run[n], orph, base) /\ (~Done(run[n]) => Work(run[n]) + n <= Work(start))
           Bad == {n \in Nat : ~P(n)}
<1> SUFFICES ASSUME Bad # {} PROVE FALSE
  OBVIOUS
<1>1. PICK n \in Bad : \A j \in Bad : n <= j
  <2>1. Bad \in SUBSET Nat
    OBVIOUS
  <2> HIDE DEF Bad
  <2> QED BY <2>1, LeastNatural
<1>2. n \in Nat /\ ~P(n)
  OBVIOUS
<1>3. Work(start) \in Nat
  BY WorkType DEF Good
<1>4. n # 0
  <2>1. ASSUME n = 0 PROVE FALSE
    <3>1. run[n] = start
      BY <2>1 DEF IsRun
    <3>2. Sound(start, orph, base)
      BY DEF Sound, Good
    <3>3. Work(start) + n <= Work(start)
      BY <1>3, <2>1
    <3> QED BY <1>2, <3>1, <3>2, <3>3
  <2> QED BY <2>1
<1> DEFINE j == n - 1
<1>5. j \in Nat /\ ~(n <= j) /\ j + 1 = n
  BY <1>2, <1>4
<1> HIDE DEF j
<1>6. P(j)
  <2>1. j \notin Bad
    <3> HIDE DEF Bad
    <3> QED BY <1>1, <1>5
  <2> HIDE DEF P
  <2> QED BY <1>5, <2>1
<1>7. run[n] = Go(run[j])
  BY <1>5 DEF IsRun
<1>8. CASE Done(run[j])
  <2>1. run[n] = run[j]
    BY <1>7, <1>8 DEF Go
  <2> QED BY <1>2, <1>6, <1>8, <2>1
<1>9. CASE ~Done(run[j])
  <2>1. run[j].fault = "RUN"
    BY <1>9 DEF Done
  <2>2. Good(run[j], orph, base)
    BY <1>6, <2>1 DEF Sound
  <2>3. Sound(run[n], orph, base) /\ (run[n].fault = "RUN" => Work(run[n]) < Work(run[j]))
    BY <1>7, <1>9, <2>2, WorkLess
  <2>4. Work(run[n]) \in Nat /\ Work(run[j]) \in Nat
    BY <2>2, <2>3, WorkType DEF Sound, Good
  <2>5. Work(run[j]) + j <= Work(start)
    BY <1>6, <1>9
  <2>6. ASSUME ~Done(run[n]) PROVE Work(run[n]) + n <= Work(start)
    <3>1. run[n].fault = "RUN"
      BY <2>6 DEF Done
    <3>2. Work(run[n]) < Work(run[j])
      BY <2>3, <3>1
    <3> DEFINE x == Work(run[n])
               y == Work(run[j])
               z == Work(start)
    <3> HIDE DEF x, y, z
    <3>3. x \in Nat /\ y \in Nat /\ z \in Nat /\ x < y /\ y + j <= z
      BY <1>3, <2>4, <2>5, <3>2 DEF x, y, z
    <3>4. x + n <= z
      BY <1>2, <1>5, <3>3
    <3> QED BY <3>4 DEF x, z
  <2> QED BY <1>2, <2>3, <2>6
<1> QED BY <1>8, <1>9

LEMMA WorkEnough ==
    ASSUME NEW h, HeapOK(h)
    PROVE  Work(h) <= Enough(h, h.values) /\ Enough(h, h.values) \in Nat
<1> DEFINE C == Cardinality(Tables(h))
           K == Cardinality(Keys)
           L == Cardinality(Left(h))
           n == Len(h.values)
<1>1. h.values \in Seq(Values)
  BY HeapParts
<1>2. Enough(h, h.values) \in Nat /\ C \in Nat /\ K \in Nat /\ Enough(h, h.values) = n + C * (K + 2)
  BY <1>1, EnoughType
<1>3. L \in Nat /\ L <= C * (K + 1) /\ n \in Nat
  BY <1>1, LeftFinite
<1> HIDE DEF C, K, L, n
<1>4. C * (K + 2) = C * (K + 1) + C /\ C * (K + 1) \in Nat /\ C * (K + 2) \in Nat
  BY <1>2
<1> DEFINE x == C * (K + 1)
           y == C * (K + 2)
<1>5. y = x + C /\ x \in Nat /\ y \in Nat /\ L <= x
  BY <1>3, <1>4
<1>6. Enough(h, h.values) = n + y
  BY <1>2
<1> HIDE DEF x, y
<1>7. L + n <= n + y
  BY <1>2, <1>3, <1>5
<1> QED BY <1>2, <1>6, <1>7 DEF Work, L, n

\* Nothing is left of the values and of the calls of AdrenoValue_Free.
AtRest(h) == h.values = <<>> /\ h.freeing = <<>>

LEMMA ReleaseKeeps ==
    ASSUME NEW h, NEW s \in Seq(Values), NEW orph, NEW base, Good([h EXCEPT !.values = s], orph, base),
           HeapOK(h)
    PROVE  LET r == Release(h, s)
           IN  Sound(r, orph, base) /\ (r.fault = "RUN" => AtRest(r))
<1> DEFINE start == [h EXCEPT !.values = s]
           r == Release(h, s)
<1>1. start.values = s /\ HeapOK(start) /\ Good(start, orph, base) /\ start.cell = h.cell
  BY StartIs
<1>2. PICK run : IsRun(run, start) /\ r = run[Enough(h, s)]
  BY ReleaseRun
<1> HIDE DEF start, r
<1>3. Work(start) <= Enough(h, s) /\ Enough(h, s) \in Nat /\ Work(start) \in Nat
  <2>1. Enough(start, s) = Enough(h, s)
    BY <1>1 DEF Enough, Tables
  <2> QED BY <1>1, <2>1, WorkEnough, WorkType
<1>4. Sound(r, orph, base) /\ (~Done(r) => Work(r) + Enough(h, s) <= Work(start))
  BY <1>1, <1>2, <1>3, RunGood
<1>5. Done(r)
  <2> SUFFICES ASSUME ~Done(r) PROVE FALSE
    OBVIOUS
  <2>1. Good(r, orph, base)
    BY <1>4 DEF Done, Sound
  <2>2. Work(r) > 0 /\ Work(r) \in Nat
    BY <2>1, WorkLeft, WorkType DEF Good
  <2>3. \A x, y, z \in Nat : ~(x > 0 /\ x + y <= z /\ z <= y)
    OBVIOUS
  <2> QED BY <1>3, <1>4, <2>2, <2>3
<1> QED BY <1>4, <1>5 DEF Done, AtRest, r

\* A heap that has failed stays as it is.
LEMMA ReleaseFailed ==
    ASSUME NEW h, HeapOK(h), h.fault # "RUN", NEW s \in Seq(Values)
    PROVE  Release(h, s).fault = h.fault /\ Release(h, s).cell = h.cell
<1> DEFINE start == [h EXCEPT !.values = s]
<1>1. HeapOK(start) /\ start.fault = h.fault /\ start.cell = h.cell
  BY StartIs
<1>2. PICK run : IsRun(run, start) /\ Release(h, s) = run[Enough(h, s)]
  BY ReleaseRun
<1> HIDE DEF start
<1> DEFINE Bad == {n \in Nat : run[n] # start}
<1>3. Bad = {}
  <2> SUFFICES ASSUME Bad # {} PROVE FALSE
    OBVIOUS
  <2>1. PICK n \in Bad : \A j \in Bad : n <= j
    <3>1. Bad \in SUBSET Nat
      OBVIOUS
    <3> HIDE DEF Bad
    <3> QED BY <3>1, LeastNatural
  <2>2. n \in Nat /\ run[n] # start
    OBVIOUS
  <2>3. n # 0
    BY <1>2, <2>2 DEF IsRun
  <2>4. n - 1 \in Nat /\ ~(n <= n - 1) /\ (n - 1) + 1 = n
    BY <2>2, <2>3
  <2>5. run[n - 1] = start
    <3>1. n - 1 \notin Bad
      <4> HIDE DEF Bad
      <4> QED BY <2>1, <2>4
    <3> QED BY <2>4, <3>1
  <2>6. run[n] = Go(start)
    BY <1>2, <2>4, <2>5 DEF IsRun
  <2>7. Go(start) = start
    BY <1>1 DEF Go, Done
  <2> QED BY <2>2, <2>6, <2>7
<1>4. Enough(h, s) \in Nat
  BY EnoughType
<1> QED BY <1>1, <1>2, <1>3, <1>4

-----------------------------------------------------------------------------
(* Heaps between two instructions.                                           *)

Resting(h) == HeapOK(h) /\ h.fault = "RUN" /\ AtRest(h)

Stays(old, new) ==
    \A c \in Cells : old[c].type = "ref" => new[c].type = "ref" /\ new[c].to = old[c].to

LEMMA ShrinksStays ==
    ASSUME NEW f, NEW g, NEW h, Stays(f, g), Shrinks(g, h)
    PROVE  Stays(f, h)
BY FreeFacts DEF Stays, Shrinks

LEMMA StaysSame == \A f : Stays(f, f)
BY DEF Stays

LEMMA RestingIs ==
    ASSUME NEW cells \in [Cells -> Records], NEW h, h = HeapOf(cells, "RUN", <<>>, <<>>)
    PROVE  Resting(h) /\ h.cell = cells
<1> DEFINE e == <<>>
<1>1. /\ cells \in [Cells -> Records] /\ "RUN" \in {"RUN", "CRASH", "WILD"}
      /\ e \in Seq(Values) /\ e \in Seq(Frames) /\ FramesOK(cells, e)
  BY DEF FramesOK
<1>2. h = HeapOf(cells, "RUN", e, e)
  OBVIOUS
<1> HIDE DEF e
<1>3. LET q == HeapOf(cells, "RUN", e, e)
      IN  HeapOK(q) /\ q.cell = cells /\ q.fault = "RUN" /\ q.values = e /\ q.freeing = e
  BY ONLY <1>1, HeapIs
<1> QED BY <1>2, <1>3 DEF Resting, AtRest, e

LEMMA RestingFacts ==
    ASSUME NEW h, Resting(h)
    PROVE  /\ h = HeapOf(h.cell, "RUN", <<>>, <<>>) /\ h.cell \in [Cells -> Records]
           /\ HeapOK(h) /\ h.fault = "RUN" /\ h.values = <<>> /\ h.freeing = <<>>
BY HeapParts DEF Resting, AtRest

LEMMA HeapRests ==
    ASSUME TypeOK
    PROVE  Resting(Heap) /\ Heap.cell = cell /\ cell \in [Cells -> Records]
<1>1. cell \in [Cells -> Records] /\ Heap = HeapOf(cell, "RUN", <<>>, <<>>)
  BY DEF TypeOK, Records, Heap, HeapOf
<1> QED BY <1>1, RestingIs

\* One cell of the heap changes.
LEMMA RestingPut ==
    ASSUME NEW h, Resting(h), NEW c \in Cells, NEW v \in Records
    PROVE  LET g == [h EXCEPT !.cell[c] = v]
           IN  Resting(g) /\ g.cell = [h.cell EXCEPT ![c] = v]
<1> DEFINE g == [h EXCEPT !.cell[c] = v]
           cells == [h.cell EXCEPT ![c] = v]
<1>1. h = HeapOf(h.cell, "RUN", <<>>, <<>>) /\ h.cell \in [Cells -> Records]
  BY RestingFacts
<1>2. cells \in [Cells -> Records]
  BY <1>1, PutFacts
<1>3. g = HeapOf(cells, "RUN", <<>>, <<>>)
  BY <1>1 DEF HeapOf
<1> HIDE DEF g, cells
<1>4. Resting(g) /\ g.cell = cells
  BY <1>2, <1>3, RestingIs
<1> QED BY <1>4 DEF g, cells

LEMMA RestingCounted ==
    ASSUME NEW h, Resting(h), NEW c \in Cells, NEW n \in 0..(RcMod - 1)
    PROVE  LET g == [h EXCEPT !.cell[c].rc = n]
           IN  Resting(g) /\ g.cell = [h.cell EXCEPT ![c] = [h.cell[c] EXCEPT !.rc = n]]
<1> DEFINE v == [h.cell[c] EXCEPT !.rc = n]
           g == [h EXCEPT !.cell[c].rc = n]
<1>1. h = HeapOf(h.cell, "RUN", <<>>, <<>>) /\ h.cell[c] \in Records
  BY RestingFacts
<1>2. v \in Records
  BY <1>1, Recounted
<1>3. g = [h EXCEPT !.cell[c] = v]
  BY <1>1 DEF HeapOf
<1> HIDE DEF g, v
<1>4. Resting(g) /\ g.cell = [h.cell EXCEPT ![c] = v]
  BY <1>2, <1>3, RestingPut
<1> QED BY <1>4 DEF g, v

\* An array with another key type and tree, alone and in a heap.
Retyped(v, t, tree) == [v EXCEPT !.key = t, !.tree = tree]

RetypedIn(h, a, t, tree) == [h EXCEPT !.cell[a].key = t, !.cell[a].tree = tree]

LEMMA RestingKey ==
    ASSUME NEW h, Resting(h), NEW a \in Cells, h.cell[a].type = "array", NEW t \in Types,
           NEW tree \in Trees
    PROVE  LET g == RetypedIn(h, a, t, tree)
           IN  Resting(g) /\ g.cell = [h.cell EXCEPT ![a] = Retyped(h.cell[a], t, tree)]
<1> DEFINE v == Retyped(h.cell[a], t, tree)
           g == RetypedIn(h, a, t, tree)
<1>1. h = HeapOf(h.cell, "RUN", <<>>, <<>>) /\ h.cell[a] \in Records
  BY RestingFacts
<1>2. h.cell[a] \in Arrays
  BY <1>1, RecordFacts
<1>3. v \in Records
  BY <1>2 DEF Arrays, Records, Retyped
<1>4. g = [h EXCEPT !.cell[a] = v]
  BY <1>1 DEF HeapOf, Retyped, RetypedIn
<1> HIDE DEF g, v
<1>5. Resting(g) /\ g.cell = [h.cell EXCEPT ![a] = v]
  BY <1>3, <1>4, RestingPut
<1> QED BY <1>5 DEF g, v

LEMMA RestingElement ==
    ASSUME NEW h, Resting(h), NEW a \in Cells, h.cell[a].type = "array", NEW k \in Keys,
           NEW e \in Cells \cup {None}
    PROVE  LET g == [h EXCEPT !.cell[a].elems[k] = e]
           IN  Resting(g) /\ g.cell = [h.cell EXCEPT ![a] = [h.cell[a] EXCEPT !.elems[k] = e]]
<1> DEFINE v == [h.cell[a] EXCEPT !.elems[k] = e]
           g == [h EXCEPT !.cell[a].elems[k] = e]
<1>1. h = HeapOf(h.cell, "RUN", <<>>, <<>>) /\ h.cell[a] \in Records
  BY RestingFacts
<1>2. h.cell[a] \in Arrays
  BY <1>1, RecordFacts
<1>3. v \in Records
  BY <1>2 DEF Arrays, Records
<1>4. g = [h EXCEPT !.cell[a] = v]
  BY <1>1 DEF HeapOf
<1> HIDE DEF g, v
<1>5. Resting(g) /\ g.cell = [h.cell EXCEPT ![a] = v]
  BY <1>3, <1>4, RestingPut
<1> QED BY <1>5 DEF g, v

LEMMA RestingFlags ==
    ASSUME NEW h, Resting(h), NEW c \in Cells
    PROVE  LET g == [h EXCEPT !.cell[c].flags = @ \ {"COLLECT"}]
           IN  Resting(g) /\ Stays(h.cell, g.cell)
<1> DEFINE v == [h.cell[c] EXCEPT !.flags = @ \ {"COLLECT"}]
           g == [h EXCEPT !.cell[c].flags = @ \ {"COLLECT"}]
<1>1. h = HeapOf(h.cell, "RUN", <<>>, <<>>) /\ h.cell[c] \in Records /\ h.cell \in [Cells -> Records]
  BY RestingFacts
<1>2. v \in Records /\ v.type = h.cell[c].type /\ v.to = h.cell[c].to
  <2>1. CASE h.cell[c] \in Arrays
    BY <2>1 DEF Arrays, Records
  <2>2. CASE h.cell[c] \in OfType(Types \ {"array"})
    BY <2>2 DEF OfType, Records
  <2> QED BY <1>1, <2>1, <2>2 DEF Records
<1>3. g = [h EXCEPT !.cell[c] = v]
  BY <1>1 DEF HeapOf
<1> HIDE DEF g, v
<1>4. Resting(g) /\ g.cell = [h.cell EXCEPT ![c] = v]
  BY <1>2, <1>3, RestingPut
<1>5. Stays(h.cell, g.cell)
  BY <1>1, <1>2, <1>4 DEF Stays
<1> QED BY <1>4, <1>5 DEF g

-----------------------------------------------------------------------------
(* The stack and the locals.                                                 *)

LEMMA SlotsTyped ==
    ASSUME TypeOK
    PROVE  /\ stack \in Seq(Values) /\ locals \in Seq(Values) /\ Slots \in Seq(Values)
           /\ Len(locals) = LocalsCount /\ DOMAIN locals = Locals /\ LocalsCount \in Nat
           /\ Len(stack) \in Nat /\ Len(stack) <= StackSize /\ StackSize \in Nat
<1>1. LocalsCount \in Nat /\ StackSize \in Nat
  BY ArraysAssumption
<1>2. stack \in Seq(Values) /\ locals \in [1..LocalsCount -> Values] /\ Len(stack) <= StackSize
  BY DEF TypeOK, Locals
<1>3. locals \in Seq(Values) /\ Len(locals) = LocalsCount /\ DOMAIN locals = Locals
  BY <1>1, <1>2 DEF Locals
<1>4. Slots \in Seq(Values)
  BY <1>2, <1>3 DEF Slots
<1> QED BY <1>1, <1>2, <1>3, <1>4

LEMMA OperandsFacts ==
    ASSUME TypeOK, NEW n \in 0..Len(stack)
    PROVE  /\ Operands(n) \in Seq(Values) /\ Rest(n) \in Seq(Values)
           /\ Len(Operands(n)) = n /\ Len(Rest(n)) = Len(stack) - n
           /\ \A i \in 1..n : Operands(n)[i] = stack[i]
           /\ \A i \in 1..Len(Rest(n)) : Rest(n)[i] = stack[n + i]
           /\ Operands(n) \o Rest(n) = stack
<1>1. stack \in Seq(Values) /\ Len(stack) \in Nat /\ n \in Nat /\ n <= Len(stack)
  BY SlotsTyped
<1> DEFINE s == stack
           a == SubSeq(s, 1, n)
           b == SubSeq(s, n + 1, Len(s))
           u == a \o b
<1> HIDE DEF s
<1>2. a \in Seq(Values) /\ Len(a) = n /\ \A i \in 1..n : a[i] = s[i]
  BY <1>1 DEF s
<1>3. b \in Seq(Values) /\ Len(b) = Len(s) - n /\ \A i \in 1..Len(b) : b[i] = s[n + i]
  BY <1>1 DEF s
<1> HIDE DEF a, b
<1>4. /\ u \in Seq(Values) /\ Len(u) = Len(a) + Len(b)
      /\ \A i \in 1..(Len(a) + Len(b)) : u[i] = IF i <= Len(a) THEN a[i] ELSE b[i - Len(a)]
  BY <1>2, <1>3, ConcatProperties
<1>5. Len(u) = Len(s) /\ s \in Seq(Values)
  BY <1>1, <1>2, <1>3, <1>4 DEF s
<1> HIDE DEF u
<1>6. \A i \in 1..Len(s) : u[i] = s[i]
  <2> TAKE i \in 1..Len(s)
  <2>1. CASE i <= n
    BY <1>1, <1>2, <1>3, <1>4, <2>1 DEF s
  <2>2. CASE ~(i <= n)
    <3>1. i - n \in 1..Len(b) /\ n + (i - n) = i
      BY <1>1, <1>3, <2>2 DEF s
    <3>2. u[i] = b[i - n]
      BY <1>1, <1>2, <1>3, <1>4, <2>2 DEF s
    <3> QED BY <1>3, <3>1, <3>2
  <2> QED BY <2>1, <2>2
<1>7. u = s
  BY <1>4, <1>5, <1>6, SeqEqual
<1>8. Operands(n) = a /\ Rest(n) = b
  BY DEF Operands, Rest, a, b, s
<1> QED BY <1>2, <1>3, <1>7, <1>8 DEF u, s

\* The references in the operands and in the rest of the slots.
LEMMA SlotsPoint ==
    ASSUME TypeOK, NEW n \in 0..Len(stack), NEW o
    PROVE  /\ Pointing(Slots, o) = Pointing(Operands(n), o) + Pointing(Rest(n) \o locals, o)
           /\ Pointing(Rest(n) \o locals, o) = Pointing(Rest(n), o) + Pointing(locals, o)
           /\ Pointing(Operands(n), o) \in Nat /\ Pointing(Rest(n), o) \in Nat
           /\ Pointing(locals, o) \in Nat /\ Pointing(Rest(n) \o locals, o) \in Nat
           /\ Rest(n) \o locals \in Seq(Values) /\ Pointing(Slots, o) \in Nat
<1> DEFINE a == Operands(n)
           b == Rest(n)
<1>1. a \in Seq(Values) /\ b \in Seq(Values) /\ a \o b = stack
  BY OperandsFacts
<1>2. locals \in Seq(Values) /\ stack \in Seq(Values)
  BY SlotsTyped
<1> HIDE DEF a, b
<1>3. Pointing(stack, o) = Pointing(a, o) + Pointing(b, o)
  BY <1>1, PointingBoth
<1>4. Pointing(b \o locals, o) = Pointing(b, o) + Pointing(locals, o)
  BY <1>1, <1>2, PointingBoth
<1>5. Pointing(stack \o locals, o) = Pointing(stack, o) + Pointing(locals, o)
  BY <1>2, PointingBoth
<1>6. Pointing(a, o) \in Nat /\ Pointing(b, o) \in Nat /\ Pointing(locals, o) \in Nat
  BY <1>1, <1>2, PointingType
<1>7. b \o locals \in Seq(Values)
  BY <1>1, <1>2
<1>8. Pointing(Slots, o) = Pointing(a, o) + Pointing(b \o locals, o)
  BY <1>3, <1>4, <1>5, <1>6 DEF Slots
<1>9. Pointing(b \o locals, o) \in Nat /\ Pointing(Slots, o) \in Nat
  BY <1>4, <1>6, <1>8
<1> QED BY <1>4, <1>6, <1>7, <1>8, <1>9 DEF a, b

LEMMA PointingAt ==
    ASSUME NEW V, NEW s \in Seq(V), NEW i \in DOMAIN s, NEW o
    PROVE  /\ Pointing(s, o) = Cardinality({j \in DOMAIN s : j # i /\ s[j].to = o}) + Hits(s[i], o)
           /\ Cardinality({j \in DOMAIN s : j # i /\ s[j].to = o}) \in Nat
<1> DEFINE A == {j \in DOMAIN s : j # i /\ s[j].to = o}
           B == {j \in DOMAIN s : s[j].to = o}
<1>1. IsFiniteSet(B) /\ A \subseteq B /\ i \notin A
  BY PointingType
<1>2. CASE s[i].to = o
  <2>1. B = A \cup {i}
    BY <1>2
  <2> HIDE DEF A, B
  <2>2. IsFiniteSet(A) /\ Cardinality(A) \in Nat /\ Cardinality(B) = Cardinality(A) + 1
    BY <1>1, <2>1, FS_Subset, FS_AddElement, FS_CardinalityType
  <2> QED BY <1>2, <2>2 DEF Pointing, Hits, A, B
<1>3. CASE s[i].to # o
  <2>1. B = A
    BY <1>3
  <2> HIDE DEF A, B
  <2>2. Cardinality(A) \in Nat /\ Cardinality(B) = Cardinality(A)
    BY <1>1, <2>1, FS_CardinalityType
  <2> QED BY <1>3, <2>2 DEF Pointing, Hits, A, B
<1> QED BY <1>2, <1>3

LEMMA PointingPut ==
    ASSUME NEW V, NEW s \in Seq(V), NEW i \in DOMAIN s, NEW v \in V, NEW o
    PROVE  /\ [s EXCEPT ![i] = v] \in Seq(V)
           /\ Pointing([s EXCEPT ![i] = v], o) + Hits(s[i], o) = Pointing(s, o) + Hits(v, o)
<1> DEFINE t == [s EXCEPT ![i] = v]
           A == {j \in DOMAIN s : j # i /\ s[j].to = o}
           B == {j \in DOMAIN t : j # i /\ t[j].to = o}
<1>1. t \in Seq(V) /\ DOMAIN t = DOMAIN s /\ t[i] = v /\ \A j \in DOMAIN s : j # i => t[j] = s[j]
  OBVIOUS
<1> HIDE DEF t
<1>2. A = B
  BY <1>1
<1>3. Pointing(s, o) = Cardinality(A) + Hits(s[i], o) /\ Cardinality(A) \in Nat
  BY PointingAt
<1>4. Pointing(t, o) = Cardinality(B) + Hits(v, o)
  <2>1. i \in DOMAIN t
    BY <1>1
  <2>2. Pointing(t, o) = Cardinality(B) + Hits(t[i], o)
    BY <1>1, <2>1, PointingAt
  <2> QED BY <1>1, <2>2
<1> HIDE DEF A, B
<1>5. Pointing(t, o) + Hits(s[i], o) = Pointing(s, o) + Hits(v, o)
  BY <1>2, <1>3, <1>4, HitsType
<1> QED BY <1>1, <1>5 DEF t

LEMMA PointingPair ==
    ASSUME NEW x \in Values, NEW y \in Values, NEW o, NEW s, s = <<x, y>>
    PROVE  Pointing(s, o) = Hits(x, o) + Hits(y, o)
<1>1. s \in Seq(Values) /\ s # <<>> /\ Head(s) = x /\ Tail(s) = <<y>>
  OBVIOUS
<1>2. Pointing(s, o) = Pointing(Tail(s), o) + Hits(Head(s), o)
  BY <1>1, PointingNext
<1>3. Pointing(<<y>>, o) = Hits(y, o)
  BY PointingOne
<1>4. Pointing(s, o) = Hits(y, o) + Hits(x, o)
  BY ONLY <1>1, <1>2, <1>3
<1> QED BY ONLY <1>4, HitsType

LEMMA PointingTriple ==
    ASSUME NEW x \in Values, NEW y \in Values, NEW z \in Values, NEW o, NEW s, s = <<x, y, z>>
    PROVE  Pointing(s, o) = Hits(x, o) + Hits(y, o) + Hits(z, o)
<1> DEFINE t == Tail(s)
<1>1. s \in Seq(Values) /\ s # <<>> /\ Head(s) = x /\ t = <<y, z>>
  OBVIOUS
<1> HIDE DEF t
<1>2. Pointing(s, o) = Pointing(t, o) + Hits(Head(s), o)
  BY <1>1, PointingNext DEF t
<1>3. Pointing(t, o) = Hits(y, o) + Hits(z, o)
  BY <1>1, PointingPair
<1>4. Pointing(s, o) = (Hits(y, o) + Hits(z, o)) + Hits(x, o)
  BY ONLY <1>1, <1>2, <1>3
<1> QED BY ONLY <1>4, HitsType

-----------------------------------------------------------------------------
(* Types, and the references in cells, through every action.                 *)

TypedEnd ==
    /\ state' \in {"RUN", "END", "WILD", "CRASH"}
    /\ stack' \in Seq(Values) /\ Len(stack') <= StackSize
    /\ cell' \in [Cells -> Records]
    /\ Stays(cell, cell')

LEMMA TypedNext ==
    ASSUME TypedEnd, locals' \in [Locals -> Values], lost' \in [Cells -> Nat],
           orphans' \subseteq Cells, loaded' \in BOOLEAN
    PROVE  TypeOK' /\ Stays(cell, cell')
BY DEF TypedEnd, TypeOK, Records

LEMMA ProceedTyped ==
    ASSUME NEW h, HeapOK(h), Stays(cell, h.cell), NEW st \in Seq(Values), Len(st) <= StackSize,
           Proceed(h, st)
    PROVE  TypedEnd
<1>1. h.cell \in [Cells -> Records] /\ h.fault \in {"RUN", "CRASH", "WILD"}
  BY HeapParts
<1> QED BY <1>1 DEF Proceed, TypedEnd

LEMMA NullTyped == Null \in Values /\ \A n \in {0, 1} : Integer(n) \in Values
<1>1. 0 \in 0..(RcMod - 1) /\ 1 \in 0..(RcMod - 1) /\ None \notin Cells
  BY RcFacts, ArraysAssumption
<1> QED BY <1>1 DEF Null, Integer, Values, OfType

LEMMA LostTyped ==
    ASSUME TypeOK, NEW popped \in Seq(Values)
    PROVE  [c \in Cells |-> lost[c] + Pointing(popped, c)] \in [Cells -> Nat]
<1>1. \A c \in Cells : Pointing(popped, c) \in Nat /\ lost[c] \in Nat
  BY PointingType DEF TypeOK
<1>2. \A c \in Cells : lost[c] + Pointing(popped, c) \in Nat
  BY <1>1
<1> QED BY <1>2

LEMMA AbandonTyped ==
    ASSUME TypeOK, NEW h, HeapOK(h), Stays(cell, h.cell), NEW popped \in Seq(Values),
           NEW rest \in Seq(Values), Abandon(h, popped, rest)
    PROVE  TypedEnd /\ locals' \in [Locals -> Values] /\ lost' \in [Cells -> Nat]
<1> DEFINE s == rest \o locals
           left == Release(h, s)
<1>1. s \in Seq(Values)
  BY SlotsTyped
<1>2. /\ state' = IF left.fault = "RUN" THEN "END" ELSE left.fault
      /\ cell' = left.cell /\ stack' = <<>> /\ locals' = [l \in Locals |-> Null]
      /\ lost' = [c \in Cells |-> lost[c] + Pointing(popped, c)]
  BY DEF Abandon
<1> HIDE DEF s
<1>3. HeapOK(left) /\ Shrinks(h.cell, left.cell)
  BY <1>1, ReleaseTyped
<1> HIDE DEF left
<1>4. left.cell \in [Cells -> Records] /\ left.fault \in {"RUN", "CRASH", "WILD"}
  BY <1>3, HeapParts
<1>5. Stays(cell, left.cell)
  BY <1>3, ShrinksStays
<1>6. stack' \in Seq(Values) /\ Len(stack') <= StackSize
  <2>1. <<>> \in Seq(Values) /\ Len(<<>>) = 0 /\ StackSize \in Nat
    BY ArraysAssumption
  <2> QED BY <1>2, <2>1
<1>7. locals' \in [Locals -> Values] /\ lost' \in [Cells -> Nat]
  BY <1>2, NullTyped, LostTyped
<1> QED BY <1>2, <1>4, <1>5, <1>6, <1>7 DEF TypedEnd

LEMMA PushTyped ==
    ASSUME TypeOK, NEW h, HeapOK(h), Stays(cell, h.cell), NEW v \in Values,
           NEW rest \in Seq(Values), Push(h, v, rest)
    PROVE  TypedEnd /\ locals' \in [Locals -> Values] /\ lost' \in [Cells -> Nat]
<1>1. CASE Len(rest) < StackSize
  <2> DEFINE st == <<v>> \o rest
  <2>1. Len(rest) \in Nat /\ StackSize \in Nat
    BY ArraysAssumption
  <2>2. st \in Seq(Values) /\ Len(st) = Len(rest) + 1
    BY FreeingMore
  <2>3. Proceed(h, st) /\ UNCHANGED <<locals, lost>>
    BY <1>1 DEF Push
  <2> HIDE DEF st
  <2>4. TypedEnd
    BY <1>1, <2>1, <2>2, <2>3, ProceedTyped
  <2> QED BY <2>3, <2>4 DEF TypeOK
<1>2. CASE ~(Len(rest) < StackSize)
  <2> DEFINE p == <<v>>
  <2>1. p \in Seq(Values) /\ Abandon(h, p, rest)
    BY <1>2 DEF Push
  <2> HIDE DEF p
  <2> QED BY <2>1, AbandonTyped
<1> QED BY <1>1, <1>2

LEMMA ReleasedTyped ==
    ASSUME NEW f, NEW h, HeapOK(h), Stays(f, h.cell), NEW s \in Seq(Values)
    PROVE  HeapOK(Release(h, s)) /\ Stays(f, Release(h, s).cell)
BY ReleaseTyped, ShrinksStays

LEMMA RestTyped ==
    ASSUME TypeOK, NEW n \in Nat, n <= Len(stack)
    PROVE  /\ n \in 0..Len(stack)
           /\ Operands(n) \in Seq(Values) /\ Rest(n) \in Seq(Values)
           /\ Len(Rest(n)) = Len(stack) - n /\ Len(Rest(n)) \in Nat /\ Len(Rest(n)) <= StackSize
           /\ Len(stack) \in Nat /\ StackSize \in Nat
           /\ \A i \in 1..n : stack[i] \in Values /\ Operands(n)[i] = stack[i]
<1>1. stack \in Seq(Values) /\ Len(stack) \in Nat /\ Len(stack) <= StackSize /\ StackSize \in Nat
  BY SlotsTyped
<1>2. n \in 0..Len(stack)
  BY <1>1
<1>3. /\ Operands(n) \in Seq(Values) /\ Rest(n) \in Seq(Values)
      /\ Len(Rest(n)) = Len(stack) - n /\ \A i \in 1..n : Operands(n)[i] = stack[i]
  BY <1>2, OperandsFacts
<1>4. \A i \in 1..n : stack[i] \in Values
  BY <1>1
<1> QED BY <1>1, <1>2, <1>3, <1>4

LEMMA OperandTyped ==
    ASSUME TypeOK, NEW n \in Nat, NEW i \in 1..n, n <= Len(stack)
    PROVE  stack[i] \in Values
BY RestTyped

LEMMA ConstantTyped ==
    ASSUME TypeOK, LoadConstant
    PROVE  TypeOK' /\ Stays(cell, cell')
<1>1. HeapOK(Heap) /\ Stays(cell, Heap.cell)
  BY HeapRests, StaysSame DEF Resting
<1>2. Integer(1) \in Values /\ stack \in Seq(Values)
  BY NullTyped, SlotsTyped
<1>3. Push(Heap, Integer(1), stack) /\ UNCHANGED <<orphans, loaded>>
  BY DEF LoadConstant
<1>4. TypedEnd /\ locals' \in [Locals -> Values] /\ lost' \in [Cells -> Nat]
  BY <1>1, <1>2, <1>3, PushTyped
<1> QED BY <1>3, <1>4, TypedNext DEF TypeOK

\* A free cell becomes a string or an array.
LEMMA NewCell ==
    ASSUME TypeOK, NEW c \in Cells, cell[c].type = "free", NEW v \in Records
    PROVE  LET h == [Heap EXCEPT !.cell[c] = v]
           IN  Resting(h) /\ h.cell = [cell EXCEPT ![c] = v] /\ Stays(cell, h.cell)
<1> DEFINE h == [Heap EXCEPT !.cell[c] = v]
<1>1. Resting(h) /\ h.cell = [Heap.cell EXCEPT ![c] = v]
  BY HeapRests, RestingPut
<1>2. Heap.cell = cell /\ cell \in [Cells -> Records]
  BY HeapRests
<1> HIDE DEF h
<1>3. Stays(cell, h.cell)
  BY <1>1, <1>2 DEF Stays
<1> QED BY <1>1, <1>2, <1>3 DEF h

LEMMA CellTyped ==
    /\ StringCell \in Records /\ ArrayCell \in Records /\ ArrayCell \in Arrays
    /\ \A c \in Cells : Ref(c) \in Values /\ Ref(c) \in Records
<1>1. 0 \in 0..(RcMod - 1) /\ 1 \in 0..(RcMod - 1) /\ None \notin Cells
  BY RcFacts, ArraysAssumption
<1>2. StringCell \in Records
  BY <1>1 DEF StringCell, Records, OfType, Types
<1>3. ArrayCell \in Arrays
  BY <1>1, TreeFacts DEF ArrayCell, Arrays, Types
<1>4. \A c \in Cells : Ref(c) \in Values
  BY <1>1 DEF Ref, Values, OfType
<1> QED BY <1>2, <1>3, <1>4, ValueFacts DEF Records

LEMMA LoadStringTyped ==
    ASSUME TypeOK, NEW c \in Cells, LoadString(c)
    PROVE  TypeOK' /\ Stays(cell, cell')
<1> DEFINE h == [Heap EXCEPT !.cell[c] = StringCell]
<1>1. cell[c].type = "free" /\ Push(h, Ref(c), stack) /\ UNCHANGED <<orphans, loaded>>
  BY DEF LoadString, Room, Available
<1>2. HeapOK(h) /\ Stays(cell, h.cell)
  BY <1>1, CellTyped, NewCell DEF Resting
<1>3. Ref(c) \in Values /\ stack \in Seq(Values)
  BY CellTyped, SlotsTyped
<1> HIDE DEF h
<1>4. TypedEnd /\ locals' \in [Locals -> Values] /\ lost' \in [Cells -> Nat]
  BY <1>1, <1>2, <1>3, PushTyped
<1> QED BY <1>1, <1>4, TypedNext DEF TypeOK

LEMMA NewArrayTyped ==
    ASSUME TypeOK, NEW c \in Cells, NewArray(c)
    PROVE  TypeOK' /\ Stays(cell, cell')
<1> DEFINE h == [Heap EXCEPT !.cell[c] = ArrayCell]
<1>1. cell[c].type = "free" /\ Push(h, Ref(c), stack) /\ UNCHANGED <<orphans, loaded>>
  BY DEF NewArray, Room, Available
<1>2. HeapOK(h) /\ Stays(cell, h.cell)
  BY <1>1, CellTyped, NewCell DEF Resting
<1>3. Ref(c) \in Values /\ stack \in Seq(Values)
  BY CellTyped, SlotsTyped
<1> HIDE DEF h
<1>4. TypedEnd /\ locals' \in [Locals -> Values] /\ lost' \in [Cells -> Nat]
  BY <1>1, <1>2, <1>3, PushTyped
<1> QED BY <1>1, <1>4, TypedNext DEF TypeOK

LEMMA ComputeTyped ==
    ASSUME TypeOK, Compute
    PROVE  TypeOK' /\ Stays(cell, cell')
<1> DEFINE s == <<stack[1]>>
           h == Release(Heap, s)
           rest == Rest(1)
<1>1. 1 <= Len(stack) /\ Push(h, Integer(0), rest) /\ UNCHANGED <<orphans, loaded>>
  <2>1. Len(stack) \in Nat
    BY SlotsTyped
  <2> QED BY <2>1 DEF Compute
<1>2. rest \in Seq(Values) /\ s \in Seq(Values)
  <2>1. 1 \in Nat /\ 1 \in 1..1 /\ 1 <= Len(stack)
    BY <1>1
  <2>2. stack[1] \in Values /\ rest \in Seq(Values)
    BY <2>1, RestTyped
  <2> QED BY <2>2
<1> HIDE DEF s, rest
<1>3. HeapOK(h) /\ Stays(cell, h.cell)
  <2>1. HeapOK(Heap) /\ Stays(cell, Heap.cell)
    BY HeapRests, StaysSame DEF Resting
  <2> QED BY <1>2, <2>1, ReleasedTyped
<1> HIDE DEF h
<1>4. TypedEnd /\ locals' \in [Locals -> Values] /\ lost' \in [Cells -> Nat]
  BY <1>1, <1>2, <1>3, NullTyped, PushTyped
<1> QED BY <1>1, <1>4, TypedNext DEF TypeOK

LEMMA PopTyped ==
    ASSUME TypeOK, Pop
    PROVE  TypeOK' /\ Stays(cell, cell')
<1> DEFINE s == <<stack[1]>>
           h == Release(Heap, s)
           rest == Rest(1)
<1>1. 1 <= Len(stack) /\ Proceed(h, rest) /\ UNCHANGED <<locals, lost, orphans, loaded>>
  <2>1. Len(stack) \in Nat
    BY SlotsTyped
  <2> QED BY <2>1 DEF Pop
<1>2. rest \in Seq(Values) /\ s \in Seq(Values) /\ Len(rest) <= StackSize
  <2>1. 1 \in Nat /\ 1 \in 1..1 /\ 1 <= Len(stack)
    BY <1>1
  <2>2. stack[1] \in Values /\ rest \in Seq(Values) /\ Len(rest) <= StackSize
    BY <2>1, RestTyped
  <2> QED BY <2>2
<1> HIDE DEF s, rest
<1>3. HeapOK(h) /\ Stays(cell, h.cell)
  <2>1. HeapOK(Heap) /\ Stays(cell, Heap.cell)
    BY HeapRests, StaysSame DEF Resting
  <2> QED BY <1>2, <2>1, ReleasedTyped
<1> HIDE DEF h
<1>4. TypedEnd
  BY <1>1, <1>2, <1>3, ProceedTyped
<1> QED BY <1>1, <1>4, TypedNext DEF TypeOK

\* A cell that counts one reference more.
LEMMA ReferencedFacts ==
    ASSUME NEW h, Resting(h), NEW o \in Cells
    PROVE  LET g == Referenced(h, o)
               v == [h.cell[o] EXCEPT !.rc = (h.cell[o].rc + 1) % RcMod]
           IN  Resting(g) /\ g.cell = [h.cell EXCEPT ![o] = v] /\ Stays(h.cell, g.cell)
               /\ v \in Records /\ v.type = h.cell[o].type /\ v.to = h.cell[o].to
               /\ v.rc = (h.cell[o].rc + 1) % RcMod
               /\ (v.type = "array" => v.elems = h.cell[o].elems)
<1> DEFINE n == (h.cell[o].rc + 1) % RcMod
           v == [h.cell[o] EXCEPT !.rc = n]
           g == Referenced(h, o)
<1>1. h.cell[o] \in Records /\ h.cell \in [Cells -> Records] /\ h = HeapOf(h.cell, "RUN", <<>>, <<>>)
  BY RestingFacts
<1>2. n \in 0..(RcMod - 1)
  <2>1. h.cell[o].rc + 1 \in Int
    BY <1>1, RecordFacts, RcFacts
  <2> QED BY <2>1, RcFacts
<1>3. g = [h EXCEPT !.cell[o].rc = n]
  BY <1>1 DEF Referenced, HeapOf
<1> HIDE DEF n, g
<1>4. Resting(g) /\ g.cell = [h.cell EXCEPT ![o] = v]
  <2>1. LET q == [h EXCEPT !.cell[o].rc = n]
        IN  Resting(q) /\ q.cell = [h.cell EXCEPT ![o] = [h.cell[o] EXCEPT !.rc = n]]
    BY <1>2, RestingCounted
  <2> QED BY <1>3, <2>1
<1>5. /\ v \in Records /\ v.type = h.cell[o].type /\ v.to = h.cell[o].to /\ v.rc = n
      /\ v.type = "array" => v.elems = h.cell[o].elems
  BY <1>1, <1>2, Recounted
<1> HIDE DEF v
<1>6. Stays(h.cell, g.cell)
  BY <1>1, <1>4, <1>5 DEF Stays
<1> QED BY <1>4, <1>5, <1>6 DEF g, v, n

LEMMA LoadLocalTyped ==
    ASSUME TypeOK, NEW l \in Locals, LoadLocal(l)
    PROVE  TypeOK' /\ Stays(cell, cell')
<1> DEFINE v == locals[l]
           h == IF v.type = "ref" THEN Referenced(Heap, v.to) ELSE Heap
<1>1. Push(h, v, stack) /\ UNCHANGED <<orphans, loaded>>
  BY DEF LoadLocal
<1>2. v \in Values /\ stack \in Seq(Values)
  BY DEF TypeOK
<1> HIDE DEF v
<1>3. Resting(h) /\ Stays(cell, h.cell)
  <2>1. CASE v.type = "ref"
    <3>1. v.to \in Cells
      BY <1>2, <2>1, ValueFacts
    <3>2. Resting(Heap) /\ Heap.cell = cell
      BY HeapRests
    <3> QED BY <2>1, <3>1, <3>2, ReferencedFacts
  <2>2. CASE v.type # "ref"
    BY <2>2, HeapRests, StaysSame
  <2> QED BY <2>1, <2>2
<1> HIDE DEF h
<1>4. TypedEnd /\ locals' \in [Locals -> Values] /\ lost' \in [Cells -> Nat]
  BY <1>1, <1>2, <1>3, PushTyped DEF Resting
<1> QED BY <1>1, <1>4, TypedNext DEF TypeOK

LEMMA WildTyped ==
    ASSUME TypeOK, GoWild
    PROVE  TypeOK' /\ Stays(cell, cell')
BY StaysSame DEF GoWild, TypeOK

LEMMA StoreLocalTyped ==
    ASSUME TypeOK, NEW l \in Locals, StoreLocal(l)
    PROVE  TypeOK' /\ Stays(cell, cell')
<1> DEFINE s == <<locals[l]>>
           h == Release(Heap, s)
           rest == Rest(1)
<1>1. 1 <= Len(stack) /\ Proceed(h, rest) /\ locals' = [locals EXCEPT ![l] = stack[1]]
      /\ UNCHANGED <<lost, orphans, loaded>>
  <2>1. Len(stack) \in Nat
    BY SlotsTyped
  <2> QED BY <2>1 DEF StoreLocal
<1>2. rest \in Seq(Values) /\ s \in Seq(Values) /\ Len(rest) <= StackSize /\ stack[1] \in Values
  <2>1. 1 \in Nat /\ 1 \in 1..1 /\ 1 <= Len(stack)
    BY <1>1
  <2>2. stack[1] \in Values /\ rest \in Seq(Values) /\ Len(rest) <= StackSize
    BY <2>1, RestTyped
  <2>3. locals[l] \in Values
    BY DEF TypeOK
  <2> QED BY <2>2, <2>3
<1> HIDE DEF s, rest
<1>3. HeapOK(h) /\ Stays(cell, h.cell)
  <2>1. HeapOK(Heap) /\ Stays(cell, Heap.cell)
    BY HeapRests, StaysSame DEF Resting
  <2> QED BY <1>2, <2>1, ReleasedTyped
<1> HIDE DEF h
<1>4. TypedEnd
  BY <1>1, <1>2, <1>3, ProceedTyped
<1>5. locals' \in [Locals -> Values]
  BY <1>1, <1>2 DEF TypeOK
<1> QED BY <1>1, <1>4, <1>5, TypedNext DEF TypeOK

\* What is popped is lost, and the script stops.
LEMMA StoppedTyped ==
    ASSUME TypeOK, NEW n \in Nat, n <= Len(stack), Abandon(Heap, Operands(n), Rest(n)),
           UNCHANGED <<orphans, loaded>>
    PROVE  TypeOK' /\ Stays(cell, cell')
<1>1. Operands(n) \in Seq(Values) /\ Rest(n) \in Seq(Values)
  BY RestTyped
<1>2. HeapOK(Heap) /\ Stays(cell, Heap.cell)
  BY HeapRests, StaysSame DEF Resting
<1> DEFINE p == Operands(n)
           r == Rest(n)
<1> HIDE DEF p, r
<1>3. p \in Seq(Values) /\ r \in Seq(Values) /\ Abandon(Heap, p, r)
  BY <1>1 DEF p, r
<1>4. TypedEnd /\ locals' \in [Locals -> Values] /\ lost' \in [Cells -> Nat]
  BY <1>2, <1>3, AbandonTyped
<1> QED BY <1>4, TypedNext DEF TypeOK

LEMMA LoadLengthTyped ==
    ASSUME TypeOK, LoadLength
    PROVE  TypeOK' /\ Stays(cell, cell')
<1>1. 1 \in Nat /\ 1 <= Len(stack) /\ Proceed(Heap, Rest(1)) /\ Lose(Operands(1))
      /\ UNCHANGED <<locals, orphans, loaded>>
  <2>1. Len(stack) \in Nat
    BY SlotsTyped
  <2> QED BY <2>1 DEF LoadLength
<1>2. HeapOK(Heap) /\ Stays(cell, Heap.cell)
  BY HeapRests, StaysSame DEF Resting
<1>3. Operands(1) \in Seq(Values) /\ Rest(1) \in Seq(Values) /\ Len(Rest(1)) <= StackSize
  BY <1>1, RestTyped
<1> DEFINE p == Operands(1)
           r == Rest(1)
<1> HIDE DEF p, r
<1>4. p \in Seq(Values) /\ r \in Seq(Values) /\ Len(r) <= StackSize /\ Proceed(Heap, r) /\ Lose(p)
  BY <1>1, <1>3 DEF p, r
<1>5. TypedEnd
  BY <1>2, <1>4, ProceedTyped
<1>6. lost' \in [Cells -> Nat]
  BY <1>4, LostTyped DEF Lose
<1> QED BY <1>1, <1>5, <1>6, TypedNext DEF TypeOK

-----------------------------------------------------------------------------
(* The instructions on elements.                                             *)

LEMMA ElementFacts ==
    ASSUME TypeOK, NEW n \in {2, 3}, Element(n)
    PROVE  /\ n \in Nat /\ n <= Len(stack) /\ Running
           /\ \A i \in 1..n : stack[i] \in Values /\ ~Dangling(stack[i])
           /\ Rest(n) \in Seq(Values) /\ Operands(n) \in Seq(Values) /\ Len(Rest(n)) <= StackSize
           /\ Len(Rest(n)) + n <= StackSize /\ Len(Rest(n)) \in Nat
           /\ n \in 0..Len(stack)
<1>1. n \in Nat /\ n <= Len(stack) /\ Running /\ ~Stale(n)
  <2>1. Len(stack) \in Nat
    BY SlotsTyped
  <2> QED BY <2>1 DEF Element
<1>2. /\ n \in 0..Len(stack)
      /\ Operands(n) \in Seq(Values) /\ Rest(n) \in Seq(Values)
      /\ Len(Rest(n)) = Len(stack) - n /\ Len(Rest(n)) \in Nat /\ Len(Rest(n)) <= StackSize
      /\ Len(stack) \in Nat /\ StackSize \in Nat
      /\ \A i \in 1..n : stack[i] \in Values
  BY <1>1, RestTyped
<1>3. \A i \in 1..n : ~Dangling(stack[i])
  BY <1>1 DEF Stale
<1>4. Len(Rest(n)) + n <= StackSize
  <2>1. Len(stack) <= StackSize
    BY SlotsTyped
  <2> QED BY <1>1, <1>2, <2>1
<1> QED BY <1>1, <1>2, <1>3, <1>4

\* Heap g is h with another contents in one cell.
Puts(g, h, c, v) == Resting(g) /\ g.cell = [h.cell EXCEPT ![c] = v]

LEMMA AcceptsArray ==
    ASSUME TypeOK, NEW a \in Values, NEW k \in Values, Accepts(a, k)
    PROVE  /\ a.type = "ref" /\ a.to \in Cells
           /\ cell[a.to].type = "array" /\ cell[a.to] \in Arrays
           /\ Tree(a) \in Trees
           /\ \A j \in Keys : Planted(Tree(a), j) \in Trees /\ Pruned(Tree(a), j) \in Trees
<1>1. a.type = "ref" /\ a.to \in Cells /\ cell[a.to].type = "array"
  <2>1. a.type = "ref"
    BY ValueFacts DEF Accepts, TypeOf
  <2> QED BY <2>1, ValueFacts DEF Accepts, TypeOf
<1>2. cell[a.to] \in Arrays
  <2>1. cell \in [Cells -> Records]
    BY HeapRests
  <2> QED BY <1>1, <2>1, RecordFacts
<1>3. Tree(a) \in Trees
  BY <1>2 DEF Tree, Arrays
<1> QED BY <1>1, <1>2, <1>3, TreeFacts

\* The array, and the heap once the type of its keys is noted.
LEMMA KeyedFacts ==
    ASSUME TypeOK, NEW a \in Values, NEW k \in Values, Accepts(a, k), NEW tree \in Trees
    PROVE  \E v \in Arrays : /\ Puts(Keyed(a, k, tree), Heap, a.to, v)
                            /\ v.rc = cell[a.to].rc /\ v.to = cell[a.to].to
                            /\ v.elems = cell[a.to].elems
<1> DEFINE o == a.to
           t == TypeOf(k)
           h == Keyed(a, k, tree)
           v == Retyped(cell[o], t, tree)
<1>1. o \in Cells /\ cell[o].type = "array" /\ cell[o] \in Arrays
  BY AcceptsArray
<1>2. Resting(Heap) /\ Heap.cell = cell /\ cell \in [Cells -> Records]
  BY HeapRests
<1>4. t \in Types
  <2>1. CASE k.type = "ref"
    <3>1. cell[k.to] \in Records
      BY <1>2, <2>1, ValueFacts
    <3> QED BY <2>1, <3>1, RecordFacts DEF TypeOf
  <2>2. CASE k.type # "ref"
    BY <2>2, ValueFacts, RecordFacts DEF TypeOf
  <2> QED BY <2>1, <2>2
<1>5. v \in Arrays /\ v.rc = cell[o].rc /\ v.to = cell[o].to /\ v.elems = cell[o].elems
  <2> HIDE DEF t
  <2> QED BY <1>1, <1>4 DEF Arrays, Retyped
<1>6. h = RetypedIn(Heap, o, t, tree)
  BY DEF Keyed, RetypedIn
<1> HIDE DEF t, h
<1>7. Resting(h) /\ h.cell = [cell EXCEPT ![o] = v]
  <2>1. LET g == RetypedIn(Heap, o, t, tree)
        IN  Resting(g) /\ g.cell = [Heap.cell EXCEPT ![o] = Retyped(Heap.cell[o], t, tree)]
    <3> HIDE DEF o
    <3>1. Heap.cell[o].type = "array"
      BY <1>1, <1>2
    <3>2. /\ Resting(Heap) /\ o \in Cells /\ Heap.cell[o].type = "array" /\ t \in Types
          /\ tree \in Trees
      BY <1>1, <1>2, <1>4, <3>1
    <3> QED BY ONLY <3>2, RestingKey
  <2> QED BY <1>2, <1>6, <2>1
<1> HIDE DEF v
<1>8. Puts(h, Heap, o, v)
  BY <1>2, <1>7 DEF Puts
<1> QED BY <1>5, <1>8 DEF h, o

\* The target of the value stored counts the new reference.
Noted(h, v) == IF v.type = "ref" THEN Referenced(h, v.to) ELSE h

LEMMA NotedFacts ==
    ASSUME NEW h, Resting(h), NEW v \in Values
    PROVE  /\ Resting(Noted(h, v)) /\ Stays(h.cell, Noted(h, v).cell)
           /\ \A c \in Cells : /\ Noted(h, v).cell[c].type = h.cell[c].type
                               /\ Noted(h, v).cell[c].to = h.cell[c].to
           /\ v.type # "ref" => Noted(h, v) = h
           /\ v.type = "ref" => Puts(Noted(h, v), h, v.to,
                                     [h.cell[v.to] EXCEPT !.rc = (h.cell[v.to].rc + 1) % RcMod])
<1>1. CASE v.type = "ref"
  <2> DEFINE u == [h.cell[v.to] EXCEPT !.rc = (h.cell[v.to].rc + 1) % RcMod]
             g == Noted(h, v)
  <2>1. v.to \in Cells
    BY <1>1, ValueFacts
  <2>2. g = Referenced(h, v.to)
    BY <1>1 DEF Noted
  <2> HIDE DEF g
  <2>3. /\ Resting(g) /\ g.cell = [h.cell EXCEPT ![v.to] = u] /\ Stays(h.cell, g.cell)
        /\ u.type = h.cell[v.to].type /\ u.to = h.cell[v.to].to
    <3> DEFINE o == v.to
    <3>1. Resting(h) /\ o \in Cells
      BY <2>1
    <3> HIDE DEF o
    <3>2. LET q == Referenced(h, o)
              w == [h.cell[o] EXCEPT !.rc = (h.cell[o].rc + 1) % RcMod]
          IN  Resting(q) /\ q.cell = [h.cell EXCEPT ![o] = w] /\ Stays(h.cell, q.cell)
              /\ w \in Records /\ w.type = h.cell[o].type /\ w.to = h.cell[o].to
              /\ w.rc = (h.cell[o].rc + 1) % RcMod
              /\ (w.type = "array" => w.elems = h.cell[o].elems)
      BY ONLY <3>1, ReferencedFacts
    <3> QED BY <2>2, <3>2 DEF o
  <2>4. h.cell \in [Cells -> Records]
    BY RestingFacts
  <2>5. Puts(g, h, v.to, u)
    BY <2>3 DEF Puts
  <2> HIDE DEF u
  <2>6. \A c \in Cells : g.cell[c].type = h.cell[c].type /\ g.cell[c].to = h.cell[c].to
    BY <2>1, <2>3, <2>4
  <2> QED BY <1>1, <2>3, <2>5, <2>6 DEF g, u
<1>2. CASE v.type # "ref"
  <2>1. Noted(h, v) = h
    BY <1>2 DEF Noted
  <2> QED BY <1>2, <2>1, StaysSame
<1> QED BY <1>1, <1>2

LEMMA PutsPut ==
    ASSUME NEW h, Resting(h), NEW c \in Cells, NEW v \in Records, NEW g, g = [h EXCEPT !.cell[c] = v]
    PROVE  Puts(g, h, c, v)
BY RestingPut DEF Puts

\* The cell made for an element.
LEMMA StoreCellIs ==
    ASSUME NEW h, Resting(h), NEW v \in Values, NEW c \in Cells
    PROVE  \E w \in Records : /\ Puts(StoreCell(v, c, h), Noted(h, v), c, w)
                              /\ w.type = v.type /\ w.to = v.to
<1> DEFINE g == Noted(h, v)
           r == StoreCell(v, c, h)
<1>1. Resting(g)
  BY NotedFacts
<1>2. CASE v.type = "ref"
  <2>1. v.to \in Cells
    BY <1>2, ValueFacts
  <2>2. Ref(v.to) \in Records /\ Ref(v.to).type = "ref" /\ Ref(v.to).to = v.to
    BY <2>1, CellTyped DEF Ref
  <2>3. r = [g EXCEPT !.cell[c] = Ref(v.to)]
    BY <1>2 DEF StoreCell, Noted
  <2> HIDE DEF g, r
  <2>4. Puts(r, g, c, Ref(v.to))
    BY ONLY <1>1, <2>2, <2>3, PutsPut, c \in Cells
  <2> QED BY <1>2, <2>2, <2>4 DEF g, r
<1>3. CASE v.type # "ref"
  <2> DEFINE w == [v EXCEPT !.flags = {"FREE", "COLLECT"}]
  <2>1. r = [g EXCEPT !.cell[c] = w]
    BY <1>3 DEF StoreCell, Noted
  <2>2. w \in Records /\ w.type = v.type /\ w.to = v.to
    BY DEF Values, OfType, Records, Types
  <2> HIDE DEF g, r, w
  <2>3. Puts(r, g, c, w)
    BY ONLY <1>1, <2>1, <2>2, PutsPut, c \in Cells
  <2> QED BY <2>2, <2>3 DEF g, r
<1> QED BY <1>2, <1>3

LEMMA StaysOn ==
    ASSUME NEW f, NEW g, NEW h, Stays(f, g), Stays(g, h)
    PROVE  Stays(f, h)
BY DEF Stays

\* A cell that holds no reference is given another contents.
LEMMA PutStays ==
    ASSUME NEW g, NEW h, Resting(h), NEW c \in Cells, h.cell[c].type # "ref", NEW v, Puts(g, h, c, v)
    PROVE  Stays(h.cell, g.cell)
<1>1. h.cell \in [Cells -> Records]
  BY RestingFacts
<1> QED BY <1>1 DEF Stays, Puts

LEMMA PutAt ==
    ASSUME NEW g, NEW h, Resting(h), NEW c \in Cells, NEW v, Puts(g, h, c, v)
    PROVE  Resting(g) /\ g.cell[c] = v /\ \A e \in Cells \ {c} : g.cell[e] = h.cell[e]
<1>1. h.cell \in [Cells -> Records]
  BY RestingFacts
<1> QED BY <1>1 DEF Puts

LEMMA LeavesTyped ==
    ASSUME TypeOK, NEW k \in Keys, NEW o \in Cells, cell[o] \in Arrays
    PROVE  orphans \cup ({cell[o].elems[k]} \ {None}) \subseteq Cells
BY DEF TypeOK, Arrays

\* Key k of array a is given element e.
Linked(h, a, k, e) == [h EXCEPT !.cell[a].elems[k] = e]

LEMMA LinkedPuts ==
    ASSUME NEW h, Resting(h), NEW a \in Cells, h.cell[a].type = "array", NEW k \in Keys,
           NEW e \in Cells \cup {None}
    PROVE  Puts(Linked(h, a, k, e), h, a, [h.cell[a] EXCEPT !.elems[k] = e])
BY RestingElement DEF Puts, Linked

\* An element instruction pops its operands and releases them.
LEMMA ElementEnds ==
    ASSUME TypeOK, NEW h, HeapOK(h), Stays(cell, h.cell), NEW s \in Seq(Values),
           NEW st \in Seq(Values), Len(st) <= StackSize, Proceed(Release(h, s), st)
    PROVE  TypedEnd
<1> DEFINE r == Release(h, s)
<1>1. HeapOK(r) /\ Stays(cell, r.cell)
  BY ReleasedTyped
<1> HIDE DEF r
<1> QED BY <1>1, ProceedTyped DEF r

\* What OP_STELEM does to the heap before it releases its operands.
StoreHeap(k, c) ==
    Linked(StoreCell(stack[1], c, Keyed(stack[3], stack[2], Planted(Tree(stack[3]), k))),
           stack[3].to, k, c)

LEMMA StoreElementIs ==
    ASSUME TypeOK, NEW k \in Keys, NEW c \in Cells, StoreElement(k, c)
    PROVE  /\ Running /\ Accepts(stack[3], stack[2]) /\ cell[c].type = "free"
           /\ \A i \in 1..3 : stack[i] \in Values /\ ~Dangling(stack[i])
           /\ 3 \in 0..Len(stack)
           /\ Rest(3) \in Seq(Values) /\ Len(Rest(3)) <= StackSize
           /\ <<stack[3], stack[2], stack[1]>> \in Seq(Values)
           /\ Proceed(Release(StoreHeap(k, c), <<stack[3], stack[2], stack[1]>>), Rest(3))
           /\ orphans' = orphans \cup ({cell[stack[3].to].elems[k]} \ {None})
           /\ UNCHANGED <<locals, lost, loaded>>
<1>1. /\ Element(3) /\ Accepts(stack[3], stack[2]) /\ cell[c].type = "free"
      /\ Proceed(Release(StoreHeap(k, c), <<stack[3], stack[2], stack[1]>>), Rest(3))
      /\ orphans' = orphans \cup ({cell[stack[3].to].elems[k]} \ {None})
      /\ UNCHANGED <<locals, lost, loaded>>
  BY DEF StoreElement, Available, Replaced, StoreHeap, Linked, Orphan, Tree
<1>2. /\ Running /\ 3 \in 0..Len(stack) /\ Rest(3) \in Seq(Values) /\ Len(Rest(3)) <= StackSize
      /\ \A i \in 1..3 : stack[i] \in Values /\ ~Dangling(stack[i])
  <2>1. 3 \in {2, 3} /\ Element(3)
    BY <1>1
  <2> QED BY <2>1, ElementFacts
<1>3. stack[1] \in Values /\ stack[2] \in Values /\ stack[3] \in Values
  BY <1>2
<1>4. <<stack[3], stack[2], stack[1]>> \in Seq(Values)
  BY <1>3
<1> QED BY <1>1, <1>2, <1>4

\* The steps in which it does so: the array's key type, the count of the value
\* stored, the element's cell, the array's table.
StoreChain(a, x, k, c, h1, h2, h3, h4, v1, v3) ==
    /\ v1 \in Arrays /\ v3 \in Records
    /\ Puts(h1, Heap, a, v1)
    /\ v1.rc = cell[a].rc /\ v1.to = cell[a].to /\ v1.elems = cell[a].elems
    /\ h2 = Noted(h1, x)
    /\ Puts(h3, h2, c, v3) /\ v3.type = x.type /\ v3.to = x.to
    /\ Puts(h4, h3, a, [h3.cell[a] EXCEPT !.elems[k] = c])
    /\ h4 = StoreHeap(k, c)
    /\ h3.cell[a].type = "array" /\ h2.cell[c].type = "free"

LEMMA StoreSteps ==
    ASSUME TypeOK, NEW k \in Keys, NEW c \in Cells, StoreElement(k, c)
    PROVE  /\ stack[3].type = "ref" /\ stack[3].to \in Cells /\ stack[3].to # c
           /\ cell[stack[3].to].type = "array" /\ cell[stack[3].to] \in Arrays
           /\ stack[1] \in Values
           /\ \E h1, h2, h3, h4, v1, v3 :
                 StoreChain(stack[3].to, stack[1], k, c, h1, h2, h3, h4, v1, v3)
           /\ Resting(StoreHeap(k, c)) /\ Stays(cell, StoreHeap(k, c).cell)
<1> DEFINE x == stack[1]
           y == stack[2]
           z == stack[3]
           a == z.to
           t == Planted(Tree(z), k)
           h1 == Keyed(z, y, t)
           h2 == Noted(h1, x)
           h3 == StoreCell(x, c, h1)
           h4 == Linked(h3, a, k, c)
<1>1. x \in Values /\ y \in Values /\ z \in Values /\ Accepts(z, y) /\ cell[c].type = "free"
  <2>1. 1 \in 1..3 /\ 2 \in 1..3 /\ 3 \in 1..3
    OBVIOUS
  <2> QED BY <2>1, StoreElementIs
<1>2. h4 = StoreHeap(k, c)
  BY DEF StoreHeap
<1> HIDE DEF x, y, z
<1>3. /\ z.type = "ref" /\ a \in Cells /\ cell[a].type = "array" /\ cell[a] \in Arrays
      /\ t \in Trees
  BY <1>1, AcceptsArray
<1> HIDE DEF t
<1>4. PICK v1 \in Arrays : /\ Puts(h1, Heap, a, v1) /\ v1.rc = cell[a].rc
                           /\ v1.to = cell[a].to /\ v1.elems = cell[a].elems
  BY <1>1, <1>3, KeyedFacts
<1>5. a # c
  BY <1>1, <1>3
<1> HIDE DEF h1, a
<1>6. Resting(Heap) /\ Heap.cell = cell /\ v1.type = "array"
  BY HeapRests DEF Arrays
<1>7. Resting(h1) /\ h1.cell[a] = v1 /\ h1.cell[c] = cell[c]
  <2>1. h1.cell[a] = v1 /\ Resting(h1) /\ \A e \in Cells \ {a} : h1.cell[e] = Heap.cell[e]
    BY ONLY <1>3, <1>4, <1>6, PutAt
  <2> QED BY <1>5, <1>6, <2>1
<1>8. /\ Resting(h2) /\ Stays(h1.cell, h2.cell)
      /\ \A e \in Cells : h2.cell[e].type = h1.cell[e].type
  BY <1>1, <1>7, NotedFacts
<1>9. PICK v3 \in Records : Puts(h3, h2, c, v3) /\ v3.type = x.type /\ v3.to = x.to
  BY <1>1, <1>7, StoreCellIs
<1> HIDE DEF h2, h3
<1>10. h2.cell[c].type = "free"
  BY <1>1, <1>7, <1>8
<1>11. Resting(h3) /\ h3.cell[a].type = "array"
  <2>1. Resting(h3) /\ \A e \in Cells \ {c} : h3.cell[e] = h2.cell[e]
    BY ONLY <1>8, <1>9, PutAt, c \in Cells
  <2> QED BY <1>3, <1>5, <1>6, <1>7, <1>8, <2>1
<1>12. Puts(h4, h3, a, [h3.cell[a] EXCEPT !.elems[k] = c])
  <2>1. c \in Cells \cup {None} /\ k \in Keys
    OBVIOUS
  <2> QED BY ONLY <1>3, <1>11, <2>1, LinkedPuts
<1> HIDE DEF h4
<1>13. Stays(cell, h4.cell)
  <2>1. Stays(cell, h1.cell)
    <3>1. Heap.cell[a].type # "ref"
      BY <1>3, <1>6
    <3>2. Stays(Heap.cell, h1.cell)
      BY ONLY <1>3, <1>4, <1>6, <3>1, PutStays
    <3> QED BY <1>6, <3>2
  <2>2. Stays(h2.cell, h3.cell)
    <3>1. h2.cell[c].type # "ref" /\ c \in Cells
      BY <1>10
    <3> QED BY ONLY <1>8, <1>9, <3>1, PutStays
  <2>3. Stays(h3.cell, h4.cell)
    <3>1. h3.cell[a].type # "ref"
      BY <1>11
    <3> DEFINE v4 == [h3.cell[a] EXCEPT !.elems[k] = c]
    <3>2. Puts(h4, h3, a, v4)
      BY <1>12
    <3> HIDE DEF v4
    <3> QED BY ONLY <1>3, <1>11, <3>1, <3>2, PutStays
  <2>4. Stays(cell, h2.cell)
    BY <1>8, <2>1, StaysOn
  <2>5. Stays(cell, h3.cell)
    BY <2>2, <2>4, StaysOn
  <2> QED BY <2>3, <2>5, StaysOn
<1>14. /\ h2 = Noted(h1, x) /\ h4 = StoreHeap(k, c)
  BY <1>2 DEF h2
<1> DEFINE v4 == [h3.cell[a] EXCEPT !.elems[k] = c]
<1>15. Puts(h4, h3, a, v4)
  BY <1>12
<1>16. x \in Values
  BY <1>1
<1>17. x = stack[1] /\ a = stack[3].to /\ z = stack[3]
  BY DEF x, z, a
<1>18. Resting(h4)
  BY <1>12 DEF Puts
<1>19. StoreChain(a, x, k, c, h1, h2, h3, h4, v1, v3)
  BY ONLY <1>4, <1>9, <1>10, <1>11, <1>12, <1>14, v1 \in Arrays, v3 \in Records DEF StoreChain
<1> QED BY ONLY <1>3, <1>5, <1>13, <1>14, <1>16, <1>17, <1>18, <1>19

LEMMA StoreElementTyped ==
    ASSUME TypeOK, NEW k \in Keys, NEW c \in Cells, StoreElement(k, c)
    PROVE  TypeOK' /\ Stays(cell, cell')
<1> DEFINE h == StoreHeap(k, c)
           s == <<stack[3], stack[2], stack[1]>>
           st == Rest(3)
<1>1. /\ st \in Seq(Values) /\ Len(st) <= StackSize /\ s \in Seq(Values)
      /\ Proceed(Release(h, s), st)
      /\ orphans' = orphans \cup ({cell[stack[3].to].elems[k]} \ {None})
      /\ UNCHANGED <<locals, lost, loaded>>
  BY StoreElementIs
<1>2. /\ stack[3].to \in Cells /\ cell[stack[3].to] \in Arrays
      /\ Stays(cell, h.cell) /\ Resting(h)
  BY StoreSteps
<1> HIDE DEF h, s, st
<1>3. HeapOK(h)
  BY <1>2 DEF Resting
<1>4. TypedEnd
  BY <1>1, <1>2, <1>3, ElementEnds
<1>5. orphans' \subseteq Cells
  BY <1>1, <1>2, LeavesTyped
<1> QED BY <1>1, <1>4, <1>5, TypedNext DEF TypeOK

\* OP_RMELEM likewise.
RemoveHeap(k) ==
    Linked(Keyed(stack[3], stack[2], Pruned(Tree(stack[3]), k)), stack[3].to, k, None)

LEMMA RemoveElementIs ==
    ASSUME TypeOK, NEW k \in Keys, RemoveElement(k)
    PROVE  /\ Running /\ Accepts(stack[3], stack[2])
           /\ \A i \in 1..3 : stack[i] \in Values /\ ~Dangling(stack[i])
           /\ 3 \in 0..Len(stack)
           /\ Rest(3) \in Seq(Values) /\ Len(Rest(3)) <= StackSize
           /\ <<stack[3], stack[2]>> \in Seq(Values) /\ Operands(1) \in Seq(Values)
           /\ Proceed(Release(RemoveHeap(k), <<stack[3], stack[2]>>), Rest(3))
           /\ Lose(Operands(1))
           /\ orphans' = orphans \cup ({cell[stack[3].to].elems[k]} \ {None})
           /\ UNCHANGED <<locals, loaded>>
<1>1. /\ Element(3) /\ Accepts(stack[3], stack[2])
      /\ Proceed(Release(RemoveHeap(k), <<stack[3], stack[2]>>), Rest(3))
      /\ Lose(Operands(1))
      /\ orphans' = orphans \cup ({cell[stack[3].to].elems[k]} \ {None})
      /\ UNCHANGED <<locals, loaded>>
  BY DEF RemoveElement, RemoveHeap, Linked, Orphan, Tree
<1>2. /\ Running /\ 3 \in 0..Len(stack) /\ Rest(3) \in Seq(Values) /\ Len(Rest(3)) <= StackSize
      /\ 3 <= Len(stack) /\ Len(stack) \in Nat
      /\ \A i \in 1..3 : stack[i] \in Values /\ ~Dangling(stack[i])
  <2>1. 3 \in {2, 3} /\ Element(3)
    BY <1>1
  <2> QED BY <2>1, ElementFacts, SlotsTyped
<1>3. stack[1] \in Values /\ stack[2] \in Values /\ stack[3] \in Values
  BY <1>2
<1>4. <<stack[3], stack[2]>> \in Seq(Values)
  BY <1>3
<1>5. Operands(1) \in Seq(Values)
  <2>1. 1 \in Nat /\ 1 <= Len(stack)
    BY <1>2
  <2> QED BY <2>1, RestTyped
<1> QED BY <1>1, <1>2, <1>4, <1>5

LEMMA RemoveSteps ==
    ASSUME TypeOK, NEW k \in Keys, RemoveElement(k)
    PROVE  /\ stack[3].type = "ref" /\ stack[3].to \in Cells
           /\ cell[stack[3].to].type = "array" /\ cell[stack[3].to] \in Arrays
           /\ \E h1 : \E v1 \in Arrays :
                   /\ Puts(h1, Heap, stack[3].to, v1)
                   /\ v1.rc = cell[stack[3].to].rc /\ v1.to = cell[stack[3].to].to
                   /\ v1.elems = cell[stack[3].to].elems
                   /\ Puts(RemoveHeap(k), h1, stack[3].to,
                           [h1.cell[stack[3].to] EXCEPT !.elems[k] = None])
           /\ Stays(cell, RemoveHeap(k).cell)
<1> DEFINE y == stack[2]
           z == stack[3]
           a == z.to
           t == Pruned(Tree(z), k)
           h1 == Keyed(z, y, t)
           h4 == Linked(h1, a, k, None)
<1>1. y \in Values /\ z \in Values /\ Accepts(z, y)
  <2>1. 2 \in 1..3 /\ 3 \in 1..3
    OBVIOUS
  <2> QED BY <2>1, RemoveElementIs
<1>2. h4 = RemoveHeap(k)
  BY DEF RemoveHeap
<1> HIDE DEF y, z
<1>3. /\ z.type = "ref" /\ a \in Cells /\ cell[a].type = "array" /\ cell[a] \in Arrays
      /\ t \in Trees
  BY <1>1, AcceptsArray
<1> HIDE DEF t
<1>4. PICK v1 \in Arrays : /\ Puts(h1, Heap, a, v1) /\ v1.rc = cell[a].rc
                           /\ v1.to = cell[a].to /\ v1.elems = cell[a].elems
  BY <1>1, <1>3, KeyedFacts
<1> HIDE DEF h1, a
<1>5. Resting(Heap) /\ Heap.cell = cell /\ v1.type = "array"
  BY HeapRests DEF Arrays
<1>6. Resting(h1) /\ h1.cell[a] = v1
  BY ONLY <1>3, <1>4, <1>5, PutAt
<1>7. Puts(h4, h1, a, [h1.cell[a] EXCEPT !.elems[k] = None])
  <2>1. None \in Cells \cup {None} /\ k \in Keys /\ h1.cell[a].type = "array"
    BY <1>5, <1>6
  <2> QED BY ONLY <1>3, <1>6, <2>1, LinkedPuts
<1> HIDE DEF h4
<1>8. Stays(cell, h4.cell)
  <2>1. Stays(cell, h1.cell)
    <3>1. Heap.cell[a].type # "ref"
      BY <1>3, <1>5
    <3>2. Stays(Heap.cell, h1.cell)
      BY ONLY <1>3, <1>4, <1>5, <3>1, PutStays
    <3> QED BY <1>5, <3>2
  <2>2. Stays(h1.cell, h4.cell)
    <3>1. h1.cell[a].type # "ref"
      BY <1>5, <1>6
    <3> DEFINE v4 == [h1.cell[a] EXCEPT !.elems[k] = None]
    <3>2. Puts(h4, h1, a, v4)
      BY <1>7
    <3> HIDE DEF v4
    <3> QED BY ONLY <1>3, <1>6, <3>1, <3>2, PutStays
  <2> QED BY <2>1, <2>2, StaysOn
<1>9. a = stack[3].to /\ z = stack[3]
  BY DEF z, a
<1> QED BY ONLY <1>2, <1>3, <1>4, <1>7, <1>8, <1>9

LEMMA RemoveElementTyped ==
    ASSUME TypeOK, NEW k \in Keys, RemoveElement(k)
    PROVE  TypeOK' /\ Stays(cell, cell')
<1> DEFINE h == RemoveHeap(k)
           s == <<stack[3], stack[2]>>
           st == Rest(3)
           p == Operands(1)
<1>1. /\ st \in Seq(Values) /\ Len(st) <= StackSize /\ s \in Seq(Values) /\ p \in Seq(Values)
      /\ Proceed(Release(h, s), st) /\ Lose(p)
      /\ orphans' = orphans \cup ({cell[stack[3].to].elems[k]} \ {None})
      /\ UNCHANGED <<locals, loaded>>
  BY RemoveElementIs
<1>2. /\ stack[3].to \in Cells /\ cell[stack[3].to] \in Arrays
      /\ Stays(cell, h.cell) /\ Resting(h)
  BY RemoveSteps DEF Puts
<1> HIDE DEF h, s, st, p
<1>3. HeapOK(h)
  BY <1>2 DEF Resting
<1>4. TypedEnd
  BY <1>1, <1>2, <1>3, ElementEnds
<1>5. orphans' \subseteq Cells /\ lost' \in [Cells -> Nat]
  BY <1>1, <1>2, LeavesTyped, LostTyped DEF Lose
<1> QED BY <1>1, <1>4, <1>5, TypedNext DEF TypeOK

LEMMA FailElementTyped ==
    ASSUME TypeOK, NEW n \in {2, 3}, FailElement(n)
    PROVE  TypeOK' /\ Stays(cell, cell')
<1>1. Element(n) /\ Abandon(Heap, Operands(n), Rest(n)) /\ UNCHANGED <<orphans, loaded>>
  BY DEF FailElement
<1>2. n \in Nat /\ n <= Len(stack)
  BY <1>1, ElementFacts
<1> QED BY <1>1, <1>2, StoppedTyped

LEMMA UnderflowTyped ==
    ASSUME TypeOK, Underflow
    PROVE  TypeOK' /\ Stays(cell, cell')
<1>1. PICK n \in {0, Len(stack)} : Abandon(Heap, Operands(n), Rest(n))
  BY DEF Underflow
<1>2. Len(stack) \in Nat
  BY SlotsTyped
<1>3. n \in Nat /\ n <= Len(stack) /\ UNCHANGED <<orphans, loaded>>
  BY <1>2 DEF Underflow
<1> QED BY <1>1, <1>3, StoppedTyped

LEMMA StopTyped ==
    ASSUME TypeOK, Stop
    PROVE  TypeOK' /\ Stays(cell, cell')
<1>1. Len(stack) \in Nat
  BY SlotsTyped
<1>2. 1 \in Nat /\ 1 <= Len(stack) /\ Abandon(Heap, Operands(1), Rest(1))
      /\ UNCHANGED <<orphans, loaded>>
  BY <1>1 DEF Stop
<1> QED BY <1>2, StoppedTyped

LEMMA LoadMissingTyped ==
    ASSUME TypeOK, NEW k \in Keys, LoadMissing(k)
    PROVE  TypeOK' /\ Stays(cell, cell')
<1> DEFINE y == stack[1]
           z == stack[2]
           t == Tree(z)
           h == Keyed(z, y, t)
           s == <<z, y>>
           rest == Rest(2)
<1>1. Element(2) /\ Accepts(z, y)
  BY DEF LoadMissing
<1>2. PICK f \in {{}, {"FREE"}} : Proceed(Release(h, s), <<[Null EXCEPT !.flags = f]>> \o rest)
  BY DEF LoadMissing
<1>3. UNCHANGED <<locals, lost, orphans>> /\ loaded' = TRUE
  BY DEF LoadMissing
<1>4. /\ y \in Values /\ z \in Values /\ rest \in Seq(Values)
      /\ Len(rest) + 2 <= StackSize /\ Len(rest) \in Nat
  <2>1. 2 \in {2, 3} /\ 1 \in 1..2 /\ 2 \in 1..2
    OBVIOUS
  <2> QED BY <1>1, <2>1, ElementFacts
<1>5. s \in Seq(Values)
  BY <1>4
<1> DEFINE v == [Null EXCEPT !.flags = f]
<1>6. v \in Values
  <2>1. f \in SUBSET {"FREE", "COLLECT"}
    OBVIOUS
  <2>2. v = [type |-> "null", to |-> None, rc |-> 1, flags |-> f]
    BY DEF Null
  <2> HIDE DEF v
  <2> QED BY <2>1, <2>2, RcFacts, ArraysAssumption DEF Values, OfType
<1> DEFINE st == <<v>> \o rest
<1>7. st \in Seq(Values) /\ Len(st) <= StackSize
  <2> HIDE DEF v, rest
  <2>1. st \in Seq(Values) /\ Len(st) = Len(rest) + 1
    BY <1>4, <1>6, FreeingMore
  <2>2. StackSize \in Nat
    BY ArraysAssumption
  <2> HIDE DEF st
  <2> QED BY <1>4, <2>1, <2>2
<1>8. Proceed(Release(h, s), st)
  BY <1>2
<1> HIDE DEF st, v, rest, s, y, z
<1>9. z.to \in Cells /\ cell[z.to].type = "array" /\ t \in Trees
  BY <1>1, <1>4, AcceptsArray
<1> HIDE DEF t
<1>10. PICK w : Puts(h, Heap, z.to, w)
  BY <1>1, <1>4, <1>9, KeyedFacts
<1> DEFINE a == z.to
<1> HIDE DEF h, a
<1>11. Resting(Heap) /\ Heap.cell = cell /\ a \in Cells /\ Heap.cell[a].type # "ref"
       /\ Puts(h, Heap, a, w)
  BY <1>9, <1>10, HeapRests DEF a
<1>12. Stays(Heap.cell, h.cell) /\ Resting(h)
  BY ONLY <1>11, PutStays, PutAt
<1>13. TypedEnd
  <2>1. HeapOK(h) /\ Stays(cell, h.cell)
    BY <1>11, <1>12 DEF Resting
  <2> QED BY <1>5, <1>7, <1>8, <2>1, ElementEnds
<1> QED BY <1>3, <1>13, TypedNext DEF TypeOK

-----------------------------------------------------------------------------
(* The invariant.                                                            *)

\* References to o from the stack, from the locals, and lost ones.
Refs(st, loc, forgotten) == [o \in Cells |-> Pointing(st \o loc, o) + forgotten[o]]

Base == Refs(stack, locals, lost)

\* Every reference is counted, and no value of the function goes to the pool.
Balanced == Good(Heap, orphans, Base) /\ Plain(stack) /\ Plain(locals)

Ledger == ~loaded /\ state \in {"RUN", "END"} => Balanced

ArraysInv == TypeOK /\ Ledger /\ OnlyTanglesBreak

\* What a step does to it when no element has been loaded.
Settles ==
    /\ state' = "WILD" => Knotted(cell')
    /\ state' \in {"RUN", "END"} => Balanced'

\* A heap after a release: it failed on a NULL pointer or in a table with a
\* wrong Parent, or it is good.
Settled(h, orph, base) ==
    Sound(h, orph, base) /\ (h.fault = "RUN" => AtRest(h))

LEMMA RefsFacts ==
    ASSUME NEW st \in Seq(Values), NEW loc \in Seq(Values), NEW f \in [Cells -> Nat]
    PROVE  /\ Refs(st, loc, f) \in [Cells -> Nat]
           /\ \A o \in Cells :
                /\ Refs(st, loc, f)[o] = Pointing(st, o) + Pointing(loc, o) + f[o]
                /\ Pointing(st, o) \in Nat /\ Pointing(loc, o) \in Nat /\ f[o] \in Nat
<1>1. \A o : /\ Pointing(st \o loc, o) = Pointing(st, o) + Pointing(loc, o)
             /\ Pointing(st, o) \in Nat /\ Pointing(loc, o) \in Nat
  BY PointingBoth, PointingType
<1>2. \A o \in Cells : Refs(st, loc, f)[o] = Pointing(st \o loc, o) + f[o]
  BY DEF Refs
<1>3. Refs(st, loc, f) \in [Cells -> Nat]
  BY <1>1 DEF Refs
<1> QED BY <1>1, <1>2, <1>3

LEMMA BaseType == TypeOK => Base \in [Cells -> Nat]
<1> SUFFICES ASSUME TypeOK PROVE Base \in [Cells -> Nat]
  OBVIOUS
<1>1. stack \in Seq(Values) /\ locals \in Seq(Values) /\ lost \in [Cells -> Nat]
  BY SlotsTyped DEF TypeOK
<1> QED BY <1>1, RefsFacts DEF Base

LEMMA PlainBoth ==
    ASSUME NEW V, NEW s \in Seq(V), NEW t \in Seq(V), Plain(s), Plain(t)
    PROVE  Plain(s \o t)
BY DEF Plain

LEMMA PlainRest ==
    ASSUME TypeOK, Plain(stack), NEW n \in Nat, n <= Len(stack)
    PROVE  Plain(Rest(n)) /\ \A i \in 1..n : stack[i].flags = {}
<1>1. n \in 0..Len(stack) /\ Rest(n) \in Seq(Values) /\ Len(Rest(n)) = Len(stack) - n
      /\ Len(stack) \in Nat
  BY RestTyped
<1>2. \A i \in 1..Len(Rest(n)) : Rest(n)[i] = stack[n + i]
  BY <1>1, OperandsFacts
<1>3. stack \in Seq(Values)
  BY SlotsTyped
<1>4. \A i \in 1..Len(stack) : stack[i].flags = {}
  BY <1>3 DEF Plain
<1>5. DOMAIN Rest(n) = 1..Len(Rest(n))
  BY <1>1
<1>6. \A i \in 1..Len(Rest(n)) : n + i \in 1..Len(stack)
  BY <1>1
<1>7. Plain(Rest(n))
  BY <1>2, <1>4, <1>5, <1>6 DEF Plain
<1>8. \A i \in 1..n : i \in 1..Len(stack)
  BY <1>1
<1> QED BY <1>4, <1>7, <1>8

\* What a release takes from the references counted.
Splits(total, s, base) == \A o \in Cells : total[o] = base[o] + Pointing(s, o)

LEMMA ReleaseFrom ==
    ASSUME NEW h, NEW orph, NEW total, Settled(h, orph, total), NEW s \in Seq(Values), Plain(s),
           NEW base \in [Cells -> Nat], Splits(total, s, base)
    PROVE  Settled(Release(h, s), orph, base)
<1> DEFINE r == Release(h, s)
<1>1. CASE h.fault = "RUN"
  <2> DEFINE g == [h EXCEPT !.values = s]
  <2>1. Good(h, orph, total) /\ HeapOK(h) /\ h.values = <<>> /\ h.freeing = <<>>
    BY <1>1 DEF Settled, Sound, AtRest
  <2>2. HeapOK(g) /\ g.cell = h.cell /\ g.fault = "RUN" /\ g.values = s /\ g.freeing = h.freeing
    BY <1>1, <2>1, StartIs
  <2> HIDE DEF g
  <2>3. SameElements(h, g) /\ HeldBy(g, orph) = HeldBy(h, orph)
    BY <2>2 DEF SameElements, Has, HeldBy
  <2>4. Placed(g, orph) /\ \A o : HeldTo(g, orph, o) = HeldTo(h, orph, o)
    <3>1. Alike(HeldBy(h, orph), h, g) /\ Placed(h, orph)
      BY <2>1, <2>2 DEF Alike, Good
    <3> QED BY <2>1, <2>3, <3>1, HeldStays
  <2>5. Exact(g, orph, base)
    <3> SUFFICES ASSUME NEW o \in Cells
                 PROVE  Rc(g, o) = base[o] + Pointing(g.values, o) + HeldTo(g, orph, o)
      BY DEF Exact
    <3>1. Rc(h, o) = total[o] + Pointing(<<>>, o) + HeldTo(h, orph, o)
      BY <2>1 DEF Good, Exact
    <3>2. Pointing(<<>>, o) = 0 /\ total[o] = base[o] + Pointing(s, o)
      BY PointingNone DEF Splits
    <3>3. base[o] \in Nat /\ Pointing(s, o) \in Nat /\ HeldTo(h, orph, o) \in Nat
      BY PointingType, HeldType
    <3>4. Rc(g, o) = Rc(h, o)
      BY <2>2 DEF Rc
    <3>5. \A w, x, y, z, t \in Nat : t = w + x => t + 0 + y = w + x + y
      OBVIOUS
    <3> QED BY <2>2, <2>4, <3>1, <3>2, <3>3, <3>4
  <2>6. Apart(g)
    BY <2>1, <2>2 DEF Apart
  <2>7. Good(g, orph, base)
    BY <2>2, <2>4, <2>5, <2>6 DEF Good
  <2>8. Good([h EXCEPT !.values = s], orph, base) /\ HeapOK(h)
    BY <2>1, <2>7 DEF g
  <2>9. Sound(r, orph, base) /\ (r.fault = "RUN" => AtRest(r))
    BY <2>8, ReleaseKeeps
  <2> QED BY <2>9 DEF Settled
<1>2. CASE h.fault # "RUN"
  <2>1. HeapOK(h) /\ (h.fault = "WILD" => Knotted(h.cell))
    BY DEF Settled, Sound
  <2>2. r.fault = h.fault /\ r.cell = h.cell /\ HeapOK(r)
    BY <1>2, <2>1, ReleaseFailed, ReleaseTyped
  <2> HIDE DEF r
  <2> QED BY <1>2, <2>1, <2>2 DEF Settled, Sound, r
<1> QED BY <1>1, <1>2

\* A heap at rest is its cells.
LEMMA SettledIs ==
    ASSUME NEW h, NEW orph, NEW base, Settled(h, orph, base), h.fault = "RUN", h.cell = cell'
    PROVE  Good(Heap', orph, base)
<1>1. HeapOK(h) /\ AtRest(h) /\ Good(h, orph, base)
  BY DEF Settled, Sound
<1>2. h = HeapOf(h.cell, h.fault, h.values, h.freeing)
  BY <1>1, HeapParts
<1>3. h = Heap'
  BY <1>1, <1>2 DEF HeapOf, Heap, AtRest
<1> QED BY <1>1, <1>3

LEMMA HeapSettled ==
    ASSUME TypeOK, Balanced
    PROVE  Settled(Heap, orphans, Base) /\ Good(Heap, orphans, Base) /\ Resting(Heap)
BY HeapRests DEF Balanced, Settled, Sound, Resting

LEMMA ProceedSettles ==
    ASSUME NEW h, NEW st, Proceed(h, st), Settled(h, orphans', Refs(st, locals', lost')),
           Plain(st), Plain(locals')
    PROVE  Settles
<1>1. state' = h.fault /\ h.cell = cell' /\ stack' = st
  BY DEF Proceed
<1>2. h.fault \in {"RUN", "CRASH", "WILD"} /\ (h.fault = "WILD" => Knotted(h.cell))
  BY HeapParts DEF Settled, Sound
<1>3. ASSUME h.fault = "RUN" PROVE Balanced'
  <2>1. Good(Heap', orphans', Refs(st, locals', lost'))
    BY <1>1, <1>3, SettledIs
  <2>2. Refs(st, locals', lost') = Base'
    BY <1>1 DEF Base, Refs
  <2> QED BY <1>1, <2>1, <2>2 DEF Balanced
<1> QED BY <1>1, <1>2, <1>3 DEF Settles

\* The stack is cleared: nothing refers to anything any more but what is lost.
LEMMA AbandonSettles ==
    ASSUME TypeOK, Plain(locals), NEW h, NEW popped \in Seq(Values), NEW rest \in Seq(Values), Plain(rest),
           NEW total, Settled(h, orphans, total), Splits(total, popped, Refs(rest, locals, lost)),
           Abandon(h, popped, rest), UNCHANGED orphans
    PROVE  Settles
<1> DEFINE s == rest \o locals
           left == Release(h, s)
           nulls == [l \in Locals |-> Null]
           forgotten == [c \in Cells |-> lost[c] + Pointing(popped, c)]
           base == Refs(<<>>, nulls, forgotten)
<1>1. /\ state' = IF left.fault = "RUN" THEN "END" ELSE left.fault
      /\ cell' = left.cell /\ stack' = <<>> /\ locals' = nulls /\ lost' = forgotten
  BY DEF Abandon
<1>2. /\ locals \in Seq(Values) /\ s \in Seq(Values) /\ lost \in [Cells -> Nat]
      /\ nulls \in Seq(Values) /\ <<>> \in Seq(Values) /\ forgotten \in [Cells -> Nat]
  <2>1. locals \in Seq(Values) /\ LocalsCount \in Nat /\ lost \in [Cells -> Nat]
    BY SlotsTyped DEF TypeOK
  <2>2. nulls \in Seq(Values)
    <3>1. nulls \in [1..LocalsCount -> Values]
      BY NullTyped DEF Locals
    <3> HIDE DEF nulls
    <3> QED BY <2>1, <3>1
  <2>3. forgotten \in [Cells -> Nat]
    BY LostTyped
  <2> QED BY <2>1, <2>2, <2>3
<1>3. \A o \in Cells : Pointing(nulls, o) = 0 /\ Pointing(<<>>, o) = 0
  <2> SUFFICES ASSUME NEW o \in Cells PROVE Pointing(nulls, o) = 0
    BY PointingNone
  <2>1. {i \in DOMAIN nulls : nulls[i].to = o} = {}
    BY ArraysAssumption DEF Null
  <2> HIDE DEF nulls
  <2> QED BY <2>1, FS_EmptySet DEF Pointing
<1>4. Plain(nulls) /\ Plain(<<>>)
  BY DEF Plain, Null
<1> HIDE DEF nulls
<1>5. /\ base \in [Cells -> Nat] /\ \A o \in Cells : base[o] = 0 + 0 + forgotten[o]
  <2>1. nulls \in Seq(Values) /\ <<>> \in Seq(Values) /\ forgotten \in [Cells -> Nat]
    BY <1>2
  <2> HIDE DEF forgotten
  <2> DEFINE none == <<>>
  <2>2. none \in Seq(Values) /\ \A o \in Cells : Pointing(none, o) = 0 /\ Pointing(nulls, o) = 0
    BY <1>3, <2>1
  <2> HIDE DEF none
  <2>3. /\ Refs(none, nulls, forgotten) \in [Cells -> Nat]
        /\ \A o \in Cells : Refs(none, nulls, forgotten)[o]
              = Pointing(none, o) + Pointing(nulls, o) + forgotten[o]
    BY <2>1, <2>2, RefsFacts
  <2>4. base = Refs(none, nulls, forgotten)
    BY DEF none
  <2> HIDE DEF base
  <2> QED BY <2>2, <2>3, <2>4
<1>6. Splits(total, s, base)
  <2> SUFFICES ASSUME NEW o \in Cells PROVE total[o] = base[o] + Pointing(s, o)
    BY DEF Splits
  <2>1. total[o] = Refs(rest, locals, lost)[o] + Pointing(popped, o)
    BY DEF Splits
  <2>2. /\ Refs(rest, locals, lost)[o] = Pointing(rest, o) + Pointing(locals, o) + lost[o]
        /\ Pointing(rest, o) \in Nat /\ Pointing(locals, o) \in Nat /\ lost[o] \in Nat
    BY <1>2, RefsFacts
  <2>3. Pointing(s, o) = Pointing(rest, o) + Pointing(locals, o)
    BY <1>2, PointingBoth
  <2>4. base[o] = 0 + 0 + (lost[o] + Pointing(popped, o)) /\ Pointing(popped, o) \in Nat
    BY <1>5, PointingType
  <2> HIDE DEF s, base
  <2>5. \A w, x, y, z \in Nat : (w + x + y) + z = (0 + 0 + (y + z)) + (w + x)
    OBVIOUS
  <2> QED BY <2>1, <2>2, <2>3, <2>4, <2>5
<1>7. Plain(s)
  BY <1>2, PlainBoth
<1> HIDE DEF s, base, forgotten
<1>8. Settled(left, orphans, base)
  BY <1>2, <1>5, <1>6, <1>7, ReleaseFrom
<1> HIDE DEF left
<1>9. left.fault \in {"RUN", "CRASH", "WILD"} /\ (left.fault = "WILD" => Knotted(left.cell))
  BY <1>8, HeapParts DEF Settled, Sound
<1>10. ASSUME left.fault = "RUN" PROVE Balanced'
  <2>1. Good(Heap', orphans, base)
    BY <1>1, <1>8, <1>10, SettledIs
  <2>2. base = Base'
    BY <1>1 DEF base, Base, Refs
  <2>3. Plain(stack') /\ Plain(locals')
    BY <1>1, <1>4
  <2> QED BY <2>1, <2>2, <2>3 DEF Balanced
<1> QED BY <1>1, <1>9, <1>10 DEF Settles

LEMMA PushSettles ==
    ASSUME TypeOK, Plain(locals), NEW h, NEW v \in Values, v.flags = {}, NEW rest \in Seq(Values),
           Plain(rest), NEW total, Settled(h, orphans, total),
           \A o \in Cells : total[o] = Refs(rest, locals, lost)[o] + Hits(v, o),
           total \in [Cells -> Nat],
           Push(h, v, rest), UNCHANGED orphans
    PROVE  Settles
<1> DEFINE p == <<v>>
           st == p \o rest
<1>1. p \in Seq(Values) /\ Plain(p) /\ \A o : Pointing(p, o) = Hits(v, o)
  BY PointingOne DEF Plain
<1>2. CASE Len(rest) < StackSize
  <2>1. Proceed(h, st) /\ UNCHANGED <<locals, lost>>
    BY <1>2 DEF Push
  <2> HIDE DEF p
  <2>2. st \in Seq(Values) /\ Plain(st)
    BY <1>1, PlainBoth
  <2>3. locals \in Seq(Values) /\ lost \in [Cells -> Nat]
    BY SlotsTyped DEF TypeOK
  <2>4. Refs(st, locals, lost) = total
    <3>1. ASSUME NEW o \in Cells PROVE Refs(st, locals, lost)[o] = total[o]
      <4>1. /\ Refs(st, locals, lost)[o] = Pointing(st, o) + Pointing(locals, o) + lost[o]
            /\ Pointing(locals, o) \in Nat /\ lost[o] \in Nat
        <5> HIDE DEF st
        <5> QED BY <2>2, <2>3, RefsFacts
      <4>2. /\ Refs(rest, locals, lost)[o] = Pointing(rest, o) + Pointing(locals, o) + lost[o]
            /\ Pointing(rest, o) \in Nat
        BY <2>3, RefsFacts
      <4>3. Pointing(st, o) = Hits(v, o) + Pointing(rest, o)
        BY <1>1, PointingBoth
      <4>4. total[o] = Refs(rest, locals, lost)[o] + Hits(v, o) /\ Hits(v, o) \in Nat
        BY HitsType
      <4> HIDE DEF st
      <4>5. \A w, x, y, z \in Nat : (x + y + z) + w = (w + x) + y + z
        OBVIOUS
      <4> QED BY <4>1, <4>2, <4>3, <4>4, <4>5
    <3>2. Refs(st, locals, lost) \in [Cells -> Nat]
      BY <2>2, <2>3, RefsFacts
    <3> HIDE DEF st
    <3> QED BY <3>1, <3>2
  <2> HIDE DEF st
  <2> QED BY <2>1, <2>2, <2>4, ProceedSettles
<1>3. CASE ~(Len(rest) < StackSize)
  <2>1. Abandon(h, p, rest)
    BY <1>3 DEF Push
  <2> HIDE DEF p
  <2>2. Splits(total, p, Refs(rest, locals, lost))
    BY <1>1 DEF Splits
  <2> QED BY <1>1, <2>1, <2>2, AbandonSettles
<1> QED BY <1>2, <1>3

LEMMA NoHits ==
    ASSUME NEW v \in Values, v.type # "ref", NEW o \in Cells
    PROVE  Hits(v, o) = 0
BY ValueFacts, ArraysAssumption DEF Hits

LEMMA OperandsAre ==
    ASSUME TypeOK
    PROVE  /\ 1 <= Len(stack) => Operands(1) = <<stack[1]>>
           /\ 2 <= Len(stack) => Operands(2) = <<stack[1], stack[2]>>
           /\ 3 <= Len(stack) => Operands(3) = <<stack[1], stack[2], stack[3]>>
<1>1. Len(stack) \in Nat
  BY SlotsTyped
<1>2. ASSUME NEW n \in 0..Len(stack)
      PROVE  /\ Operands(n) \in Seq(Values) /\ Len(Operands(n)) = n
             /\ \A i \in 1..n : Operands(n)[i] = stack[i] /\ stack[i] \in Values
  <2>1. stack \in Seq(Values)
    BY SlotsTyped
  <2>2. \A i \in 1..n : stack[i] \in Values
    BY <1>1, <2>1
  <2> QED BY <2>2, OperandsFacts
<1>3. ASSUME 1 <= Len(stack) PROVE Operands(1) = <<stack[1]>>
  <2>1. 1 \in 0..Len(stack) /\ 1 \in 1..1
    BY <1>1, <1>3
  <2>2. Operands(1) \in Seq(Values) /\ Len(Operands(1)) = 1 /\ Operands(1)[1] = stack[1]
    BY <1>2, <2>1
  <2> DEFINE q == Operands(1)
  <2> HIDE DEF q
  <2>3. q \in Seq(Values) /\ Len(q) = 1 /\ q[1] = stack[1]
    BY <2>2 DEF q
  <2>4. q = <<stack[1]>>
    BY <2>3
  <2> QED BY <2>4 DEF q
<1>4. ASSUME 2 <= Len(stack) PROVE Operands(2) = <<stack[1], stack[2]>>
  <2>1. 2 \in 0..Len(stack) /\ 1 \in 1..2 /\ 2 \in 1..2
    BY <1>1, <1>4
  <2> DEFINE q == Operands(2)
  <2>2. q \in Seq(Values) /\ Len(q) = 2 /\ q[1] = stack[1] /\ q[2] = stack[2]
    BY <1>2, <2>1
  <2> HIDE DEF q
  <2>3. q = <<stack[1], stack[2]>>
    BY <2>2
  <2> QED BY <2>3 DEF q
<1>5. ASSUME 3 <= Len(stack) PROVE Operands(3) = <<stack[1], stack[2], stack[3]>>
  <2>1. 3 \in 0..Len(stack) /\ 1 \in 1..3 /\ 2 \in 1..3 /\ 3 \in 1..3
    BY <1>1, <1>5
  <2> DEFINE q == Operands(3)
  <2>2. q \in Seq(Values) /\ Len(q) = 3 /\ q[1] = stack[1] /\ q[2] = stack[2] /\ q[3] = stack[3]
    BY <1>2, <2>1
  <2> HIDE DEF q
  <2>3. q = <<stack[1], stack[2], stack[3]>>
    BY <2>2
  <2> QED BY <2>3 DEF q
<1> QED BY <1>3, <1>4, <1>5

LEMMA BaseSplits ==
    ASSUME TypeOK, NEW n \in Nat, n <= Len(stack)
    PROVE  /\ Refs(Rest(n), locals, lost) \in [Cells -> Nat]
           /\ Splits(Base, Operands(n), Refs(Rest(n), locals, lost))
<1>1. n \in 0..Len(stack) /\ Rest(n) \in Seq(Values) /\ Operands(n) \in Seq(Values)
  BY RestTyped
<1>2. locals \in Seq(Values) /\ stack \in Seq(Values) /\ lost \in [Cells -> Nat]
  BY SlotsTyped DEF TypeOK
<1>3. Refs(Rest(n), locals, lost) \in [Cells -> Nat]
  BY <1>1, <1>2, RefsFacts
<1>4. ASSUME NEW o \in Cells
      PROVE  Base[o] = Refs(Rest(n), locals, lost)[o] + Pointing(Operands(n), o)
  <2>1. /\ Refs(Rest(n), locals, lost)[o] = Pointing(Rest(n), o) + Pointing(locals, o) + lost[o]
        /\ Pointing(Rest(n), o) \in Nat /\ Pointing(locals, o) \in Nat /\ lost[o] \in Nat
    BY <1>1, <1>2, RefsFacts
  <2>2. Base[o] = Pointing(stack, o) + Pointing(locals, o) + lost[o]
    BY <1>2, RefsFacts DEF Base
  <2>3. Pointing(stack, o) = Pointing(Operands(n), o) + Pointing(Rest(n), o)
    <3>1. stack = Operands(n) \o Rest(n)
      BY <1>1, OperandsFacts
    <3>2. Pointing(Operands(n) \o Rest(n), o) = Pointing(Operands(n), o) + Pointing(Rest(n), o)
      BY <1>1, PointingBoth
    <3> QED BY <3>1, <3>2
  <2>4. Pointing(Operands(n), o) \in Nat
    BY <1>1, PointingType
  <2>5. \A w, x, y, z \in Nat : (w + x) + y + z = (x + y + z) + w
    OBVIOUS
  <2> QED BY <2>1, <2>2, <2>3, <2>4, <2>5
<1> QED BY <1>3, <1>4 DEF Splits

LEMMA ConstantSettles ==
    ASSUME TypeOK, Balanced, LoadConstant
    PROVE  Settles
<1> DEFINE v == Integer(1)
<1>1. v \in Values /\ v.flags = {} /\ v.type # "ref" /\ stack \in Seq(Values)
  BY NullTyped, SlotsTyped DEF Integer
<1>2. Push(Heap, v, stack) /\ UNCHANGED orphans
  BY DEF LoadConstant
<1> HIDE DEF v
<1>3. \A o \in Cells : Base[o] = Refs(stack, locals, lost)[o] + Hits(v, o)
  <2> SUFFICES ASSUME NEW o \in Cells PROVE Base[o] = Refs(stack, locals, lost)[o] + Hits(v, o)
    OBVIOUS
  <2>1. Base[o] \in Nat
    BY BaseType
  <2> QED BY <1>1, <2>1, NoHits DEF Base
<1>4. Plain(stack) /\ Plain(locals) /\ Settled(Heap, orphans, Base) /\ Base \in [Cells -> Nat]
  BY HeapSettled, BaseType DEF Balanced
<1> QED BY <1>1, <1>2, <1>3, <1>4, PushSettles

\* A free cell begins to count one reference.
LEMMA NewSettled ==
    ASSUME TypeOK, Balanced, NEW c \in Cells, cell[c].type = "free",
           NEW v \in Records, v.type \in {"string", "array"}, v.rc = 1,
           v.type = "array" => \A k \in Keys : v.elems[k] = None,
           NEW h, Resting(h), h.cell = [cell EXCEPT ![c] = v]
    PROVE  \E total \in [Cells -> Nat] :
              /\ Settled(h, orphans, total)
              /\ \A o \in Cells : total[o] = Base[o] + Hits(Ref(c), o)
<1>1. Good(Heap, orphans, Base) /\ Heap.cell = cell /\ cell \in [Cells -> Records] /\ Resting(Heap)
  BY HeapSettled, HeapRests
<1>2. Base \in [Cells -> Nat]
  BY BaseType
<1>3. PICK total \in [Cells -> Nat] : total[c] = Base[c] + 1 /\ Elsewhere(c, total, Base)
  BY <1>2, OneUp
<1>4. /\ HeapOK(h) /\ h.fault = "RUN" /\ h.values = Heap.values /\ h.freeing = <<>>
      /\ Heap.freeing = <<>> /\ HeapOK(Heap)
  BY <1>1, RestingFacts
<1>5. Apart(h)
  BY <1>4 DEF Apart
<1>6. c \notin HeldBy(Heap, orphans)
  BY <1>1, HeldCopies DEF Good, Copies
<1>7. h.cell[c] = v /\ \A o \in Cells : o # c => h.cell[o] = cell[o]
  BY <1>1
<1>8. SameElements(Heap, h)
  <2> SUFFICES ASSUME NEW a \in Cells, NEW k \in Keys
               PROVE  /\ Has(h, a, k) <=> Has(Heap, a, k)
                      /\ Has(Heap, a, k) => h.cell[a].elems[k] = Heap.cell[a].elems[k]
    BY DEF SameElements
  <2>1. CASE a = c
    BY <1>1, <1>7, <2>1 DEF Has
  <2>2. CASE a # c
    BY <1>1, <1>4, <1>7, <2>2 DEF Has
  <2> QED BY <2>1, <2>2
<1>9. Elsewhere(c, Heap.cell, h.cell) /\ Elsewhere(c, Base, total)
  BY <1>1, <1>3, <1>7 DEF Elsewhere
<1>10. Rc(h, c) - total[c] = Rc(Heap, c) - Base[c]
  <2>1. Rc(h, c) = 1 /\ Rc(Heap, c) = 0
    BY <1>1, <1>7 DEF Rc
  <2>2. Base[c] \in Nat
    BY <1>2
  <2> QED BY <1>3, <2>1, <2>2
<1>11. Good(h, orphans, total)
  BY <1>1, <1>2, <1>4, <1>5, <1>6, <1>8, <1>9, <1>10, OneChanged
<1>12. Settled(h, orphans, total)
  BY <1>4, <1>11 DEF Settled, Sound, AtRest, Resting
<1>13. \A o \in Cells : total[o] = Base[o] + Hits(Ref(c), o)
  <2> SUFFICES ASSUME NEW o \in Cells PROVE total[o] = Base[o] + Hits(Ref(c), o)
    OBVIOUS
  <2>1. Base[o] \in Nat
    BY <1>2
  <2> QED BY <1>3, <2>1 DEF Hits, Ref, Elsewhere
<1> QED BY <1>12, <1>13

LEMMA LoadStringSettles ==
    ASSUME TypeOK, Balanced, NEW c \in Cells, LoadString(c)
    PROVE  Settles
<1> DEFINE h == [Heap EXCEPT !.cell[c] = StringCell]
           v == Ref(c)
<1>1. cell[c].type = "free" /\ Push(h, v, stack) /\ UNCHANGED orphans
  BY DEF LoadString, Room, Available
<1>2. Resting(h) /\ h.cell = [cell EXCEPT ![c] = StringCell]
  BY <1>1, CellTyped, NewCell
<1>3. v \in Values /\ v.flags = {} /\ stack \in Seq(Values)
  BY CellTyped, SlotsTyped DEF Ref
<1>4. StringCell \in Records /\ StringCell.type = "string" /\ StringCell.rc = 1
  BY CellTyped DEF StringCell
<1> HIDE DEF h
<1>5. PICK total \in [Cells -> Nat] : /\ Settled(h, orphans, total)
                                      /\ \A o \in Cells : total[o] = Base[o] + Hits(v, o)
  BY <1>1, <1>2, <1>4, NewSettled
<1> HIDE DEF v
<1> QED BY <1>1, <1>3, <1>5, PushSettles DEF Balanced, Base

LEMMA NewArraySettles ==
    ASSUME TypeOK, Balanced, NEW c \in Cells, NewArray(c)
    PROVE  Settles
<1> DEFINE h == [Heap EXCEPT !.cell[c] = ArrayCell]
           v == Ref(c)
<1>1. cell[c].type = "free" /\ Push(h, v, stack) /\ UNCHANGED orphans
  BY DEF NewArray, Room, Available
<1>2. Resting(h) /\ h.cell = [cell EXCEPT ![c] = ArrayCell]
  BY <1>1, CellTyped, NewCell
<1>3. v \in Values /\ v.flags = {} /\ stack \in Seq(Values)
  BY CellTyped, SlotsTyped DEF Ref
<1>4. /\ ArrayCell \in Records /\ ArrayCell.type = "array" /\ ArrayCell.rc = 1
      /\ \A k \in Keys : ArrayCell.elems[k] = None
  BY CellTyped DEF ArrayCell
<1> HIDE DEF h
<1>5. PICK total \in [Cells -> Nat] : /\ Settled(h, orphans, total)
                                      /\ \A o \in Cells : total[o] = Base[o] + Hits(v, o)
  BY <1>1, <1>2, <1>4, NewSettled
<1> HIDE DEF v
<1> QED BY <1>1, <1>3, <1>5, PushSettles DEF Balanced, Base

\* Whoever is not held counts too few references for the counter to wrap.
LEMMA RoomToCount ==
    ASSUME TypeOK, Running, NEW h, Resting(h), Good(h, orphans, Base), NEW o \in Cells, Base[o] > 0
    PROVE  /\ Counts(h, orphans, o)
           /\ (h.cell[o].rc + 1) % RcMod = h.cell[o].rc + 1
<1>1. Counts(h, orphans, o)
  BY CountedFacts
<1>2. h.cell[o].rc \in 1..(RcMod - 1) /\ Rc(h, o) = h.cell[o].rc /\ o \notin HeldBy(h, orphans)
  BY <1>1 DEF Counts
<1>3. Rc(h, o) = Base[o] + 0 + HeldTo(h, orphans, o)
  <2>1. h.values = <<>>
    BY RestingFacts
  <2> QED BY <2>1, PointingNone DEF Good, Exact
<1>4. /\ HeldTo(h, orphans, o) \in Nat /\ Cardinality(Cells) \in Nat
      /\ HeldTo(h, orphans, o) <= Cardinality(Cells) - 1
  <2> DEFINE H == HeldBy(h, orphans)
  <2>1. H \in SUBSET (Cells \ {o})
    BY <1>2, HeldType
  <2>2. IsFiniteSet(Cells) /\ IsFiniteSet(Cells \ {o}) /\ Cardinality(Cells) \in Nat
        /\ Cardinality(Cells \ {o}) = Cardinality(Cells) - 1
    BY ArraysAssumption, FS_RemoveElement, FS_CardinalityType
  <2> HIDE DEF H
  <2>3. Cardinality(H) <= Cardinality(Cells) - 1 /\ Cardinality(H) \in Nat
    BY <2>1, <2>2, FS_Subset, FS_CardinalityType
  <2>4. Tos(H, h.cell, o) \in Nat /\ Tos(H, h.cell, o) <= Cardinality(H)
    <3>1. H \in SUBSET Cells
      BY <2>1
    <3> QED BY <3>1, TosType
  <2>5. HeldTo(h, orphans, o) = Tos(H, h.cell, o)
    BY DEF HeldTo, H
  <2> DEFINE t == Tos(H, h.cell, o)
  <2> HIDE DEF t
  <2>6. t \in Nat /\ t <= Cardinality(H) /\ HeldTo(h, orphans, o) = t
    BY <2>4, <2>5 DEF t
  <2> QED BY <2>2, <2>3, <2>6
<1>5. /\ Base[o] \in Nat /\ Base[o] <= StackSize + LocalsCount + MaxLost
  <2>1. stack \in Seq(Values) /\ locals \in Seq(Values) /\ lost \in [Cells -> Nat]
        /\ Len(stack) \in Nat /\ Len(stack) <= StackSize /\ Len(locals) = LocalsCount
        /\ StackSize \in Nat /\ LocalsCount \in Nat
    BY SlotsTyped DEF TypeOK
  <2>2. Base[o] = Pointing(stack, o) + Pointing(locals, o) + lost[o]
    BY <2>1, RefsFacts DEF Base
  <2>3. Pointing(stack, o) \in Nat /\ Pointing(stack, o) <= Len(stack)
        /\ Pointing(locals, o) \in Nat /\ Pointing(locals, o) <= Len(locals)
    BY <2>1, PointingType
  <2>4. lost[o] \in Nat /\ lost[o] <= MaxLost /\ MaxLost \in Nat
    BY <2>1, ArraysAssumption DEF Running
  <2>5. \A p, q, l, n, a, b, m \in Nat : p <= n /\ n <= a /\ q <= b /\ l <= m
           => p + q + l <= a + b + m /\ p + q + l \in Nat
    OBVIOUS
  <2> QED BY <2>1, <2>2, <2>3, <2>4, <2>5
<1>6. LocalsCount + StackSize + Cardinality(Cells) + MaxLost < RcMod /\ RcMod \in Nat
      /\ LocalsCount \in Nat /\ StackSize \in Nat /\ MaxLost \in Nat
  BY ArraysAssumption
<1>7. \A b, t, c, p, q, m, n \in Nat :
         t <= c - 1 /\ b <= p + q + m /\ q + p + c + m < n => (b + 0 + t) + 1 < n
  OBVIOUS
<1>8. h.cell[o].rc + 1 < RcMod
  BY <1>2, <1>3, <1>4, <1>5, <1>6, <1>7
<1>9. \A M \in Nat \ {0} : \A x \in 0..(M - 1) : x % M = x
  OBVIOUS
<1>10. h.cell[o].rc + 1 \in 0..(RcMod - 1)
  BY <1>2, <1>8, RcFacts
<1> QED BY <1>1, <1>9, <1>10, RcFacts

LEMMA CountedOnce ==
    ASSUME TypeOK, Running, NEW h, Resting(h), Good(h, orphans, Base), NEW o \in Cells, Base[o] > 0
    PROVE  \E total \in [Cells -> Nat] :
              /\ Good(Referenced(h, o), orphans, total)
              /\ \A c \in Cells : total[c] = Base[c] + Hits(Ref(o), c)
<1> DEFINE g == Referenced(h, o)
<1>1. Counts(h, orphans, o) /\ (h.cell[o].rc + 1) % RcMod = h.cell[o].rc + 1
  BY RoomToCount
<1>2. PICK v \in Records : /\ Resting(g) /\ g.cell = [h.cell EXCEPT ![o] = v]
                           /\ v.type = h.cell[o].type /\ v.rc = h.cell[o].rc + 1
                           /\ v.type = "array" => v.elems = h.cell[o].elems
  <2>1. Resting(h) /\ o \in Cells
    OBVIOUS
  <2>2. LET q == Referenced(h, o)
            w == [h.cell[o] EXCEPT !.rc = (h.cell[o].rc + 1) % RcMod]
        IN  Resting(q) /\ q.cell = [h.cell EXCEPT ![o] = w] /\ Stays(h.cell, q.cell)
            /\ w \in Records /\ w.type = h.cell[o].type /\ w.to = h.cell[o].to
            /\ w.rc = (h.cell[o].rc + 1) % RcMod
            /\ (w.type = "array" => w.elems = h.cell[o].elems)
    BY ONLY <2>1, ReferencedFacts
  <2> QED BY <1>1, <2>2
<1> HIDE DEF g
<1>3. Base \in [Cells -> Nat]
  BY BaseType
<1>4. PICK total \in [Cells -> Nat] : total[o] = Base[o] + 1 /\ Elsewhere(o, total, Base)
  BY <1>3, OneUp
<1>5. /\ h.cell \in [Cells -> Records] /\ HeapOK(g) /\ g.fault = "RUN" /\ g.values = h.values
      /\ g.freeing = <<>> /\ h.freeing = <<>>
  BY <1>2, RestingFacts
<1>6. g.cell[o] = v /\ \A c \in Cells : c # o => g.cell[c] = h.cell[c]
  BY <1>2, <1>5
<1>7. /\ o \notin HeldBy(h, orphans) /\ Rc(h, o) = h.cell[o].rc
      /\ h.cell[o].type \in {"string", "array"} /\ h.cell[o].rc \in 1..(RcMod - 1)
  BY <1>1 DEF Counts
<1>8. SameElements(h, g)
  <2>1. SameArrays(h, g)
    BY <1>2, <1>6 DEF SameArrays
  <2> QED BY <1>5, <2>1, SameFrames
<1>9. Apart(g)
  BY <1>5 DEF Apart
<1>10. Elsewhere(o, h.cell, g.cell) /\ Elsewhere(o, Base, total)
  BY <1>4, <1>6 DEF Elsewhere
<1>11. Rc(g, o) - total[o] = Rc(h, o) - Base[o]
  <2>1. Rc(g, o) = h.cell[o].rc + 1
    BY <1>2, <1>6, <1>7 DEF Rc
  <2>2. Base[o] \in Nat /\ h.cell[o].rc \in Nat
    BY <1>3, <1>7, RcFacts
  <2>3. \A x, y \in Nat : (x + 1) - (y + 1) = x - y
    OBVIOUS
  <2> QED BY <1>4, <1>7, <2>1, <2>2, <2>3
<1>12. Good(g, orphans, total)
  BY <1>5, <1>7, <1>8, <1>9, <1>10, <1>11, OneChanged
<1>13. \A c \in Cells : total[c] = Base[c] + Hits(Ref(o), c)
  <2> SUFFICES ASSUME NEW c \in Cells PROVE total[c] = Base[c] + Hits(Ref(o), c)
    OBVIOUS
  <2>1. Base[c] \in Nat
    BY <1>3
  <2> QED BY <1>4, <2>1 DEF Hits, Ref, Elsewhere
<1> QED BY <1>12, <1>13 DEF g

\* A slot that refers to a cell is among the references to it.
LEMMA SlotCounts ==
    ASSUME TypeOK, NEW v, v.type = "ref", v.to \in Cells,
           \/ \E i \in 1..Len(stack) : v = stack[i]
           \/ \E l \in Locals : v = locals[l]
    PROVE  Base[v.to] > 0
<1>1. stack \in Seq(Values) /\ locals \in Seq(Values) /\ lost \in [Cells -> Nat]
      /\ DOMAIN locals = Locals
  BY SlotsTyped DEF TypeOK
<1>2. /\ Base[v.to] = Pointing(stack, v.to) + Pointing(locals, v.to) + lost[v.to]
      /\ Pointing(stack, v.to) \in Nat /\ Pointing(locals, v.to) \in Nat /\ lost[v.to] \in Nat
  BY <1>1, RefsFacts DEF Base
<1>3. CASE \E i \in 1..Len(stack) : v = stack[i]
  <2>1. PICK i \in DOMAIN stack : v = stack[i]
    BY <1>1, <1>3
  <2>2. Pointing(stack, v.to) > 0
    BY <1>1, <2>1, PointingSome
  <2> QED BY <1>2, <2>2
<1>4. CASE \E l \in Locals : v = locals[l]
  <2>1. PICK i \in DOMAIN locals : v = locals[i]
    BY <1>1, <1>4
  <2>2. Pointing(locals, v.to) > 0
    BY <1>1, <2>1, PointingSome
  <2> QED BY <1>2, <2>2
<1> QED BY <1>3, <1>4

\* No slot refers to a cell that was given back.
LEMMA NoneDangles ==
    ASSUME TypeOK, Balanced, NEW v \in Values,
           \/ \E i \in 1..Len(stack) : v = stack[i]
           \/ \E l \in Locals : v = locals[l]
    PROVE  ~Dangling(v)
<1> SUFFICES ASSUME v.type = "ref" PROVE TypeOf(v) \notin Reused
  BY DEF Dangling
<1>1. v.to \in Cells
  BY ValueFacts
<1>2. Base[v.to] > 0
  BY <1>1, SlotCounts
<1>3. Counts(Heap, orphans, v.to) /\ Heap.cell = cell
  BY <1>1, <1>2, CountedFacts, HeapRests DEF Balanced
<1> QED BY <1>3 DEF Counts, TypeOf, Reused

LEMMA LoadLocalSettles ==
    ASSUME TypeOK, Balanced, NEW l \in Locals, LoadLocal(l)
    PROVE  Settles
<1> DEFINE v == locals[l]
           h == IF v.type = "ref" THEN Referenced(Heap, v.to) ELSE Heap
<1>1. Running /\ Push(h, v, stack) /\ UNCHANGED orphans
  BY DEF LoadLocal
<1>2. v \in Values /\ stack \in Seq(Values) /\ v.flags = {}
  <2>1. v \in Values
    BY DEF TypeOK
  <2>2. DOMAIN locals = Locals
    BY SlotsTyped
  <2> QED BY <2>1, <2>2, SlotsTyped DEF Balanced, Plain
<1>3. \E total \in [Cells -> Nat] : /\ Settled(h, orphans, total)
                                    /\ \A o \in Cells : total[o] = Base[o] + Hits(v, o)
  <2>1. CASE v.type = "ref"
    <3> DEFINE o == v.to
    <3>1. o \in Cells /\ \A c : Hits(v, c) = Hits(Ref(o), c)
      BY <1>2, <2>1, ValueFacts DEF Hits, Ref
    <3>2. Base[o] > 0
      BY <2>1, <3>1, SlotCounts
    <3> HIDE DEF o
    <3>3. Resting(Heap) /\ Good(Heap, orphans, Base)
      BY HeapSettled
    <3>4. PICK total \in [Cells -> Nat] :
             /\ Good(Referenced(Heap, o), orphans, total)
             /\ \A c \in Cells : total[c] = Base[c] + Hits(Ref(o), c)
      BY <1>1, <3>1, <3>2, <3>3, CountedOnce
    <3>5. h = Referenced(Heap, o)
      BY <2>1 DEF o
    <3>6. Resting(Referenced(Heap, o))
      BY <3>1, <3>3, ReferencedFacts
    <3> HIDE DEF h
    <3>7. Settled(h, orphans, total)
      BY <3>4, <3>5, <3>6 DEF Settled, Sound, Resting
    <3> QED BY <3>1, <3>4, <3>7
  <2>2. CASE v.type # "ref"
    <3>1. h = Heap
      BY <2>2
    <3>2. Settled(Heap, orphans, Base) /\ Base \in [Cells -> Nat]
      BY HeapSettled, BaseType
    <3>3. \A o \in Cells : Base[o] = Base[o] + Hits(v, o)
      <4> SUFFICES ASSUME NEW o \in Cells PROVE Base[o] = Base[o] + Hits(v, o)
        OBVIOUS
      <4>1. Base[o] \in Nat
        BY <3>2
      <4> QED BY <1>2, <2>2, <4>1, NoHits
    <3> HIDE DEF v, h
    <3> QED BY <3>1, <3>2, <3>3
  <2> QED BY <2>1, <2>2
<1> HIDE DEF v, h
<1> QED BY <1>1, <1>2, <1>3, PushSettles DEF Balanced, Base

\* The top operand is popped and released.
LEMMA TopReleased ==
    ASSUME TypeOK, Balanced, 1 <= Len(stack)
    PROVE  /\ Settled(Release(Heap, <<stack[1]>>), orphans, Refs(Rest(1), locals, lost))
           /\ Refs(Rest(1), locals, lost) \in [Cells -> Nat]
           /\ Rest(1) \in Seq(Values) /\ Plain(Rest(1)) /\ stack[1] \in Values /\ stack[1].flags = {}
<1> DEFINE s == <<stack[1]>>
           base == Refs(Rest(1), locals, lost)
<1>1. 1 \in Nat /\ 1 <= Len(stack) /\ 1 \in 1..1
  OBVIOUS
<1>2. stack[1] \in Values /\ Rest(1) \in Seq(Values)
  BY <1>1, RestTyped
<1>3. Plain(Rest(1)) /\ stack[1].flags = {}
  BY <1>1, PlainRest DEF Balanced
<1>4. Splits(Base, Operands(1), base) /\ base \in [Cells -> Nat]
  BY <1>1, BaseSplits
<1>5. Operands(1) = s
  BY OperandsAre
<1>6. s \in Seq(Values) /\ Plain(s)
  BY <1>2, <1>3 DEF Plain
<1> HIDE DEF s, base
<1>7. Settled(Heap, orphans, Base)
  BY HeapSettled
<1>8. Settled(Release(Heap, s), orphans, base)
  BY <1>4, <1>5, <1>6, <1>7, ReleaseFrom
<1> QED BY <1>2, <1>3, <1>4, <1>8 DEF s, base

LEMMA ComputeSettles ==
    ASSUME TypeOK, Balanced, Compute
    PROVE  Settles
<1> DEFINE h == Release(Heap, <<stack[1]>>)
           v == Integer(0)
           rest == Rest(1)
           base == Refs(rest, locals, lost)
<1>1. Push(h, v, rest) /\ UNCHANGED orphans /\ 1 <= Len(stack)
  <2>1. Len(stack) \in Nat
    BY SlotsTyped
  <2> QED BY <2>1 DEF Compute
<1>2. v \in Values /\ v.flags = {} /\ v.type # "ref"
  BY NullTyped DEF Integer
<1>3. Settled(h, orphans, base) /\ base \in [Cells -> Nat] /\ rest \in Seq(Values) /\ Plain(rest)
  BY <1>1, TopReleased
<1> HIDE DEF h, v, rest
<1>4. \A o \in Cells : base[o] = Refs(rest, locals, lost)[o] + Hits(v, o)
  <2> SUFFICES ASSUME NEW o \in Cells PROVE base[o] = Refs(rest, locals, lost)[o] + Hits(v, o)
    OBVIOUS
  <2>1. base[o] \in Nat
    BY <1>3
  <2> QED BY <1>2, <2>1, NoHits
<1> HIDE DEF base
<1> QED BY <1>1, <1>2, <1>3, <1>4, PushSettles DEF Balanced

LEMMA PopSettles ==
    ASSUME TypeOK, Balanced, Pop
    PROVE  Settles
<1> DEFINE h == Release(Heap, <<stack[1]>>)
           rest == Rest(1)
<1>1. Proceed(h, rest) /\ UNCHANGED <<locals, lost, orphans>> /\ 1 <= Len(stack)
  <2>1. Len(stack) \in Nat
    BY SlotsTyped
  <2> QED BY <2>1 DEF Pop
<1>2. Settled(h, orphans, Refs(rest, locals, lost)) /\ Plain(rest)
  BY <1>1, TopReleased
<1> HIDE DEF h, rest
<1>3. Plain(locals') /\ Settled(h, orphans', Refs(rest, locals', lost'))
  BY <1>1, <1>2 DEF Balanced
<1> QED BY <1>1, <1>2, <1>3, ProceedSettles

LEMMA StoreLocalSettles ==
    ASSUME TypeOK, Balanced, NEW l \in Locals, StoreLocal(l)
    PROVE  Settles
<1> DEFINE s == <<locals[l]>>
           h == Release(Heap, s)
           rest == Rest(1)
           new == [locals EXCEPT ![l] = stack[1]]
           base == Refs(rest, new, lost)
<1>1. Proceed(h, rest) /\ locals' = new /\ UNCHANGED <<lost, orphans>> /\ 1 <= Len(stack)
  <2>1. Len(stack) \in Nat
    BY SlotsTyped
  <2> QED BY <2>1 DEF StoreLocal
<1>2. stack[1] \in Values /\ stack[1].flags = {} /\ rest \in Seq(Values) /\ Plain(rest)
  BY <1>1, TopReleased
<1>3. /\ locals \in Seq(Values) /\ l \in DOMAIN locals /\ lost \in [Cells -> Nat]
      /\ locals[l] \in Values /\ locals[l].flags = {}
  <2>1. locals \in Seq(Values) /\ l \in DOMAIN locals /\ lost \in [Cells -> Nat]
    BY SlotsTyped DEF TypeOK
  <2> QED BY <2>1 DEF TypeOK, Balanced, Plain
<1>4. new \in Seq(Values)
  BY <1>2, <1>3, PointingPut
<1>5. Plain(new)
  BY <1>2, <1>3 DEF Balanced, Plain
<1>6. s \in Seq(Values) /\ Plain(s)
  BY <1>3 DEF Plain
<1>7. base \in [Cells -> Nat]
  <2> HIDE DEF new, rest
  <2> QED BY <1>2, <1>3, <1>4, RefsFacts
<1>8. Splits(Base, s, base)
  <2> SUFFICES ASSUME NEW o \in Cells PROVE Base[o] = base[o] + Pointing(s, o)
    BY DEF Splits
  <2>1. Base[o] = Refs(rest, locals, lost)[o] + Hits(stack[1], o)
    <3>1. 1 \in Nat /\ 1 <= Len(stack)
      BY <1>1
    <3>2. Base[o] = Refs(rest, locals, lost)[o] + Pointing(Operands(1), o)
      BY <3>1, BaseSplits DEF Splits
    <3> HIDE DEF rest
    <3>3. Pointing(Operands(1), o) = Hits(stack[1], o)
      BY <1>1, OperandsAre, PointingOne
    <3> QED BY <3>2, <3>3
  <2>2. Pointing(new, o) + Hits(locals[l], o) = Pointing(locals, o) + Hits(stack[1], o)
    BY <1>2, <1>3, PointingPut
  <2>3. Pointing(s, o) = Hits(locals[l], o)
    BY PointingOne
  <2>4. Hits(stack[1], o) \in Nat /\ Hits(locals[l], o) \in Nat
    BY HitsType
  <2> HIDE DEF s, new, rest
  <2>5. /\ base[o] = Pointing(rest, o) + Pointing(new, o) + lost[o]
        /\ Pointing(rest, o) \in Nat /\ Pointing(new, o) \in Nat /\ lost[o] \in Nat
    BY <1>2, <1>3, <1>4, RefsFacts
  <2>6. /\ Refs(rest, locals, lost)[o] = Pointing(rest, o) + Pointing(locals, o) + lost[o]
        /\ Pointing(locals, o) \in Nat
    <3>1. /\ rest \in Seq(Values) /\ locals \in Seq(Values) /\ lost \in [Cells -> Nat]
          /\ o \in Cells
      BY <1>2, <1>3
    <3> QED BY ONLY <3>1, RefsFacts
  <2>7. \A r, n, m, f, x, y \in Nat : n + y = m + x => (r + m + f) + x = (r + n + f) + y
    OBVIOUS
  <2> HIDE DEF base
  <2> QED BY <2>1, <2>2, <2>3, <2>4, <2>5, <2>6, <2>7
<1> HIDE DEF s, new, rest, base
<1>9. Settled(Heap, orphans, Base)
  BY HeapSettled
<1>10. Settled(h, orphans, base)
  BY <1>6, <1>7, <1>8, <1>9, ReleaseFrom
<1> HIDE DEF h
<1>11. Settled(h, orphans', Refs(rest, locals', lost')) /\ Plain(locals')
  BY <1>1, <1>5, <1>10 DEF base
<1> QED BY <1>1, <1>2, <1>11, ProceedSettles

\* What is popped and lost is still counted.
LEMMA LostOnes ==
    ASSUME TypeOK, NEW n \in Nat, n <= Len(stack), Lose(Operands(n)), NEW rest \in Seq(Values)
    PROVE  /\ lost' \in [Cells -> Nat]
           /\ \A o \in Cells :
                Refs(rest, locals, lost')[o] = Refs(rest, locals, lost)[o] + Pointing(Operands(n), o)
<1>1. Operands(n) \in Seq(Values)
  BY RestTyped
<1>2. locals \in Seq(Values) /\ lost \in [Cells -> Nat]
  BY SlotsTyped DEF TypeOK
<1>3. lost' = [c \in Cells |-> lost[c] + Pointing(Operands(n), c)]
  BY DEF Lose
<1>4. lost' \in [Cells -> Nat]
  BY <1>1, <1>3, LostTyped
<1>5. ASSUME NEW o \in Cells
      PROVE  Refs(rest, locals, lost')[o] = Refs(rest, locals, lost)[o] + Pointing(Operands(n), o)
  <2>1. /\ Refs(rest, locals, lost)[o] = Pointing(rest, o) + Pointing(locals, o) + lost[o]
        /\ Pointing(rest, o) \in Nat /\ Pointing(locals, o) \in Nat /\ lost[o] \in Nat
    BY <1>1, <1>2, RefsFacts
  <2>2. Refs(rest, locals, lost')[o] = Pointing(rest, o) + Pointing(locals, o) + lost'[o]
    <3> DEFINE f == lost'
    <3>1. f \in [Cells -> Nat]
      BY <1>4
    <3> HIDE DEF f
    <3>2. Refs(rest, locals, f)[o] = Pointing(rest, o) + Pointing(locals, o) + f[o]
      BY <1>1, <1>2, <3>1, RefsFacts
    <3> QED BY <3>2 DEF f
  <2>3. lost'[o] = lost[o] + Pointing(Operands(n), o) /\ Pointing(Operands(n), o) \in Nat
    BY <1>1, <1>3, PointingType
  <2>4. \A w, x, y, z \in Nat : w + x + (y + z) = (w + x + y) + z
    OBVIOUS
  <2> QED BY <2>1, <2>2, <2>3, <2>4
<1> QED BY <1>4, <1>5

LEMMA LoadLengthSettles ==
    ASSUME TypeOK, Balanced, LoadLength
    PROVE  Settles
<1>1. 1 \in Nat /\ 1 <= Len(stack) /\ Proceed(Heap, Rest(1)) /\ Lose(Operands(1))
      /\ UNCHANGED <<locals, orphans>>
  <2>1. Len(stack) \in Nat
    BY SlotsTyped
  <2> QED BY <2>1 DEF LoadLength
<1>2. Splits(Base, Operands(1), Refs(Rest(1), locals, lost))
  BY <1>1, BaseSplits
<1>3. \A o \in Cells : Refs(Rest(1), locals, lost')[o] = Base[o]
  BY <1>1, <1>2, RestTyped, LostOnes DEF Splits
<1>4. Refs(Rest(1), locals', lost') = Base
  <2>1. Refs(Rest(1), locals, lost') \in [Cells -> Nat]
    <3>1. lost' \in [Cells -> Nat] /\ locals \in Seq(Values) /\ Rest(1) \in Seq(Values)
      BY <1>1, LostOnes, SlotsTyped, RestTyped
    <3> DEFINE f == lost'
    <3> HIDE DEF f
    <3>2. Refs(Rest(1), locals, f) \in [Cells -> Nat]
      BY <3>1, RefsFacts DEF f
    <3> QED BY <3>2 DEF f
  <2>2. Base \in [Cells -> Nat]
    BY BaseType
  <2> DEFINE g == Refs(Rest(1), locals, lost')
  <2> HIDE DEF g
  <2>3. g = Base
    BY <1>3, <2>1, <2>2 DEF g
  <2> QED BY <1>1, <2>3 DEF g
<1>5. Plain(Rest(1)) /\ Plain(locals') /\ Settled(Heap, orphans', Refs(Rest(1), locals', lost'))
  BY <1>1, <1>4, HeapSettled, PlainRest DEF Balanced
<1> QED BY <1>1, <1>5, ProceedSettles

LEMMA StoppedSettles ==
    ASSUME TypeOK, Balanced, NEW n \in Nat, n <= Len(stack), Abandon(Heap, Operands(n), Rest(n)),
           UNCHANGED orphans
    PROVE  Settles
<1>1. Operands(n) \in Seq(Values) /\ Rest(n) \in Seq(Values) /\ Plain(Rest(n)) /\ Plain(locals)
  BY RestTyped, PlainRest DEF Balanced
<1>2. Splits(Base, Operands(n), Refs(Rest(n), locals, lost)) /\ Settled(Heap, orphans, Base)
  BY BaseSplits, HeapSettled
<1> DEFINE p == Operands(n)
           r == Rest(n)
<1> HIDE DEF p, r
<1>3. /\ p \in Seq(Values) /\ r \in Seq(Values) /\ Plain(r) /\ Plain(locals)
      /\ Splits(Base, p, Refs(r, locals, lost)) /\ Abandon(Heap, p, r)
  BY <1>1, <1>2 DEF p, r
<1> QED BY <1>2, <1>3, AbandonSettles

LEMMA StopSettles ==
    ASSUME TypeOK, Balanced, Stop \/ Underflow \/ \E n \in {2, 3} : FailElement(n)
    PROVE  Settles
<1>1. Len(stack) \in Nat
  BY SlotsTyped
<1>2. CASE Stop
  <2>1. 1 \in Nat /\ 1 <= Len(stack) /\ Abandon(Heap, Operands(1), Rest(1)) /\ UNCHANGED orphans
    BY <1>1, <1>2 DEF Stop
  <2> QED BY <2>1, StoppedSettles
<1>3. CASE Underflow
  <2>1. PICK n \in {0, Len(stack)} : Abandon(Heap, Operands(n), Rest(n))
    BY <1>3 DEF Underflow
  <2>2. n \in Nat /\ n <= Len(stack) /\ UNCHANGED orphans
    BY <1>1, <1>3 DEF Underflow
  <2> QED BY <2>1, <2>2, StoppedSettles
<1>4. ASSUME NEW n \in {2, 3}, FailElement(n) PROVE Settles
  <2>1. Element(n) /\ Abandon(Heap, Operands(n), Rest(n)) /\ UNCHANGED orphans
    BY <1>4 DEF FailElement
  <2>2. n \in Nat /\ n <= Len(stack)
    BY <2>1, ElementFacts
  <2> QED BY <2>1, <2>2, StoppedSettles
<1> QED BY <1>2, <1>3, <1>4

-----------------------------------------------------------------------------
(* What storing and removing an element keeps.                               *)

\* Arrays g and h differ in element k only.
ElementPut(v, w, k, e) ==
    /\ v \in Arrays /\ w \in Arrays /\ w.rc = v.rc /\ w.to = v.to
    /\ w.elems = [v.elems EXCEPT ![k] = e]

LEMMA ElementPutIs ==
    ASSUME NEW v \in Arrays, NEW k \in Keys, NEW e \in Cells \cup {None}
    PROVE  ElementPut(v, [v EXCEPT !.elems[k] = e], k, e)
<1> DEFINE w == [v EXCEPT !.elems[k] = e]
<1>1. w \in Arrays /\ w.rc = v.rc /\ w.to = v.to /\ w.elems = [v.elems EXCEPT ![k] = e]
  BY DEF Arrays
<1> HIDE DEF w
<1>2. ElementPut(v, w, k, e)
  BY <1>1 DEF ElementPut
<1> QED BY <1>2 DEF w

LEMMA ElementPutFacts ==
    ASSUME NEW v, NEW w, NEW k \in Keys, NEW e \in Cells \cup {None}, ElementPut(v, w, k, e)
    PROVE  /\ w.type = "array" /\ v.type = "array" /\ w.to = None /\ v.to = None /\ w.rc = v.rc
           /\ w.elems[k] = e /\ \A j \in Keys : j # k => w.elems[j] = v.elems[j]
           /\ v.elems[k] \in Cells \cup {None}
<1>1. v.elems \in [Keys -> Cells \cup {None}] /\ v.type = "array" /\ v.to = None
  BY DEF ElementPut, Arrays
<1>2. w.type = "array"
  BY DEF ElementPut, Arrays
<1> QED BY <1>1, <1>2 DEF ElementPut

\* At rest an array has the elements that are in its table.
LEMMA RestHas ==
    ASSUME NEW h, Resting(h), NEW a, NEW k
    PROVE  Has(h, a, k) <=> h.cell[a].type = "array" /\ h.cell[a].elems[k] # None
BY RestingFacts DEF Has

LEMMA RestApart ==
    ASSUME NEW h, Resting(h)
    PROVE  Apart(h)
BY RestingFacts DEF Apart

\* An element leaves its array: its cell stays, and the reference in it.
LEMMA RemovedGood ==
    ASSUME NEW g, Resting(g), NEW orph, NEW base, Good(g, orph, base),
           NEW a \in Cells, NEW k \in Keys, NEW h, Resting(h),
           ElementPut(g.cell[a], h.cell[a], k, None), Elsewhere(a, g.cell, h.cell)
    PROVE  Good(h, orph \cup ({g.cell[a].elems[k]} \ {None}), base)
<1> DEFINE old == g.cell[a].elems[k]
           more == orph \cup ({old} \ {None})
<1>1. /\ h.cell[a].type = "array" /\ g.cell[a].type = "array" /\ h.cell[a].to = g.cell[a].to
      /\ h.cell[a].rc = g.cell[a].rc
      /\ h.cell[a].elems[k] = None /\ \A j \in Keys : j # k => h.cell[a].elems[j] = g.cell[a].elems[j]
      /\ old \in Cells \cup {None}
  <2> DEFINE v == g.cell[a]
             w == h.cell[a]
  <2>1. k \in Keys /\ None \in Cells \cup {None} /\ ElementPut(v, w, k, None)
    OBVIOUS
  <2> HIDE DEF v, w
  <2>2. /\ w.type = "array" /\ v.type = "array" /\ w.to = None /\ v.to = None /\ w.rc = v.rc
        /\ w.elems[k] = None /\ \A j \in Keys : j # k => w.elems[j] = v.elems[j]
        /\ v.elems[k] \in Cells \cup {None}
    BY ONLY <2>1, ElementPutFacts
  <2> QED BY <2>2 DEF v, w
<1>2. \A b \in Cells : b # a => h.cell[b] = g.cell[b]
  BY DEF Elsewhere
<1>3. /\ HeapOK(g) /\ Placed(g, orph) /\ Exact(g, orph, base) /\ base \in [Cells -> Nat]
      /\ HeapOK(h) /\ h.fault = "RUN" /\ h.values = <<>> /\ g.values = <<>>
  BY RestingFacts DEF Good
<1>4. ASSUME NEW b \in Cells, NEW j \in Keys
      PROVE  /\ Has(h, b, j) <=> Has(g, b, j) /\ ~(b = a /\ j = k)
             /\ Has(h, b, j) => h.cell[b].elems[j] = g.cell[b].elems[j]
  <2>1. Has(h, b, j) <=> h.cell[b].type = "array" /\ h.cell[b].elems[j] # None
    BY RestHas
  <2>2. Has(g, b, j) <=> g.cell[b].type = "array" /\ g.cell[b].elems[j] # None
    BY RestHas
  <2>3. CASE b = a /\ j = k
    BY <1>1, <2>1, <2>3
  <2>4. CASE b = a /\ j # k
    BY <1>1, <2>1, <2>2, <2>4
  <2>5. CASE b # a
    BY <1>2, <2>1, <2>2, <2>5
  <2> QED BY <2>3, <2>4, <2>5
<1>5. Has(g, a, k) <=> old # None
  BY <1>1, RestHas
<1>6. old # None => old \in Cells /\ g.cell[old].type \in Copies /\ old \notin orph
  BY <1>1, <1>3, <1>5 DEF Placed
<1>7. \A c \in Cells : h.cell[c].type = g.cell[c].type /\ h.cell[c].to = g.cell[c].to
                       /\ Rc(h, c) = Rc(g, c)
  BY <1>1, <1>2 DEF Rc
<1> HIDE DEF old
<1>8. HeldBy(h, more) = HeldBy(g, orph)
  <2>1. ASSUME NEW c \in Cells, NEW b \in Cells, NEW j \in Keys, Has(g, b, j), g.cell[b].elems[j] = c
        PROVE  c \in more \/ (Has(h, b, j) /\ h.cell[b].elems[j] = c)
    <3>1. CASE b = a /\ j = k
      BY <1>5, <2>1, <3>1 DEF old
    <3>2. CASE ~(b = a /\ j = k)
      BY <1>4, <2>1, <3>2
    <3> QED BY <3>1, <3>2
  <2>2. HeldBy(g, orph) \subseteq HeldBy(h, more)
    BY <2>1 DEF HeldBy
  <2>3. old # None => old \in HeldBy(g, orph)
    BY <1>5, <1>6 DEF HeldBy, old
  <2>4. HeldBy(h, more) \subseteq HeldBy(g, orph)
    <3> SUFFICES ASSUME NEW c \in HeldBy(h, more) PROVE c \in HeldBy(g, orph)
      OBVIOUS
    <3>1. c \in Cells
      BY DEF HeldBy
    <3>2. CASE c \in orph
      BY <3>1, <3>2 DEF HeldBy
    <3>3. CASE c = old /\ old # None
      BY <2>3, <3>3
    <3>4. CASE \E b \in Cells, j \in Keys : Has(h, b, j) /\ h.cell[b].elems[j] = c
      BY <1>4, <3>1, <3>4 DEF HeldBy
    <3> QED BY <3>2, <3>3, <3>4 DEF HeldBy
  <2> QED BY <2>2, <2>4
<1>9. Placed(h, more)
  <2>1. more \subseteq Cells /\ \A c \in more : h.cell[c].type \in Copies
    BY <1>1, <1>3, <1>6, <1>7 DEF Placed
  <2>2. ASSUME NEW b \in Cells, NEW j \in Keys, Has(h, b, j)
        PROVE  h.cell[h.cell[b].elems[j]].type \in Copies /\ h.cell[b].elems[j] \notin more
    <3> DEFINE e == h.cell[b].elems[j]
    <3>1. Has(g, b, j) /\ e = g.cell[b].elems[j] /\ ~(b = a /\ j = k)
      BY <1>4, <2>2
    <3>2. e \in Cells
      BY <1>3, <3>1, HasSpot
    <3>3. g.cell[e].type \in Copies /\ e \notin orph
      BY <1>3, <3>1 DEF Placed
    <3>4. old # None => e # old
      BY <1>3, <1>5, <3>1 DEF Placed, old
    <3> HIDE DEF e
    <3> QED BY <1>7, <3>2, <3>3, <3>4 DEF e
  <2>3. ASSUME NEW b \in Cells, NEW d \in Cells, NEW j \in Keys, NEW i \in Keys,
               Has(h, b, j), Has(h, d, i), h.cell[b].elems[j] = h.cell[d].elems[i]
        PROVE  b = d /\ j = i
    <3>1. Has(g, b, j) /\ Has(g, d, i) /\ g.cell[b].elems[j] = g.cell[d].elems[i]
      BY <1>4, <2>3
    <3> QED BY <1>3, <3>1 DEF Placed
  <2> HIDE DEF more
  <2> QED BY <2>1, <2>2, <2>3 DEF Placed
<1>10. Exact(h, more, base)
  <2> SUFFICES ASSUME NEW o \in Cells
               PROVE  Rc(h, o) = base[o] + Pointing(h.values, o) + HeldTo(h, more, o)
    BY DEF Exact
  <2>1. Rc(g, o) = base[o] + Pointing(g.values, o) + HeldTo(g, orph, o)
    BY <1>3 DEF Exact
  <2>2. HeldTo(h, more, o) = HeldTo(g, orph, o)
    <3> DEFINE H == HeldBy(g, orph)
               x == g.cell
               y == h.cell
    <3>1. \A c \in H : x[c].to = y[c].to
      BY <1>7, HeldType
    <3> HIDE DEF H, x, y
    <3>2. Tos(H, x, o) = Tos(H, y, o)
      BY <3>1, TosSame
    <3> QED BY <1>8, <3>2 DEF HeldTo, H, x, y
  <2> QED BY <1>3, <1>7, <2>1, <2>2
<1> HIDE DEF more
<1>11. Apart(h) /\ Plain(h.values)
  BY <1>3, RestApart DEF Plain
<1>12. Good(h, more, base)
  BY <1>3, <1>9, <1>10, <1>11 DEF Good
<1> QED BY <1>12 DEF more, old

Outside(S, f, g) == \A c \in Cells : c \notin S => g[c] = f[c]

Adds(total, v, base) == base \in [Cells -> Nat] /\ \A o \in Cells : total[o] = base[o] + Hits(v, o)

\* A free cell becomes a new element: the reference in it is counted.
LEMMA InsertedGood ==
    ASSUME NEW g, Resting(g), NEW orph, NEW total, Good(g, orph, total),
           NEW a \in Cells, NEW c \in Cells, a # c, NEW k \in Keys, NEW h, Resting(h),
           ElementPut(g.cell[a], h.cell[a], k, c), g.cell[a].elems[k] = None,
           g.cell[c].type = "free", h.cell[c].type \in Copies,
           Outside({a, c}, g.cell, h.cell), NEW base, Adds(total, h.cell[c], base)
    PROVE  Good(h, orph, base)
<1>0. /\ \A b \in Cells : b \notin {a, c} => h.cell[b] = g.cell[b]
      /\ base \in [Cells -> Nat] /\ \A o \in Cells : total[o] = base[o] + Hits(h.cell[c], o)
  BY DEF Outside, Adds
<1>1. /\ h.cell[a].type = "array" /\ g.cell[a].type = "array" /\ h.cell[a].to = g.cell[a].to
      /\ h.cell[a].rc = g.cell[a].rc
      /\ h.cell[a].elems[k] = c /\ \A j \in Keys : j # k => h.cell[a].elems[j] = g.cell[a].elems[j]
  <2> DEFINE v == g.cell[a]
             w == h.cell[a]
  <2>1. k \in Keys /\ c \in Cells \cup {None} /\ ElementPut(v, w, k, c)
    OBVIOUS
  <2> HIDE DEF v, w
  <2>2. /\ w.type = "array" /\ v.type = "array" /\ w.to = None /\ v.to = None /\ w.rc = v.rc
        /\ w.elems[k] = c /\ \A j \in Keys : j # k => w.elems[j] = v.elems[j]
        /\ v.elems[k] \in Cells \cup {None}
    BY ONLY <2>1, ElementPutFacts
  <2> QED BY <2>2 DEF v, w
<1>2. /\ HeapOK(g) /\ Placed(g, orph) /\ Exact(g, orph, total)
      /\ HeapOK(h) /\ h.fault = "RUN" /\ h.values = <<>> /\ g.values = <<>>
  BY RestingFacts DEF Good
<1>3. None \notin Cells /\ c # None
  BY ArraysAssumption
<1>4. ASSUME NEW b \in Cells, NEW j \in Keys
      PROVE  /\ Has(h, b, j) <=> Has(g, b, j) \/ (b = a /\ j = k)
             /\ Has(g, b, j) => h.cell[b].elems[j] = g.cell[b].elems[j] /\ ~(b = a /\ j = k)
  <2>1. Has(h, b, j) <=> h.cell[b].type = "array" /\ h.cell[b].elems[j] # None
    BY RestHas
  <2>2. Has(g, b, j) <=> g.cell[b].type = "array" /\ g.cell[b].elems[j] # None
    BY RestHas
  <2>3. CASE b = a /\ j = k
    BY <1>1, <1>3, <2>1, <2>2, <2>3
  <2>4. CASE b = a /\ j # k
    BY <1>1, <2>1, <2>2, <2>4
  <2>5. CASE b = c
    BY <1>1, <2>1, <2>2, <2>5 DEF Copies
  <2>6. CASE b \notin {a, c}
    BY <1>0, <2>1, <2>2, <2>6
  <2> QED BY <2>3, <2>4, <2>5, <2>6
<1>5. c \notin HeldBy(g, orph) /\ a \notin HeldBy(g, orph)
  BY <1>1, <1>2, HeldCopies DEF Copies
<1>6. HeldBy(h, orph) = HeldBy(g, orph) \cup {c}
  <2>1. ASSUME NEW e \in HeldBy(h, orph) PROVE e \in HeldBy(g, orph) \cup {c}
    <3>1. e \in Cells
      BY DEF HeldBy
    <3>2. CASE e \in orph
      BY <3>1, <3>2 DEF HeldBy
    <3>3. CASE \E b \in Cells, j \in Keys : Has(h, b, j) /\ h.cell[b].elems[j] = e
      <4>1. PICK b \in Cells, j \in Keys : Has(h, b, j) /\ h.cell[b].elems[j] = e
        BY <3>3
      <4>2. CASE b = a /\ j = k
        BY <1>1, <4>1, <4>2
      <4>3. CASE ~(b = a /\ j = k)
        <5>1. Has(g, b, j) /\ g.cell[b].elems[j] = e
          BY <1>4, <4>1, <4>3
        <5> QED BY <3>1, <5>1 DEF HeldBy
      <4> QED BY <4>2, <4>3
    <3> QED BY <3>2, <3>3 DEF HeldBy
  <2>2. ASSUME NEW e \in HeldBy(g, orph) PROVE e \in HeldBy(h, orph)
    <3>1. e \in Cells
      BY DEF HeldBy
    <3>2. CASE e \in orph
      BY <3>1, <3>2 DEF HeldBy
    <3>3. CASE \E b \in Cells, j \in Keys : Has(g, b, j) /\ g.cell[b].elems[j] = e
      BY <1>4, <3>1, <3>3 DEF HeldBy
    <3> QED BY <3>2, <3>3 DEF HeldBy
  <2>3. c \in HeldBy(h, orph)
    BY <1>1, <1>4 DEF HeldBy
  <2> QED BY <2>1, <2>2, <2>3
<1>7. \A e \in HeldBy(g, orph) : h.cell[e] = g.cell[e] /\ e \in Cells
  BY <1>0, <1>5, HeldType
<1>8. Placed(h, orph)
  <2>1. orph \subseteq Cells /\ \A e \in orph : e \in HeldBy(g, orph) /\ g.cell[e].type \in Copies
    BY <1>2 DEF Placed, HeldBy
  <2>2. \A e \in orph : h.cell[e].type \in Copies
    BY <1>7, <2>1
  <2>3. ASSUME NEW b \in Cells, NEW j \in Keys, Has(g, b, j)
        PROVE  /\ h.cell[b].elems[j] \in HeldBy(g, orph) /\ h.cell[b].elems[j] # c
               /\ h.cell[h.cell[b].elems[j]].type \in Copies /\ h.cell[b].elems[j] \notin orph
    <3> DEFINE e == h.cell[b].elems[j]
    <3>1. e = g.cell[b].elems[j]
      BY <1>4, <2>3
    <3>2. e \in HeldBy(g, orph)
      BY <1>2, <2>3, <3>1, HasHeld
    <3>3. g.cell[e].type \in Copies /\ e \notin orph
      BY <1>2, <2>3, <3>1 DEF Placed
    <3> HIDE DEF e
    <3> QED BY <1>5, <1>7, <3>2, <3>3 DEF e
  <2>4. ASSUME NEW b \in Cells, NEW j \in Keys, Has(h, b, j)
        PROVE  h.cell[h.cell[b].elems[j]].type \in Copies /\ h.cell[b].elems[j] \notin orph
    <3>1. CASE b = a /\ j = k
      BY <1>1, <1>5, <2>1, <3>1
    <3>2. CASE ~(b = a /\ j = k)
      BY <1>4, <2>3, <2>4, <3>2
    <3> QED BY <3>1, <3>2
  <2>5. ASSUME NEW b \in Cells, NEW d \in Cells, NEW j \in Keys, NEW i \in Keys,
               Has(h, b, j), Has(h, d, i), h.cell[b].elems[j] = h.cell[d].elems[i]
        PROVE  b = d /\ j = i
    <3>1. CASE (b = a /\ j = k) /\ (d = a /\ i = k)
      BY <3>1
    <3>2. CASE (b = a /\ j = k) /\ ~(d = a /\ i = k)
      <4>1. Has(g, d, i) /\ h.cell[b].elems[j] = c
        BY <1>1, <1>4, <2>5, <3>2
      <4> QED BY <2>3, <2>5, <4>1
    <3>3. CASE ~(b = a /\ j = k) /\ (d = a /\ i = k)
      <4>1. Has(g, b, j) /\ h.cell[d].elems[i] = c
        BY <1>1, <1>4, <2>5, <3>3
      <4> QED BY <2>3, <2>5, <4>1
    <3>4. CASE ~(b = a /\ j = k) /\ ~(d = a /\ i = k)
      <4>1. Has(g, b, j) /\ Has(g, d, i) /\ g.cell[b].elems[j] = g.cell[d].elems[i]
        BY <1>4, <2>5, <3>4
      <4> QED BY <1>2, <4>1 DEF Placed
    <3> QED BY <3>1, <3>2, <3>3, <3>4
  <2> QED BY <2>1, <2>2, <2>4, <2>5 DEF Placed
<1>9. Exact(h, orph, base)
  <2> SUFFICES ASSUME NEW o \in Cells
               PROVE  Rc(h, o) = base[o] + Pointing(h.values, o) + HeldTo(h, orph, o)
    BY DEF Exact
  <2>1. Rc(g, o) = total[o] + Pointing(g.values, o) + HeldTo(g, orph, o)
    BY <1>2 DEF Exact
  <2>2. Rc(h, o) = Rc(g, o)
    <3>1. CASE o = c
      BY <3>1 DEF Rc, Copies
    <3>2. CASE o = a
      BY <1>1, <3>2 DEF Rc
    <3>3. CASE o \notin {a, c}
      BY <1>0, <3>3 DEF Rc
    <3> QED BY <3>1, <3>2, <3>3
  <2>3. HeldTo(h, orph, o) = HeldTo(g, orph, o) + Hits(h.cell[c], o)
    <3> DEFINE H == HeldBy(g, orph)
               x == g.cell
               y == h.cell
    <3>1. H \in SUBSET Cells /\ c \notin H /\ \A e \in H : x[e].to = y[e].to
      BY <1>5, <1>7, HeldType
    <3> HIDE DEF H, x, y
    <3>2. Tos(H, x, o) = Tos(H, y, o)
      BY <3>1, TosSame
    <3>3. Tos(H \cup {c}, y, o) = Tos(H, y, o) + Hits(y[c], o)
      BY <3>1, TosMore
    <3> QED BY <1>6, <3>2, <3>3 DEF HeldTo, H, x, y
  <2>4. /\ Pointing(<<>>, o) = 0 /\ base[o] \in Nat /\ HeldTo(g, orph, o) \in Nat
        /\ Hits(h.cell[c], o) \in Nat /\ total[o] = base[o] + Hits(h.cell[c], o)
    BY <1>0, PointingNone, HeldType, HitsType
  <2>5. \A x, y, z \in Nat : (x + y) + 0 + z = x + 0 + (z + y)
    OBVIOUS
  <2> QED BY <1>2, <2>1, <2>2, <2>3, <2>4, <2>5
<1>10. Apart(h) /\ Plain(h.values)
  BY <1>2, RestApart DEF Plain
<1> QED BY <1>0, <1>2, <1>8, <1>9, <1>10 DEF Good

\* Noting the type of an array's keys changes no count.
LEMMA KeyedGood ==
    ASSUME TypeOK, Balanced, NEW a \in Cells, cell[a].type = "array", NEW v \in Arrays,
           v.rc = cell[a].rc, v.elems = cell[a].elems, NEW h, Puts(h, Heap, a, v)
    PROVE  Good(h, orphans, Base) /\ Resting(h) /\ h.cell[a] = v /\ Elsewhere(a, cell, h.cell)
<1>1. Good(Heap, orphans, Base) /\ Resting(Heap) /\ Heap.cell = cell /\ cell \in [Cells -> Records]
  BY HeapSettled, HeapRests
<1>2. Resting(h) /\ h.cell = [cell EXCEPT ![a] = v]
  BY <1>1 DEF Puts
<1>3. h.cell[a] = v /\ \A c \in Cells : c # a => h.cell[c] = cell[c]
  BY <1>1, <1>2
<1>4. /\ HeapOK(h) /\ h.fault = "RUN" /\ h.values = Heap.values /\ h.freeing = Heap.freeing
      /\ v.type = "array"
  BY <1>1, <1>2, RestingFacts DEF Arrays
<1>5. a \notin HeldBy(Heap, orphans)
  BY <1>1, HeldCopies DEF Good, Copies
<1>6. SameElements(Heap, h)
  <2>1. SameArrays(Heap, h)
    BY <1>1, <1>3, <1>4 DEF SameArrays
  <2> QED BY <1>4, <2>1, SameFrames
<1>7. Elsewhere(a, Heap.cell, h.cell) /\ Elsewhere(a, Base, Base)
  BY <1>1, <1>3 DEF Elsewhere
<1>8. Rc(h, a) - Base[a] = Rc(Heap, a) - Base[a]
  BY <1>1, <1>3, <1>4 DEF Rc
<1>9. Apart(h) /\ Base \in [Cells -> Nat]
  BY <1>2, RestApart, BaseType
<1>10. Good(h, orphans, Base)
  BY <1>1, <1>4, <1>5, <1>6, <1>7, <1>8, <1>9, OneChanged
<1> QED BY <1>1, <1>2, <1>3, <1>7, <1>10

LEMMA NotedGood ==
    ASSUME TypeOK, Running, NEW h, Resting(h), Good(h, orphans, Base),
           NEW v \in Values, \E i \in 1..Len(stack) : v = stack[i]
    PROVE  \E total \in [Cells -> Nat] :
              /\ Good(Noted(h, v), orphans, total)
              /\ \A o \in Cells : total[o] = Base[o] + Hits(v, o)
<1>1. CASE v.type = "ref"
  <2> DEFINE o == v.to
  <2>1. o \in Cells /\ \A c : Hits(v, c) = Hits(Ref(o), c)
    BY <1>1, ValueFacts DEF Hits, Ref
  <2>2. Base[o] > 0 /\ Noted(h, v) = Referenced(h, o)
    BY <1>1, <2>1, SlotCounts DEF Noted
  <2> HIDE DEF o
  <2>3. PICK total \in [Cells -> Nat] :
           /\ Good(Referenced(h, o), orphans, total)
           /\ \A c \in Cells : total[c] = Base[c] + Hits(Ref(o), c)
    BY <2>1, <2>2, CountedOnce
  <2> QED BY <2>1, <2>2, <2>3
<1>2. CASE v.type # "ref"
  <2>1. Noted(h, v) = h /\ Base \in [Cells -> Nat]
    BY <1>2, BaseType DEF Noted
  <2>2. \A o \in Cells : Base[o] = Base[o] + Hits(v, o)
    <3> SUFFICES ASSUME NEW o \in Cells PROVE Base[o] = Base[o] + Hits(v, o)
      OBVIOUS
    <3>1. Base[o] \in Nat
      BY <2>1
    <3> QED BY <1>2, <3>1, NoHits
  <2> QED BY <2>1, <2>2
<1> QED BY <1>1, <1>2

\* What OP_STELEM leaves before it releases its operands.
LEMMA StoreGood ==
    ASSUME TypeOK, Balanced, NEW k \in Keys, NEW c \in Cells, StoreElement(k, c)
    PROVE  /\ Good(StoreHeap(k, c), orphans \cup ({cell[stack[3].to].elems[k]} \ {None}), Base)
           /\ Resting(StoreHeap(k, c))
<1> DEFINE a == stack[3].to
           x == stack[1]
           old == cell[a].elems[k]
           more == orphans \cup ({old} \ {None})
<1>1. /\ a \in Cells /\ a # c /\ cell[a].type = "array" /\ cell[a] \in Arrays /\ x \in Values
  BY StoreSteps
<1>2. PICK h1, h2, h3, h4, v1, v3 : StoreChain(a, x, k, c, h1, h2, h3, h4, v1, v3)
  BY StoreSteps
<1>3. /\ v1 \in Arrays /\ v3 \in Records
      /\ Puts(h1, Heap, a, v1) /\ v1.rc = cell[a].rc /\ v1.elems = cell[a].elems
      /\ h2 = Noted(h1, x)
      /\ Puts(h3, h2, c, v3) /\ v3.type = x.type /\ v3.to = x.to
      /\ Puts(h4, h3, a, [h3.cell[a] EXCEPT !.elems[k] = c])
      /\ h4 = StoreHeap(k, c) /\ h2.cell[c].type = "free"
  BY <1>2 DEF StoreChain
<1>4. Running /\ \E i \in 1..Len(stack) : x = stack[i]
  <2>1. 3 \in 0..Len(stack) /\ Running
    BY StoreElementIs
  <2>2. 1 \in 1..Len(stack)
    BY <2>1, SlotsTyped
  <2> QED BY <2>1, <2>2
<1> HIDE DEF a, x, old
<1>5. Good(h1, orphans, Base) /\ Resting(h1) /\ h1.cell[a] = v1
  BY <1>1, <1>3, KeyedGood
<1>6. PICK total \in [Cells -> Nat] : /\ Good(h2, orphans, total)
                                      /\ \A o \in Cells : total[o] = Base[o] + Hits(x, o)
  BY <1>1, <1>3, <1>4, <1>5, NotedGood
<1>7. /\ Resting(h2) /\ h2.cell[a] \in Arrays /\ h2.cell[a].elems = cell[a].elems
      /\ h2.cell[a].type = "array"
  <2>1. Resting(h2) /\ h2.cell[a].type = h1.cell[a].type
    BY <1>1, <1>3, <1>5, NotedFacts
  <2>2. h2.cell[a].type = "array" /\ h2.cell \in [Cells -> Records]
    BY <1>3, <1>5, <2>1, RestingFacts DEF Arrays
  <2>3. h2.cell[a] \in Arrays
    BY <1>1, <2>2, RecordFacts
  <2>4. h2.cell[a].elems = v1.elems
    <3>1. CASE x.type # "ref"
      BY <1>1, <1>3, <1>5, <3>1, NotedFacts
    <3>2. CASE x.type = "ref"
      <4> DEFINE u == [h1.cell[x.to] EXCEPT !.rc = (h1.cell[x.to].rc + 1) % RcMod]
      <4>1. Puts(h2, h1, x.to, u) /\ x.to \in Cells /\ h1.cell \in [Cells -> Records]
        BY <1>1, <1>3, <1>5, <3>2, NotedFacts, ValueFacts, RestingFacts
      <4>2. u.elems = h1.cell[x.to].elems \/ x.to # a
        <5>1. CASE x.to = a
          BY <1>5, <5>1 DEF Arrays
        <5> QED BY <5>1
      <4> HIDE DEF u
      <4> QED BY <1>1, <1>5, <4>1, <4>2 DEF Puts
    <3> QED BY <3>1, <3>2
  <2> QED BY <1>3, <2>1, <2>2, <2>3, <2>4
<1>8. /\ Resting(h3) /\ Resting(h4) /\ h2.cell \in [Cells -> Records] /\ h3.cell \in [Cells -> Records]
      /\ h3.cell = [h2.cell EXCEPT ![c] = v3]
      /\ h4.cell = [h3.cell EXCEPT ![a] = [h3.cell[a] EXCEPT !.elems[k] = c]]
  BY <1>3, <1>7, RestingFacts DEF Puts
<1>9. /\ h4.cell[c] = v3 /\ h4.cell[a] = [h2.cell[a] EXCEPT !.elems[k] = c]
      /\ \A b \in Cells : b \notin {a, c} => h4.cell[b] = h2.cell[b]
  <2> DEFINE w == [h3.cell[a] EXCEPT !.elems[k] = c]
  <2>1. h3.cell[a] = h2.cell[a] /\ h3.cell[c] = v3 /\ \A b \in Cells : b # c => h3.cell[b] = h2.cell[b]
    BY <1>1, <1>8
  <2>2. w = [h2.cell[a] EXCEPT !.elems[k] = c]
    BY <2>1
  <2>3. h4.cell = [h3.cell EXCEPT ![a] = w]
    BY <1>8
  <2> HIDE DEF w
  <2>4. h4.cell[a] = w /\ \A b \in Cells : b # a => h4.cell[b] = h3.cell[b]
    BY <1>1, <1>8, <2>3
  <2>5. h4.cell[c] = v3 /\ \A b \in Cells : b \notin {a, c} => h4.cell[b] = h2.cell[b]
    BY <1>1, <2>1, <2>4
  <2> QED BY <2>2, <2>4, <2>5
<1> DEFINE g == Linked(h2, a, k, None)
           A0 == [h2.cell[a] EXCEPT !.elems[k] = None]
<1>10. Puts(g, h2, a, A0)
  <2>1. None \in Cells \cup {None} /\ k \in Keys
    OBVIOUS
  <2> QED BY ONLY <1>1, <1>7, <2>1, LinkedPuts
<1>11. ElementPut(h2.cell[a], A0, k, None)
  <2>1. None \in Cells \cup {None} /\ k \in Keys /\ h2.cell[a] \in Arrays
    BY <1>7
  <2> QED BY ONLY <2>1, ElementPutIs
<1> HIDE DEF g
<1>12. /\ Resting(g) /\ g.cell[a] = A0 /\ \A b \in Cells : b # a => g.cell[b] = h2.cell[b]
  <2> HIDE DEF A0
  <2> QED BY <1>1, <1>8, <1>10 DEF Puts
<1>13. A0 \in Arrays /\ A0.elems[k] = None /\ A0.elems = [cell[a].elems EXCEPT ![k] = None]
       /\ A0.rc = h2.cell[a].rc /\ cell[a].elems \in [Keys -> Cells \cup {None}]
  <2>1. cell[a].elems \in [Keys -> Cells \cup {None}]
    BY <1>1 DEF Arrays
  <2> HIDE DEF A0
  <2> QED BY <1>7, <1>11, <2>1 DEF ElementPut
<1>14. h4.cell[a] \in Arrays /\ h4.cell[a].rc = A0.rc /\ h4.cell[a].to = A0.to
       /\ h4.cell[a].elems = [A0.elems EXCEPT ![k] = c]
  <2> DEFINE w == [h2.cell[a] EXCEPT !.elems[k] = c]
  <2>1. c \in Cells \cup {None} /\ k \in Keys /\ h2.cell[a] \in Arrays
    BY <1>7
  <2>2. ElementPut(h2.cell[a], w, k, c)
    BY ONLY <2>1, ElementPutIs
  <2>3. h4.cell[a] = w
    BY <1>9
  <2> HIDE DEF w, A0
  <2>4. w \in Arrays /\ w.rc = A0.rc /\ w.to = A0.to /\ w.elems = [cell[a].elems EXCEPT ![k] = c]
    BY <1>7, <1>11, <2>2 DEF ElementPut
  <2>5. [A0.elems EXCEPT ![k] = c] = [cell[a].elems EXCEPT ![k] = c]
    BY <1>13
  <2> QED BY <2>3, <2>4, <2>5
<1> HIDE DEF A0
<1>15. ElementPut(g.cell[a], h4.cell[a], k, c)
  BY <1>12, <1>13, <1>14 DEF ElementPut
<1>16. Good(g, more, total)
  <2>1. h2.cell[a].elems[k] = old
    BY <1>7 DEF old
  <2>2. ElementPut(h2.cell[a], g.cell[a], k, None) /\ Elsewhere(a, h2.cell, g.cell)
    BY <1>11, <1>12 DEF Elsewhere
  <2>3. Good(g, orphans \cup ({h2.cell[a].elems[k]} \ {None}), total)
    BY <1>1, <1>6, <1>7, <1>12, <2>2, RemovedGood
  <2> QED BY <2>1, <2>3
<1> HIDE DEF more
<1>17. Base \in [Cells -> Nat] /\ \A o \in Cells : total[o] = Base[o] + Hits(h4.cell[c], o)
  <2>1. \A o : Hits(x, o) = Hits(v3, o)
    BY <1>3 DEF Hits
  <2> QED BY <1>6, <1>9, <2>1, BaseType
<1>18. g.cell[a].elems[k] = None /\ g.cell[c].type = "free" /\ h4.cell[c].type \in Copies
       /\ \A b \in Cells : b \notin {a, c} => h4.cell[b] = g.cell[b]
  <2>1. x.type \in Copies
    BY <1>1, ValueFacts DEF Copies
  <2>2. g.cell[c] = h2.cell[c]
    BY <1>1, <1>12
  <2> QED BY <1>3, <1>9, <1>12, <1>13, <2>1, <2>2
<1>19. Good(h4, more, Base)
  <2>1. Adds(total, h4.cell[c], Base) /\ Outside({a, c}, g.cell, h4.cell)
    BY <1>17, <1>18 DEF Adds, Outside
  <2>2. /\ Resting(g) /\ Resting(h4) /\ a # c /\ a \in Cells /\ c \in Cells /\ k \in Keys
        /\ g.cell[a].elems[k] = None /\ g.cell[c].type = "free" /\ h4.cell[c].type \in Copies
    BY <1>1, <1>8, <1>12, <1>18
  <2> QED BY ONLY <1>15, <1>16, <2>1, <2>2, InsertedGood
<1> QED BY <1>3, <1>8, <1>19 DEF more, old, a

LEMMA RemoveGood ==
    ASSUME TypeOK, Balanced, NEW k \in Keys, RemoveElement(k)
    PROVE  /\ Good(RemoveHeap(k), orphans \cup ({cell[stack[3].to].elems[k]} \ {None}), Base)
           /\ Resting(RemoveHeap(k))
<1> DEFINE a == stack[3].to
           h4 == RemoveHeap(k)
<1>1. a \in Cells /\ cell[a].type = "array" /\ cell[a] \in Arrays
  BY RemoveSteps
<1>2. PICK h1 : \E v1 \in Arrays :
         /\ Puts(h1, Heap, a, v1) /\ v1.rc = cell[a].rc /\ v1.elems = cell[a].elems
         /\ Puts(h4, h1, a, [h1.cell[a] EXCEPT !.elems[k] = None])
  BY RemoveSteps
<1> HIDE DEF a, h4
<1>3. PICK v1 \in Arrays :
         /\ Puts(h1, Heap, a, v1) /\ v1.rc = cell[a].rc /\ v1.elems = cell[a].elems
         /\ Puts(h4, h1, a, [h1.cell[a] EXCEPT !.elems[k] = None])
  BY <1>2
<1>4. Good(h1, orphans, Base) /\ Resting(h1) /\ h1.cell[a] = v1
  BY <1>1, <1>3, KeyedGood
<1> DEFINE w == [v1 EXCEPT !.elems[k] = None]
<1>5. Resting(h4) /\ h4.cell = [h1.cell EXCEPT ![a] = w] /\ h1.cell \in [Cells -> Records]
  BY <1>3, <1>4, RestingFacts DEF Puts
<1>6. ElementPut(v1, w, k, None)
  <2>1. None \in Cells \cup {None} /\ k \in Keys /\ v1 \in Arrays
    OBVIOUS
  <2> QED BY ONLY <2>1, ElementPutIs
<1> HIDE DEF w
<1>7. ElementPut(h1.cell[a], h4.cell[a], k, None) /\ Elsewhere(a, h1.cell, h4.cell)
  BY <1>1, <1>4, <1>5, <1>6 DEF Elsewhere
<1>8. Good(h4, orphans \cup ({h1.cell[a].elems[k]} \ {None}), Base)
  BY <1>1, <1>4, <1>5, <1>7, RemovedGood
<1>9. h1.cell[a].elems[k] = cell[a].elems[k]
  BY <1>3, <1>4
<1>10. Good(h4, orphans \cup ({cell[a].elems[k]} \ {None}), Base)
  BY <1>8, <1>9
<1> QED BY <1>5, <1>10 DEF a, h4

LEMMA RestSettled ==
    ASSUME NEW h, Resting(h), NEW orph, NEW base, Good(h, orph, base)
    PROVE  Settled(h, orph, base)
BY DEF Resting, Settled, Sound

LEMMA StoreElementSettles ==
    ASSUME TypeOK, Balanced, NEW k \in Keys, NEW c \in Cells, StoreElement(k, c)
    PROVE  Settles
<1> DEFINE h == StoreHeap(k, c)
           s == <<stack[3], stack[2], stack[1]>>
           rest == Rest(3)
           base == Refs(rest, locals, lost)
<1>1. /\ 3 \in Nat /\ 3 <= Len(stack) /\ s \in Seq(Values) /\ rest \in Seq(Values)
      /\ Proceed(Release(h, s), rest) /\ UNCHANGED <<locals, lost>>
      /\ orphans' = orphans \cup ({cell[stack[3].to].elems[k]} \ {None})
      /\ \A i \in 1..3 : stack[i] \in Values
  <2>1. 3 \in 0..Len(stack)
    BY StoreElementIs
  <2>2. 3 \in Nat /\ 3 <= Len(stack)
    BY <2>1, SlotsTyped
  <2> QED BY <2>2, StoreElementIs
<1>2. Plain(rest) /\ \A i \in 1..3 : stack[i].flags = {}
  BY <1>1, PlainRest DEF Balanced
<1>3. Plain(s)
  <2>1. 1 \in 1..3 /\ 2 \in 1..3 /\ 3 \in 1..3
    OBVIOUS
  <2>2. stack[1].flags = {} /\ stack[2].flags = {} /\ stack[3].flags = {}
    BY <1>2, <2>1
  <2> QED BY <2>2 DEF Plain
<1>4. base \in [Cells -> Nat] /\ Splits(Base, s, base)
  <2>1. base \in [Cells -> Nat] /\ Splits(Base, Operands(3), base)
    BY <1>1, BaseSplits
  <2>2. \A o : Pointing(Operands(3), o) = Pointing(s, o)
    <3> TAKE o
    <3>1. 1 \in 1..3 /\ 2 \in 1..3 /\ 3 \in 1..3
      OBVIOUS
    <3> DEFINE x == stack[1]
               y == stack[2]
               z == stack[3]
               q3 == Operands(3)
    <3>2. x \in Values /\ y \in Values /\ z \in Values
      BY <1>1, <3>1
    <3>3. q3 = <<x, y, z>> /\ s = <<z, y, x>>
      BY <1>1, OperandsAre
    <3> HIDE DEF x, y, z, s, q3
    <3>4. Pointing(q3, o) = Hits(x, o) + Hits(y, o) + Hits(z, o)
      BY <3>2, <3>3, PointingTriple
    <3>5. Pointing(s, o) = Hits(z, o) + Hits(y, o) + Hits(x, o)
      BY <3>2, <3>3, PointingTriple
    <3>6. Hits(x, o) \in Nat /\ Hits(y, o) \in Nat /\ Hits(z, o) \in Nat
      BY HitsType
    <3>7. \A p, q, r \in Nat : p + q + r = r + q + p
      OBVIOUS
    <3> QED BY ONLY <3>4, <3>5, <3>6, <3>7 DEF q3
  <2> HIDE DEF s, base
  <2> QED BY <2>1, <2>2 DEF Splits
<1>5. Settled(h, orphans', Base)
  BY <1>1, StoreGood, RestSettled
<1> HIDE DEF h, s, rest, base
<1>6. Settled(Release(h, s), orphans', base)
  BY <1>1, <1>3, <1>4, <1>5, ReleaseFrom
<1> DEFINE r == Release(h, s)
<1> HIDE DEF r
<1>7. Settled(r, orphans', Refs(rest, locals', lost')) /\ Plain(locals') /\ Proceed(r, rest)
  BY <1>1, <1>6 DEF Balanced, base, r
<1> QED BY <1>2, <1>7, ProceedSettles

LEMMA RemoveElementSettles ==
    ASSUME TypeOK, Balanced, NEW k \in Keys, RemoveElement(k)
    PROVE  Settles
<1> DEFINE h == RemoveHeap(k)
           s == <<stack[3], stack[2]>>
           rest == Rest(3)
           base == Refs(rest, locals, lost')
<1>1. /\ 3 \in Nat /\ 3 <= Len(stack) /\ s \in Seq(Values) /\ rest \in Seq(Values)
      /\ Proceed(Release(h, s), rest) /\ UNCHANGED locals /\ Lose(Operands(1))
      /\ orphans' = orphans \cup ({cell[stack[3].to].elems[k]} \ {None})
      /\ \A i \in 1..3 : stack[i] \in Values
  <2>1. 3 \in 0..Len(stack)
    BY RemoveElementIs
  <2>2. 3 \in Nat /\ 3 <= Len(stack)
    BY <2>1, SlotsTyped
  <2> QED BY <2>2, RemoveElementIs
<1>2. Plain(rest) /\ \A i \in 1..3 : stack[i].flags = {}
  BY <1>1, PlainRest DEF Balanced
<1>3. Plain(s)
  <2>1. 2 \in 1..3 /\ 3 \in 1..3
    OBVIOUS
  <2>2. stack[2].flags = {} /\ stack[3].flags = {}
    BY <1>2, <2>1
  <2> QED BY <2>2 DEF Plain
<1>4. base \in [Cells -> Nat] /\ Splits(Base, s, base)
  <2>1. /\ Refs(rest, locals, lost) \in [Cells -> Nat]
        /\ Splits(Base, Operands(3), Refs(rest, locals, lost))
    BY <1>1, BaseSplits
  <2>2. 1 \in Nat /\ 1 <= Len(stack) /\ 2 <= Len(stack)
    BY <1>1, SlotsTyped
  <2> HIDE DEF rest
  <2>3. /\ lost' \in [Cells -> Nat]
        /\ \A o \in Cells : base[o] = Refs(rest, locals, lost)[o] + Pointing(Operands(1), o)
    BY <1>1, <2>2, LostOnes
  <2>4. base \in [Cells -> Nat]
    <3> DEFINE f == lost'
    <3>1. f \in [Cells -> Nat] /\ locals \in Seq(Values)
      BY <2>3, SlotsTyped
    <3> HIDE DEF f
    <3>2. Refs(rest, locals, f) \in [Cells -> Nat]
      BY <1>1, <3>1, RefsFacts
    <3> QED BY <3>2 DEF f
  <2>5. ASSUME NEW o \in Cells PROVE Base[o] = base[o] + Pointing(s, o)
    <3>1. 1 \in 1..3 /\ 2 \in 1..3 /\ 3 \in 1..3
      OBVIOUS
    <3> DEFINE x == stack[1]
               y == stack[2]
               z == stack[3]
               b == Refs(rest, locals, lost)
               q1 == Operands(1)
               q3 == Operands(3)
    <3>2. x \in Values /\ y \in Values /\ z \in Values
      BY <1>1, <3>1
    <3>3. q3 = <<x, y, z>> /\ s = <<z, y>> /\ q1 = <<x>>
      BY <1>1, <2>2, OperandsAre
    <3>4. Base[o] = b[o] + Pointing(q3, o) /\ base[o] = b[o] + Pointing(q1, o)
          /\ b[o] \in Nat
      BY <2>1, <2>3 DEF Splits
    <3> HIDE DEF x, y, z, s, b, base, q1, q3
    <3>5. Pointing(q3, o) = Hits(x, o) + Hits(y, o) + Hits(z, o)
      BY <3>2, <3>3, PointingTriple
    <3>6. Pointing(s, o) = Hits(z, o) + Hits(y, o) /\ Pointing(q1, o) = Hits(x, o)
      BY <3>2, <3>3, PointingPair, PointingOne
    <3>7. Hits(x, o) \in Nat /\ Hits(y, o) \in Nat /\ Hits(z, o) \in Nat
      BY HitsType
    <3>8. \A p, q, r, t \in Nat : t + (p + q + r) = (t + p) + (r + q)
      OBVIOUS
    <3> QED BY ONLY <3>4, <3>5, <3>6, <3>7, <3>8
  <2> QED BY <2>4, <2>5 DEF Splits
<1>5. Settled(h, orphans', Base)
  BY <1>1, RemoveGood, RestSettled
<1> HIDE DEF h, s, rest, base
<1>6. Settled(Release(h, s), orphans', base)
  BY <1>1, <1>3, <1>4, <1>5, ReleaseFrom
<1> DEFINE r == Release(h, s)
<1> HIDE DEF r
<1>7. Settled(r, orphans', Refs(rest, locals', lost')) /\ Plain(locals') /\ Proceed(r, rest)
  BY <1>1, <1>6 DEF Balanced, base, r
<1> QED BY <1>2, <1>7, ProceedSettles

\* The element loaded is a value of its own; what is loaded is not counted.
LEMMA LoadElementTyped ==
    ASSUME TypeOK, Balanced, NEW k \in Keys, LoadElement(k)
    PROVE  TypeOK' /\ Stays(cell, cell') /\ loaded'
<1> DEFINE y == stack[1]
           z == stack[2]
           a == z.to
           e == cell[a].elems[k]
           t == Tree(z)
           h1 == Keyed(z, y, t)
           h == [h1 EXCEPT !.cell[e].flags = @ \ {"COLLECT"}]
           s == <<z, y>>
           rest == Rest(2)
           st == <<cell[e]>> \o rest
<1>1. /\ Element(2) /\ Accepts(z, y) /\ e # None /\ Proceed(Release(h, s), st)
      /\ UNCHANGED <<locals, lost, orphans>> /\ loaded' = TRUE
  BY DEF LoadElement
<1>2. /\ y \in Values /\ z \in Values /\ rest \in Seq(Values)
      /\ Len(rest) + 2 <= StackSize /\ Len(rest) \in Nat
  <2>1. 2 \in {2, 3} /\ 1 \in 1..2 /\ 2 \in 1..2
    OBVIOUS
  <2> QED BY <1>1, <2>1, ElementFacts
<1>3. s \in Seq(Values)
  BY <1>2
<1> HIDE DEF y, z, s, rest
<1>4. a \in Cells /\ cell[a].type = "array" /\ cell[a] \in Arrays /\ t \in Trees
  BY <1>1, <1>2, AcceptsArray
<1> HIDE DEF t
<1>5. PICK w : Puts(h1, Heap, a, w)
  BY <1>1, <1>2, <1>4, KeyedFacts
<1> HIDE DEF a, h1
<1>6. Resting(Heap) /\ Heap.cell = cell /\ cell \in [Cells -> Records] /\ Good(Heap, orphans, Base)
  BY HeapRests, HeapSettled
<1>7. e \in Cells /\ cell[e].type \in Copies
  <2>1. Has(Heap, a, k)
    BY <1>1, <1>4, <1>6, RestHas
  <2>2. Placed(Heap, orphans) /\ HeapOK(Heap)
    BY <1>6 DEF Good
  <2>3. e \in Cells
    BY <1>4, <1>6, <2>1, <2>2, HasSpot
  <2> QED BY <1>4, <1>6, <2>1, <2>2, <2>3 DEF Placed
<1> HIDE DEF e
<1>8. cell[e] \in Values
  <2>1. cell[e] \in Records
    BY <1>6, <1>7
  <2> QED BY <1>7, <2>1, RecordFacts DEF Records, Values, OfType, Copies, Arrays
<1>9. st \in Seq(Values) /\ Len(st) <= StackSize
  <2> DEFINE v == cell[e]
  <2>1. v \in Values
    BY <1>8
  <2> HIDE DEF v
  <2> DEFINE q == <<v>> \o rest
  <2>2. q \in Seq(Values) /\ Len(q) = Len(rest) + 1
    BY <1>2, <2>1, FreeingMore
  <2>3. StackSize \in Nat
    BY ArraysAssumption
  <2> HIDE DEF q
  <2>4. q \in Seq(Values) /\ Len(q) <= StackSize
    BY <1>2, <2>2, <2>3
  <2> QED BY <2>4 DEF q, v
<1> HIDE DEF st
<1>10. Resting(h1) /\ Stays(cell, h1.cell)
  <2>1. Heap.cell[a].type # "ref"
    BY <1>4, <1>6
  <2>2. Stays(Heap.cell, h1.cell) /\ Resting(h1)
    BY ONLY <1>4, <1>5, <1>6, <2>1, PutStays, PutAt
  <2> QED BY <1>6, <2>2
<1>11. Resting(h) /\ Stays(h1.cell, h.cell)
  <2>1. Resting(h1) /\ e \in Cells
    BY <1>7, <1>10
  <2> QED BY ONLY <2>1, RestingFlags
<1> HIDE DEF h
<1>12. HeapOK(h) /\ Stays(cell, h.cell)
  BY <1>10, <1>11, StaysOn DEF Resting
<1>13. TypedEnd
  BY <1>1, <1>3, <1>9, <1>12, ElementEnds
<1> QED BY <1>1, <1>13, TypedNext DEF TypeOK

-----------------------------------------------------------------------------
(* Every step.                                                               *)

LEMMA InitInv == Init => ArraysInv
<1> SUFFICES ASSUME Init PROVE ArraysInv
  OBVIOUS
<1>1. FreeCell \in Records /\ Null \in Values
  BY FreeFacts, NullTyped
<1>2. TypeOK
  <2>1. stack \in Seq(Values) /\ Len(stack) = 0
    BY DEF Init
  <2>2. locals \in [Locals -> Values] /\ cell \in [Cells -> Records] /\ lost \in [Cells -> Nat]
    BY <1>1 DEF Init
  <2>3. StackSize \in Nat
    BY ArraysAssumption
  <2>4. Len(stack) <= StackSize
    BY <2>1, <2>3
  <2> QED BY <2>1, <2>2, <2>4 DEF Init, TypeOK, Records
<1>3. Balanced
  <2>1. Plain(stack) /\ Plain(locals)
    BY DEF Init, Plain, Null
  <2>2. Resting(Heap) /\ Heap.cell = cell /\ HeapOK(Heap) /\ Heap.fault = "RUN" /\ Heap.values = <<>>
    BY <1>2, HeapRests, RestingFacts
  <2>3. \A c \in Cells : cell[c] = FreeCell
    BY DEF Init
  <2>4. \A a \in Cells, k \in Keys : ~Has(Heap, a, k)
    BY <2>2, <2>3, FreeFacts DEF Has
  <2>5. Placed(Heap, orphans) /\ HeldBy(Heap, orphans) = {}
    BY <2>4 DEF Placed, HeldBy, Init
  <2>6. Base \in [Cells -> Nat]
    BY <1>2, BaseType
  <2>7. Exact(Heap, orphans, Base)
    <3> SUFFICES ASSUME NEW o \in Cells
                 PROVE  Rc(Heap, o) = Base[o] + Pointing(Heap.values, o) + HeldTo(Heap, orphans, o)
      BY DEF Exact
    <3>1. Rc(Heap, o) = 0
      BY <2>2, <2>3, FreeFacts DEF Rc
    <3>2. HeldTo(Heap, orphans, o) = 0
      <4> DEFINE H == HeldBy(Heap, orphans)
                 f == Heap.cell
      <4>1. {c \in H : f[c].to = o} = {}
        BY <2>5
      <4> HIDE DEF H, f
      <4>2. Tos(H, f, o) = 0
        BY <4>1, FS_EmptySet DEF Tos
      <4> QED BY <4>2 DEF HeldTo, H, f
    <3>3. Base[o] = 0
      <4>1. stack \in Seq(Values) /\ locals \in Seq(Values) /\ lost \in [Cells -> Nat]
        BY <1>2, SlotsTyped DEF TypeOK
      <4>2. Base[o] = Pointing(stack, o) + Pointing(locals, o) + lost[o]
        BY <4>1, RefsFacts DEF Base
      <4>3. Pointing(stack, o) = 0 /\ lost[o] = 0
        BY PointingNone DEF Init
      <4>4. Pointing(locals, o) = 0
        <5>1. {i \in DOMAIN locals : locals[i].to = o} = {}
          BY ArraysAssumption DEF Init, Null
        <5> QED BY <5>1, FS_EmptySet DEF Pointing
      <4> QED BY <4>2, <4>3, <4>4
    <3> QED BY <2>2, <3>1, <3>2, <3>3, PointingNone
  <2>8. Apart(Heap) /\ Plain(Heap.values)
    BY <2>2, RestApart DEF Plain
  <2> QED BY <2>1, <2>2, <2>5, <2>6, <2>7, <2>8 DEF Balanced, Good
<1>4. OnlyTanglesBreak
  BY DEF Init, OnlyTanglesBreak
<1> QED BY <1>2, <1>3, <1>4 DEF ArraysInv, Ledger

\* A step that does not load keeps the ledger; a step that loads ends it.
LEMMA StepInv ==
    ASSUME TypeOK, Ledger, OnlyTanglesBreak, TypeOK', Stays(cell, cell'), Running,
           loaded' \/ (loaded' = loaded /\ (Balanced => Settles))
    PROVE  ArraysInv' /\ Stays(cell, cell')
<1>1. CASE loaded'
  BY <1>1 DEF ArraysInv, Ledger, OnlyTanglesBreak
<1>2. CASE ~loaded'
  <2>1. Balanced
    BY <1>2 DEF Ledger, Running
  <2>2. Settles
    BY <1>2, <2>1
  <2> QED BY <1>2, <2>2 DEF Settles, ArraysInv, Ledger, OnlyTanglesBreak, TangledFreed, Knotted
<1> QED BY <1>1, <1>2

LEMMA NextInv ==
    ASSUME ArraysInv, [Next]_vars
    PROVE  ArraysInv' /\ Stays(cell, cell')
<1>1. TypeOK /\ Ledger /\ OnlyTanglesBreak
  BY DEF ArraysInv
<1>2. CASE LoadConstant
  <2>1. Running /\ loaded' = loaded
    BY <1>2 DEF LoadConstant
  <2> QED BY <1>1, <1>2, <2>1, ConstantTyped, ConstantSettles, StepInv
<1>3. CASE Compute
  <2>1. Running /\ loaded' = loaded
    BY <1>3 DEF Compute
  <2> QED BY <1>1, <1>3, <2>1, ComputeTyped, ComputeSettles, StepInv
<1>4. CASE Pop
  <2>1. Running /\ loaded' = loaded
    BY <1>4 DEF Pop
  <2> QED BY <1>1, <1>4, <2>1, PopTyped, PopSettles, StepInv
<1>5. CASE LoadLength
  <2>1. Running /\ loaded' = loaded
    BY <1>5 DEF LoadLength
  <2> QED BY <1>1, <1>5, <2>1, LoadLengthTyped, LoadLengthSettles, StepInv
<1>6. CASE Stop
  <2>1. Running /\ loaded' = loaded
    BY <1>6 DEF Stop
  <2> QED BY <1>1, <1>6, <2>1, StopTyped, StopSettles, StepInv
<1>7. CASE Underflow
  <2>1. Running /\ loaded' = loaded
    BY <1>7 DEF Underflow
  <2> QED BY <1>1, <1>7, <2>1, UnderflowTyped, StopSettles, StepInv
<1>8. ASSUME NEW c \in Cells, LoadString(c) PROVE ArraysInv' /\ Stays(cell, cell')
  <2>1. Running /\ loaded' = loaded
    BY <1>8 DEF LoadString
  <2> QED BY <1>1, <1>8, <2>1, LoadStringTyped, LoadStringSettles, StepInv
<1>9. ASSUME NEW c \in Cells, NewArray(c) PROVE ArraysInv' /\ Stays(cell, cell')
  <2>1. Running /\ loaded' = loaded
    BY <1>9 DEF NewArray
  <2> QED BY <1>1, <1>9, <2>1, NewArrayTyped, NewArraySettles, StepInv
<1>10. ASSUME NEW l \in Locals, LoadLocal(l) PROVE ArraysInv' /\ Stays(cell, cell')
  <2>1. Running /\ loaded' = loaded
    BY <1>10 DEF LoadLocal
  <2> QED BY <1>1, <1>10, <2>1, LoadLocalTyped, LoadLocalSettles, StepInv
<1>11. ASSUME NEW l \in Locals, LoadStaleLocal(l) PROVE ArraysInv' /\ Stays(cell, cell')
  <2>1. Running /\ loaded' = loaded /\ GoWild /\ Dangling(locals[l]) /\ locals[l] \in Values
    BY <1>1, <1>11 DEF LoadStaleLocal, GoWild, TypeOK
  <2>2. Balanced => FALSE
    BY <1>1, <2>1, NoneDangles
  <2> QED BY <1>1, <2>1, <2>2, WildTyped, StepInv
<1>12. ASSUME NEW l \in Locals, StoreLocal(l) PROVE ArraysInv' /\ Stays(cell, cell')
  <2>1. Running /\ loaded' = loaded
    BY <1>12 DEF StoreLocal
  <2> QED BY <1>1, <1>12, <2>1, StoreLocalTyped, StoreLocalSettles, StepInv
<1>13. ASSUME NEW n \in {2, 3}, FailElement(n) PROVE ArraysInv' /\ Stays(cell, cell')
  <2>1. Running /\ loaded' = loaded
    BY <1>13 DEF FailElement, Element
  <2> QED BY <1>1, <1>13, <2>1, FailElementTyped, StopSettles, StepInv
<1>14. ASSUME NEW n \in {2, 3}, UseStale(n) PROVE ArraysInv' /\ Stays(cell, cell')
  <2>1. Running /\ loaded' = loaded /\ GoWild /\ Len(stack) >= n
    BY <1>14 DEF UseStale, GoWild
  <2>2. PICK i \in 1..n : Dangling(stack[i])
    BY <1>14 DEF UseStale, Stale
  <2>3. n \in Nat /\ n <= Len(stack)
    BY <1>1, <2>1, SlotsTyped
  <2>4. stack[i] \in Values /\ i \in 1..Len(stack)
    BY <1>1, <2>3, RestTyped, SlotsTyped
  <2>5. Balanced => FALSE
    BY <1>1, <2>2, <2>4, NoneDangles
  <2> QED BY <1>1, <2>1, <2>5, WildTyped, StepInv
<1>15. ASSUME NEW k \in Keys, NEW c \in Cells, StoreElement(k, c)
       PROVE  ArraysInv' /\ Stays(cell, cell')
  <2>1. Running /\ loaded' = loaded
    BY <1>15 DEF StoreElement, Element
  <2> QED BY <1>1, <1>15, <2>1, StoreElementTyped, StoreElementSettles, StepInv
<1>16. ASSUME NEW k \in Keys, LoadElement(k) PROVE ArraysInv' /\ Stays(cell, cell')
  <2>1. Running /\ ~loaded
    BY <1>16 DEF LoadElement, Element
  <2>2. Balanced
    BY <1>1, <2>1 DEF Ledger, Running
  <2>3. TypeOK' /\ Stays(cell, cell') /\ loaded'
    BY <1>1, <1>16, <2>2, LoadElementTyped
  <2> QED BY <1>1, <2>1, <2>3, StepInv
<1>17. ASSUME NEW k \in Keys, LoadMissing(k) PROVE ArraysInv' /\ Stays(cell, cell')
  <2>1. Running /\ loaded'
    BY <1>17 DEF LoadMissing, Element
  <2> QED BY <1>1, <1>17, <2>1, LoadMissingTyped, StepInv
<1>18. ASSUME NEW k \in Keys, RemoveElement(k) PROVE ArraysInv' /\ Stays(cell, cell')
  <2>1. Running /\ loaded' = loaded
    BY <1>18 DEF RemoveElement, Element
  <2> QED BY <1>1, <1>18, <2>1, RemoveElementTyped, RemoveElementSettles, StepInv
<1>19. CASE UNCHANGED vars
  <2>1. ArraysInv' <=> ArraysInv
    BY <1>19 DEF vars, ArraysInv, TypeOK, Ledger, OnlyTanglesBreak, TangledFreed, Balanced, Base, Heap
  <2> QED BY <1>19, <2>1, StaysSame DEF vars
<1> QED BY <1>2, <1>3, <1>4, <1>5, <1>6, <1>7, <1>8, <1>9, <1>10, <1>11, <1>12, <1>13, <1>14,
           <1>15, <1>16, <1>17, <1>18, <1>19 DEF Next

\* At rest, what is held is what the property counts.
LEMMA BalancedCounts ==
    ASSUME TypeOK, Balanced
    PROVE  \A o \in Objects : cell[o].rc = RefsTo(o) + lost[o]
<1> SUFFICES ASSUME NEW o \in Objects PROVE cell[o].rc = RefsTo(o) + lost[o]
  OBVIOUS
<1>1. o \in Cells /\ cell[o].type \in {"string", "array"}
  BY DEF Objects
<1>2. /\ Good(Heap, orphans, Base) /\ Resting(Heap) /\ Heap.cell = cell /\ Heap.values = <<>>
      /\ HeapOK(Heap) /\ orphans \subseteq Cells
  BY HeapSettled, HeapRests, RestingFacts DEF TypeOK
<1>3. Cells \cap Held = HeldBy(Heap, orphans)
  <2>1. \A a \in Cells, k \in Keys :
           Has(Heap, a, k) <=> cell[a].type = "array" /\ cell[a].elems[k] # None
    BY <1>2, RestHas
  <2>2. None \notin Cells
    BY ArraysAssumption
  <2>3. ASSUME NEW c \in Cells \cap Held PROVE c \in HeldBy(Heap, orphans)
    BY <1>2, <2>1, <2>2, <2>3 DEF Held, HeldBy
  <2>4. ASSUME NEW c \in HeldBy(Heap, orphans) PROVE c \in Cells \cap Held
    BY <1>2, <2>1 DEF Held, HeldBy
  <2> QED BY <2>3, <2>4
<1>4. HeldTo(Heap, orphans, o) = Cardinality({c \in Cells \cap Held : cell[c].to = o})
  BY <1>2, <1>3 DEF HeldTo, Tos
<1>5. Rc(Heap, o) = Base[o] + 0 + HeldTo(Heap, orphans, o) /\ Rc(Heap, o) = cell[o].rc
  BY <1>1, <1>2, PointingNone DEF Good, Exact, Rc
<1>6. Base[o] = Pointing(Slots, o) + lost[o] /\ Pointing(Slots, o) \in Nat /\ lost[o] \in Nat
      /\ HeldTo(Heap, orphans, o) \in Nat
  <2>1. Slots \in Seq(Values) /\ lost[o] \in Nat
    BY <1>1, SlotsTyped DEF TypeOK
  <2> QED BY <1>1, <2>1, PointingType, HeldType DEF Base, Refs, Slots
<1>7. RefsTo(o) = Pointing(Slots, o) + HeldTo(Heap, orphans, o)
  BY <1>4 DEF RefsTo
<1>8. \A x, y, z \in Nat : (x + y) + 0 + z = (x + z) + y
  OBVIOUS
<1> QED BY <1>5, <1>6, <1>7, <1>8

LEMMA InvCounts == ArraysInv => CountsAreExact
BY BalancedCounts DEF ArraysInv, Ledger, CountsAreExact

\* In every state of every run the invariant holds.
LEMMA ArraysInvariant == Spec => []ArraysInv
<1>1. Init => ArraysInv
  BY InitInv
<1>2. ArraysInv /\ [Next]_vars => ArraysInv'
  BY NextInv
<1> QED BY <1>1, <1>2, PTL DEF Spec

\* The variables keep their types: the stack its room, every counter its width,
\* whatever is stored, replaced, removed, loaded and released.
THEOREM ArraysTyped == Spec => []TypeOK
<1>1. ArraysInv => TypeOK
  BY DEF ArraysInv
<1> QED BY <1>1, ArraysInvariant, PTL

\* AdrenoValue_Dereference, _CreateReference and the instructions keep the
\* counter of every string and array equal to the references to it.
THEOREM ArraysCountExactly == Spec => []CountsAreExact
BY InvCounts, ArraysInvariant, PTL

\* AdrenoValue_Free never reaches a cell or a node that was given back, and the
\* pool gets only cells of its own, unless OP_LDELEM is used or an array is
\* freed whose table OP_RMELEM left with a wrong Parent.
THEOREM OnlyTanglesBreakMemory == Spec => []OnlyTanglesBreak
<1>1. ArraysInv => OnlyTanglesBreak
  BY DEF ArraysInv
<1> QED BY <1>1, ArraysInvariant, PTL

\* AdrenoValue_Free counts the target of an element's cell down, never the
\* cell: no step gives it back to the pool or changes it.
THEOREM ElementCellsLeak == Spec => ElementCellsStay
<1>1. ArraysInv /\ [Next]_vars =>
        [\A c \in Cells : cell[c].type = "ref" =>
            cell'[c].type = "ref" /\ cell'[c].to = cell[c].to]_vars
  <2> SUFFICES ASSUME ArraysInv, [Next]_vars
               PROVE  \A c \in Cells : cell[c].type = "ref" =>
                         cell'[c].type = "ref" /\ cell'[c].to = cell[c].to
    OBVIOUS
  <2> QED BY NextInv DEF Stays
<1> QED BY <1>1, ArraysInvariant, PTL DEF Spec, ElementCellsStay

=============================================================================
