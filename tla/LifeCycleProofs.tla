-------------------------- MODULE LifeCycleProofs --------------------------
(* The registry of pools and its users, for any number of pools, holders,    *)
(* tables and sizes.                                                         *)
EXTENDS LifeCycle, FiniteSetTheorems, SequenceTheorems, TLAPS

\* DestroyLock of a pool, 0 of one that was never made.
Lock(r, id) == IF id \in DOMAIN r.pools THEN r.pools[id].lock ELSE 0
-----------------------------------------------------------------------------
(* The operators of the registry.                                            *)

\* A nonempty set of naturals has a least element (the search of New stops at
\* the first pool that fits).
LEMMA MinIsMember ==
    ASSUME NEW S \in SUBSET Nat, S # {}
    PROVE  Min(S) \in S
<1> DEFINE T == {0..n : n \in S}
<1>1. T \subseteq FiniteSubsetsOf(Nat) /\ T # {}
  <2>1. \A n \in S : 0..n \in SUBSET Nat /\ IsFiniteSet(0..n)
    BY FS_Interval
  <2> QED BY <2>1 DEF FiniteSubsetsOf
<1>2. PICK x \in T : \A y \in T : <<y, x>> \notin StrictSubsetOrdering(Nat)
  <2> HIDE DEF T
  <2> QED BY <1>1, FS_StrictSubsetOrderingWellFounded, WFMin
<1>3. PICK n \in S : x = 0..n
  BY <1>2
<1>4. \A m \in S : n <= m
  <2> SUFFICES ASSUME NEW m \in S, m < n PROVE FALSE
    OBVIOUS
  <2>1. <<0..m, 0..n>> \notin StrictSubsetOrdering(Nat)
    BY <1>2, <1>3
  <2>2. 0..m \subseteq 0..n /\ n \in 0..n /\ n \notin 0..m /\ 0..n \subseteq Nat
    OBVIOUS
  <2> QED BY <2>1, <2>2 DEF StrictSubsetOrdering
<1> QED BY <1>4 DEF Min

\* Rounding up to an even number, and the sizes New and Initialize compute
\* from it: in the linked-list build the two agree.
LEMMA Sizes ==
    ASSUME NEW size \in Nat, size > Word
    PROVE  /\ Even(size) \in Nat /\ Even(size) >= size /\ Even(size) % 2 = 0
           /\ Sought(size) \in Nat
           /\ ObjectSize(size) \in Nat
           /\ Linked => /\ ObjectSize(size) = Sought(size)
                        /\ ObjectSize(size) >= size + Header
<1>1. /\ Even(size) \in Nat /\ Even(size) >= size /\ Even(size) % 2 = 0
      /\ Word \in Nat /\ Word % 2 = 0
  BY LifeCycleAssumption DEF Even
<1>2. CASE Linked
  <2>1. Header = Word /\ Sought(size) = Even(size) + Word
    BY <1>2 DEF Header, Sought
  <2>2. Sought(size) - Word = Even(size)
    BY <1>1, <2>1
  <2>3. Even(Even(size)) = Even(size)
    BY <1>1 DEF Even
  <2> QED BY <1>1, <2>1, <2>2, <2>3 DEF ObjectSize
<1>3. CASE ~Linked
  <2>1. Header = 0 /\ Sought(size) = Even(size)
    BY <1>1, <1>3 DEF Header, Sought
  <2>2. Even(size) - Word \in Nat
    BY <1>1
  <2> QED BY <1>1, <1>3, <2>1, <2>2 DEF ObjectSize, Even
<1> QED BY <1>2, <1>3

LEMMA RegistryTypes ==
    ASSUME NEW r \in Registries
    PROVE  /\ r.pools \in Seq(PoolRecord) /\ r.entries \in Seq(Nat)
           /\ r.count \in Nat
           /\ Len(r.pools) \in Nat /\ DOMAIN r.pools = 1..Len(r.pools)
           /\ Len(r.entries) \in Nat /\ DOMAIN r.entries = 1..Len(r.entries)
           /\ \A i \in DOMAIN r.entries : r.entries[i] \in Nat
           /\ \A id \in DOMAIN r.pools :
                 /\ r.pools[id] \in PoolRecord
                 /\ r.pools[id].size \in Nat /\ r.pools[id].index \in Nat
                 /\ r.pools[id].lock \in Nat /\ r.pools[id].alive \in BOOLEAN
<1>1. r.pools \in Seq(PoolRecord) /\ r.entries \in Seq(Nat) /\ r.count \in Nat
  BY DEF Registries
<1>2. \A id \in DOMAIN r.pools : r.pools[id] \in PoolRecord
  BY <1>1
<1>3. \A q \in PoolRecord : /\ q.size \in Nat /\ q.index \in Nat
                            /\ q.lock \in Nat /\ q.alive \in BOOLEAN
  BY DEF PoolRecord
<1> QED BY <1>1, <1>2, <1>3

LEMMA LiveFinite ==
    ASSUME NEW r \in Registries
    PROVE  IsFiniteSet(Live(r)) /\ Live(r) \subseteq DOMAIN r.pools
<1>1. DOMAIN r.pools = 1..Len(r.pools) /\ 1 \in Int /\ Len(r.pools) \in Int
  BY RegistryTypes
<1>2. IsFiniteSet(1..Len(r.pools))
  BY <1>1, FS_Interval
<1>3. Live(r) \in SUBSET (DOMAIN r.pools)
  BY DEF Live
<1> QED BY <1>1, <1>2, <1>3, FS_Subset

\* What sharing a pool, or making one, does to the registry and to locks.
Serves(r, size, s, id) ==
    /\ s \in Registries /\ EntriesLive(s)
    /\ id \in Live(s)
    /\ DOMAIN r.pools \subseteq DOMAIN s.pools
    /\ \A other \in DOMAIN s.pools :
          s.pools[other].lock = Lock(r, other) + (IF other = id THEN 1 ELSE 0)
    /\ \A other \in DOMAIN r.pools : s.pools[other].size = r.pools[other].size
    /\ Linked => s.pools[id].size >= size + Header

\* Two registries that differ in nothing but locks.
Like(r, s) ==
    /\ s.entries = r.entries /\ s.count = r.count
    /\ Live(s) = Live(r)
    /\ \A id \in Live(r) : /\ s.pools[id].index = r.pools[id].index
                           /\ s.pools[id].size = r.pools[id].size

\* A pool of the size added as the youngest, at the last index.
Adds(r, size, s) ==
    LET n  == r.count + 1
        id == Len(r.pools) + 1
    IN  /\ s.count = n
        /\ s.entries = [i \in 1..n |-> IF i = n THEN id ELSE r.entries[i]]
        /\ Live(s) = Live(r) \cup {id}
        /\ s.pools[id].size = ObjectSize(size)
        /\ s.pools[id].index = n
        /\ \A other \in Live(r) : s.pools[other] = r.pools[other]

LEMMA SharedServes ==
    ASSUME NEW r \in Registries, EntriesLive(r), NEW size \in Nat, size > Word,
           Matches(r, size) # {}
    PROVE  /\ Serves(r, size, Shared(r, size).registry, Shared(r, size).id)
           /\ Like(r, Shared(r, size).registry)
<1> DEFINE k  == Min(Matches(r, size))
           id == r.entries[k]
           s  == [r EXCEPT !.pools[id].lock = @ + 1]
<1>1. Shared(r, size).registry = s /\ Shared(r, size).id = id
  BY DEF Shared
<1>2. k \in 1..r.count /\ id # Null /\ r.pools[id].size = Sought(size)
      /\ k \in DOMAIN r.entries
  <2>1. Matches(r, size) \in SUBSET Nat
    BY DEF Matches, Registries
  <2>2. k \in Matches(r, size)
    BY <2>1, MinIsMember
  <2>3. r.count <= Len(r.entries) /\ r.count \in Nat /\ Len(r.entries) \in Nat
        /\ DOMAIN r.entries = 1..Len(r.entries)
    BY DEF EntriesLive, Registries
  <2>4. k \in 1..r.count /\ id # Null /\ r.pools[id].size = Sought(size)
    BY <2>2 DEF Matches
  <2> QED BY <2>3, <2>4
<1> HIDE DEF k
<1>3. id \in Live(r) /\ id \in DOMAIN r.pools
  BY <1>2 DEF EntriesLive, Live
<1> HIDE DEF id
<1>4. /\ s.entries = r.entries /\ s.count = r.count
      /\ s.pools = [r.pools EXCEPT ![id].lock = @ + 1]
      /\ DOMAIN s.pools = DOMAIN r.pools
  BY DEF Registries
<1>5. \A other \in DOMAIN r.pools :
         /\ r.pools[other] \in PoolRecord
         /\ s.pools[other].lock = r.pools[other].lock + (IF other = id THEN 1 ELSE 0)
         /\ s.pools[other].size = r.pools[other].size
         /\ s.pools[other].index = r.pools[other].index
         /\ s.pools[other].alive = r.pools[other].alive
         /\ s.pools[other] \in PoolRecord
  <2> DEFINE q == [r.pools[id] EXCEPT !.lock = @ + 1]
  <2>1. \A other \in DOMAIN r.pools : r.pools[other] \in PoolRecord
    BY RegistryTypes
  <2>2. /\ q \in PoolRecord /\ q.lock = r.pools[id].lock + 1
        /\ q.size = r.pools[id].size /\ q.index = r.pools[id].index
        /\ q.alive = r.pools[id].alive
    BY <1>3, <2>1 DEF PoolRecord
  <2>3. \A other \in DOMAIN r.pools :
           s.pools[other] = IF other = id THEN q ELSE r.pools[other]
    BY <1>3, <1>4
  <2>4. \A other \in DOMAIN r.pools : r.pools[other].lock \in Nat
    BY <2>1 DEF PoolRecord
  <2> HIDE DEF q, s
  <2> QED BY <2>1, <2>2, <2>3, <2>4
<1>6. s \in Registries
  <2>1. s.pools \in Seq(PoolRecord)
    <3>1. DOMAIN s.pools = 1..Len(r.pools) /\ Len(r.pools) \in Nat
      BY <1>4, RegistryTypes
    <3>2. s.pools \in [1..Len(r.pools) -> PoolRecord]
      <4>1. \A i \in 1..Len(r.pools) : s.pools[i] \in PoolRecord
        BY <1>4, <1>5, <3>1
      <4>2. s.pools = [i \in DOMAIN s.pools |-> s.pools[i]]
        BY <1>4
      <4> QED BY <3>1, <4>1, <4>2
    <3> QED BY <3>1, <3>2, SeqDef
  <2> QED BY <1>4, <2>1 DEF Registries, PoolRecord
<1>7. Live(s) = Live(r)
  BY <1>4, <1>5 DEF Live
<1>8. EntriesLive(s)
  <2>1. \A other \in DOMAIN s.pools :
           s.pools[other].alive <=> s.pools[other].lock > 0
    BY <1>3, <1>4, <1>5 DEF EntriesLive, PoolRecord, Live
  <2>2. \A i \in DOMAIN s.entries :
           s.entries[i] # Null => /\ s.entries[i] \in Live(s)
                                  /\ s.pools[s.entries[i]].index = i
    <3>1. \A i \in DOMAIN r.entries :
             r.entries[i] # Null => /\ r.entries[i] \in DOMAIN r.pools
                                    /\ r.entries[i] \in Live(r)
                                    /\ r.pools[r.entries[i]].index = i
      BY DEF EntriesLive, Live
    <3> HIDE DEF s
    <3> QED BY <3>1, <1>4, <1>5, <1>7
  <2>3. s.count = Cardinality(Live(s)) /\ s.count <= Len(s.entries)
    BY <1>4, <1>7 DEF EntriesLive
  <2> QED BY <2>1, <2>2, <2>3 DEF EntriesLive
<1>9. Linked => s.pools[id].size >= size + Header
  BY <1>2, <1>3, <1>5, Sizes
<1>10. Like(r, s)
  BY <1>4, <1>5, <1>7 DEF Like
<1> QED BY <1>1, <1>3, <1>4, <1>5, <1>6, <1>7, <1>8, <1>9, <1>10 DEF Serves, Lock

LEMMA CreatedServes ==
    ASSUME NEW r \in Registries, EntriesLive(r), NEW size \in Nat, size > Word
    PROVE  /\ Serves(r, size, Created(r, size).registry, Created(r, size).id)
           /\ Adds(r, size, Created(r, size).registry)
<1> DEFINE n  == r.count + 1
           id == Len(r.pools) + 1
           p  == [size |-> ObjectSize(size), index |-> n, lock |-> 1,
                  alive |-> TRUE]
           s  == [pools   |-> Append(r.pools, p),
                  entries |-> [i \in 1..n |-> IF i = n THEN id ELSE r.entries[i]],
                  count   |-> n]
<1>1. Created(r, size).registry = s /\ Created(r, size).id = id
  BY DEF Created
<1>2. /\ n \in Nat /\ r.count \in Nat /\ Len(r.pools) \in Nat
      /\ r.pools \in Seq(PoolRecord) /\ r.entries \in Seq(Nat)
      /\ p \in PoolRecord
      /\ id \notin DOMAIN r.pools /\ id \in Nat
      /\ r.count <= Len(r.entries) /\ Len(r.entries) \in Nat
  BY Sizes DEF Registries, PoolRecord, EntriesLive
<1> HIDE DEF p
<1>3. /\ s.pools \in Seq(PoolRecord)
      /\ DOMAIN s.pools = DOMAIN r.pools \cup {id}
      /\ s.pools[id] = p
      /\ \A other \in DOMAIN r.pools : s.pools[other] = r.pools[other]
      /\ \A other \in DOMAIN r.pools : r.pools[other] \in PoolRecord
  BY <1>2
<1>4. s \in Registries
  <2>1. \A i \in 1..n : s.entries[i] \in Nat
    BY <1>2
  <2>2. s.entries \in Seq(Nat)
    BY <1>2, <2>1
  <2>3. s.count \in Nat
    BY <1>2
  <2> QED BY <1>3, <2>2, <2>3 DEF Registries, PoolRecord
<1>5. Live(s) = Live(r) \cup {id} /\ id \notin Live(r)
  BY <1>2, <1>3 DEF Live, p
<1>6. EntriesLive(s)
  <2>1. \A i \in DOMAIN s.entries :
           s.entries[i] # Null => /\ s.entries[i] \in Live(s)
                                  /\ s.pools[s.entries[i]].index = i
    <3> SUFFICES ASSUME NEW i \in 1..n, s.entries[i] # Null
                 PROVE  /\ s.entries[i] \in Live(s)
                        /\ s.pools[s.entries[i]].index = i
      BY <1>2
    <3>1. CASE i = n
      <4>1. s.entries[i] = id
        BY <3>1, <1>2
      <4>2. s.pools[id].index = n
        BY <1>3 DEF p
      <4> QED BY <3>1, <4>1, <4>2, <1>5
    <3>2. CASE i # n
      <4>1. i \in 1..Len(r.entries) /\ s.entries[i] = r.entries[i]
        BY <3>2, <1>2
      <4>2. r.entries[i] \in Live(r) /\ r.pools[r.entries[i]].index = i
        BY <4>1, LiveFinite DEF EntriesLive
      <4>3. r.entries[i] \in DOMAIN r.pools
        BY <4>2 DEF Live
      <4> QED BY <4>1, <4>2, <4>3, <1>3, <1>5
    <3> QED BY <3>1, <3>2
  <2>2. s.count = Cardinality(Live(s))
    <3>1. IsFiniteSet(Live(r)) /\ Cardinality(Live(r)) = r.count
      BY LiveFinite DEF EntriesLive
    <3>2. Cardinality(Live(r) \cup {id}) = Cardinality(Live(r)) + 1
      BY <3>1, <1>5, FS_AddElement
    <3> QED BY <3>1, <3>2, <1>5
  <2>3. s.count <= Len(s.entries)
    BY <1>2
  <2>4. \A other \in DOMAIN s.pools :
           s.pools[other].alive <=> s.pools[other].lock > 0
    BY <1>3 DEF EntriesLive, p
  <2> QED BY <2>1, <2>2, <2>3, <2>4 DEF EntriesLive
<1>7. Linked => s.pools[id].size >= size + Header
  BY <1>3, Sizes DEF p
<1>8. \A other \in DOMAIN s.pools :
         s.pools[other].lock = Lock(r, other) + (IF other = id THEN 1 ELSE 0)
  BY <1>2, <1>3 DEF p, Lock, PoolRecord
<1>9. Adds(r, size, s)
  <2>1. /\ s.pools[id].size = ObjectSize(size) /\ s.pools[id].index = n
        /\ \A other \in Live(r) : s.pools[other] = r.pools[other]
    BY <1>3 DEF p, Live
  <2> QED BY <1>5, <2>1 DEF Adds
<1> HIDE DEF s, id
<1> QED BY <1>1, <1>3, <1>4, <1>5, <1>6, <1>7, <1>8, <1>9 DEF Serves

LEMMA NewServes ==
    ASSUME NEW r \in Registries, EntriesLive(r), NEW size \in Nat, size > Word
    PROVE  /\ Serves(r, size, New(r, size).registry, New(r, size).id)
           /\ IF Matches(r, size) # {} THEN Like(r, New(r, size).registry)
                                      ELSE Adds(r, size, New(r, size).registry)
BY SharedServes, CreatedServes DEF New

\* What giving a pool back does to the registry and to locks.
LEMMA DestroyedServes ==
    ASSUME NEW r \in Registries, EntriesLive(r), NEW id \in Live(r),
           NEW s, s = Destroyed(r, id)
    PROVE  /\ s \in Registries /\ EntriesLive(s)
           /\ DOMAIN s.pools = DOMAIN r.pools
           /\ \A other \in DOMAIN r.pools :
                 /\ s.pools[other].lock = r.pools[other].lock
                                             - (IF other = id THEN 1 ELSE 0)
                 /\ s.pools[other].size = r.pools[other].size
                 /\ s.pools[other].index = r.pools[other].index
           /\ Live(s) = IF r.pools[id].lock = 1 THEN Live(r) \ {id} ELSE Live(r)
<1> DEFINE pool  == r.pools[id]
           last  == pool.lock = 1
<1>1. /\ r.pools \in Seq(PoolRecord) /\ r.entries \in Seq(Nat) /\ r.count \in Nat
      /\ id \in DOMAIN r.pools /\ pool \in PoolRecord
      /\ pool.lock \in Nat \ {0} /\ pool.alive
      /\ \A other \in DOMAIN r.pools : r.pools[other] \in PoolRecord
      /\ Len(r.entries) \in Nat /\ DOMAIN r.entries = 1..Len(r.entries)
      /\ \A i \in DOMAIN r.entries : r.entries[i] \in Nat
  <2>1. id \in DOMAIN r.pools /\ pool.alive
    BY DEF Live
  <2>2. pool.lock > 0
    BY <2>1 DEF EntriesLive
  <2> QED BY <2>1, <2>2, RegistryTypes
<1>2. /\ s.pools = [r.pools EXCEPT ![id].lock = @ - 1,
                                         ![id].alive = ~last]
      /\ s.count = IF last THEN r.count - 1 ELSE r.count
      /\ s.entries = IF ~last THEN r.entries
                     ELSE IF s.count = 0 THEN << >>
                     ELSE [i \in DOMAIN r.entries |->
                              IF i = pool.index THEN Null ELSE r.entries[i]]
      /\ s = [pools |-> s.pools, entries |-> s.entries, count |-> s.count]
  BY DEF Destroyed
<1>3. /\ DOMAIN s.pools = DOMAIN r.pools
      /\ \A other \in DOMAIN r.pools :
            /\ s.pools[other] \in PoolRecord
            /\ s.pools[other].lock = r.pools[other].lock
                                        - (IF other = id THEN 1 ELSE 0)
            /\ s.pools[other].size = r.pools[other].size
            /\ s.pools[other].index = r.pools[other].index
            /\ s.pools[other].alive = (IF other = id THEN ~last
                                       ELSE r.pools[other].alive)
  <2> DEFINE b == ~last
             q == [pool EXCEPT !.lock = @ - 1, !.alive = b]
  <2>1. /\ q \in PoolRecord /\ q.lock = pool.lock - 1 /\ q.alive = b
        /\ q.size = pool.size /\ q.index = pool.index
    <3>1. b \in BOOLEAN /\ pool.lock - 1 \in Nat
      BY <1>1
    <3> HIDE DEF b
    <3> QED BY <1>1, <3>1 DEF PoolRecord
  <2>2. /\ DOMAIN s.pools = DOMAIN r.pools
        /\ \A other \in DOMAIN r.pools :
              s.pools[other] = IF other = id THEN q ELSE r.pools[other]
    <3>1. b \in BOOLEAN /\ s.pools = [r.pools EXCEPT ![id].lock = @ - 1,
                                                     ![id].alive = b]
      BY <1>2
    <3> HIDE DEF b
    <3> QED BY <1>1, <3>1
  <2>3. \A other \in DOMAIN r.pools : r.pools[other].lock \in Nat
    BY RegistryTypes
  <2> HIDE DEF q, pool, last
  <2>4. \A other \in DOMAIN r.pools : other # id => s.pools[other] = r.pools[other]
    BY <2>2
  <2>5. s.pools[id] = q
    BY <2>2, <1>1
  <2>6. s.pools[id].alive = ~last
    BY <2>1, <2>5
  <2> QED BY <1>1, <2>1, <2>2, <2>3, <2>4, <2>5, <2>6 DEF pool
<1>4. r.count = Cardinality(Live(r)) /\ r.count > 0
  <2>1. r.count = Cardinality(Live(r)) /\ IsFiniteSet(Live(r)) /\ Live(r) # {}
    BY LiveFinite DEF EntriesLive
  <2> QED BY <2>1, <1>1, FS_EmptySet
<1>5. s.count \in Nat
  BY <1>1, <1>2, <1>4
<1>6. s.entries \in Seq(Nat) /\ DOMAIN s.entries = 1..Len(s.entries)
  <2>1. CASE ~last
    BY <2>1, <1>1, <1>2
  <2>2. CASE last /\ s.count = 0
    BY <2>2, <1>2
  <2>3. CASE last /\ s.count # 0
    <3> DEFINE e == [i \in DOMAIN r.entries |->
                        IF i = pool.index THEN Null ELSE r.entries[i]]
    <3>1. s.entries = e
      BY <2>3, <1>2
    <3>2. \A i \in 1..Len(r.entries) : e[i] \in Nat
      BY <1>1 DEF Null
    <3>3. e = [i \in 1..Len(r.entries) |-> e[i]]
      BY <1>1
    <3> HIDE DEF e
    <3>4. e \in [1..Len(r.entries) -> Nat]
      BY <3>2, <3>3
    <3>5. e \in Seq(Nat)
      <4>1. Len(r.entries) \in Nat
        BY <1>1
      <4> QED BY <3>4, <4>1, SeqDef
    <3> QED BY <3>1, <3>5
  <2> QED BY <2>1, <2>2, <2>3
<1>7. s \in Registries
  <2>1. s.pools \in Seq(PoolRecord)
    <3>1. DOMAIN s.pools = 1..Len(r.pools) /\ Len(r.pools) \in Nat
      BY <1>3, RegistryTypes
    <3>2. s.pools \in [1..Len(r.pools) -> PoolRecord]
      <4>1. \A i \in 1..Len(r.pools) : s.pools[i] \in PoolRecord
        BY <1>3, <3>1
      <4>2. s.pools = [i \in DOMAIN s.pools |-> s.pools[i]]
        BY <1>2
      <4> QED BY <3>1, <4>1, <4>2
    <3> QED BY <3>1, <3>2, SeqDef
  <2> QED BY <1>2, <1>5, <1>6, <2>1 DEF Registries, PoolRecord
<1>8. Live(s) = IF last THEN Live(r) \ {id} ELSE Live(r)
  BY <1>1, <1>3 DEF Live
<1>9. EntriesLive(s)
  <2>1. ASSUME NEW i \in DOMAIN s.entries, s.entries[i] # Null
        PROVE  /\ s.entries[i] \in Live(s)
               /\ s.pools[s.entries[i]].index = i
    <3>1. i \in DOMAIN r.entries /\ s.entries[i] = r.entries[i]
          /\ (last => i # pool.index)
      BY <1>1, <1>2, <2>1
    <3>2. r.entries[i] \in Live(r) /\ r.pools[r.entries[i]].index = i
      BY <2>1, <3>1 DEF EntriesLive
    <3>3. r.entries[i] \in DOMAIN r.pools /\ (last => r.entries[i] # id)
      BY <3>1, <3>2 DEF Live
    <3> QED BY <1>3, <1>8, <3>1, <3>2, <3>3
  <2>2. s.count = Cardinality(Live(s))
    <3>1. IsFiniteSet(Live(r)) /\ Cardinality(Live(r)) = r.count
      BY LiveFinite DEF EntriesLive
    <3>2. Cardinality(Live(r) \ {id}) = Cardinality(Live(r)) - 1
      BY <3>1, FS_RemoveElement
    <3> QED BY <3>1, <3>2, <1>2, <1>8
  <2>3. s.count <= Len(s.entries)
    <3>1. r.count <= Len(r.entries)
      BY DEF EntriesLive
    <3>2. CASE last /\ s.count # 0
      <4>1. DOMAIN s.entries = 1..Len(r.entries)
        BY <3>2, <1>1, <1>2
      <4>2. Len(s.entries) = Len(r.entries)
        BY <4>1, <1>1, <1>6
      <4> QED BY <3>1, <3>2, <4>2, <1>1, <1>2
    <3>3. CASE ~last
      BY <3>1, <3>3, <1>2
    <3>4. CASE last /\ s.count = 0
      BY <3>4, <1>2
    <3> QED BY <3>2, <3>3, <3>4
  <2>4. \A other \in DOMAIN s.pools :
           s.pools[other].alive <=> s.pools[other].lock > 0
    <3> SUFFICES ASSUME NEW other \in DOMAIN r.pools
                 PROVE  s.pools[other].alive <=> s.pools[other].lock > 0
      BY <1>3
    <3>1. r.pools[other].alive <=> r.pools[other].lock > 0
      BY DEF EntriesLive
    <3>2. CASE other = id
      <4>1. s.pools[id].lock = pool.lock - 1 /\ s.pools[id].alive = ~last
        BY <1>1, <1>3
      <4>2. CASE last
        <5>1. s.pools[id].lock = 0
          BY <4>1, <4>2
        <5>2. ~s.pools[id].alive
          BY <4>1, <4>2
        <5> QED BY <3>2, <5>1, <5>2
      <4>3. CASE ~last
        <5>1. s.pools[id].lock > 0
          BY <4>1, <4>3, <1>1
        <5> QED BY <3>2, <4>1, <4>3, <5>1
      <4> QED BY <4>2, <4>3
    <3>3. CASE other # id
      BY <3>1, <3>3, <1>3, RegistryTypes
    <3> QED BY <3>2, <3>3
  <2> QED BY <2>1, <2>2, <2>3, <2>4 DEF EntriesLive
<1> QED BY <1>3, <1>7, <1>8, <1>9
-----------------------------------------------------------------------------
(* The holders of pools.                                                     *)

LEMMA HoldersType ==
    ASSUME TypeOK
    PROVE  /\ DOMAIN registry.pools = Pools /\ Null \notin Pools
           /\ \A id \in Pools : id \in Nat
           /\ \A id : /\ IsFiniteSet(Users(id))
                      /\ Cardinality(Users(id)) \in Nat
                      /\ Holders(id) \in Nat
<1>1. Pools = 1..Len(registry.pools)
  BY RegistryTypes DEF TypeOK, Pools
<1>2. \A id : Users(id) \in SUBSET Hosts
  BY DEF Users
<1>3. \A id : IsFiniteSet(Users(id)) /\ Cardinality(Users(id)) \in Nat
  BY <1>2, FS_Subset, FS_CardinalityType, LifeCycleAssumption
<1> QED BY <1>1, <1>3 DEF Holders, Pools, Null

\* The lock of every pool, made or not, counts its holders.
LEMMA LocksCount ==
    ASSUME HoldersInv
    PROVE  \A id : id # Null => Lock(registry, id) = Holders(id)
<1> SUFFICES ASSUME NEW id, id # Null
             PROVE  Lock(registry, id) = Holders(id)
  OBVIOUS
<1>1. CASE id \in Pools
  BY <1>1 DEF HoldersInv, HoldersServed, Lock, Pools
<1>2. CASE id \notin Pools
  <2>1. Users(id) = {} /\ nodePool # id /\ ~(valueHeld /\ valuePool = id)
    BY <1>2 DEF HoldersInv, TypeOK, Users
  <2>2. Cardinality(Users(id)) = 0
    BY <2>1, FS_EmptySet
  <2>3. Holders(id) = 0 /\ Lock(registry, id) = 0
    BY <1>2, <2>1, <2>2 DEF Holders, Lock, Pools
  <2> QED BY <2>3
<1> QED BY <1>1, <1>2

\* Who holds a pool holds one that is alive.
LEMMA HeldAreLive ==
    ASSUME HoldersInv
    PROVE  /\ \A h \in Hosts : hosts[h].pool # Null
                                  => hosts[h].pool \in Live(registry)
           /\ nodePool # Null => nodePool \in Live(registry)
           /\ valueHeld => valuePool \in Live(registry)
<1> USE DEF HoldersInv
<1>1. TypeOK
  OBVIOUS
<1>2. \A id \in Pools : Holders(id) > 0 => id \in Live(registry)
  BY DEF HoldersServed, Live, Pools
<1>3. ASSUME NEW h \in Hosts, hosts[h].pool # Null
      PROVE  hosts[h].pool \in Live(registry)
  <2> DEFINE id == hosts[h].pool
  <2>1. id \in Pools /\ h \in Users(id)
    BY <1>3 DEF TypeOK, Users
  <2>2. Cardinality(Users(id)) > 0
    BY <1>1, <2>1, HoldersType, FS_EmptySet
  <2> HIDE DEF id
  <2>3. Holders(id) > 0
    BY <1>1, <2>2, HoldersType DEF Holders
  <2> QED BY <1>2, <2>1, <2>3 DEF id
<1>4. ASSUME nodePool # Null PROVE nodePool \in Live(registry)
  <2>1. nodePool \in Pools
    BY <1>4 DEF TypeOK
  <2>2. Holders(nodePool) > 0
    BY <1>1, HoldersType DEF Holders
  <2> QED BY <1>2, <2>1, <2>2
<1>5. ASSUME valueHeld PROVE valuePool \in Live(registry)
  <2>1. valuePool \in Pools
    BY <1>5 DEF TypeOK
  <2>2. Holders(valuePool) > 0
    BY <1>1, <1>5, HoldersType DEF Holders
  <2> QED BY <1>2, <2>1, <2>2
<1> QED BY <1>3, <1>4, <1>5

\* The program's own pools, when it takes one or gives one up.
LEMMA UsersChange ==
    ASSUME TypeOK, NEW h \in Hosts, NEW held,
           hosts' = [hosts EXCEPT ![h] = held]
    PROVE  \A id : Cardinality(Users(id)')
                     = Cardinality(Users(id))
                       - (IF hosts[h].pool = id THEN 1 ELSE 0)
                       + (IF held.pool = id THEN 1 ELSE 0)
<1> SUFFICES ASSUME NEW id
             PROVE  Cardinality(Users(id)')
                      = Cardinality(Users(id))
                        - (IF hosts[h].pool = id THEN 1 ELSE 0)
                        + (IF held.pool = id THEN 1 ELSE 0)
  OBVIOUS
<1>1. /\ IsFiniteSet(Users(id)) /\ Cardinality(Users(id)) \in Nat
      /\ DOMAIN hosts = Hosts
  BY HoldersType DEF TypeOK
<1>2. /\ hosts'[h] = held
      /\ \A k \in Hosts : k # h => hosts'[k] = hosts[k]
  BY <1>1
<1>3. h \in Users(id) <=> hosts[h].pool = id
  BY DEF Users
<1> DEFINE others == Users(id) \ {h}
<1>4. IsFiniteSet(others) /\ Cardinality(others)
          = Cardinality(Users(id)) - (IF hosts[h].pool = id THEN 1 ELSE 0)
  BY <1>1, <1>3, FS_RemoveElement
<1>5. Users(id)' = IF held.pool = id THEN others \cup {h} ELSE others
  BY <1>2 DEF Users
<1>6. Cardinality(others \cup {h}) = Cardinality(others) + 1
  BY <1>4, FS_AddElement
<1> QED BY <1>1, <1>4, <1>5, <1>6

\* The tables in use, when one is made or destroyed.
InUse == {t \in Tables : tables[t] # "none"}

LEMMA TablesChange ==
    ASSUME TypeOK, NEW t \in Tables, NEW s,
           tables' = [tables EXCEPT ![t] = s]
    PROVE  /\ IsFiniteSet(InUse) /\ Cardinality(InUse) \in Nat
           /\ Cardinality(InUse) = 0 <=> InUse = {}
           /\ Cardinality(InUse) <= Cardinality(Tables)
           /\ s # "none" => InUse' = InUse \cup {t}
           /\ s = "none" => InUse' = InUse \ {t}
           /\ Cardinality(InUse') \in 0..Cardinality(Tables)
           /\ Cardinality(InUse')
                 = Cardinality(InUse)
                   - (IF tables[t] # "none" THEN 1 ELSE 0)
                   + (IF s # "none" THEN 1 ELSE 0)
<1>1. InUse \in SUBSET Tables /\ InUse' \in SUBSET Tables
  BY DEF InUse
<1>2. /\ IsFiniteSet(InUse) /\ Cardinality(InUse) \in Nat
      /\ Cardinality(InUse) = 0 <=> InUse = {}
      /\ Cardinality(InUse) <= Cardinality(Tables)
      /\ IsFiniteSet(InUse') /\ Cardinality(InUse') \in Nat
      /\ Cardinality(InUse') <= Cardinality(Tables)
      /\ Cardinality(Tables) \in Nat
  BY <1>1, FS_Subset, FS_CardinalityType, FS_EmptySet, LifeCycleAssumption
<1>3. InUse' = IF s # "none" THEN InUse \cup {t} ELSE InUse \ {t}
  BY DEF InUse, TypeOK
<1>4. t \in InUse <=> tables[t] # "none"
  BY DEF InUse
<1>5. /\ Cardinality(InUse \cup {t})
           = Cardinality(InUse) + (IF tables[t] # "none" THEN 0 ELSE 1)
      /\ Cardinality(InUse \ {t})
           = Cardinality(InUse) - (IF tables[t] # "none" THEN 1 ELSE 0)
  <2>1. /\ Cardinality(InUse \cup {t}) = IF t \in InUse THEN Cardinality(InUse)
                                         ELSE Cardinality(InUse) + 1
        /\ Cardinality(InUse \ {t}) = IF t \in InUse THEN Cardinality(InUse) - 1
                                      ELSE Cardinality(InUse)
    BY <1>2, FS_AddElement, FS_RemoveElement
  <2> QED BY <1>2, <1>4, <2>1
<1>6. Cardinality(InUse') \in 0..Cardinality(Tables)
  BY <1>2
<1> QED BY <1>2, <1>3, <1>5, <1>6
-----------------------------------------------------------------------------
(* The invariant that does not depend on the order pools are given back in,  *)
(* for the linked-list build.                                                *)

LEMMA InitHoldersInv == Init => HoldersInv
<1> SUFFICES ASSUME Init PROVE HoldersInv
  OBVIOUS
<1>1. /\ registry \in Registries /\ registry.pools = << >> /\ Pools = {}
      /\ registry.entries = << >> /\ registry.count = 0 /\ Live(registry) = {}
  BY DEF Init, Registries, Pools, Live
<1>2. IsFiniteSet(Tables) /\ Cardinality(Tables) \in Nat
  BY LifeCycleAssumption, FS_CardinalityType
<1>3. TypeOK
  <2>1. hosts \in [Hosts -> [pool : Pools \cup {Null}, size : HostSizes \cup {0}]]
    BY DEF Init, NoHost
  <2>2. 0 \in 0..Cardinality(Tables)
    BY <1>2
  <2>3. {nodePool, valuePool} \subseteq Pools \cup {Null} /\ valueHeld \in BOOLEAN
        /\ orderly \in BOOLEAN /\ status \in {"RUN", "CRASH", "WILD"}
        /\ useCount = 0
    BY DEF Init
  <2>4. tables \in [Tables -> {"none", "empty", "filled"}]
    BY DEF Init
  <2> QED BY <1>1, <2>1, <2>2, <2>3, <2>4 DEF TypeOK
<1>4. EntriesLive(registry)
  BY <1>1, FS_EmptySet DEF EntriesLive
<1>5. {t \in Tables : tables[t] # "none"} = {}
  BY DEF Init
<1>6. useCount = Cardinality({t \in Tables : tables[t] # "none"})
  BY <1>5, FS_EmptySet DEF Init
<1>7. HoldersServed
  BY <1>1, <1>5 DEF Init, HoldersServed, NoHost
<1> QED BY <1>3, <1>4, <1>6, <1>7, LifeCycleAssumption DEF Init, HoldersInv

\* Pools keep their sizes, so whoever holds one is served as before.
LEMMA FitsKept ==
    ASSUME HoldersInv, Pools \subseteq Pools',
           \A id \in Pools : registry'.pools[id].size = registry.pools[id].size
    PROVE  /\ \A h \in Hosts : hosts[h].pool # Null
                => registry'.pools[hosts[h].pool].size >= hosts[h].size + Header
           /\ nodePool # Null
                => registry'.pools[nodePool].size >= NodeSize + Header
           /\ valueHeld
                => registry'.pools[valuePool].size >= ValueSize + Header
<1>1. TypeOK /\ HoldersServed /\ (valueHeld => valuePool # Null)
  BY DEF HoldersInv
<1>2. /\ \A h \in Hosts : hosts[h].pool # Null => hosts[h].pool \in Pools
      /\ nodePool # Null => nodePool \in Pools
      /\ valueHeld => valuePool \in Pools
  BY <1>1 DEF TypeOK
<1> QED BY <1>1, <1>2 DEF HoldersServed, Fits

\* What is left to show of a step once its effect on the locks is known.
LEMMA ServedAfter ==
    ASSUME TypeOK', EntriesLive(registry)',
           \A id \in Pools' : registry'.pools[id].lock = Holders(id)',
           \A h \in Hosts : hosts'[h].pool # Null
                => registry'.pools[hosts'[h].pool].size >= hosts'[h].size + Header,
           nodePool' # Null
                => registry'.pools[nodePool'].size >= NodeSize + Header,
           valueHeld'
                => registry'.pools[valuePool'].size >= ValueSize + Header,
           nodePool' # Null <=> \E t \in Tables : tables'[t] # "none",
           useCount' = Cardinality(InUse'),
           valueHeld' => valuePool' # Null,
           tables'[VM] # "none" => valuePool' # Null
    PROVE  HoldersInv'
<1>1. \A id \in Pools' : registry'.pools[id].alive <=> Holders(id)' > 0
  BY DEF EntriesLive, Pools
<1>2. HoldersServed'
  BY <1>1 DEF HoldersServed, Fits
<1> QED BY <1>2 DEF HoldersInv, InUse

LEMMA HostNewHolders ==
    ASSUME Linked, HoldersInv, NEW h \in Hosts, NEW size \in HostSizes,
           HostNew(h, size)
    PROVE  HoldersInv'
<1> DEFINE id == New(registry, size).id
<1>1. /\ TypeOK /\ registry \in Registries /\ EntriesLive(registry)
      /\ size \in Nat /\ size > Word
  BY LifeCycleAssumption DEF HoldersInv, TypeOK
<1>2. Serves(registry, size, registry', id)
  BY <1>1, NewServes DEF HostNew
<1>3. /\ hosts[h].pool = Null
      /\ hosts' = [hosts EXCEPT ![h] = [pool |-> id, size |-> size]]
      /\ UNCHANGED <<nodePool, useCount, valuePool, valueHeld, tables, status,
                     orderly>>
  BY DEF HostNew
<1> HIDE DEF id
<1>4. /\ registry' \in Registries /\ EntriesLive(registry')
      /\ id \in Pools' /\ Pools \subseteq Pools'
      /\ \A other \in Pools : registry'.pools[other].size
                                  = registry.pools[other].size
      /\ registry'.pools[id].size >= size + Header
  BY <1>2 DEF Serves, Live, Pools
<1>5. TypeOK'
  BY <1>1, <1>3, <1>4 DEF TypeOK
<1>6. id # Null
  BY <1>4, <1>5, RegistryTypes DEF TypeOK, Pools, Null
<1>7. \A other \in Pools' : registry'.pools[other].lock = Holders(other)'
  <2> SUFFICES ASSUME NEW other \in Pools'
               PROVE  registry'.pools[other].lock = Holders(other)'
    OBVIOUS
  <2>1. registry'.pools[other].lock
          = Lock(registry, other) + (IF other = id THEN 1 ELSE 0)
    BY <1>2 DEF Serves, Pools
  <2>2. other # Null
    BY <1>5, RegistryTypes DEF TypeOK, Pools, Null
  <2>3. Lock(registry, other) = Holders(other)
    BY <2>2, LocksCount
  <2>4. Cardinality(Users(other)')
          = Cardinality(Users(other)) + (IF other = id THEN 1 ELSE 0)
    <3> DEFINE held == [pool |-> id, size |-> size]
    <3>1. hosts' = [hosts EXCEPT ![h] = held] /\ held.pool = id
      BY <1>3
    <3> HIDE DEF held
    <3>2. Cardinality(Users(other)')
            = Cardinality(Users(other))
              - (IF hosts[h].pool = other THEN 1 ELSE 0)
              + (IF held.pool = other THEN 1 ELSE 0)
      <4>1. \A o : Cardinality(Users(o)')
                    = Cardinality(Users(o))
                      - (IF hosts[h].pool = o THEN 1 ELSE 0)
                      + (IF held.pool = o THEN 1 ELSE 0)
        BY <1>1, <3>1, UsersChange
      <4> QED BY <4>1
    <3> QED BY <1>1, <1>3, <2>2, <3>1, <3>2, HoldersType
  <2>5. Cardinality(Users(other)) \in Nat
    BY <1>1, HoldersType
  <2> QED BY <1>3, <2>1, <2>3, <2>4, <2>5 DEF Holders
<1>8. \A k \in Hosts : hosts'[k].pool # Null
         => registry'.pools[hosts'[k].pool].size >= hosts'[k].size + Header
  BY <1>1, <1>3, <1>4, FitsKept DEF TypeOK
<1>9. /\ nodePool # Null
            => registry'.pools[nodePool].size >= NodeSize + Header
      /\ valueHeld
            => registry'.pools[valuePool].size >= ValueSize + Header
  BY <1>4, FitsKept
<1>10. /\ nodePool # Null <=> \E t \in Tables : tables[t] # "none"
       /\ useCount = Cardinality(InUse)
       /\ valueHeld => valuePool # Null
       /\ tables[VM] # "none" => valuePool # Null
       /\ InUse' = InUse
  BY <1>3 DEF HoldersInv, HoldersServed, InUse
<1> QED BY <1>3, <1>4, <1>5, <1>7, <1>8, <1>9, <1>10, ServedAfter

LEMMA HostDestroyHolders ==
    ASSUME Linked, HoldersInv, NEW h \in Hosts, HostDestroy(h)
    PROVE  HoldersInv'
<1> DEFINE id == hosts[h].pool
<1>1. /\ TypeOK /\ registry \in Registries /\ EntriesLive(registry)
      /\ id \in Live(registry)
  BY HeldAreLive DEF HoldersInv, TypeOK, HostDestroy
<1>2. /\ registry' = Destroyed(registry, id)
      /\ hosts' = [hosts EXCEPT ![h] = NoHost]
      /\ status' \in {"RUN", "WILD"} /\ orderly' \in BOOLEAN
      /\ UNCHANGED <<nodePool, useCount, valuePool, valueHeld, tables>>
  BY DEF HostDestroy, Release
<1>3. /\ registry' \in Registries /\ EntriesLive(registry')
      /\ Pools' = Pools
      /\ \A other \in Pools :
            /\ registry'.pools[other].lock = registry.pools[other].lock
                                                - (IF other = id THEN 1 ELSE 0)
            /\ registry'.pools[other].size = registry.pools[other].size
  BY <1>1, <1>2, DestroyedServes DEF Pools
<1>4. TypeOK'
  BY <1>1, <1>2, <1>3 DEF TypeOK, NoHost
<1>5. \A other \in Pools' : registry'.pools[other].lock = Holders(other)'
  <2> SUFFICES ASSUME NEW other \in Pools
               PROVE  registry'.pools[other].lock = Holders(other)'
    BY <1>3
  <2>1. registry.pools[other].lock = Holders(other)
    BY DEF HoldersInv, HoldersServed
  <2>2. other # Null /\ NoHost.pool # other
    BY <1>1, HoldersType DEF NoHost
  <2>3. \A o : Cardinality(Users(o)')
                  = Cardinality(Users(o)) - (IF id = o THEN 1 ELSE 0)
                                          + (IF NoHost.pool = o THEN 1 ELSE 0)
    BY <1>1, <1>2, UsersChange
  <2>4. Cardinality(Users(other)')
          = Cardinality(Users(other)) - (IF id = other THEN 1 ELSE 0)
    BY <1>1, <2>2, <2>3, HoldersType
  <2>5. Cardinality(Users(other)) \in Nat
    BY <1>1, HoldersType
  <2> HIDE DEF id
  <2> QED BY <1>2, <1>3, <2>1, <2>4, <2>5 DEF Holders
<1>6. \A k \in Hosts : hosts'[k].pool # Null
         => registry'.pools[hosts'[k].pool].size >= hosts'[k].size + Header
  BY <1>1, <1>2, <1>3, FitsKept DEF TypeOK, NoHost
<1>7. /\ nodePool # Null
            => registry'.pools[nodePool].size >= NodeSize + Header
      /\ valueHeld
            => registry'.pools[valuePool].size >= ValueSize + Header
  BY <1>3, FitsKept
<1>8. /\ nodePool # Null <=> \E t \in Tables : tables[t] # "none"
      /\ useCount = Cardinality(InUse)
      /\ valueHeld => valuePool # Null
      /\ tables[VM] # "none" => valuePool # Null
      /\ InUse' = InUse
  BY <1>2 DEF HoldersInv, HoldersServed, InUse
<1> QED BY <1>2, <1>3, <1>4, <1>5, <1>6, <1>7, <1>8, ServedAfter

LEMMA StaticInitHolders ==
    ASSUME Linked, HoldersInv, StaticInit
    PROVE  HoldersInv'
<1> DEFINE id == New(registry, ValueSize).id
<1>1. /\ TypeOK /\ registry \in Registries /\ EntriesLive(registry)
      /\ ValueSize \in Nat /\ ValueSize > Word
  BY LifeCycleAssumption DEF HoldersInv, TypeOK
<1>2. Serves(registry, ValueSize, registry', id)
  BY <1>1, NewServes DEF StaticInit
<1>3. /\ ~valueHeld /\ valuePool' = id /\ valueHeld' = TRUE
      /\ UNCHANGED <<nodePool, useCount, hosts, tables, status, orderly>>
  BY DEF StaticInit
<1> HIDE DEF id
<1>4. /\ registry' \in Registries /\ EntriesLive(registry')
      /\ id \in Pools' /\ Pools \subseteq Pools'
      /\ \A other \in Pools : registry'.pools[other].size
                                  = registry.pools[other].size
      /\ registry'.pools[id].size >= ValueSize + Header
  BY <1>2 DEF Serves, Live, Pools
<1>5. TypeOK'
  BY <1>1, <1>3, <1>4 DEF TypeOK
<1>6. id # Null
  BY <1>4, <1>5, RegistryTypes DEF TypeOK, Pools, Null
<1>7. \A other \in Pools' : registry'.pools[other].lock = Holders(other)'
  <2> SUFFICES ASSUME NEW other \in Pools'
               PROVE  registry'.pools[other].lock = Holders(other)'
    OBVIOUS
  <2>1. registry'.pools[other].lock
          = Lock(registry, other) + (IF other = id THEN 1 ELSE 0)
    BY <1>2 DEF Serves, Pools
  <2>2. other # Null
    BY <1>5, RegistryTypes DEF TypeOK, Pools, Null
  <2>3. Lock(registry, other) = Holders(other)
    BY <2>2, LocksCount
  <2>4. Users(other)' = Users(other)
    BY <1>3 DEF Users
  <2>5. Cardinality(Users(other)) \in Nat
    BY <1>1, HoldersType
  <2> QED BY <1>3, <2>1, <2>3, <2>4, <2>5 DEF Holders
<1>8. \A k \in Hosts : hosts'[k].pool # Null
         => registry'.pools[hosts'[k].pool].size >= hosts'[k].size + Header
  BY <1>3, <1>4, FitsKept
<1>9. nodePool # Null
            => registry'.pools[nodePool].size >= NodeSize + Header
  BY <1>4, FitsKept
<1>10. /\ nodePool # Null <=> \E t \in Tables : tables[t] # "none"
       /\ useCount = Cardinality(InUse)
       /\ InUse' = InUse
  BY <1>3 DEF HoldersInv, HoldersServed, InUse
<1> QED BY <1>3, <1>4, <1>5, <1>6, <1>7, <1>8, <1>9, <1>10, ServedAfter

LEMMA StaticDestroyHolders ==
    ASSUME Linked, HoldersInv, StaticDestroy
    PROVE  HoldersInv'
<1>1. /\ TypeOK /\ registry \in Registries /\ EntriesLive(registry)
      /\ valueHeld /\ valuePool \in Live(registry)
  BY HeldAreLive DEF HoldersInv, TypeOK, StaticDestroy
<1>2. /\ registry' = Destroyed(registry, valuePool)
      /\ valueHeld' = FALSE
      /\ status' \in {"RUN", "WILD"} /\ orderly' \in BOOLEAN
      /\ UNCHANGED <<nodePool, useCount, valuePool, hosts, tables>>
  BY DEF StaticDestroy, Release
<1>3. /\ registry' \in Registries /\ EntriesLive(registry')
      /\ Pools' = Pools
      /\ \A other \in Pools :
            /\ registry'.pools[other].lock = registry.pools[other].lock
                                       - (IF other = valuePool THEN 1 ELSE 0)
            /\ registry'.pools[other].size = registry.pools[other].size
  BY <1>1, <1>2, DestroyedServes DEF Pools
<1>4. TypeOK'
  BY <1>1, <1>2, <1>3 DEF TypeOK
<1>5. \A other \in Pools' : registry'.pools[other].lock = Holders(other)'
  <2> SUFFICES ASSUME NEW other \in Pools
               PROVE  registry'.pools[other].lock = Holders(other)'
    BY <1>3
  <2>1. registry.pools[other].lock = Holders(other)
    BY DEF HoldersInv, HoldersServed
  <2>2. Users(other)' = Users(other)
    BY <1>2 DEF Users
  <2>3. Cardinality(Users(other)) \in Nat
    BY <1>1, HoldersType
  <2> QED BY <1>1, <1>2, <1>3, <2>1, <2>2, <2>3 DEF Holders
<1>6. \A k \in Hosts : hosts'[k].pool # Null
         => registry'.pools[hosts'[k].pool].size >= hosts'[k].size + Header
  BY <1>2, <1>3, FitsKept
<1>7. nodePool # Null
            => registry'.pools[nodePool].size >= NodeSize + Header
  BY <1>3, FitsKept
<1>8. /\ nodePool # Null <=> \E t \in Tables : tables[t] # "none"
      /\ useCount = Cardinality(InUse)
      /\ tables[VM] # "none" => valuePool # Null
      /\ InUse' = InUse
  BY <1>2 DEF HoldersInv, HoldersServed, InUse
<1> QED BY <1>2, <1>3, <1>4, <1>5, <1>6, <1>7, <1>8, ServedAfter

\* The node pool a new table uses.
LEMMA NodePoolServes ==
    ASSUME Linked, HoldersInv, NEW s, NEW id,
           s = NodePoolFor(registry).registry, id = NodePoolFor(registry).id
    PROVE  /\ s \in Registries /\ EntriesLive(s)
           /\ id \in DOMAIN s.pools /\ id \in Nat /\ id # Null
           /\ DOMAIN registry.pools \subseteq DOMAIN s.pools
           /\ \A other : Lock(s, other) = Lock(registry, other)
                 + (IF nodePool = Null /\ other = id THEN 1 ELSE 0)
           /\ \A other \in DOMAIN registry.pools :
                 s.pools[other].size = registry.pools[other].size
           /\ s.pools[id].size >= NodeSize + Header
           /\ nodePool # Null => id = nodePool
<1>1. /\ TypeOK /\ registry \in Registries /\ EntriesLive(registry)
      /\ NodeSize \in Nat /\ NodeSize > Word
  BY LifeCycleAssumption DEF HoldersInv, TypeOK
<1>2. CASE nodePool = Null
  <2>1. Serves(registry, NodeSize, s, id)
    BY <1>1, <1>2, NewServes DEF NodePoolFor
  <2>2. id \in DOMAIN s.pools /\ id \in Nat /\ id # Null
    BY <2>1, RegistryTypes DEF Serves, Live, Null
  <2>3. \A other : Lock(s, other) = Lock(registry, other)
                                     + (IF other = id THEN 1 ELSE 0)
    BY <2>1, <2>2, RegistryTypes DEF Serves, Lock
  <2> QED BY <1>2, <2>1, <2>2, <2>3 DEF Serves
<1>3. CASE nodePool # Null
  <2>1. s = registry /\ id = nodePool
    BY <1>3 DEF NodePoolFor
  <2>2. id \in Pools /\ DOMAIN registry.pools = Pools
    BY <1>1, <1>3, <2>1 DEF TypeOK, Pools
  <2>3. s.pools[id].size >= NodeSize + Header
    BY <1>3, <2>1 DEF HoldersInv, HoldersServed, Fits
  <2>4. \A other : Lock(registry, other) \in Nat
    BY <1>1, RegistryTypes DEF Lock
  <2> QED BY <1>1, <1>3, <2>1, <2>2, <2>3, <2>4, HoldersType
<1> QED BY <1>2, <1>3

LEMMA TableInitializeHolders ==
    ASSUME Linked, HoldersInv, NEW t \in Tables, TableInitialize(t)
    PROVE  HoldersInv'
<1> DEFINE id == NodePoolFor(registry).id
<1>1. /\ TypeOK /\ registry \in Registries /\ tables[t] = "none"
      /\ registry' = NodePoolFor(registry).registry
      /\ useCount' = useCount + 1
      /\ nodePool' = id
      /\ tables' = [tables EXCEPT ![t] = "empty"]
      /\ UNCHANGED <<valuePool, valueHeld, hosts, status, orderly>>
      /\ t # VM
  BY DEF HoldersInv, TypeOK, TableInitialize
<1>2. /\ registry' \in Registries /\ EntriesLive(registry')
      /\ id \in Pools' /\ id # Null /\ Pools \subseteq Pools'
      /\ \A other : Lock(registry', other) = Lock(registry, other)
            + (IF nodePool = Null /\ other = id THEN 1 ELSE 0)
      /\ \A other \in Pools : registry'.pools[other].size
                                  = registry.pools[other].size
      /\ registry'.pools[id].size >= NodeSize + Header
      /\ nodePool # Null => id = nodePool
  BY <1>1, NodePoolServes DEF Pools
<1> HIDE DEF id
<1>3. /\ InUse' = InUse \cup {t}
      /\ Cardinality(InUse') = Cardinality(InUse) + 1
      /\ Cardinality(InUse') \in 0..Cardinality(Tables)
      /\ useCount = Cardinality(InUse)
  <2>1. /\ InUse' = InUse \cup {t} /\ Cardinality(InUse) \in Nat
        /\ Cardinality(InUse') \in 0..Cardinality(Tables)
        /\ Cardinality(InUse')
                 = Cardinality(InUse)
                   - (IF tables[t] # "none" THEN 1 ELSE 0)
                   + (IF "empty" # "none" THEN 1 ELSE 0)
    <3>1. TypeOK /\ tables' = [tables EXCEPT ![t] = "empty"]
      BY <1>1
    <3> HIDE <1>1
    <3> QED BY <3>1, TablesChange
  <2> QED BY <1>1, <2>1 DEF HoldersInv, InUse
<1>4. TypeOK'
  BY <1>1, <1>2, <1>3 DEF TypeOK
<1>5. \A other \in Pools' : registry'.pools[other].lock = Holders(other)'
  <2> SUFFICES ASSUME NEW other \in Pools'
               PROVE  registry'.pools[other].lock = Holders(other)'
    OBVIOUS
  <2>1. registry'.pools[other].lock = Lock(registry', other)
    BY DEF Lock, Pools
  <2>2. other # Null
    BY <1>4, RegistryTypes DEF TypeOK, Pools, Null
  <2>3. Lock(registry, other) = Holders(other)
    BY <2>2, LocksCount
  <2>4. Users(other)' = Users(other)
    BY <1>1 DEF Users
  <2>5. Cardinality(Users(other)) \in Nat
    BY <1>1, HoldersType
  <2>6. (IF nodePool' = other THEN 1 ELSE 0)
           = (IF nodePool = other THEN 1 ELSE 0)
             + (IF nodePool = Null /\ other = id THEN 1 ELSE 0)
    BY <1>1, <1>2, <2>2
  <2> QED BY <1>1, <1>2, <2>1, <2>3, <2>4, <2>5, <2>6 DEF Holders
<1>6. \A k \in Hosts : hosts'[k].pool # Null
         => registry'.pools[hosts'[k].pool].size >= hosts'[k].size + Header
  BY <1>1, <1>2, FitsKept
<1>7. valueHeld
            => registry'.pools[valuePool].size >= ValueSize + Header
  BY <1>2, FitsKept
<1>8. /\ nodePool' # Null /\ \E u \in Tables : tables'[u] # "none"
      /\ useCount' = Cardinality(InUse')
      /\ valueHeld => valuePool # Null
      /\ tables'[VM] # "none" => valuePool # Null
  <2>1. tables'[t] # "none" /\ tables'[VM] = tables[VM]
    BY <1>1, LifeCycleAssumption DEF TypeOK
  <2> QED BY <1>1, <1>2, <1>3, <2>1 DEF HoldersInv
<1> QED BY <1>1, <1>2, <1>4, <1>5, <1>6, <1>7, <1>8, ServedAfter

LEMMA VMInitializeHolders ==
    ASSUME Linked, HoldersInv, VMInitialize
    PROVE  HoldersInv'
<1> DEFINE s  == NodePoolFor(registry).registry
           id == NodePoolFor(registry).id
           v  == New(s, ValueSize).id
<1>1. /\ TypeOK /\ registry \in Registries /\ tables[VM] = "none"
      /\ useCount' = useCount + 1
      /\ nodePool' = id
      /\ tables' = [tables EXCEPT ![VM] = "empty"]
      /\ UNCHANGED <<hosts, status>> /\ orderly' \in BOOLEAN
      /\ IF valuePool = Null
         THEN /\ registry' = New(s, ValueSize).registry
              /\ valuePool' = v
              /\ valueHeld' = TRUE
         ELSE /\ registry' = s
              /\ UNCHANGED <<valuePool, valueHeld>>
  BY DEF HoldersInv, TypeOK, VMInitialize
<1>2. /\ s \in Registries /\ EntriesLive(s)
      /\ id \in DOMAIN s.pools /\ id # Null
      /\ Pools \subseteq DOMAIN s.pools
      /\ \A other : Lock(s, other) = Lock(registry, other)
            + (IF nodePool = Null /\ other = id THEN 1 ELSE 0)
      /\ \A other \in Pools : s.pools[other].size = registry.pools[other].size
      /\ s.pools[id].size >= NodeSize + Header
      /\ nodePool # Null => id = nodePool
  BY NodePoolServes DEF Pools
<1> HIDE DEF s
<1>3. /\ registry' \in Registries /\ EntriesLive(registry')
      /\ DOMAIN s.pools \subseteq Pools'
      /\ \A other \in Pools' : registry'.pools[other].lock = Lock(s, other)
            + (IF valuePool = Null /\ other = v THEN 1 ELSE 0)
      /\ \A other \in DOMAIN s.pools : registry'.pools[other].size
                                           = s.pools[other].size
      /\ valuePool = Null =>
            /\ v \in Pools' /\ v # Null
            /\ registry'.pools[v].size >= ValueSize + Header
  <2>1. CASE valuePool = Null
    <3>1. ValueSize \in Nat /\ ValueSize > Word
      BY LifeCycleAssumption
    <3>2. Serves(s, ValueSize, registry', v)
      BY <1>1, <1>2, <2>1, <3>1, NewServes
    <3> HIDE DEF v
    <3>3. v \in Pools'
      BY <3>2 DEF Serves, Live, Pools
    <3>4. v # Null
      BY <3>2, <3>3, RegistryTypes DEF Serves, Pools, Null
    <3> QED BY <2>1, <3>2, <3>3, <3>4 DEF Serves, Pools
  <2>2. CASE valuePool # Null
    <3>1. registry' = s
      BY <1>1, <2>2
    <3>2. \A other \in DOMAIN s.pools : s.pools[other].lock \in Nat
      BY <1>2, RegistryTypes
    <3> QED BY <1>2, <2>2, <3>1, <3>2 DEF Pools, Lock
  <2> QED BY <2>1, <2>2
<1> HIDE DEF id, v
<1>4. /\ Pools \subseteq Pools' /\ id \in Pools'
      /\ \A other \in Pools : registry'.pools[other].size
                                  = registry.pools[other].size
      /\ registry'.pools[id].size >= NodeSize + Header
  BY <1>2, <1>3
<1>5. /\ Cardinality(InUse') = Cardinality(InUse) + 1
      /\ Cardinality(InUse') \in 0..Cardinality(Tables)
      /\ useCount = Cardinality(InUse)
      /\ valueHeld => valuePool # Null
  <2>1. VM \in Tables
    BY LifeCycleAssumption
  <2>2. /\ Cardinality(InUse) \in Nat
        /\ Cardinality(InUse') \in 0..Cardinality(Tables)
        /\ Cardinality(InUse')
                 = Cardinality(InUse)
                   - (IF tables[VM] # "none" THEN 1 ELSE 0)
                   + (IF "empty" # "none" THEN 1 ELSE 0)
    <3>1. TypeOK /\ tables' = [tables EXCEPT ![VM] = "empty"]
      BY <1>1
    <3> HIDE <1>1
    <3> QED BY <2>1, <3>1, TablesChange
  <2> QED BY <1>1, <2>2 DEF HoldersInv, InUse
<1>6. TypeOK'
  <2>1. {nodePool', valuePool'} \subseteq Pools' \cup {Null}
    BY <1>1, <1>3, <1>4 DEF TypeOK
  <2>2. valueHeld' \in BOOLEAN
    BY <1>1 DEF TypeOK
  <2>3. hosts' \in [Hosts -> [pool : Pools' \cup {Null}, size : HostSizes \cup {0}]]
    BY <1>1, <1>4 DEF TypeOK
  <2> QED BY <1>1, <1>3, <1>5, <2>1, <2>2, <2>3 DEF TypeOK
<1>7. \A other \in Pools' : registry'.pools[other].lock = Holders(other)'
  <2> SUFFICES ASSUME NEW other \in Pools'
               PROVE  registry'.pools[other].lock = Holders(other)'
    OBVIOUS
  <2>1. other # Null
    BY <1>6, RegistryTypes DEF TypeOK, Pools, Null
  <2>2. Lock(registry, other) = Holders(other)
    BY <2>1, LocksCount
  <2>3. Users(other)' = Users(other)
    BY <1>1 DEF Users
  <2>4. Cardinality(Users(other)) \in Nat
    BY <1>1, HoldersType
  <2>5. (IF nodePool' = other THEN 1 ELSE 0)
           = (IF nodePool = other THEN 1 ELSE 0)
             + (IF nodePool = Null /\ other = id THEN 1 ELSE 0)
    BY <1>1, <1>2, <2>1
  <2>6. (IF valueHeld' /\ valuePool' = other THEN 1 ELSE 0)
           = (IF valueHeld /\ valuePool = other THEN 1 ELSE 0)
             + (IF valuePool = Null /\ other = v THEN 1 ELSE 0)
    BY <1>1, <1>5, <2>1
  <2>7. registry'.pools[other].lock
          = Lock(registry, other)
            + (IF nodePool = Null /\ other = id THEN 1 ELSE 0)
            + (IF valuePool = Null /\ other = v THEN 1 ELSE 0)
    BY <1>2, <1>3
  <2> QED BY <2>2, <2>3, <2>4, <2>5, <2>6, <2>7 DEF Holders
<1>8. \A k \in Hosts : hosts'[k].pool # Null
         => registry'.pools[hosts'[k].pool].size >= hosts'[k].size + Header
  BY <1>1, <1>4, FitsKept
<1>9. valueHeld'
            => registry'.pools[valuePool'].size >= ValueSize + Header
  BY <1>1, <1>3, <1>4, FitsKept
<1>10. nodePool' # Null /\ \E u \in Tables : tables'[u] # "none"
  <2>1. VM \in Tables /\ tables'[VM] # "none"
    BY <1>1, LifeCycleAssumption DEF TypeOK
  <2> QED BY <1>1, <1>2, <2>1
<1>11. useCount' = Cardinality(InUse') /\ valuePool' # Null
  BY <1>1, <1>3, <1>5
<1> QED BY <1>3, <1>1, <1>4, <1>6, <1>7, <1>8, <1>9, <1>10, <1>11, ServedAfter

LEMMA TableDestroyedHolders ==
    ASSUME Linked, HoldersInv, NEW t \in Tables, tables[t] # "none",
           TableDestroyed(t), UNCHANGED <<valuePool, valueHeld, hosts>>,
           status = "RUN"
    PROVE  HoldersInv'
<1>1. /\ TypeOK /\ registry \in Registries /\ EntriesLive(registry)
      /\ HoldersServed
      /\ tables' = [tables EXCEPT ![t] = "none"]
      /\ useCount' = useCount - 1
      /\ useCount = Cardinality(InUse)
      /\ orderly' \in BOOLEAN /\ status' \in {"RUN", "WILD"}
      /\ valueHeld => valuePool # Null
  BY DEF HoldersInv, TypeOK, TableDestroyed, Release, InUse
<1>2. /\ InUse' = InUse \ {t} /\ t \in InUse
      /\ Cardinality(InUse') = Cardinality(InUse) - 1
      /\ Cardinality(InUse') \in 0..Cardinality(Tables)
      /\ useCount = 1 <=> InUse' = {}
  <2>1. /\ InUse' = InUse \ {t} /\ Cardinality(InUse) \in Nat
        /\ IsFiniteSet(InUse)
        /\ Cardinality(InUse') \in 0..Cardinality(Tables)
        /\ Cardinality(InUse')
                 = Cardinality(InUse)
                   - (IF tables[t] # "none" THEN 1 ELSE 0)
                   + (IF "none" # "none" THEN 1 ELSE 0)
    BY <1>1, TablesChange
  <2>2. t \in InUse /\ InUse' \in SUBSET InUse
    BY <2>1 DEF InUse
  <2>3. IsFiniteSet(InUse')
    BY <2>1, <2>2, FS_Subset
  <2>4. Cardinality(InUse') = 0 <=> InUse' = {}
    BY <2>3, FS_EmptySet
  <2> QED BY <1>1, <2>1, <2>2, <2>4
<1>3. nodePool # Null
  BY <1>1, <1>2 DEF HoldersServed, InUse
<1>4. /\ registry' \in Registries /\ EntriesLive(registry')
      /\ Pools' = Pools
      /\ \A other \in Pools :
            /\ registry'.pools[other].lock = registry.pools[other].lock
                  - (IF useCount = 1 /\ other = nodePool THEN 1 ELSE 0)
            /\ registry'.pools[other].size = registry.pools[other].size
      /\ nodePool' = IF useCount = 1 THEN Null ELSE nodePool
  <2>1. CASE useCount = 1
    <3>1. registry' = Destroyed(registry, nodePool) /\ nodePool' = Null
      BY <2>1 DEF TableDestroyed, Release
    <3>2. nodePool \in Live(registry)
      BY <1>3, HeldAreLive
    <3> QED BY <1>1, <2>1, <3>1, <3>2, DestroyedServes DEF Pools
  <2>2. CASE useCount # 1
    <3>1. registry' = registry /\ nodePool' = nodePool
      BY <2>2 DEF TableDestroyed
    <3>2. \A other \in Pools : registry.pools[other].lock \in Nat
      BY <1>1, RegistryTypes DEF Pools
    <3> QED BY <1>1, <2>2, <3>1, <3>2 DEF Pools
  <2> QED BY <2>1, <2>2
<1>5. TypeOK'
  <2>1. hosts' \in [Hosts -> [pool : Pools' \cup {Null}, size : HostSizes \cup {0}]]
    BY <1>1, <1>4 DEF TypeOK
  <2>2. {nodePool', valuePool'} \subseteq Pools' \cup {Null}
    BY <1>1, <1>4 DEF TypeOK
  <2>3. tables' \in [Tables -> {"none", "empty", "filled"}]
    BY <1>1 DEF TypeOK
  <2> QED BY <1>1, <1>2, <1>4, <2>1, <2>2, <2>3 DEF TypeOK
<1>6. \A other \in Pools' : registry'.pools[other].lock = Holders(other)'
  <2> SUFFICES ASSUME NEW other \in Pools
               PROVE  registry'.pools[other].lock = Holders(other)'
    BY <1>4
  <2>1. registry.pools[other].lock = Holders(other)
    BY <1>1 DEF HoldersServed
  <2>2. other # Null
    BY <1>1, HoldersType
  <2>3. Users(other)' = Users(other)
    BY DEF Users
  <2>4. Cardinality(Users(other)) \in Nat
    BY <1>1, HoldersType
  <2>5. (IF nodePool' = other THEN 1 ELSE 0)
           = (IF nodePool = other THEN 1 ELSE 0)
             - (IF useCount = 1 /\ other = nodePool THEN 1 ELSE 0)
    BY <1>4, <2>2
  <2> QED BY <1>4, <2>1, <2>3, <2>4, <2>5 DEF Holders
<1>7. /\ \A k \in Hosts : hosts'[k].pool # Null
            => registry'.pools[hosts'[k].pool].size >= hosts'[k].size + Header
      /\ nodePool' # Null
            => registry'.pools[nodePool'].size >= NodeSize + Header
      /\ valueHeld'
            => registry'.pools[valuePool'].size >= ValueSize + Header
  BY <1>4, FitsKept
<1>8. /\ nodePool' # Null <=> \E u \in Tables : tables'[u] # "none"
      /\ useCount' = Cardinality(InUse')
      /\ tables'[VM] # "none" => valuePool' # Null
  <2>1. nodePool' # Null <=> InUse' # {}
    BY <1>2, <1>3, <1>4
  <2>2. InUse' # {} <=> \E u \in Tables : tables'[u] # "none"
    BY DEF InUse
  <2>3. tables'[VM] # "none" => tables[VM] # "none"
    BY <1>1, LifeCycleAssumption DEF TypeOK
  <2> QED BY <1>1, <1>2, <2>1, <2>2, <2>3 DEF HoldersInv
<1> QED BY <1>1, <1>4, <1>5, <1>6, <1>7, <1>8, ServedAfter

\* Steps that leave the registry and its users alone.
LEMMA StillHolders ==
    ASSUME HoldersInv,
           UNCHANGED <<registry, nodePool, useCount, valuePool, valueHeld, hosts>>,
           tables' \in [Tables -> {"none", "empty", "filled"}],
           \A t \in Tables : tables'[t] # "none" <=> tables[t] # "none",
           status' \in {"RUN", "CRASH", "WILD"}, orderly' \in BOOLEAN
    PROVE  HoldersInv'
<1>1. TypeOK'
  BY DEF HoldersInv, TypeOK, Pools
<1>2. HoldersServed'
  BY DEF HoldersInv, HoldersServed, Holders, Users, Fits, Pools
<1>3. InUse' = InUse /\ useCount = Cardinality(InUse)
  BY DEF InUse, HoldersInv
<1> QED BY <1>1, <1>2, <1>3, LifeCycleAssumption DEF HoldersInv, InUse

LEMMA HoldersInductive ==
    ASSUME Linked, HoldersInv, [Next]_vars
    PROVE  HoldersInv'
<1>1. TypeOK
  BY DEF HoldersInv
<1>2. ASSUME NEW h \in Hosts, NEW size \in HostSizes, HostNew(h, size)
      PROVE  HoldersInv'
  BY <1>2, HostNewHolders
<1>3. ASSUME NEW h \in Hosts, HostDestroy(h)
      PROVE  HoldersInv'
  BY <1>3, HostDestroyHolders
<1>4. CASE StaticInit
  BY <1>4, StaticInitHolders
<1>5. CASE StaticDestroy
  BY <1>5, StaticDestroyHolders
<1>6. ASSUME NEW t \in Tables, TableInitialize(t)
      PROVE  HoldersInv'
  BY <1>6, TableInitializeHolders
<1>7. ASSUME NEW t \in Tables, Fill(t)
      PROVE  HoldersInv'
  <2>1. /\ tables' \in [Tables -> {"none", "empty", "filled"}]
        /\ \A u \in Tables : tables'[u] # "none" <=> tables[u] # "none"
        /\ status' \in {"RUN", "CRASH", "WILD"} /\ orderly' \in BOOLEAN
        /\ UNCHANGED <<registry, nodePool, useCount, valuePool, valueHeld, hosts>>
    BY <1>1, <1>7 DEF Fill, TypeOK
  <2> QED BY <2>1, StillHolders
<1>8. ASSUME NEW t \in Tables, TableDestroy(t)
      PROVE  HoldersInv'
  BY <1>8, TableDestroyedHolders DEF TableDestroy
<1>9. CASE VMInitialize
  BY <1>9, VMInitializeHolders
<1>10. CASE TakeValue
  BY <1>1, <1>10, StillHolders DEF TakeValue, TypeOK
<1>11. CASE VMFree
  BY <1>11, TableDestroyedHolders, LifeCycleAssumption DEF VMFree
<1>12. CASE VMFreeEmpty
  BY <1>1, <1>12, StillHolders DEF VMFreeEmpty, TypeOK
<1>13. CASE UNCHANGED vars
  BY <1>1, <1>13, StillHolders DEF vars, TypeOK
<1> QED BY <1>2, <1>3, <1>4, <1>5, <1>6, <1>7, <1>8, <1>9, <1>10, <1>11, <1>12,
           <1>13 DEF Next

\* In the linked-list build whoever holds a pool is served, whatever the order
\* in which pools are made, shared and given back: HoldersServed, of New and
\* Destroy (memorypool.c 92-124, 238-270) and the counting of
\* hashtable.c 53-84.
THEOREM WhoHoldsIsServed ==
    ASSUME Linked
    PROVE  Spec => []HoldersServed
<1>1. HoldersInv /\ [Next]_vars => HoldersInv'
  BY HoldersInductive
<1>2. HoldersInv => HoldersServed
  BY DEF HoldersInv
<1> QED BY <1>1, <1>2, InitHoldersInv, PTL DEF Spec

\* In the bit-array build New takes off a header word it never put on
\* (memorypool.c 118): every cell is a word smaller than what was asked for,
\* and New never finds the pool it made for that size.
THEOREM BitArrayCellsTooSmall ==
    ASSUME ~Linked, NEW size \in Nat, size > Word, Word > 0
    PROVE  /\ ObjectSize(size) = Sought(size) - Word
           /\ ObjectSize(size) # Sought(size)
           /\ ObjectSize(size) < size
<1>1. /\ Word \in Nat /\ Word % 2 = 0 /\ Header = 0
      /\ Sought(size) = Even(size) /\ Even(size) \in Nat /\ Even(size) % 2 = 0
  BY Sizes, LifeCycleAssumption DEF Header, Sought
<1>3. Even(size) >= size /\ Even(size) <= size + 1 /\ Word > 1
  BY <1>1 DEF Even
<1>4. (Even(size) - Word) % 2 = 0
  BY <1>1, <1>3
<1>5. Even(Even(size) - Word) = Even(size) - Word
  <2> DEFINE n == Even(size) - Word
  <2>1. n \in Int /\ n % 2 = 0
    BY <1>1, <1>4
  <2> HIDE DEF n
  <2> QED BY <2>1 DEF Even, n
<1>6. ObjectSize(size) = Even(size) - Word
  BY <1>1, <1>5 DEF ObjectSize
<1> QED BY <1>1, <1>3, <1>6
-----------------------------------------------------------------------------
(* The registry of a program that gives pools back in the reverse order.     *)

\* Pools alive are numbered from 1.
LEMMA LiveIds ==
    ASSUME NEW r \in Registries
    PROVE  \A id \in Live(r) : /\ id \in Nat /\ id # Null
                               /\ id <= Len(r.pools)
                               /\ id \in DOMAIN r.pools
                               /\ r.pools[id].index \in Nat
                               /\ r.pools[id].lock \in Nat
                               /\ r.pools[id].size \in Nat
BY RegistryTypes DEF Live, Null

\* The entries looked at are pools alive.
LEMMA EntriesAlive ==
    ASSUME NEW r \in Registries, EntriesLive(r), Exact(r), NEW i \in 1..r.count
    PROVE  /\ i \in DOMAIN r.entries /\ r.entries[i] # Null
           /\ r.entries[i] \in Live(r)
           /\ r.pools[r.entries[i]].index = i
<1>1. /\ r.count \in Nat /\ Len(r.entries) \in Nat /\ r.count <= Len(r.entries)
      /\ DOMAIN r.entries = 1..Len(r.entries)
  BY RegistryTypes DEF EntriesLive
<1>2. i \in DOMAIN r.entries /\ ~(i > r.count)
  BY <1>1
<1>3. r.entries[i] # Null
  BY <1>2 DEF Exact
<1> QED BY <1>2, <1>3 DEF EntriesLive

LEMMA LikeExact ==
    ASSUME NEW r \in Registries, EntriesLive(r), Exact(r), InOrder(r),
           NEW s, Like(r, s)
    PROVE  Exact(s) /\ InOrder(s)
<1>1. \A i, j \in 1..s.count :
         s.pools[s.entries[i]].size = s.pools[s.entries[j]].size => i = j
  <2> SUFFICES ASSUME NEW i \in 1..r.count, NEW j \in 1..r.count,
                      s.pools[r.entries[i]].size = s.pools[r.entries[j]].size
               PROVE  i = j
    BY DEF Like
  <2>1. r.entries[i] \in Live(r) /\ r.entries[j] \in Live(r)
    BY EntriesAlive
  <2>2. r.pools[r.entries[i]].size = r.pools[r.entries[j]].size
    BY <2>1 DEF Like
  <2> QED BY <2>2 DEF Exact
<1>2. /\ \A i \in DOMAIN s.entries : s.entries[i] = Null <=> i > s.count
      /\ \A id \in Live(s) : /\ s.pools[id].index \in 1..s.count
                             /\ s.entries[s.pools[id].index] = id
  BY DEF Exact, Like
<1>3. InOrder(s)
  BY DEF InOrder, Like
<1> QED BY <1>1, <1>2, <1>3 DEF Exact

LEMMA AddsExact ==
    ASSUME Linked, NEW r \in Registries, EntriesLive(r), Exact(r), InOrder(r),
           NEW size \in Nat, size > Word, Matches(r, size) = {},
           NEW s, Adds(r, size, s)
    PROVE  Exact(s) /\ InOrder(s)
<1> DEFINE n  == r.count + 1
           id == Len(r.pools) + 1
<1>1. /\ r.count \in Nat /\ n \in Nat /\ id \in Nat /\ id # Null
      /\ Len(r.pools) \in Nat
      /\ s.count = n
      /\ DOMAIN s.entries = 1..n /\ s.entries[n] = id
      /\ \A i \in 1..n : i # n => s.entries[i] = r.entries[i]
      /\ Live(s) = Live(r) \cup {id}
      /\ s.pools[id].size = Sought(size) /\ s.pools[id].index = n
      /\ \A other \in Live(r) : s.pools[other] = r.pools[other]
  BY RegistryTypes, Sizes DEF Adds, Null
<1>2. \A other \in Live(r) : /\ other \in Nat /\ other < id
                             /\ r.pools[other].index \in 1..r.count
                             /\ r.entries[r.pools[other].index] = other
  BY <1>1, LiveIds DEF Exact
<1>3. \A i \in 1..r.count : /\ r.entries[i] # Null
                            /\ r.entries[i] \in Live(r)
                            /\ s.entries[i] = r.entries[i]
                            /\ r.pools[r.entries[i]].size # Sought(size)
  <2> SUFFICES ASSUME NEW i \in 1..r.count
               PROVE  /\ r.entries[i] # Null /\ r.entries[i] \in Live(r)
                      /\ s.entries[i] = r.entries[i]
                      /\ r.pools[r.entries[i]].size # Sought(size)
    OBVIOUS
  <2>1. r.entries[i] # Null /\ r.entries[i] \in Live(r)
    BY EntriesAlive
  <2>2. r.pools[r.entries[i]].size # Sought(size)
    BY <2>1 DEF Matches
  <2>3. i \in 1..n /\ i # n
    BY <1>1
  <2> QED BY <1>1, <2>1, <2>2, <2>3
<1> HIDE DEF n, id
<1>4. n = r.count + 1
  BY DEF n
<1>5. ASSUME NEW i \in DOMAIN s.entries
      PROVE  s.entries[i] = Null <=> i > s.count
  <2>1. i = n \/ i \in 1..r.count
    BY <1>1, <1>4
  <2> QED BY <1>1, <1>3, <1>4, <2>1
<1>6. ASSUME NEW other \in Live(s)
      PROVE  /\ s.pools[other].index \in 1..s.count
             /\ s.entries[s.pools[other].index] = other
  <2>1. CASE other = id
    BY <1>1, <1>4, <2>1
  <2>2. CASE other \in Live(r)
    <3> DEFINE k == r.pools[other].index
    <3>1. s.pools[other].index = k /\ k \in 1..r.count /\ r.entries[k] = other
      BY <1>1, <1>2, <2>2
    <3> HIDE DEF k
    <3> QED BY <1>1, <1>3, <1>4, <3>1
  <2> QED BY <1>1, <2>1, <2>2
<1>7. ASSUME NEW i \in 1..s.count, NEW j \in 1..s.count,
             s.pools[s.entries[i]].size = s.pools[s.entries[j]].size
      PROVE  i = j
  <2>1. (i = n \/ i \in 1..r.count) /\ (j = n \/ j \in 1..r.count)
    BY <1>1, <1>4
  <2>2. ASSUME NEW k \in 1..r.count
        PROVE  s.pools[s.entries[k]].size = r.pools[r.entries[k]].size
    BY <1>1, <1>3
  <2>3. s.pools[s.entries[n]].size = Sought(size)
    BY <1>1
  <2>4. CASE i \in 1..r.count /\ j \in 1..r.count
    BY <1>7, <2>2, <2>4 DEF Exact
  <2>5. CASE i = n /\ j \in 1..r.count
    BY <1>3, <1>7, <2>2, <2>3, <2>5
  <2>6. CASE i \in 1..r.count /\ j = n
    BY <1>3, <1>7, <2>2, <2>3, <2>6
  <2> QED BY <2>1, <2>4, <2>5, <2>6
<1>8. ASSUME NEW a \in Live(s), NEW b \in Live(s), a < b
      PROVE  s.pools[a].index < s.pools[b].index
  <2>1. CASE a \in Live(r) /\ b \in Live(r)
    BY <1>1, <1>8, <2>1 DEF InOrder
  <2>2. CASE a \in Live(r) /\ b = id
    <3>1. s.pools[a].index = r.pools[a].index /\ s.pools[b].index = n
      BY <1>1, <2>2
    <3>2. r.pools[a].index \in 1..r.count
      BY <1>2, <2>2
    <3> QED BY <1>1, <1>4, <3>1, <3>2
  <2>3. CASE a = id
    <3>1. b = id \/ (b \in Nat /\ b < id)
      BY <1>1, <1>2
    <3>2. id \in Nat
      BY <1>1
    <3> QED BY <1>8, <2>3, <3>1, <3>2
  <2> QED BY <1>1, <2>1, <2>2, <2>3
<1> QED BY <1>5, <1>6, <1>7, <1>8 DEF Exact, InOrder

LEMMA NewExact ==
    ASSUME Linked, NEW r \in Registries, EntriesLive(r), Exact(r), InOrder(r),
           NEW size \in Nat, size > Word
    PROVE  Exact(New(r, size).registry) /\ InOrder(New(r, size).registry)
BY NewServes, LikeExact, AddsExact

\* The youngest pool alive is the last entry, and giving it up writes there.
LEMMA DestroyedExact ==
    ASSUME NEW r \in Registries, EntriesLive(r), Exact(r), InOrder(r),
           NEW id \in Live(r), Youngest(r, id), NEW s, s = Destroyed(r, id)
    PROVE  Exact(s) /\ InOrder(s) /\ ~Outside(r, id)
<1>1. /\ DOMAIN s.pools = DOMAIN r.pools
      /\ \A other \in DOMAIN r.pools :
            /\ s.pools[other].size = r.pools[other].size
            /\ s.pools[other].index = r.pools[other].index
      /\ Live(s) = IF r.pools[id].lock = 1 THEN Live(r) \ {id} ELSE Live(r)
  BY DestroyedServes
<1>2. /\ r.count \in Nat /\ Len(r.entries) \in Nat /\ r.count <= Len(r.entries)
      /\ DOMAIN r.entries = 1..Len(r.entries)
      /\ r.pools[id].index \in 1..r.count
      /\ r.entries[r.pools[id].index] = id
      /\ r.pools[id].lock \in Nat /\ r.pools[id].lock > 0
  BY RegistryTypes, LiveIds DEF EntriesLive, Exact, Live
<1>3. \A i \in 1..r.count : /\ i \in DOMAIN r.entries /\ r.entries[i] # Null
                            /\ r.entries[i] \in Live(r)
                            /\ r.entries[i] \in DOMAIN r.pools
                            /\ r.pools[r.entries[i]].index = i
  BY EntriesAlive, LiveIds
<1>4. CASE r.pools[id].lock # 1
  <2>1. s.entries = r.entries /\ s.count = r.count
    BY <1>4 DEF Destroyed
  <2>2. Like(r, s)
    BY <1>1, <1>4, <2>1, LiveIds DEF Like
  <2> QED BY <1>4, <2>2, LikeExact DEF Outside
<1>5. CASE r.pools[id].lock = 1
  <2>1. \A other \in Live(r) : other <= id
    BY <1>5 DEF Youngest
  <2>2. r.pools[id].index = r.count
    <3> DEFINE e == r.entries[r.count]
    <3>1. r.count \in 1..r.count
      BY <1>2
    <3>2. e \in Live(r) /\ r.pools[e].index = r.count
      BY <1>3, <3>1
    <3> HIDE DEF e
    <3>3. e \in Nat /\ id \in Nat /\ e <= id
      BY <2>1, <3>2, LiveIds
    <3>4. e < id => r.count < r.pools[id].index
      BY <3>2 DEF InOrder
    <3>5. e = id
      BY <1>2, <3>3, <3>4
    <3> QED BY <3>2, <3>5
  <2>3. ~Outside(r, id)
    BY <1>2, <2>2 DEF Outside
  <2>4. /\ s.count = r.count - 1
        /\ Live(s) = Live(r) \ {id}
        /\ s.entries = IF s.count = 0 THEN << >>
                       ELSE [i \in DOMAIN r.entries |->
                                IF i = r.count THEN Null ELSE r.entries[i]]
    BY <1>1, <1>5, <2>2 DEF Destroyed
  <2>5. s.count \in Nat /\ r.count = s.count + 1
    BY <1>2, <2>4
  <2>6. \A i \in 1..s.count : /\ i \in 1..r.count /\ i # r.count
                              /\ i \in DOMAIN s.entries
                              /\ s.entries[i] = r.entries[i]
    <3> SUFFICES ASSUME NEW i \in 1..s.count
                 PROVE  /\ i \in 1..r.count /\ i # r.count
                        /\ i \in DOMAIN s.entries
                        /\ s.entries[i] = r.entries[i]
      OBVIOUS
    <3>1. i \in 1..r.count /\ i # r.count /\ s.count # 0
      BY <2>5
    <3>2. s.entries = [k \in DOMAIN r.entries |->
                          IF k = r.count THEN Null ELSE r.entries[k]]
      BY <2>4, <3>1
    <3> QED BY <1>3, <3>1, <3>2
  <2>7. ASSUME NEW i \in DOMAIN s.entries
        PROVE  s.entries[i] = Null <=> i > s.count
    <3>1. s.count # 0
      BY <2>4
    <3>2. /\ i \in DOMAIN r.entries /\ i \in Nat
          /\ s.entries[i] = IF i = r.count THEN Null ELSE r.entries[i]
      BY <1>2, <2>4, <3>1
    <3>3. r.entries[i] = Null <=> i > r.count
      BY <3>2 DEF Exact
    <3> QED BY <1>2, <2>5, <3>2, <3>3
  <2>8. ASSUME NEW other \in Live(s)
        PROVE  /\ s.pools[other].index \in 1..s.count
               /\ s.entries[s.pools[other].index] = other
    <3> DEFINE k == r.pools[other].index
    <3>1. other \in Live(r) /\ other # id /\ s.pools[other].index = k
      BY <1>1, <2>4, <2>8, LiveIds
    <3>2. k \in 1..r.count /\ r.entries[k] = other
      BY <3>1 DEF Exact
    <3>3. k # r.count
      BY <1>2, <2>2, <3>1, <3>2
    <3> HIDE DEF k
    <3>4. k \in 1..s.count
      BY <2>5, <3>2, <3>3
    <3> QED BY <2>6, <3>1, <3>2, <3>4
  <2>9. ASSUME NEW i \in 1..s.count, NEW j \in 1..s.count,
               s.pools[s.entries[i]].size = s.pools[s.entries[j]].size
        PROVE  i = j
    <3>1. /\ s.pools[s.entries[i]].size = r.pools[r.entries[i]].size
          /\ s.pools[s.entries[j]].size = r.pools[r.entries[j]].size
          /\ i \in 1..r.count /\ j \in 1..r.count
      BY <1>1, <1>3, <2>6
    <3> QED BY <2>9, <3>1 DEF Exact
  <2>10. InOrder(s)
    BY <1>1, <2>4, LiveIds DEF InOrder
  <2> QED BY <2>3, <2>7, <2>8, <2>9, <2>10 DEF Exact
<1> QED BY <1>4, <1>5

LEMMA InitOrderInv == Init => OrderInv
<1> SUFFICES ASSUME Init PROVE OrderInv
  OBVIOUS
<1>1. /\ registry.pools = << >> /\ registry.entries = << >>
      /\ registry.count = 0 /\ Live(registry) = {}
      /\ status # "WILD" /\ tables[VM] = "none"
  BY LifeCycleAssumption DEF Init, Live
<1>2. Exact(registry) /\ InOrder(registry)
  BY <1>1 DEF Exact, InOrder
<1> QED BY <1>1, <1>2, InitHoldersInv DEF OrderInv, OrderlyProgramsShare

\* What OrderInv says beyond HoldersInv.
Ordered ==
    orderly => /\ status # "WILD"
               /\ Exact(registry) /\ InOrder(registry)
               /\ tables[VM] # "none" => valueHeld

\* A pool is given back.
LEMMA ReleaseOrdered ==
    ASSUME HoldersInv, Ordered, NEW id \in Live(registry), Release(id),
           orderly' => orderly /\ Youngest(registry, id),
           orderly' /\ tables'[VM] # "none" =>
               tables[VM] # "none" /\ (valueHeld => valueHeld')
    PROVE  Ordered'
<1> SUFFICES ASSUME orderly' PROVE Ordered'
  BY DEF Ordered
<1>1. /\ registry \in Registries /\ EntriesLive(registry)
      /\ Exact(registry) /\ InOrder(registry)
      /\ Youngest(registry, id) /\ registry' = Destroyed(registry, id)
  BY DEF HoldersInv, TypeOK, Ordered, Release
<1>2. Exact(registry') /\ InOrder(registry') /\ ~Outside(registry, id)
  BY <1>1, DestroyedExact
<1> QED BY <1>2 DEF Ordered, Release

LEMMA OrderedInductive ==
    ASSUME Linked, HoldersInv, Ordered, [Next]_vars
    PROVE  Ordered'
<1>1. /\ TypeOK /\ registry \in Registries /\ EntriesLive(registry)
      /\ \A size \in HostSizes \cup {ValueSize, NodeSize} :
            size \in Nat /\ size > Word
  BY LifeCycleAssumption DEF HoldersInv, TypeOK
<1>2. ASSUME orderly, NEW size \in HostSizes \cup {ValueSize, NodeSize}
      PROVE  /\ Exact(New(registry, size).registry)
             /\ InOrder(New(registry, size).registry)
  BY <1>1, <1>2, NewExact DEF Ordered
<1>3. ASSUME orderly
      PROVE  /\ Exact(NodePoolFor(registry).registry)
             /\ InOrder(NodePoolFor(registry).registry)
  BY <1>2, <1>3 DEF NodePoolFor, Ordered
<1>4. ASSUME NEW h \in Hosts, NEW size \in HostSizes, HostNew(h, size)
      PROVE  Ordered'
  <2>1. UNCHANGED <<valueHeld, tables, status, orderly>>
        /\ registry' = New(registry, size).registry
    BY <1>4 DEF HostNew
  <2> QED BY <1>2, <2>1 DEF Ordered
<1>5. ASSUME NEW h \in Hosts, HostDestroy(h)
      PROVE  Ordered'
  <2>1. hosts[h].pool \in Live(registry) /\ Release(hosts[h].pool)
        /\ UNCHANGED <<tables, valueHeld>>
        /\ (orderly' => orderly /\ Youngest(registry, hosts[h].pool))
    BY <1>5, HeldAreLive DEF HostDestroy
  <2> QED BY <2>1, ReleaseOrdered
<1>6. CASE StaticInit
  <2>1. UNCHANGED <<tables, status, orderly>> /\ valueHeld'
        /\ registry' = New(registry, ValueSize).registry
    BY <1>6 DEF StaticInit
  <2> QED BY <1>2, <2>1 DEF Ordered
<1>7. CASE StaticDestroy
  <2>1. valuePool \in Live(registry) /\ Release(valuePool)
        /\ UNCHANGED tables
        /\ (orderly' => /\ orderly /\ tables[VM] = "none"
                        /\ Youngest(registry, valuePool))
    BY <1>7, HeldAreLive DEF StaticDestroy
  <2> QED BY <2>1, ReleaseOrdered
<1>8. ASSUME NEW t \in Tables, TableInitialize(t)
      PROVE  Ordered'
  <2>1. /\ UNCHANGED <<valueHeld, status, orderly>>
        /\ registry' = NodePoolFor(registry).registry
        /\ tables'[VM] = tables[VM]
    BY <1>1, <1>8, LifeCycleAssumption DEF TableInitialize, TypeOK
  <2> QED BY <1>3, <2>1 DEF Ordered
<1>9. ASSUME NEW t \in Tables, Fill(t)
      PROVE  Ordered'
  <2>1. nodePool # Null
    BY <1>9 DEF Fill, HoldersInv, HoldersServed
  <2>2. nodePool \in Live(registry)
    BY <2>1, HeldAreLive
  <2>3. status' = "RUN" /\ UNCHANGED <<registry, valueHeld, orderly>>
    BY <1>9, <2>2 DEF Fill, Live
  <2>4. tables'[VM] # "none" <=> tables[VM] # "none"
    BY <1>1, <1>9, LifeCycleAssumption DEF Fill, TypeOK
  <2> QED BY <2>3, <2>4 DEF Ordered
<1>10. ASSUME NEW t \in Tables, tables[t] # "none", TableDestroyed(t),
              UNCHANGED valueHeld, status = "RUN"
       PROVE  Ordered'
  <2>1. tables'[VM] # "none" => tables[VM] # "none"
    BY <1>1, <1>10, LifeCycleAssumption DEF TableDestroyed, TypeOK
  <2>2. CASE useCount = 1
    <3>1. nodePool # Null
      BY <1>10 DEF HoldersInv, HoldersServed
    <3>2. nodePool \in Live(registry)
      BY <3>1, HeldAreLive
    <3>3. Release(nodePool)
          /\ (orderly' => orderly /\ Youngest(registry, nodePool))
      BY <2>2, <1>10 DEF TableDestroyed
    <3> QED BY <1>10, <2>1, <3>2, <3>3, ReleaseOrdered
  <2>3. CASE useCount # 1
    BY <1>10, <2>1, <2>3 DEF TableDestroyed, Ordered
  <2> QED BY <2>2, <2>3
<1>11. ASSUME NEW t \in Tables, TableDestroy(t)
       PROVE  Ordered'
  BY <1>10, <1>11 DEF TableDestroy
<1>12. CASE VMInitialize
  <2> DEFINE s == NodePoolFor(registry).registry
  <2>1. /\ UNCHANGED status
        /\ orderly' => orderly /\ (valuePool = Null \/ valueHeld)
        /\ IF valuePool = Null
           THEN registry' = New(s, ValueSize).registry /\ valueHeld'
           ELSE registry' = s /\ UNCHANGED valueHeld
    BY <1>12 DEF VMInitialize
  <2>2. s \in Registries /\ EntriesLive(s)
    BY NodePoolServes
  <2>3. orderly => Exact(s) /\ InOrder(s)
    BY <1>3
  <2> HIDE DEF s
  <2>4. ValueSize \in Nat /\ ValueSize > Word
    BY <1>1
  <2>5. orderly => /\ Exact(New(s, ValueSize).registry)
                   /\ InOrder(New(s, ValueSize).registry)
    BY <2>2, <2>3, <2>4, NewExact
  <2>6. orderly' => Exact(registry') /\ InOrder(registry') /\ valueHeld'
    BY <2>1, <2>3, <2>5
  <2> QED BY <2>1, <2>6 DEF Ordered
<1>13. CASE TakeValue
  <2>1. orderly => FALSE
    <3> SUFFICES ASSUME orderly PROVE FALSE
      OBVIOUS
    <3>1. valueHeld
      BY <1>13 DEF TakeValue, Ordered
    <3>2. valuePool \in Live(registry)
      BY <3>1, HeldAreLive
    <3> QED BY <1>13, <3>2 DEF TakeValue, Live
  <2> QED BY <1>13, <2>1 DEF TakeValue, Ordered
<1>14. CASE VMFree
  BY <1>10, <1>14, LifeCycleAssumption DEF VMFree
<1>15. CASE VMFreeEmpty
  BY <1>15 DEF VMFreeEmpty, Ordered
<1>16. CASE UNCHANGED vars
  BY <1>16 DEF vars, Ordered
<1> QED BY <1>4, <1>5, <1>6, <1>7, <1>8, <1>9, <1>11, <1>12, <1>13, <1>14, <1>15,
           <1>16 DEF Next

\* A program that gives pools back in the reverse order of making them, and
\* calls StaticDestroy and StaticInit in their places, has an exact registry
\* and never uses or writes what is gone (OrderlyProgramsShare;
\* memorypool.c 238-270, vm.c 21-42).
THEOREM OrderKeepsRegistry ==
    ASSUME Linked
    PROVE  Spec => []OrderlyProgramsShare
<1>1. OrderInv <=> HoldersInv /\ Ordered
  BY DEF OrderInv, Ordered, OrderlyProgramsShare
<1>2. OrderInv /\ [Next]_vars => OrderInv'
  <2> SUFFICES ASSUME HoldersInv, Ordered, [Next]_vars
               PROVE  OrderInv'
    BY <1>1
  <2>1. HoldersInv' /\ Ordered'
    BY HoldersInductive, OrderedInductive
  <2> QED BY <2>1 DEF OrderInv, Ordered, OrderlyProgramsShare
<1>3. OrderInv => OrderlyProgramsShare
  BY DEF OrderInv
<1> QED BY <1>2, <1>3, InitOrderInv, PTL DEF Spec
=============================================================================
