--------------------------- MODULE BitProofs ---------------------------
(* For every word and page size: the invariant of BitPool is inductive, and  *)
(* the pool implements Heap.  Then, for any round function and key: Blowfish *)
(* decrypts what it encrypts.  Both are about the words of bits of BitArray  *)
(* and Blowfish, and neither uses the other.                                 *)
EXTENDS BitPool, Blowfish, FiniteSetTheorems, FunctionTheorems, TLAPS

ArrayType == [words : Nat, ones : SUBSET Nat, index : Nat, offset : Nat]

\* The invariant without the cells: what the array promises the pool.
GoodArray(ba) ==
    /\ ba \in ArrayType
    /\ ba.ones \subseteq Positions(ba.words)
    /\ AnchorIsFirst(ba)
    /\ ba.index <= ba.words
    /\ ba.offset < W
    /\ ~UseOffset => ba.offset = 0

-----------------------------------------------------------------------------
(* Arithmetic of positions.                                                  *)

\* A position is its word's first one and its offset in the word.
LEMMA DivMod ==
    ASSUME NEW i \in Nat, NEW n \in Nat \ {0}
    PROVE  /\ i \div n \in Nat
           /\ i % n \in 0..(n - 1)
           /\ i = n * (i \div n) + (i % n)
  OBVIOUS

\* The word of a position is the only one it can lie in.
LEMMA DivUnique ==
    ASSUME NEW q \in Nat, NEW n \in Nat \ {0}, NEW r \in 0..(n - 1)
    PROVE  (n * q + r) \div n = q /\ (n * q + r) % n = r
  OBVIOUS

\* Products keep the order.
LEMMA TimesMonotone ==
    ASSUME NEW n \in Nat, NEW a \in Nat, NEW b \in Nat, a <= b
    PROVE  n * a <= n * b
  OBVIOUS

\* What Resize reserves is enough for any size of a word at least.
LEMMA WordsForEnough ==
    ASSUME NEW size \in Nat, size >= W
    PROVE  WordsFor(size) \in Nat /\ size <= WordsFor(size) * W
  <1> DEFINE q == size \div W  r == size % W
  <1>1. W \in Nat \ {0}
    BY BitArrayAssumption
  <1>2. q \in Nat /\ r \in 0..(W - 1) /\ size = W * q + r
    BY <1>1, DivMod
  <1> HIDE DEF q, r
  <1>3. CASE r = 0
    <2>1. WordsFor(size) = q
      BY <1>3, <1>2 DEF WordsFor, q, r
    <2>2. QED
      BY <2>1, <1>1, <1>2, <1>3
  <1>4. CASE r > 0
    <2>1. size + (size - r) = W * (2 * q) + r
      BY <1>1, <1>2
    <2>2. WordsFor(size) = (size + (size - r)) \div W
      BY <1>4 DEF WordsFor, r
    <2>3. WordsFor(size) = 2 * q
      BY <2>1, <2>2, <1>1, <1>2, DivUnique
    <2>4. q >= 1
      <3>1. CASE q = 0
        BY <3>1, <1>1, <1>2
      <3>2. QED
        BY <3>1, <1>2
    <2>5. (2 * q) * W = W * q + W * q
      BY <1>1, <1>2
    <2>6. W * 1 <= W * q
      BY <2>4, <1>1, <1>2, TimesMonotone
    <2>7. QED
      BY <2>3, <2>5, <2>6, <1>1, <1>2
  <1>5. QED
    BY <1>2, <1>3, <1>4

\* A position below another lies in no later word.
LEMMA StartBelow ==
    ASSUME NEW a \in Nat, NEW b \in Nat, a < b, NEW o \in 0..(W - 1)
    PROVE  W * a + o < W * b
  <1>1. W \in Nat \ {0}
    BY BitArrayAssumption
  <1>2. W * (a + 1) <= W * b
    BY <1>1, TimesMonotone
  <1>3. W * (a + 1) = W * a + W
    BY <1>1
  <1>4. W * a \in Nat /\ W * b \in Nat
    BY <1>1
  <1>5. QED
    BY <1>1, <1>2, <1>3, <1>4

\* A position within the words has its word among them.
LEMMA WordInWords ==
    ASSUME NEW words \in Nat, NEW i \in Positions(words)
    PROVE  i \in Nat /\ i \div W \in 0..(words - 1) /\ i % W \in 0..(W - 1)
           /\ i = W * (i \div W) + (i % W)
  <1>1. W \in Nat \ {0}
    BY BitArrayAssumption
  <1>2. i \in Nat /\ i < words * W
    BY <1>1 DEF Positions
  <1> DEFINE q == i \div W  r == i % W
  <1>3. q \in Nat /\ r \in 0..(W - 1) /\ i = W * q + r
    BY <1>1, <1>2, DivMod
  <1> HIDE DEF q, r
  <1>4. q < words
    <2>1. SUFFICES ASSUME words <= q
                   PROVE  FALSE
      BY <1>3
    <2>2. W * words <= W * q
      BY <2>1, <1>1, <1>3, TimesMonotone
    <2>3. words * W = W * words /\ W * words \in Nat /\ W * q \in Nat
      BY <1>1, <1>3
    <2>4. QED
      BY <2>2, <2>3, <1>2, <1>3
  <1>5. QED
    BY <1>2, <1>3, <1>4 DEF q, r
-----------------------------------------------------------------------------
(* The operations of the bit array keep it good.                             *)

LEMMA SetGood ==
    ASSUME NEW ba, GoodArray(ba), NEW i \in Positions(ba.words)
    PROVE  /\ GoodArray(Set(ba, i))
           /\ Set(ba, i).ones = ba.ones \cup {i}
           /\ Set(ba, i).words = ba.words
  <1> DEFINE filled == i \div W = ba.index /\ Word(ba.index) \subseteq ba.ones \cup {i}
  <1>1. W \in Nat \ {0}
    BY BitArrayAssumption
  <1>2. ba.words \in Nat /\ ba.index \in Nat /\ ba.offset \in Nat /\ ba.ones \subseteq Nat
    BY DEF GoodArray, ArrayType
  <1>3. i \in Nat /\ i \div W \in 0..(ba.words - 1)
    BY <1>2, WordInWords
  <1>4. Set(ba, i) = [words |-> ba.words, ones |-> ba.ones \cup {i},
                      index |-> IF filled THEN ba.index + 1 ELSE ba.index,
                      offset |-> IF filled THEN 0 ELSE ba.offset]
    BY DEF Set, GoodArray, ArrayType
  <1> DEFINE nb == Set(ba, i)
  <1>5. nb.words = ba.words /\ nb.ones = ba.ones \cup {i}
    BY <1>4
  <1>6. nb \in ArrayType
    BY <1>2, <1>3, <1>4 DEF ArrayType
  <1>7. nb.ones \subseteq Positions(nb.words)
    BY <1>5 DEF GoodArray
  <1>8. AnchorIsFirst(nb) /\ nb.index <= nb.words /\ nb.offset < W
        /\ (~UseOffset => nb.offset = 0)
    <2>1. CASE filled
      <3>1. nb.index = ba.index + 1 /\ nb.offset = 0
        BY <2>1, <1>4
      <3>2. ASSUME NEW k \in 0..(Start(nb) - 1)
            PROVE  k \in nb.ones
        <4>1. Start(nb) = W * ba.index + W
          BY <3>1, <1>1, <1>2 DEF Start
        <4>2. W * ba.index \in Nat
          BY <1>1, <1>2
        <4>3. CASE k < W * ba.index
          <5>1. k \in 0..(Start(ba) - 1)
            BY <4>2, <4>3, <3>2, <1>2 DEF Start
          <5>2. QED
            BY <5>1, <1>5 DEF GoodArray, AnchorIsFirst
        <4>4. CASE k >= W * ba.index
          <5>1. k \in Word(ba.index)
            BY <4>1, <4>2, <4>4, <3>2, <1>1 DEF Word
          <5>2. QED
            BY <5>1, <2>1, <1>5
        <4>5. QED
          BY <4>2, <4>3, <4>4, <3>2, <1>1, <4>1
      <3>3. nb.index <= nb.words
        BY <3>1, <2>1, <1>3, <1>2, <1>5
      <3>4. QED
        BY <3>1, <3>2, <3>3, <1>1 DEF AnchorIsFirst
    <2>2. CASE ~filled
      <3>1. nb.index = ba.index /\ nb.offset = ba.offset
        BY <2>2, <1>4
      <3>2. QED
        BY <3>1, <1>5 DEF GoodArray, AnchorIsFirst, Start
    <2>3. QED
      BY <2>1, <2>2
  <1>9. QED
    BY <1>5, <1>6, <1>7, <1>8 DEF GoodArray

LEMMA SearchedGood ==
    ASSUME NEW ba, GoodArray(ba), NEW i \in Positions(ba.words), Finds(ba, i)
    PROVE  /\ GoodArray(Searched(ba, i))
           /\ Searched(ba, i).ones = ba.ones
           /\ Searched(ba, i).words = ba.words
           /\ i \notin ba.ones
           /\ \A j \in 0..(i - 1) : j \in ba.ones
  <1>1. W \in Nat \ {0}
    BY BitArrayAssumption
  <1>2. ba.words \in Nat /\ ba.index \in Nat /\ ba.offset \in Nat /\ ba.ones \subseteq Nat
    BY DEF GoodArray, ArrayType
  <1>3. i \in Nat /\ i \div W \in 0..(ba.words - 1) /\ i % W \in 0..(W - 1)
        /\ i = W * (i \div W) + (i % W)
    BY <1>2, WordInWords
  <1>4. i # -1
    BY <1>3
  <1>5. i \notin ba.ones /\ i >= Start(ba) /\ \A j \in Start(ba)..(i - 1) : j \in ba.ones
    BY <1>4 DEF Finds
  <1>6. Start(ba) \in Nat
    BY <1>1, <1>2 DEF Start
  <1>7. ASSUME NEW j \in 0..(i - 1)
        PROVE  j \in ba.ones
    <2>1. CASE j < Start(ba)
      BY <2>1, <1>6, <1>7 DEF GoodArray, AnchorIsFirst
    <2>2. CASE j >= Start(ba)
      BY <2>2, <1>5, <1>6, <1>7, <1>3
    <2>3. QED
      BY <2>1, <2>2, <1>6
  <1> DEFINE nb == Searched(ba, i)
  <1>8. nb = [words |-> ba.words, ones |-> ba.ones, index |-> i \div W,
              offset |-> IF UseOffset THEN i % W ELSE ba.offset]
    BY <1>4 DEF Searched, GoodArray, ArrayType
  <1>9. nb.index = i \div W /\ nb.ones = ba.ones /\ nb.words = ba.words
        /\ nb.offset \in 0..(i % W) /\ (~UseOffset => nb.offset = 0)
    BY <1>3, <1>8 DEF GoodArray
  <1>10. Start(nb) <= i /\ Start(nb) \in Nat
    <2>1. W * nb.index = W * (i \div W) /\ W * nb.index \in Nat
      BY <1>1, <1>3, <1>9
    <2>2. QED
      BY <2>1, <1>3, <1>9 DEF Start
  <1>11. AnchorIsFirst(nb)
    BY <1>7, <1>9, <1>10, <1>3 DEF AnchorIsFirst
  <1>12. nb \in ArrayType /\ nb.index <= nb.words /\ nb.offset < W
    BY <1>1, <1>2, <1>3, <1>8, <1>9 DEF ArrayType
  <1>13. QED
    BY <1>5, <1>7, <1>9, <1>11, <1>12 DEF GoodArray

LEMMA UnsetGood ==
    ASSUME NEW ba, GoodArray(ba), NEW i \in Positions(ba.words)
    PROVE  /\ GoodArray(Unset(ba, i))
           /\ Unset(ba, i).ones = ba.ones \ {i}
           /\ Unset(ba, i).words = ba.words
  <1>1. W \in Nat \ {0}
    BY BitArrayAssumption
  <1>2. ba.words \in Nat /\ ba.index \in Nat /\ ba.offset \in Nat /\ ba.ones \subseteq Nat
        /\ ba.offset < W /\ ba.index <= ba.words /\ (~UseOffset => ba.offset = 0)
    BY DEF GoodArray, ArrayType
  <1>3. i \in Nat /\ i \div W \in 0..(ba.words - 1) /\ i % W \in 0..(W - 1)
        /\ i = W * (i \div W) + (i % W)
    BY <1>2, WordInWords
  <1> DEFINE back == i \div W <= ba.index
  <1> DEFINE nb == Unset(ba, i)
  <1>4. nb = [words |-> ba.words, ones |-> ba.ones \ {i},
              index |-> IF back THEN i \div W ELSE ba.index,
              offset |-> IF UseOffset /\ back /\ i % W < ba.offset
                         THEN i % W ELSE ba.offset]
    BY DEF Unset, GoodArray, ArrayType
  <1>5. nb \in ArrayType /\ nb.words = ba.words /\ nb.ones = ba.ones \ {i}
        /\ nb.ones \subseteq Positions(nb.words)
    BY <1>2, <1>3, <1>4 DEF ArrayType, GoodArray
  <1>6. nb.offset \in 0..ba.offset /\ (~UseOffset => nb.offset = 0) /\ nb.offset < W
    <2>1. CASE UseOffset /\ back /\ i % W < ba.offset
      BY <2>1, <1>1, <1>2, <1>3, <1>4
    <2>2. CASE ~(UseOffset /\ back /\ i % W < ba.offset)
      BY <2>2, <1>1, <1>2, <1>3, <1>4
    <2>3. QED
      BY <2>1, <2>2
  <1>7. nb.index \in 0..ba.index /\ nb.index <= nb.words
    BY <1>2, <1>3, <1>4 DEF GoodArray
  <1>8. Start(nb) <= Start(ba) /\ Start(nb) \in Nat /\ Start(ba) \in Nat
    <2>1. W * nb.index <= W * ba.index
      BY <1>1, <1>2, <1>7, TimesMonotone
    <2>2. W * nb.index \in Nat /\ W * ba.index \in Nat
      BY <1>1, <1>2, <1>7
    <2>3. QED
      BY <2>1, <2>2, <1>2, <1>6 DEF Start
  <1>9. Start(nb) <= i
    <2>1. CASE back
      <3>1. nb.index = i \div W
        BY <2>1, <1>4
      <3>2. nb.offset <= i % W
        BY <2>1, <1>2, <1>3, <1>4
      <3>3. W * nb.index \in Nat
        BY <1>1, <1>7
      <3>4. QED
        BY <3>1, <3>2, <3>3, <1>3, <1>6 DEF Start
    <2>2. CASE ~back
      <3>1. Start(ba) < W * (i \div W)
        <4>1. ba.offset \in 0..(W - 1) /\ i \div W \in Nat /\ ba.index < i \div W
          BY <2>2, <1>1, <1>2, <1>3
        <4>2. QED
          BY <4>1, <1>2, StartBelow DEF Start
      <3>2. W * (i \div W) \in Nat
        BY <1>1, <1>3
      <3>3. QED
        BY <3>1, <3>2, <1>3, <1>8
    <2>3. QED
      BY <2>1, <2>2
  <1>10. AnchorIsFirst(nb)
    BY <1>3, <1>5, <1>8, <1>9 DEF AnchorIsFirst, GoodArray
  <1>11. QED
    BY <1>5, <1>6, <1>7, <1>10 DEF GoodArray

LEMMA ResizeGood ==
    ASSUME NEW ba, GoodArray(ba), NEW size \in Nat, size >= W,
           ba.ones \subseteq 0..(size - 1), ba.index * W <= size
    PROVE  /\ GoodArray(Resize(ba, size))
           /\ Resize(ba, size).ones = ba.ones
           /\ size <= Resize(ba, size).words * W
  <1>1. W \in Nat \ {0}
    BY BitArrayAssumption
  <1>2. ba.words \in Nat /\ ba.index \in Nat /\ ba.offset \in Nat /\ ba.ones \subseteq Nat
    BY DEF GoodArray, ArrayType
  <1> DEFINE n == WordsFor(size)
  <1>3. n \in Nat /\ size <= n * W
    BY WordsForEnough
  <1>4. Resize(ba, size) = [words |-> n, ones |-> ba.ones \cap Positions(n),
                            index |-> ba.index, offset |-> ba.offset]
    <2>1. Resize(ba, size) = [ba EXCEPT !.words = n, !.ones = ba.ones \cap Positions(n)]
      BY DEF Resize
    <2> HIDE DEF n
    <2>2. QED
      BY <2>1 DEF GoodArray, ArrayType
  <1> HIDE DEF n
  <1>5. ba.ones \subseteq Positions(n)
    BY <1>1, <1>3 DEF Positions
  <1>6. ba.index <= n
    <2>1. SUFFICES ASSUME n < ba.index
                   PROVE  FALSE
      BY <1>2, <1>3
    <2>2. W * (n + 1) <= W * ba.index
      BY <2>1, <1>1, <1>2, <1>3, TimesMonotone
    <2>3. W * (n + 1) = n * W + W /\ W * ba.index = ba.index * W
          /\ n * W \in Nat /\ ba.index * W \in Nat
      BY <1>1, <1>2, <1>3
    <2>4. QED
      BY <2>2, <2>3, <1>1, <1>3
  <1>7. Resize(ba, size).ones = ba.ones
    BY <1>4, <1>5
  <1>8. AnchorIsFirst(Resize(ba, size))
    BY <1>4, <1>7 DEF GoodArray, AnchorIsFirst, Start
  <1>9. QED
    BY <1>2, <1>3, <1>4, <1>5, <1>6, <1>7, <1>8 DEF GoodArray, ArrayType
-----------------------------------------------------------------------------
(* Cells and their numbers.                                                  *)

LEMMA AddressOfNumber ==
    ASSUME NEW p \in Nat, NEW i \in 0..(p * PerPage - 1), p <= MaxPages
    PROVE  Address(i) \in Cells /\ Number(Address(i)) = i
  <1>1. PerPage \in Nat \ {0} /\ MaxPages \in Nat
    BY BitPoolAssumption
  <1>2. i \in Nat /\ i < p * PerPage
    BY <1>1
  <1> DEFINE q == i \div PerPage  r == i % PerPage
  <1>3. q \in Nat /\ r \in 0..(PerPage - 1) /\ i = PerPage * q + r
    BY <1>1, <1>2, DivMod
  <1>4. Address(i) = <<q, r>>
    BY DEF Address
  <1> HIDE DEF q, r
  <1>5. q < p
    <2>1. SUFFICES ASSUME p <= q
                   PROVE  FALSE
      BY <1>3
    <2>2. PerPage * p <= PerPage * q
      BY <2>1, <1>1, <1>3, TimesMonotone
    <2>3. p * PerPage = PerPage * p /\ PerPage * p \in Nat /\ PerPage * q \in Nat
      BY <1>1, <1>3
    <2>4. QED
      BY <2>2, <2>3, <1>2, <1>3
  <1>6. PerPage * q = q * PerPage /\ q * PerPage \in Nat
    BY <1>1, <1>3
  <1>7. QED
    BY <1>1, <1>3, <1>4, <1>5, <1>6 DEF Number, Cells

LEMMA NumberOfCell ==
    ASSUME NEW c \in Cells
    PROVE  Number(c) \in Nat /\ Address(Number(c)) = c
  <1>1. PerPage \in Nat \ {0} /\ MaxPages \in Nat
    BY BitPoolAssumption
  <1>2. c[1] \in Nat /\ c[2] \in 0..(PerPage - 1) /\ c = <<c[1], c[2]>>
    BY <1>1 DEF Cells
  <1>3. Number(c) = PerPage * c[1] + c[2]
    BY <1>1, <1>2 DEF Number
  <1>4. (PerPage * c[1] + c[2]) \div PerPage = c[1]
        /\ (PerPage * c[1] + c[2]) % PerPage = c[2]
    BY <1>1, <1>2, DivUnique
  <1>5. PerPage * c[1] \in Nat
    BY <1>1, <1>2
  <1>6. QED
    <2>1. Address(Number(c)) = <<c[1], c[2]>>
      BY <1>3, <1>4 DEF Address
    <2>2. QED
      BY <1>1, <1>2, <1>3, <1>5, <2>1

LEMMA CapacityType ==
    ASSUME NEW p \in Nat
    PROVE  p * PerPage \in Nat /\ (p + 1) * PerPage = p * PerPage + PerPage
  BY BitPoolAssumption
-----------------------------------------------------------------------------
(* The invariant.                                                            *)

\* The invariant says of the array what GoodArray does.
LEMMA InvariantGood ==
    ASSUME IInv
    PROVE  GoodArray(freeList) /\ TotalMaxCount \in Nat /\ PerPage \in Nat \ {0}
  <1>1. W \in Nat \ {0} /\ PerPage \in Nat \ {0}
    BY BitArrayAssumption, BitPoolAssumption
  <1>2. pageCount \in Nat
    BY DEF IInv, TypeOK
  <1>3. TotalMaxCount \in Nat
    BY <1>1, <1>2 DEF TotalMaxCount
  <1>4. freeList \in ArrayType
    BY DEF IInv, TypeOK, ArrayType
  <1>5. freeList.words * W \in Nat
    BY <1>1, <1>4 DEF ArrayType
  <1>6. freeList.ones \subseteq Positions(freeList.words)
    BY <1>3, <1>5 DEF IInv, BitsTellLive, WordsSuffice, Positions
  <1>7. QED
    BY <1>1, <1>3, <1>4, <1>6
       DEF IInv, GoodArray, SearchLosesNone, AnchorInWords, TypeOK

\* The cells in use are finitely many.
LEMMA LiveFinite ==
    ASSUME live \subseteq Cells
    PROVE  IsFiniteSet(live) /\ Cardinality(live) \in Nat
  <1>1. MaxPages \in Nat /\ PerPage \in Nat
    BY BitPoolAssumption
  <1>2. IsFiniteSet(0..(MaxPages - 1)) /\ IsFiniteSet(0..(PerPage - 1))
    BY <1>1, FS_Interval
  <1>3. IsFiniteSet(Cells)
    BY <1>2, FS_Product DEF Cells
  <1>4. QED
    BY <1>3, FS_Subset, FS_CardinalityType

\* As many bits are 1 as there are cells in use.
LEMMA OnesCounted ==
    ASSUME live \subseteq Cells, freeList.ones = {Number(c) : c \in live}
    PROVE  IsFiniteSet(freeList.ones) /\ Cardinality(freeList.ones) = Cardinality(live)
  <1>1. IsFiniteSet(live)
    BY LiveFinite
  <1> DEFINE f == [c \in live |-> Number(c)]
  <1>2. f \in Bijection(live, freeList.ones)
    <2>1. f \in [live -> freeList.ones]
      OBVIOUS
    <2>2. \A c, d \in live : f[c] = f[d] => c = d
      <3>1. SUFFICES ASSUME NEW c \in live, NEW d \in live, Number(c) = Number(d)
                     PROVE  c = d
        OBVIOUS
      <3>2. Address(Number(c)) = c /\ Address(Number(d)) = d
        BY NumberOfCell
      <3>3. QED
        BY <3>1, <3>2
    <2>3. \A i \in freeList.ones : \E c \in live : f[c] = i
      OBVIOUS
    <2>4. QED
      BY <2>1, <2>2, <2>3, Fun_IsBij
  <1>3. QED
    BY <1>1, <1>2, FS_Bijection DEF ExistsBijection

\* A cell that has been taken before is none of the free ones.
LEMMA NewNumber ==
    ASSUME live \subseteq Cells, freeList.ones = {Number(c) : c \in live},
           NEW i, i \notin freeList.ones, Number(Address(i)) = i
    PROVE  Address(i) \notin live
  OBVIOUS

\* When no page has a free cell, every bit of the pages is 1.
LEMMA FullMeansAll ==
    ASSUME IInv, totalCount >= TotalMaxCount
    PROVE  freeList.ones = 0..(TotalMaxCount - 1) /\ totalCount = TotalMaxCount
  <1>1. TotalMaxCount \in Nat
    BY InvariantGood
  <1>2. live \subseteq Cells /\ freeList.ones = {Number(c) : c \in live}
        /\ totalCount = Cardinality(live) /\ freeList.ones \subseteq 0..(TotalMaxCount - 1)
    BY DEF IInv, TypeOK, BitsTellLive
  <1>3. IsFiniteSet(0..(TotalMaxCount - 1))
        /\ Cardinality(0..(TotalMaxCount - 1)) = TotalMaxCount
    BY <1>1, FS_Interval
  <1>4. Cardinality(freeList.ones) = totalCount
    BY <1>2, OnesCounted
  <1>5. totalCount \in Nat
    BY DEF IInv, TypeOK
  <1> DEFINE all == 0..(TotalMaxCount - 1)
  <1>6. /\ Cardinality(freeList.ones) <= TotalMaxCount
        /\ Cardinality(freeList.ones) = TotalMaxCount => freeList.ones = all
    <2>1. IsFiniteSet(all) /\ Cardinality(all) = TotalMaxCount
          /\ freeList.ones \in SUBSET all
      BY <1>1, <1>2, <1>3
    <2> HIDE DEF all
    <2>2. QED
      BY <2>1, FS_Subset
  <1>7. QED
    BY <1>1, <1>4, <1>5, <1>6

-----------------------------------------------------------------------------
(* Each action keeps the invariant and is one of Heap's.                     *)

LEMMA InitInvariant == Init => IInv
  <1>1. SUFFICES ASSUME Init
                 PROVE  IInv
    OBVIOUS
  <1>2. W \in Nat \ {0} /\ PerPage \in Nat \ {0} /\ PerPage >= W /\ MaxPages \in Nat \ {0}
    BY BitArrayAssumption, BitPoolAssumption
  <1>3. GoodArray(Empty)
    BY <1>2 DEF GoodArray, ArrayType, Empty, Positions, AnchorIsFirst, Start
  <1>4. Empty.ones = {} /\ Empty.index * W = 0
    BY <1>2 DEF Empty
  <1>5. /\ GoodArray(freeList)
        /\ freeList.ones = {}
        /\ PerPage <= freeList.words * W
    BY <1>1, <1>2, <1>3, <1>4, ResizeGood DEF Init
  <1>6. TotalMaxCount = PerPage
    BY <1>1, <1>2 DEF Init, TotalMaxCount
  <1>7. BitsTellLive
    BY <1>1, <1>5, FS_EmptySet DEF Init, BitsTellLive
  <1>8. TypeOK
    BY <1>1, <1>2, <1>5 DEF Init, TypeOK, GoodArray, ArrayType
  <1>9. QED
    BY <1>2, <1>5, <1>6, <1>7, <1>8
       DEF IInv, WordsSuffice, AnchorInWords, SearchLosesNone, GoodArray

\* The search of a good array in which some bit of the pages is 0 finds one of
\* the pages' bits, and never returns -1.
LEMMA SearchFinds ==
    ASSUME NEW ba, GoodArray(ba), NEW max \in Nat, max <= ba.words * W,
           NEW free \in 0..(max - 1), free \notin ba.ones,
           NEW i \in Positions(ba.words) \cup {-1}, Finds(ba, i)
    PROVE  i \in Positions(ba.words) /\ i \in 0..(max - 1)
  <1>1. W \in Nat \ {0} /\ ba.words \in Nat /\ ba.index \in Nat /\ ba.offset \in Nat
    BY BitArrayAssumption DEF GoodArray, ArrayType
  <1>2. ba.words * W \in Nat
    BY <1>1
  <1>3. free \in Positions(ba.words)
    BY <1>2 DEF Positions
  <1>4. Start(ba) \in Nat
    BY <1>1 DEF Start
  <1>5. free >= Start(ba)
    BY <1>4 DEF GoodArray, AnchorIsFirst
  <1>6. i # -1
    <2>1. SUFFICES ASSUME i = -1
                   PROVE  FALSE
      OBVIOUS
    <2>2. i \notin Positions(ba.words)
      BY <2>1, <1>2 DEF Positions
    <2>3. QED
      BY <2>2, <1>3, <1>5 DEF Finds
  <1>7. i \in Positions(ba.words) /\ i \in Nat
    BY <1>2, <1>6 DEF Positions
  <1>8. \A j \in 0..(i - 1) : j \in ba.ones
    BY <1>7, SearchedGood
  <1>9. i <= free
    BY <1>7, <1>8
  <1>10. QED
    BY <1>7, <1>9

\* Taking a cell from a good array that has a free one.
LEMMA TakeStep ==
    ASSUME NEW ba, GoodArray(ba), NEW p \in 1..MaxPages,
           p * PerPage <= ba.words * W,
           ba.ones = {Number(c) : c \in live}, live \subseteq Cells,
           totalCount = Cardinality(live), outstanding \in Int,
           ba.ones \subseteq 0..(p * PerPage - 1),
           NEW free \in 0..(p * PerPage - 1), free \notin ba.ones,
           Take(ba), pageCount' = p
    PROVE  IInv' /\ Promise!Next
  <1>1. MaxPages \in Nat /\ PerPage \in Nat \ {0} /\ p \in Nat /\ p <= MaxPages
        /\ p * PerPage \in Nat
    BY BitPoolAssumption, CapacityType
  <1>2. PICK i \in Positions(ba.words) \cup {-1} :
          /\ Finds(ba, i)
          /\ freeList' = Set(Searched(ba, i), i)
          /\ live' = live \cup {Address(i)}
          /\ totalCount' = totalCount + 1
          /\ outstanding' = outstanding + 1
    BY DEF Take
  <1>3. i \in Positions(ba.words) /\ i \in 0..(p * PerPage - 1)
    BY <1>1, <1>2, SearchFinds
  <1> DEFINE sb == Searched(ba, i)
  <1>4. GoodArray(sb) /\ sb.ones = ba.ones /\ sb.words = ba.words /\ i \notin ba.ones
    BY <1>2, <1>3, SearchedGood
  <1> HIDE DEF sb
  <1>5. GoodArray(freeList') /\ freeList'.ones = ba.ones \cup {i}
        /\ freeList'.words = ba.words
    BY <1>2, <1>3, <1>4, SetGood DEF sb
  <1>6. Address(i) \in Cells /\ Number(Address(i)) = i
    BY <1>1, <1>3, AddressOfNumber
  <1>7. Address(i) \notin live
    BY <1>4, <1>6
  <1>8. Promise!Next
    BY <1>2, <1>6, <1>7 DEF Promise!Next, Promise!Alloc
  <1>9. live' \subseteq Cells /\ freeList'.ones = {Number(c) : c \in live'}
    BY <1>2, <1>5, <1>6
  <1>10. totalCount' = Cardinality(live') /\ totalCount' \in Nat
    BY <1>2, <1>7, LiveFinite, FS_AddElement
  <1>11. freeList'.ones \subseteq 0..(p * PerPage - 1)
    BY <1>3, <1>5
  <1>12. TotalMaxCount' = p * PerPage
    BY DEF TotalMaxCount
  <1>13. TypeOK'
    BY <1>2, <1>5, <1>9, <1>10 DEF TypeOK, GoodArray, ArrayType
  <1>14. BitsTellLive'
    BY <1>9, <1>10, <1>11, <1>12 DEF BitsTellLive
  <1>15. QED
    BY <1>5, <1>8, <1>12, <1>13, <1>14
       DEF IInv, WordsSuffice, AnchorInWords, SearchLosesNone, GoodArray

LEMMA AllocStep ==
    ASSUME IInv, Alloc
    PROVE  IInv' /\ Promise!Next
  <1>1. GoodArray(freeList) /\ TotalMaxCount \in Nat
    BY InvariantGood
  <1>2. live \subseteq Cells /\ totalCount \in Nat /\ outstanding \in Int
        /\ pageCount \in 1..MaxPages /\ freeList.ones = {Number(c) : c \in live}
        /\ totalCount = Cardinality(live) /\ freeList.ones \subseteq 0..(TotalMaxCount - 1)
        /\ TotalMaxCount <= freeList.words * W
    BY DEF IInv, TypeOK, BitsTellLive, WordsSuffice
  <1>3. Cardinality(freeList.ones) = totalCount
    BY <1>2, OnesCounted
  <1>4. totalCount < TotalMaxCount /\ Take(freeList) /\ pageCount' = pageCount
    BY DEF Alloc
  <1> DEFINE all == 0..(TotalMaxCount - 1)
  <1>5. Cardinality(all) = TotalMaxCount
    <2>1. TotalMaxCount - 1 \in Int /\ 0 \in Int
      BY <1>1
    <2>2. Cardinality(all) = IF 0 > TotalMaxCount - 1 THEN 0
                             ELSE (TotalMaxCount - 1) - 0 + 1
      BY <2>1, FS_Interval
    <2> HIDE DEF all
    <2>3. QED
      BY <1>1, <2>2
  <1>6. freeList.ones # all
    <2>1. totalCount < TotalMaxCount /\ totalCount \in Nat /\ TotalMaxCount \in Nat
      BY <1>1, <1>2, <1>4
    <2>2. totalCount # TotalMaxCount
      BY <2>1
    <2> HIDE DEF all
    <2>3. QED
      BY <1>3, <1>5, <2>2
  <1>7. PICK free \in all : free \notin freeList.ones
    BY <1>2, <1>6
  <1>8. TotalMaxCount = pageCount * PerPage
    BY DEF TotalMaxCount
  <1>9. QED
    BY <1>1, <1>2, <1>4, <1>7, <1>8, TakeStep

LEMMA AllocExpandStep ==
    ASSUME IInv, AllocExpand
    PROVE  IInv' /\ Promise!Next
  <1>1. GoodArray(freeList) /\ TotalMaxCount \in Nat /\ PerPage \in Nat \ {0}
    BY InvariantGood
  <1>2. live \subseteq Cells /\ totalCount \in Nat /\ outstanding \in Int
        /\ pageCount \in 1..MaxPages /\ freeList.ones = {Number(c) : c \in live}
        /\ totalCount = Cardinality(live)
    BY DEF IInv, TypeOK, BitsTellLive
  <1> DEFINE max == TotalMaxCount + PerPage
  <1> DEFINE ba == Resize(freeList, max)
  <1>3. totalCount >= TotalMaxCount /\ pageCount < MaxPages /\ pageCount' = pageCount + 1
        /\ Take(ba)
    BY DEF AllocExpand
  <1>4. freeList.ones = 0..(TotalMaxCount - 1)
    BY <1>3, FullMeansAll
  <1>5. freeList.index * W <= max
    <2>1. W \in Nat \ {0} /\ freeList.index \in Nat /\ freeList.offset \in Nat
      BY <1>1, BitArrayAssumption DEF GoodArray, ArrayType
    <2>2. W * freeList.index = freeList.index * W /\ freeList.index * W \in Nat
      BY <2>1
    <2>3. freeList.index * W <= TotalMaxCount
      <3>1. SUFFICES ASSUME freeList.index * W > TotalMaxCount
                     PROVE  FALSE
        BY <1>1, <2>2
      <3>2. TotalMaxCount \in 0..(Start(freeList) - 1)
        BY <1>1, <2>1, <2>2, <3>1 DEF Start
      <3>3. TotalMaxCount \in freeList.ones
        BY <1>1, <3>2 DEF GoodArray, AnchorIsFirst
      <3>4. QED
        BY <1>1, <1>4, <3>3
    <2>4. QED
      BY <1>1, <2>2, <2>3
  <1>6. max \in Nat /\ max >= W /\ freeList.ones \subseteq 0..(max - 1)
    BY <1>1, <1>4, BitArrayAssumption, BitPoolAssumption
  <1>7. GoodArray(ba) /\ ba.ones = freeList.ones /\ max <= ba.words * W
    BY <1>1, <1>5, <1>6, ResizeGood
  <1>8. (pageCount + 1) * PerPage = max /\ pageCount + 1 \in 1..MaxPages
    <2>1. pageCount \in Nat /\ MaxPages \in Nat
      BY <1>2, BitPoolAssumption
    <2>2. QED
      BY <1>2, <1>3, <2>1, CapacityType DEF TotalMaxCount
  <1>9. TotalMaxCount \in 0..(max - 1) /\ TotalMaxCount \notin ba.ones
    BY <1>1, <1>4, <1>7
  <1> HIDE DEF ba, max
  <1>10. QED
    BY <1>2, <1>3, <1>6, <1>7, <1>8, <1>9, TakeStep

LEMMA FreeStep ==
    ASSUME IInv, NEW c \in Cells, Free(c)
    PROVE  IInv' /\ Promise!Next
  <1>1. GoodArray(freeList)
    BY InvariantGood
  <1>2. live \subseteq Cells /\ totalCount \in Nat /\ outstanding \in Int
        /\ pageCount \in 1..MaxPages /\ freeList.ones = {Number(d) : d \in live}
        /\ totalCount = Cardinality(live) /\ freeList.ones \subseteq 0..(TotalMaxCount - 1)
        /\ TotalMaxCount <= freeList.words * W
    BY DEF IInv, TypeOK, BitsTellLive, WordsSuffice
  <1>3. c \in live /\ live' = live \ {c} /\ totalCount' = totalCount - 1
        /\ outstanding' = outstanding - 1 /\ pageCount' = pageCount
        /\ freeList' = Unset(freeList, Number(c))
    BY DEF Free
  <1>4. Number(c) \in Positions(freeList.words)
    BY <1>1, <1>2, <1>3 DEF GoodArray
  <1>5. GoodArray(freeList') /\ freeList'.ones = freeList.ones \ {Number(c)}
        /\ freeList'.words = freeList.words
    BY <1>1, <1>3, <1>4, UnsetGood
  <1>6. \A d \in live : Number(d) = Number(c) => d = c
    <2>1. SUFFICES ASSUME NEW d \in live, Number(d) = Number(c)
                   PROVE  d = c
      OBVIOUS
    <2>2. Address(Number(d)) = d /\ Address(Number(c)) = c
      BY <1>2, NumberOfCell
    <2>3. QED
      BY <2>1, <2>2
  <1>7. live' \subseteq Cells /\ freeList'.ones = {Number(d) : d \in live'}
    BY <1>2, <1>3, <1>5, <1>6
  <1>8. totalCount' = Cardinality(live') /\ totalCount' \in Nat
    <2>1. Cardinality(live') = Cardinality(live) - 1
      BY <1>2, <1>3, LiveFinite, FS_RemoveElement
    <2>2. Cardinality(live') \in Nat
      BY <1>2, <1>3, LiveFinite, FS_RemoveElement, FS_CardinalityType
    <2>3. QED
      BY <1>2, <1>3, <2>1, <2>2
  <1>9. TotalMaxCount' = TotalMaxCount
    BY <1>3 DEF TotalMaxCount
  <1>10. Promise!Next
    BY <1>3 DEF Promise!Next, Promise!Free
  <1>11. TypeOK'
    BY <1>2, <1>3, <1>5, <1>7, <1>8 DEF TypeOK, GoodArray, ArrayType
  <1>12. BitsTellLive'
    BY <1>2, <1>5, <1>7, <1>8, <1>9 DEF BitsTellLive
  <1>13. QED
    BY <1>2, <1>5, <1>9, <1>10, <1>11, <1>12
       DEF IInv, WordsSuffice, AnchorInWords, SearchLosesNone, GoodArray

LEMMA StepInvariant == IInv /\ [Next]_vars => IInv'
  <1>1. SUFFICES ASSUME IInv, [Next]_vars
                 PROVE  IInv'
    OBVIOUS
  <1>2. CASE Alloc
    BY <1>1, <1>2, AllocStep
  <1>3. CASE AllocExpand
    BY <1>1, <1>3, AllocExpandStep
  <1>4. ASSUME NEW c \in Cells, Free(c)
        PROVE  IInv'
    BY <1>1, <1>4, FreeStep
  <1>5. CASE UNCHANGED vars
    BY <1>1, <1>5 DEF vars, IInv, TypeOK, SearchLosesNone, AnchorIsFirst, Start,
       BitsTellLive, WordsSuffice, AnchorInWords, TotalMaxCount, Number
  <1>6. QED
    BY <1>1, <1>2, <1>3, <1>4, <1>5 DEF Next
-----------------------------------------------------------------------------
\* The invariant of the bit-array pool, for every word and page size.
THEOREM BitPoolCorrect == Spec => []IInv
  BY InitInvariant, StepInvariant, PTL DEF Spec

\* No free cell lies before the place where a search starts.
THEOREM BitPoolSearch == Spec => []SearchLosesNone
  <1>1. IInv => SearchLosesNone
    BY DEF IInv
  <1>2. QED
    BY <1>1, BitPoolCorrect, PTL

\* The bit array tells the cells in use, and TotalCount is their number.
THEOREM BitPoolCounts == Spec => []BitsTellLive
  <1>1. IInv => BitsTellLive
    BY DEF IInv
  <1>2. QED
    BY <1>1, BitPoolCorrect, PTL

\* The bit-array pool implements the abstract allocator.
THEOREM BitPoolIsHeap == Spec => IsHeap
  <1>1. Init => Promise!Init
    BY DEF Init, Promise!Init
  <1>2. ASSUME IInv, [Next]_vars
        PROVE  [Promise!Next]_<<live, outstanding>>
    <2>1. CASE Alloc
      BY <1>2, <2>1, AllocStep
    <2>2. CASE AllocExpand
      BY <1>2, <2>2, AllocExpandStep
    <2>3. ASSUME NEW c \in Cells, Free(c)
          PROVE  Promise!Next
      BY <1>2, <2>3, FreeStep
    <2>4. CASE UNCHANGED vars
      BY <2>4 DEF vars
    <2>5. QED
      BY <1>2, <2>1, <2>2, <2>3, <2>4 DEF Next
  <1>3. QED
    BY <1>1, <1>2, BitPoolCorrect, PTL DEF Spec, IsHeap, Promise!Spec

\* Clear, which no code calls yet, would lose every word before the anchor:
\* the next search does not find the first bit although it is clear.
THEOREM ClearLosesWords ==
    ASSUME NEW ba, ba \in ArrayType, ba.index \in 1..(ba.words - 1)
    PROVE  Get(Clear(ba), 0) = 0 /\ ~Finds(Clear(ba), 0)
  <1>1. W \in Nat \ {0} /\ ba.words \in Nat /\ ba.index \in Nat /\ ba.offset \in Nat
    BY BitArrayAssumption DEF ArrayType
  <1>2. Clear(ba).words = ba.words /\ Clear(ba).ones = {}
        /\ Clear(ba).index = ba.index /\ Clear(ba).offset = ba.offset
    BY DEF Clear, ArrayType
  <1>3. W * 1 <= W * ba.index /\ W * 1 <= W * ba.words
    BY <1>1, TimesMonotone
  <1>4. W * ba.index \in Nat /\ W * ba.words = ba.words * W /\ ba.words * W \in Nat
    BY <1>1
  <1>5. 0 \in Positions(ba.words)
    BY <1>1, <1>3, <1>4 DEF Positions
  <1>6. Start(Clear(ba)) > 0
    BY <1>1, <1>2, <1>3, <1>4 DEF Start
  <1>7. Start(Clear(ba)) \in Nat
    BY <1>1, <1>2, <1>4 DEF Start
  <1>8. QED
    BY <1>2, <1>5, <1>6, <1>7 DEF Get, Finds

LEMMA XorUndone ==
    ASSUME NEW x \in Words, NEW y \in Words
    PROVE  /\ Xor(x, y) \in Words
           /\ Xor(Xor(x, y), y) = x
  <1>1. Xor(x, y) \in Words
    BY DEF Xor, Words
  <1>2. \A i \in Bits : Xor(Xor(x, y), y)[i] = x[i]
    <2>1. \A i \in Bits : x[i] \in BOOLEAN /\ y[i] \in BOOLEAN
      BY DEF Words
    <2> SUFFICES ASSUME NEW i \in Bits PROVE Xor(Xor(x, y), y)[i] = x[i]
      OBVIOUS
    <2>2. Xor(Xor(x, y), y)[i] = ((x[i] # y[i]) # y[i])
      BY DEF Xor
    <2>3. \A p, q \in BOOLEAN : ((p # q) # q) = p
      OBVIOUS
    <2> QED BY <2>1, <2>2, <2>3
  <1>3. Xor(Xor(x, y), y) \in Words
    BY DEF Xor, Words
  <1> QED BY <1>1, <1>2, <1>3 DEF Words

LEMMA BlockXorUndone ==
    ASSUME NEW b \in Blocks, NEW c \in Blocks
    PROVE  /\ BlockXor(b, c) \in Blocks
           /\ BlockXor(BlockXor(b, c), c) = b
  <1>1. b.Left \in Words /\ b.Right \in Words
        /\ c.Left \in Words /\ c.Right \in Words
        /\ b = [Left |-> b.Left, Right |-> b.Right]
    BY DEF Blocks
  <1>2. BlockXor(b, c) \in Blocks
    BY <1>1, XorUndone DEF BlockXor, Blocks
  <1>3. BlockXor(BlockXor(b, c), c)
            = [Left  |-> Xor(Xor(b.Left, c.Left), c.Left),
               Right |-> Xor(Xor(b.Right, c.Right), c.Right)]
    BY DEF BlockXor
  <1> QED BY <1>1, <1>2, <1>3, XorUndone

Swap(b) == [Left |-> b.Right, Right |-> b.Left]

\* A round of the halves exchanged takes the round back.
LEMMA RoundUndone ==
    ASSUME NEW bf, IsCipher(bf), NEW b \in Blocks, NEW i \in 0..17
    PROVE  /\ Round(bf, b, i) \in Blocks
           /\ Round(bf, Swap(Round(bf, b, i)), i) = Swap(b)
  <1>1. b.Left \in Words /\ b.Right \in Words
    BY DEF Blocks
  <1> DEFINE key == Xor(F(bf.S, b.Left), bf.P[i])
  <1>4. key \in Words
    BY <1>1, XorUndone DEF IsCipher
  <1>2. Round(bf, b, i) = [Left |-> Xor(b.Right, key), Right |-> b.Left]
    BY DEF Round
  <1>3. Round(bf, Swap(Round(bf, b, i)), i)
            = [Left |-> Xor(Xor(b.Right, key), key), Right |-> b.Left]
    <2>1. Swap(Round(bf, b, i))
              = [Left |-> b.Left, Right |-> Xor(b.Right, key)]
      BY <1>2 DEF Swap
    <2> QED BY <2>1 DEF Round
  <1> HIDE DEF key
  <1> QED BY <1>1, <1>2, <1>3, <1>4, XorUndone DEF Swap, Blocks

LEMMA TwoUndone ==
    ASSUME NEW bf, IsCipher(bf), NEW b \in Blocks,
           NEW i \in 0..17, NEW j \in 0..17
    PROVE  /\ Two(bf, b, i, j) \in Blocks
           /\ Two(bf, Swap(Two(bf, b, i, j)), j, i) = Swap(b)
  <1>1. Round(bf, b, i) \in Blocks
    BY RoundUndone
  <1>2. Two(bf, b, i, j) \in Blocks
    BY <1>1, RoundUndone DEF Two
  <1>3. Round(bf, Swap(Two(bf, b, i, j)), j) = Swap(Round(bf, b, i))
    BY <1>1, RoundUndone DEF Two
  <1> QED BY <1>2, <1>3, RoundUndone DEF Two

\* DecryptBlock undoes EncryptBlock, for any key and any round function:
\* blowfish.c 290-299 use the subkeys 0 to 17, 310-319 the same backwards.
THEOREM DecryptUndoesEncrypt ==
    ASSUME NEW bf, IsCipher(bf), NEW block \in Blocks
    PROVE  /\ EncryptBlock(bf, block) \in Blocks
           /\ DecryptBlock(bf, EncryptBlock(bf, block)) = block
  <1> DEFINE b0  == First(bf, block, 0)
             b2  == Two(bf, b0, 1, 2)
             b4  == Two(bf, b2, 3, 4)
             b6  == Two(bf, b4, 5, 6)
             b8  == Two(bf, b6, 7, 8)
             b10 == Two(bf, b8, 9, 10)
             b12 == Two(bf, b10, 11, 12)
             b14 == Two(bf, b12, 13, 14)
             b16 == Two(bf, b14, 15, 16)
             out == Last(bf, b16, 17)
  <1>1. out = EncryptBlock(bf, block)
    BY DEF EncryptBlock
  <1>2. b0 \in Blocks
    BY XorUndone DEF First, Blocks, IsCipher
  <1>3. b2 \in Blocks /\ Two(bf, Swap(b2), 2, 1) = Swap(b0)
    BY <1>2, TwoUndone
  <1>4. b4 \in Blocks /\ Two(bf, Swap(b4), 4, 3) = Swap(b2)
    BY <1>3, TwoUndone
  <1>5. b6 \in Blocks /\ Two(bf, Swap(b6), 6, 5) = Swap(b4)
    BY <1>4, TwoUndone
  <1>6. b8 \in Blocks /\ Two(bf, Swap(b8), 8, 7) = Swap(b6)
    BY <1>5, TwoUndone
  <1>7. b10 \in Blocks /\ Two(bf, Swap(b10), 10, 9) = Swap(b8)
    BY <1>6, TwoUndone
  <1>8. b12 \in Blocks /\ Two(bf, Swap(b12), 12, 11) = Swap(b10)
    BY <1>7, TwoUndone
  <1>9. b14 \in Blocks /\ Two(bf, Swap(b14), 14, 13) = Swap(b12)
    BY <1>8, TwoUndone
  <1>10. b16 \in Blocks /\ Two(bf, Swap(b16), 16, 15) = Swap(b14)
    BY <1>9, TwoUndone
  <1> HIDE DEF b2, b4, b6, b8, b10, b12, b14, b16
  <1>11. out \in Blocks /\ First(bf, out, 17) = Swap(b16)
    <2>1. b16.Left \in Words /\ b16.Right \in Words
      BY <1>10 DEF Blocks
    <2> QED BY <2>1, XorUndone DEF First, Last, Swap, Blocks, IsCipher
  <1> HIDE DEF out
  <1>12. DecryptBlock(bf, out) = Last(bf, Swap(b0), 0)
    BY <1>3, <1>4, <1>5, <1>6, <1>7, <1>8, <1>9, <1>10, <1>11
       DEF DecryptBlock
  <1>13. Last(bf, Swap(b0), 0) = block
    <2>1. block = [Left |-> block.Left, Right |-> block.Right]
          /\ block.Left \in Words /\ block.Right \in Words
      BY DEF Blocks
    <2>2. Last(bf, Swap(b0), 0)
              = [Left  |-> Xor(Xor(block.Left, bf.P[0]), bf.P[0]),
                 Right |-> block.Right]
      BY <2>1 DEF First, Last, Swap
    <2> QED BY <2>1, <2>2, XorUndone DEF IsCipher
  <1> QED BY <1>1, <1>11, <1>12, <1>13

\* In each mode Decrypt gives back what Encrypt was given, whatever the first
\* link, for the same cipher and any number of blocks (blowfish.c 458-550).
THEOREM ModesRoundTrip ==
    ASSUME NEW bf, IsCipher(bf), NEW n \in Nat,
           NEW mode \in {"CBC", "CFB", "ECB"},
           NEW data \in [1..n -> Blocks], NEW out \in [1..n -> Blocks],
           IsEncrypted(bf, mode, n, data, out)
    PROVE  Decrypted(bf, mode, n, out) = data
  <1> SUFFICES ASSUME NEW i \in 1..n
               PROVE  Decrypted(bf, mode, n, out)[i] = data[i]
    BY DEF Decrypted
  <1>1. data[i] \in Blocks
    OBVIOUS
  <1> DEFINE link == Link(bf, out, i)
  <1>5. link \in Blocks
    <2>1. i # 1 => i - 1 \in 1..n
      OBVIOUS
    <2> QED BY <2>1 DEF Link, IsCipher
  <1>2. ASSUME mode = "CBC" PROVE Decrypted(bf, mode, n, out)[i] = data[i]
    <2>1. out[i] = EncryptBlock(bf, BlockXor(data[i], link))
      BY <1>2 DEF IsEncrypted
    <2>2. Decrypted(bf, mode, n, out)[i]
              = BlockXor(DecryptBlock(bf, out[i]), link)
      BY <1>2 DEF Decrypted
    <2> HIDE DEF link
    <2>3. DecryptBlock(bf, out[i]) = BlockXor(data[i], link)
      BY <1>1, <1>5, <2>1, BlockXorUndone, DecryptUndoesEncrypt
    <2> QED BY <1>1, <1>5, <2>2, <2>3, BlockXorUndone
  <1>3. ASSUME mode = "CFB" PROVE Decrypted(bf, mode, n, out)[i] = data[i]
    <2>1. out[i] = BlockXor(data[i], EncryptBlock(bf, link))
      BY <1>3 DEF IsEncrypted
    <2>2. Decrypted(bf, mode, n, out)[i]
              = BlockXor(out[i], EncryptBlock(bf, link))
      BY <1>3 DEF Decrypted
    <2> HIDE DEF link
    <2> QED BY <1>1, <1>5, <2>1, <2>2, BlockXorUndone, DecryptUndoesEncrypt
  <1>4. ASSUME mode = "ECB" PROVE Decrypted(bf, mode, n, out)[i] = data[i]
    <2>1. out[i] = EncryptBlock(bf, data[i])
      BY <1>4 DEF IsEncrypted
    <2>2. Decrypted(bf, mode, n, out)[i] = DecryptBlock(bf, out[i])
      BY <1>4 DEF Decrypted
    <2> QED BY <1>1, <2>1, <2>2, DecryptUndoesEncrypt
  <1> QED BY <1>2, <1>3, <1>4

\* The bytes of a block are the block: nothing is lost or misplaced between
\* BlockToBytes and BytesToBlock (blowfish.c 331-383).
THEOREM BytesRoundTrip ==
    ASSUME NEW b \in Blocks
    PROVE  /\ BlockToBytes(b) \in [0..7 -> Byte]
           /\ BytesToBlock(BlockToBytes(b)) = b
  <1>1. b.Left \in Words /\ b.Right \in Words
        /\ b = [Left |-> b.Left, Right |-> b.Right]
    BY DEF Blocks
  <1>2. BlockToBytes(b) \in [0..7 -> Byte]
    <2>1. \A k, j \in 0..7 :
              /\ k < 4 => b.Left[8 * (3 - k) + j] \in BOOLEAN
              /\ k >= 4 => b.Right[8 * (7 - k) + j] \in BOOLEAN
      <3>1. \A k, j \in 0..7 : /\ k < 4 => 8 * (3 - k) + j \in Bits
                               /\ k >= 4 => 8 * (7 - k) + j \in Bits
        BY DEF Bits
      <3> QED BY <1>1, <3>1 DEF Words
    <2> QED BY <2>1 DEF BlockToBytes, Byte
  <1> DEFINE p == BlockToBytes(b)
  <1>3. ASSUME NEW i \in Bits
        PROVE  p[3 - (i \div 8)][i % 8] = b.Left[i]
               /\ p[7 - (i \div 8)][i % 8] = b.Right[i]
    <2>1. /\ i \div 8 \in 0..3 /\ i % 8 \in 0..7
          /\ 8 * (i \div 8) + (i % 8) = i
      BY DEF Bits
    <2> DEFINE q == i \div 8
               r == i % 8
    <2>2. q \in 0..3 /\ r \in 0..7 /\ 8 * q + r = i
      BY <2>1
    <2> HIDE DEF q, r
    <2>3. /\ 3 - q \in 0..7 /\ 3 - q < 4 /\ 3 - (3 - q) = q
          /\ 7 - q \in 0..7 /\ ~(7 - q < 4) /\ 7 - (7 - q) = q
      BY <2>2
    <2>4. /\ p[3 - q][r] = b.Left[8 * (3 - (3 - q)) + r]
          /\ p[7 - q][r] = b.Right[8 * (7 - (7 - q)) + r]
      BY <2>2, <2>3 DEF BlockToBytes
    <2>5. p[3 - q][r] = b.Left[i] /\ p[7 - q][r] = b.Right[i]
      BY <2>2, <2>3, <2>4
    <2> QED BY <2>5 DEF q, r
  <1> HIDE DEF p
  <1>4. BytesToBlock(p).Left = b.Left /\ BytesToBlock(p).Right = b.Right
    <2>1. BytesToBlock(p).Left = [i \in Bits |-> b.Left[i]]
      BY <1>3 DEF BytesToBlock
    <2>2. BytesToBlock(p).Right = [i \in Bits |-> b.Right[i]]
      BY <1>3 DEF BytesToBlock
    <2> QED BY <1>1, <2>1, <2>2 DEF Words
  <1> QED BY <1>1, <1>2, <1>4 DEF p, BytesToBlock
=============================================================================
