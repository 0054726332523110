------------------------ MODULE MemoryManagerProofs ------------------------
(* The memory manager, for blocks, batches and classes of any number and size. *)
EXTENDS MemoryManager, FiniteSetTheorems, TLAPS

-----------------------------------------------------------------------------
(* Lists: what putting a member at the front of a list, and taking one away, *)
(* does to it.                                                               *)

\* s numbers the members of S.
Numbers(s, n, S) ==
    /\ s \in [1..n -> S]
    /\ \A i, j \in 1..n : s[i] = s[j] => i = j
    /\ \A x \in S : \E i \in 1..n : s[i] = x

LEMMA NumbersCardinality ==
    ASSUME NEW S, NEW n \in Nat, NEW s, Numbers(s, n, S)
    PROVE  IsFiniteSet(S) /\ Cardinality(S) = n
<1>1. s \in Bijection(1..n, S)
  <2>1. s \in Injection(1..n, S)
    BY DEF Numbers, Injection, IsInjective
  <2>2. s \in Surjection(1..n, S)
    BY DEF Numbers, Surjection
  <2> QED BY <2>1, <2>2 DEF Bijection
<1>2. IsFiniteSet(1..n) /\ Cardinality(1..n) = n
  BY FS_Interval
<1>3. ExistsBijection(1..n, S)
  BY <1>1 DEF ExistsBijection
<1> QED BY <1>2, <1>3, FS_Bijection

\* A single list is a numbering of its members along it.
Leads(s, n, head, next, end) ==
    /\ head = IF n = 0 THEN end ELSE s[1]
    /\ \A i \in 1..n : next[s[i]] = IF i = n THEN end ELSE s[i + 1]

Backs(s, n, prev, start) ==
    \A i \in 1..n : prev[s[i]] = IF i = 1 THEN start ELSE s[i - 1]

LEMMA ThreadIntro ==
    ASSUME NEW S, NEW head, NEW next, NEW end,
           NEW n \in Nat, NEW s, Numbers(s, n, S), Leads(s, n, head, next, end)
    PROVE  IsThread(S, head, next, end)
<1>1. Cardinality(S) = n
  BY NumbersCardinality
<1> QED BY <1>1 DEF IsThread, Threads, Numbers, Leads

LEMMA DoubleIntro ==
    ASSUME NEW S, NEW head, NEW next, NEW end, NEW prev, NEW start,
           NEW n \in Nat, NEW s, Numbers(s, n, S), Leads(s, n, head, next, end),
           Backs(s, n, prev, start)
    PROVE  IsDoubleThread(S, head, next, end, prev, start)
<1>1. Cardinality(S) = n
  BY NumbersCardinality
<1> QED BY <1>1 DEF IsDoubleThread, Threads, Numbers, Leads, Backs

LEMMA ThreadElim ==
    ASSUME NEW S, NEW head, NEW next, NEW end, IsFiniteSet(S),
           IsThread(S, head, next, end)
    PROVE  \E n \in Nat : \E s : Numbers(s, n, S) /\ Leads(s, n, head, next, end)
<1>1. Cardinality(S) \in Nat
  BY FS_CardinalityType
<1> QED BY <1>1 DEF IsThread, Threads, Numbers, Leads

LEMMA DoubleElim ==
    ASSUME NEW S, NEW head, NEW next, NEW end, NEW prev, NEW start, IsFiniteSet(S),
           IsDoubleThread(S, head, next, end, prev, start)
    PROVE  \E n \in Nat : \E s : /\ Numbers(s, n, S) /\ Leads(s, n, head, next, end)
                                 /\ Backs(s, n, prev, start)
<1>1. Cardinality(S) \in Nat
  BY FS_CardinalityType
<1>2. PICK s \in [1..Cardinality(S) -> S] :
          /\ Threads(s, S, head, next, end)
          /\ \A i \in 1..Cardinality(S) : prev[s[i]] = IF i = 1 THEN start ELSE s[i - 1]
  BY DEF IsDoubleThread
<1>3. /\ Numbers(s, Cardinality(S), S) /\ Leads(s, Cardinality(S), head, next, end)
      /\ Backs(s, Cardinality(S), prev, start)
  BY <1>2 DEF Threads, Numbers, Leads, Backs
<1> QED BY <1>1, <1>3

\* A list depends on the links of its members only.
LEMMA ThreadFrame ==
    ASSUME NEW S, NEW head, NEW next, NEW end, NEW next2, IsFiniteSet(S),
           IsThread(S, head, next, end), \A x \in S : next2[x] = next[x]
    PROVE  IsThread(S, head, next2, end)
<1>1. PICK n \in Nat : \E s : Numbers(s, n, S) /\ Leads(s, n, head, next, end)
  BY ThreadElim
<1>2. PICK s : Numbers(s, n, S) /\ Leads(s, n, head, next, end)
  BY <1>1
<1>3. Leads(s, n, head, next2, end)
  BY <1>2 DEF Numbers, Leads
<1> QED BY <1>2, <1>3, ThreadIntro

LEMMA DoubleFrame ==
    ASSUME NEW S, NEW head, NEW next, NEW end, NEW prev, NEW start, NEW next2, NEW prev2,
           IsFiniteSet(S), IsDoubleThread(S, head, next, end, prev, start),
           \A x \in S : next2[x] = next[x] /\ prev2[x] = prev[x]
    PROVE  IsDoubleThread(S, head, next2, end, prev2, start)
<1>1. PICK n \in Nat : \E s : /\ Numbers(s, n, S) /\ Leads(s, n, head, next, end)
                              /\ Backs(s, n, prev, start)
  BY DoubleElim
<1>2. PICK s : /\ Numbers(s, n, S) /\ Leads(s, n, head, next, end)
               /\ Backs(s, n, prev, start)
  BY <1>1
<1>3. Leads(s, n, head, next2, end) /\ Backs(s, n, prev2, start)
  BY <1>2 DEF Numbers, Leads, Backs
<1> QED BY <1>2, <1>3, DoubleIntro

LEMMA ThreadEmpty ==
    ASSUME NEW head, NEW next
    PROVE  IsThread({}, head, next, head)
<1>1. Numbers(<<>>, 0, {}) /\ Leads(<<>>, 0, head, next, head)
  BY DEF Numbers, Leads
<1> QED BY <1>1, ThreadIntro

LEMMA DoubleEmpty ==
    ASSUME NEW head, NEW next, NEW prev, NEW start
    PROVE  IsDoubleThread({}, head, next, head, prev, start)
<1>1. /\ Numbers(<<>>, 0, {}) /\ Leads(<<>>, 0, head, next, head)
      /\ Backs(<<>>, 0, prev, start)
  BY DEF Numbers, Leads, Backs
<1> QED BY <1>1, DoubleIntro

LEMMA NumbersPush ==
    ASSUME NEW S, NEW n \in Nat, NEW s, Numbers(s, n, S), NEW c, c \notin S
    PROVE  Numbers([i \in 1..(n + 1) |-> IF i = 1 THEN c ELSE s[i - 1]], n + 1, S \cup {c})
<1> DEFINE t == [i \in 1..(n + 1) |-> IF i = 1 THEN c ELSE s[i - 1]]
<1>1. \A i \in 1..(n + 1) : i # 1 => i - 1 \in 1..n
  OBVIOUS
<1>2. t \in [1..(n + 1) -> S \cup {c}]
  BY <1>1 DEF Numbers
<1>3. ASSUME NEW i \in 1..(n + 1), NEW j \in 1..(n + 1), t[i] = t[j] PROVE i = j
  <2>1. CASE i = 1 \/ j = 1
    BY <1>1, <1>3, <2>1 DEF Numbers
  <2>2. CASE i # 1 /\ j # 1
    <3>1. i - 1 \in 1..n /\ j - 1 \in 1..n /\ s[i - 1] = s[j - 1]
      BY <1>1, <1>3, <2>2
    <3>2. i - 1 = j - 1
      BY <3>1 DEF Numbers
    <3> QED BY <3>2
  <2> QED BY <2>1, <2>2
<1>4. ASSUME NEW x \in S \cup {c} PROVE \E i \in 1..(n + 1) : t[i] = x
  <2>1. CASE x = c
    BY <2>1
  <2>2. CASE x \in S
    <3>1. PICK i \in 1..n : s[i] = x
      BY <2>2 DEF Numbers
    <3>2. i + 1 \in 1..(n + 1) /\ i + 1 # 1 /\ (i + 1) - 1 = i
      OBVIOUS
    <3> QED BY <3>1, <3>2
  <2> QED BY <2>1, <2>2
<1> QED BY <1>2, <1>3, <1>4 DEF Numbers

LEMMA ThreadPush ==
    ASSUME NEW S, NEW head, NEW next, NEW end, NEW next2, NEW c, IsFiniteSet(S),
           IsThread(S, head, next, end), c \notin S,
           next2[c] = head, \A x \in S : next2[x] = next[x]
    PROVE  IsThread(S \cup {c}, c, next2, end)
<1>1. PICK n \in Nat : \E s : Numbers(s, n, S) /\ Leads(s, n, head, next, end)
  BY ThreadElim
<1>2. PICK s : Numbers(s, n, S) /\ Leads(s, n, head, next, end)
  BY <1>1
<1> DEFINE t == [i \in 1..(n + 1) |-> IF i = 1 THEN c ELSE s[i - 1]]
<1>3. Numbers(t, n + 1, S \cup {c})
  BY <1>2, NumbersPush
<1>4. Leads(t, n + 1, c, next2, end)
  <2>1. ASSUME NEW i \in 1..(n + 1)
        PROVE  next2[t[i]] = IF i = n + 1 THEN end ELSE t[i + 1]
    <3>1. CASE i = 1
      BY <1>2, <3>1 DEF Leads
    <3>2. CASE i # 1
      <4>1. /\ i - 1 \in 1..n /\ t[i] = s[i - 1]
            /\ i - 1 = n <=> i = n + 1
            /\ (i - 1) + 1 = i
            /\ i # n + 1 => i + 1 \in 1..(n + 1) /\ t[i + 1] = s[i]
        BY <3>2
      <4> QED BY <1>2, <4>1 DEF Leads, Numbers
    <3> QED BY <3>1, <3>2
  <2> QED BY <2>1 DEF Leads
<1> QED BY <1>3, <1>4, ThreadIntro

LEMMA DoublePush ==
    ASSUME NEW S, NEW head, NEW next, NEW end, NEW prev, NEW start, NEW next2, NEW prev2,
           NEW c, IsFiniteSet(S), IsDoubleThread(S, head, next, end, prev, start),
           c \notin S, end \notin S,
           next2[c] = head, \A x \in S : next2[x] = next[x],
           prev2[c] = start, \A x \in S : prev2[x] = IF x = head THEN c ELSE prev[x]
    PROVE  IsDoubleThread(S \cup {c}, c, next2, end, prev2, start)
<1>1. PICK n \in Nat : \E s : /\ Numbers(s, n, S) /\ Leads(s, n, head, next, end)
                              /\ Backs(s, n, prev, start)
  BY DoubleElim
<1>2. PICK s : /\ Numbers(s, n, S) /\ Leads(s, n, head, next, end)
               /\ Backs(s, n, prev, start)
  BY <1>1
<1> DEFINE t == [i \in 1..(n + 1) |-> IF i = 1 THEN c ELSE s[i - 1]]
<1>3. Numbers(t, n + 1, S \cup {c})
  BY <1>2, NumbersPush
<1>4. ASSUME NEW i \in 1..(n + 1), i # 1
      PROVE  /\ i - 1 \in 1..n /\ t[i] = s[i - 1] /\ t[i] \in S
             /\ i - 1 = n <=> i = n + 1
             /\ i - 1 = 1 <=> i = 2
             /\ (i - 1) + 1 = i
             /\ i # n + 1 => i + 1 \in 1..(n + 1) /\ t[i + 1] = s[i]
  BY <1>2, <1>4 DEF Numbers
<1>5. Leads(t, n + 1, c, next2, end)
  <2>1. ASSUME NEW i \in 1..(n + 1)
        PROVE  next2[t[i]] = IF i = n + 1 THEN end ELSE t[i + 1]
    <3>1. CASE i = 1
      BY <1>2, <3>1 DEF Leads
    <3>2. CASE i # 1
      BY <1>2, <1>4, <3>2 DEF Leads
    <3> QED BY <3>1, <3>2
  <2> QED BY <2>1 DEF Leads
<1>6. Backs(t, n + 1, prev2, start)
  <2>1. ASSUME NEW i \in 1..(n + 1)
        PROVE  prev2[t[i]] = IF i = 1 THEN start ELSE t[i - 1]
    <3>1. CASE i = 1
      BY <3>1
    <3>2. CASE i = 2
      <4>1. t[2] = s[1] /\ t[2] \in S /\ t[1] = c /\ 1 \in 1..n /\ i - 1 = 1
        <5>1. 2 \in 1..(n + 1) /\ 2 - 1 = 1
          BY <3>2
        <5> QED BY <1>2, <3>2, <5>1 DEF Numbers
      <4>2. head = s[1]
        BY <1>2, <4>1 DEF Leads
      <4> QED BY <3>2, <4>1, <4>2
    <3>3. CASE i # 1 /\ i # 2
      <4>1. /\ i - 1 \in 1..n /\ 1 \in 1..n /\ i - 1 # 1 /\ t[i] = s[i - 1] /\ t[i] \in S
            /\ t[i - 1] = s[(i - 1) - 1]
        <5>1. i - 1 \in 1..n /\ i - 1 \in 1..(n + 1) /\ i - 1 # 1 /\ i - 1 # 0
          BY <3>3
        <5>2. t[i] = s[i - 1] /\ t[i - 1] = s[(i - 1) - 1]
          BY <3>3, <5>1
        <5>3. 1 \in 1..n
          BY <5>1
        <5> QED BY <1>2, <5>1, <5>2, <5>3 DEF Numbers
      <4>2. t[i] # head
        BY <1>2, <4>1 DEF Numbers, Leads
      <4>3. prev[s[i - 1]] = s[(i - 1) - 1]
        BY <1>2, <4>1 DEF Backs
      <4> QED BY <3>3, <4>1, <4>2, <4>3
    <3> QED BY <3>1, <3>2, <3>3
  <2> QED BY <2>1 DEF Backs
<1> QED BY <1>3, <1>5, <1>6, DoubleIntro

\* A list is empty when its head is the end, and its head is on it otherwise.
LEMMA ThreadHead ==
    ASSUME NEW S, NEW head, NEW next, NEW end, IsFiniteSet(S),
           IsThread(S, head, next, end), end \notin S
    PROVE  /\ head = end <=> S = {}
           /\ head # end => head \in S
<1>1. PICK n \in Nat : \E s : Numbers(s, n, S) /\ Leads(s, n, head, next, end)
  BY ThreadElim
<1>2. PICK s : Numbers(s, n, S) /\ Leads(s, n, head, next, end)
  BY <1>1
<1> QED BY <1>2 DEF Numbers, Leads

LEMMA DoubleIsThread ==
    ASSUME NEW S, NEW head, NEW next, NEW end, NEW prev, NEW start, IsFiniteSet(S),
           IsDoubleThread(S, head, next, end, prev, start)
    PROVE  IsThread(S, head, next, end)
BY DEF IsDoubleThread, IsThread

\* The first of a list is taken from it.
LEMMA ThreadPop ==
    ASSUME NEW S, NEW head, NEW next, NEW end, IsFiniteSet(S),
           IsThread(S, head, next, end), head # end
    PROVE  IsThread(S \ {head}, next[head], next, end)
<1>1. PICK n \in Nat : \E s : Numbers(s, n, S) /\ Leads(s, n, head, next, end)
  BY ThreadElim
<1>2. PICK s : Numbers(s, n, S) /\ Leads(s, n, head, next, end)
  BY <1>1
<1> DEFINE t == [i \in 1..(n - 1) |-> s[i + 1]]
<1>3. n - 1 \in Nat /\ head = s[1] /\ 1 \in 1..n
  BY <1>2 DEF Leads
<1>4. \A i \in 1..(n - 1) : i + 1 \in 1..n /\ i + 1 # 1
  OBVIOUS
<1>5. Numbers(t, n - 1, S \ {head})
  <2>1. t \in [1..(n - 1) -> S \ {head}]
    BY <1>2, <1>3, <1>4 DEF Numbers
  <2>2. ASSUME NEW i \in 1..(n - 1), NEW j \in 1..(n - 1), t[i] = t[j] PROVE i = j
    <3>1. i + 1 = j + 1
      BY <1>2, <1>4, <2>2 DEF Numbers
    <3> QED BY <3>1
  <2>3. ASSUME NEW x \in S \ {head} PROVE \E i \in 1..(n - 1) : t[i] = x
    <3>1. PICK i \in 1..n : s[i] = x
      BY <1>2, <2>3 DEF Numbers
    <3>2. i - 1 \in 1..(n - 1) /\ (i - 1) + 1 = i
      BY <1>3, <2>3, <3>1
    <3> QED BY <3>1, <3>2
  <2> QED BY <2>1, <2>2, <2>3 DEF Numbers
<1>6. Leads(t, n - 1, next[head], next, end)
  <2>1. next[head] = IF n - 1 = 0 THEN end ELSE t[1]
    BY <1>2, <1>3 DEF Leads
  <2>2. ASSUME NEW i \in 1..(n - 1)
        PROVE  next[t[i]] = IF i = n - 1 THEN end ELSE t[i + 1]
    <3>1. next[s[i + 1]] = IF i + 1 = n THEN end ELSE s[(i + 1) + 1]
      BY <1>2, <1>4 DEF Leads
    <3> QED BY <3>1
  <2> QED BY <2>1, <2>2 DEF Leads
<1> QED BY <1>3, <1>5, <1>6, ThreadIntro

\* The neighbours of a member are members, or the ends of the list.
LEMMA DoubleNeighbours ==
    ASSUME NEW S, NEW head, NEW next, NEW end, NEW prev, NEW start, IsFiniteSet(S),
           IsDoubleThread(S, head, next, end, prev, start), NEW c \in S
    PROVE  /\ next[c] \in S \cup {end}
           /\ prev[c] \in S \cup {start}
<1>1. PICK n \in Nat : \E s : /\ Numbers(s, n, S) /\ Leads(s, n, head, next, end)
                              /\ Backs(s, n, prev, start)
  BY DoubleElim
<1>2. PICK s : /\ Numbers(s, n, S) /\ Leads(s, n, head, next, end)
               /\ Backs(s, n, prev, start)
  BY <1>1
<1>3. PICK i \in 1..n : s[i] = c
  BY <1>2 DEF Numbers
<1>4. (i # n => i + 1 \in 1..n) /\ (i # 1 => i - 1 \in 1..n)
  OBVIOUS
<1>5. \A j \in 1..n : s[j] \in S
  BY <1>2 DEF Numbers
<1>6. /\ next[c] = IF i = n THEN end ELSE s[i + 1]
      /\ prev[c] = IF i = 1 THEN start ELSE s[i - 1]
  BY <1>2, <1>3 DEF Leads, Backs
<1> QED BY <1>4, <1>5, <1>6

\* c is linked out of the list of S.
LinksOut(S, c, head, next, prev, start, head2, next2, prev2) ==
    /\ head2 = IF prev[c] = start THEN next[c] ELSE head
    /\ \A x \in S \ {c} : /\ next2[x] = IF x = prev[c] THEN next[c] ELSE next[x]
                         /\ prev2[x] = IF x = next[c] THEN prev[c] ELSE prev[x]

\* A member is taken out of the middle of a list.
LEMMA DoubleRemove ==
    ASSUME NEW S, NEW head, NEW next, NEW end, NEW prev, NEW start, IsFiniteSet(S),
           IsDoubleThread(S, head, next, end, prev, start), NEW c \in S,
           end \notin S, start \notin S,
           NEW head2, NEW next2, NEW prev2,
           LinksOut(S, c, head, next, prev, start, head2, next2, prev2)
    PROVE  IsDoubleThread(S \ {c}, head2, next2, end, prev2, start)
<1>1. PICK n \in Nat : \E s : /\ Numbers(s, n, S) /\ Leads(s, n, head, next, end)
                              /\ Backs(s, n, prev, start)
  BY DoubleElim
<1>2. PICK s : /\ Numbers(s, n, S) /\ Leads(s, n, head, next, end)
               /\ Backs(s, n, prev, start)
  BY <1>1
<1>0. /\ head2 = IF prev[c] = start THEN next[c] ELSE head
      /\ \A x \in S \ {c} : /\ next2[x] = IF x = prev[c] THEN next[c] ELSE next[x]
                           /\ prev2[x] = IF x = next[c] THEN prev[c] ELSE prev[x]
  BY DEF LinksOut
<1>3. PICK k \in 1..n : s[k] = c
  BY <1>2 DEF Numbers
<1> DEFINE t == [i \in 1..(n - 1) |-> IF i < k THEN s[i] ELSE s[i + 1]]
<1>4. n - 1 \in Nat
  OBVIOUS
<1>5. \A i \in 1..(n - 1) : i \in 1..n /\ i + 1 \in 1..n
  OBVIOUS
<1>6. Numbers(t, n - 1, S \ {c})
  <2>1. ASSUME NEW i \in 1..(n - 1) PROVE t[i] \in S \ {c}
    BY <1>2, <1>3, <1>5 DEF Numbers
  <2>2. ASSUME NEW i \in 1..(n - 1), NEW j \in 1..(n - 1), t[i] = t[j] PROVE i = j
    <3>1. CASE i < k /\ j < k
      BY <1>2, <1>5, <2>2, <3>1 DEF Numbers
    <3>2. CASE i < k /\ ~(j < k)
      <4>1. i = j + 1
        BY <1>2, <1>5, <2>2, <3>2 DEF Numbers
      <4> QED BY <3>2, <4>1
    <3>3. CASE ~(i < k) /\ j < k
      <4>1. i + 1 = j
        BY <1>2, <1>5, <2>2, <3>3 DEF Numbers
      <4> QED BY <3>3, <4>1
    <3>4. CASE ~(i < k) /\ ~(j < k)
      <4>1. i + 1 = j + 1
        BY <1>2, <1>5, <2>2, <3>4 DEF Numbers
      <4> QED BY <4>1
    <3> QED BY <3>1, <3>2, <3>3, <3>4
  <2>3. ASSUME NEW x \in S \ {c} PROVE \E i \in 1..(n - 1) : t[i] = x
    <3>1. PICK i \in 1..n : s[i] = x
      BY <1>2, <2>3 DEF Numbers
    <3>2. i # k
      BY <1>3, <2>3, <3>1
    <3>3. CASE i < k
      BY <3>1, <3>3
    <3>4. CASE i > k
      <4>1. i - 1 \in 1..(n - 1) /\ ~(i - 1 < k) /\ (i - 1) + 1 = i
        BY <3>4
      <4> QED BY <3>1, <4>1
    <3> QED BY <3>2, <3>3, <3>4
  <2> QED BY <2>1, <2>2, <2>3 DEF Numbers
<1>7. /\ next[c] = IF k = n THEN end ELSE s[k + 1]
      /\ prev[c] = IF k = 1 THEN start ELSE s[k - 1]
  BY <1>2, <1>3 DEF Leads, Backs
<1>8. \A i \in 1..n : s[i] \in S /\ (s[i] = c <=> i = k)
  BY <1>2, <1>3 DEF Numbers
<1>9. \A i \in 1..n : s[i] = prev[c] <=> k # 1 /\ i = k - 1
  <2>1. k # 1 => k - 1 \in 1..n
    OBVIOUS
  <2> QED BY <1>2, <1>7, <2>1 DEF Numbers
<1>10. \A i \in 1..n : s[i] = next[c] <=> k # n /\ i = k + 1
  <2>1. k # n => k + 1 \in 1..n
    OBVIOUS
  <2> QED BY <1>2, <1>7, <2>1 DEF Numbers
<1>11. Leads(t, n - 1, head2, next2, end)
  <2>1. head2 = IF n - 1 = 0 THEN end ELSE t[1]
    <3>1. CASE k = 1
      <4>1. head2 = next[c]
        BY <1>0, <1>7, <3>1
      <4> QED BY <1>7, <3>1, <4>1
    <3>2. CASE k # 1
      <4>1. k - 1 \in 1..n
        BY <3>2
      <4>2. prev[c] # start
        BY <1>7, <1>8, <3>2, <4>1
      <4>3. head2 = s[1] /\ n - 1 # 0 /\ t[1] = s[1]
        BY <1>0, <1>2, <3>2, <4>2 DEF Leads
      <4> QED BY <4>3
    <3> QED BY <3>1, <3>2
  <2>2. ASSUME NEW i \in 1..(n - 1)
        PROVE  next2[t[i]] = IF i = n - 1 THEN end ELSE t[i + 1]
    <3>1. CASE i = k - 1
      <4>1. t[i] = s[i] /\ s[i] = prev[c] /\ s[i] \in S \ {c}
        BY <1>5, <1>8, <1>9, <3>1
      <4>2. next2[t[i]] = next[c]
        BY <1>0, <4>1
      <4>3. i # n - 1 => t[i + 1] = s[k + 1]
        BY <3>1
      <4> QED BY <1>7, <3>1, <4>2, <4>3
    <3>2. CASE i < k - 1
      <4>1. t[i] = s[i] /\ s[i] # prev[c] /\ s[i] \in S \ {c} /\ i # n
        BY <1>5, <1>8, <1>9, <3>2
      <4>2. next2[t[i]] = s[i + 1]
        BY <1>0, <1>2, <1>5, <4>1 DEF Leads
      <4>3. i # n - 1 /\ t[i + 1] = s[i + 1]
        BY <3>2
      <4> QED BY <4>2, <4>3
    <3>3. CASE i >= k
      <4>1. t[i] = s[i + 1] /\ s[i + 1] # prev[c] /\ s[i + 1] \in S \ {c}
        BY <1>5, <1>8, <1>9, <3>3
      <4>2. next2[t[i]] = IF i + 1 = n THEN end ELSE s[(i + 1) + 1]
        BY <1>0, <1>2, <1>5, <4>1 DEF Leads
      <4>3. i # n - 1 => t[i + 1] = s[(i + 1) + 1]
        BY <3>3
      <4>4. i + 1 = n <=> i = n - 1
        OBVIOUS
      <4> QED BY <4>2, <4>3, <4>4
    <3> QED BY <3>1, <3>2, <3>3
  <2> QED BY <2>1, <2>2 DEF Leads
<1>12. Backs(t, n - 1, prev2, start)
  <2>1. ASSUME NEW i \in 1..(n - 1)
        PROVE  prev2[t[i]] = IF i = 1 THEN start ELSE t[i - 1]
    <3>1. CASE i = k
      <4>1. t[i] = s[i + 1] /\ s[i + 1] = next[c] /\ s[i + 1] \in S \ {c}
        BY <1>5, <1>8, <1>10, <3>1
      <4>2. prev2[t[i]] = prev[c]
        BY <1>0, <4>1
      <4>3. i # 1 => t[i - 1] = s[k - 1]
        BY <3>1
      <4> QED BY <1>7, <3>1, <4>2, <4>3
    <3>2. CASE i > k
      <4>1. t[i] = s[i + 1] /\ s[i + 1] # next[c] /\ s[i + 1] \in S \ {c}
        BY <1>5, <1>8, <1>10, <3>2
      <4>2. prev2[t[i]] = s[(i + 1) - 1]
        BY <1>0, <1>2, <1>5, <4>1 DEF Backs
      <4>3. i # 1 /\ t[i - 1] = s[(i - 1) + 1] /\ (i - 1) + 1 = i /\ (i + 1) - 1 = i
        BY <3>2
      <4> QED BY <4>2, <4>3
    <3>3. CASE i < k
      <4>1. t[i] = s[i] /\ s[i] # next[c] /\ s[i] \in S \ {c}
        BY <1>5, <1>8, <1>10, <3>3
      <4>2. prev2[t[i]] = IF i = 1 THEN start ELSE s[i - 1]
        BY <1>0, <1>2, <1>5, <4>1 DEF Backs
      <4>3. i # 1 => t[i - 1] = s[i - 1]
        BY <3>3
      <4> QED BY <4>2, <4>3
    <3> QED BY <3>1, <3>2, <3>3
  <2> QED BY <2>1 DEF Backs
<1> QED BY <1>4, <1>6, <1>11, <1>12, DoubleIntro
-----------------------------------------------------------------------------
(* The sizes of the classes.                                                 *)

LEMMA Quotient ==
    ASSUME NEW n \in Nat, NEW d \in Nat \ {0}
    PROVE  /\ n \div d \in Nat
           /\ d * (n \div d) <= n /\ n < d * (n \div d) + d
OBVIOUS

LEMMA Times ==
    ASSUME NEW a \in Nat, NEW b \in Nat, NEW d \in Nat, a <= b
    PROVE  /\ d * a \in Nat /\ d * b \in Nat /\ d * a <= d * b
           /\ a * d = d * a /\ b * d = d * b
           /\ d * (a + 1) = d * a + d
OBVIOUS

\* A quotient does not shrink with its divisor.
LEMMA SmallerDivisor ==
    ASSUME NEW n \in Nat, NEW d \in Nat \ {0}, NEW e \in Nat \ {0}, d <= e
    PROVE  n \div e <= n \div d
<1> DEFINE q == n \div e
           r == n \div d
<1>1. /\ q \in Nat /\ e * q <= n
      /\ r \in Nat /\ n < d * r + d
  BY Quotient
<1> HIDE DEF q, r
<1>2. SUFFICES ASSUME r + 1 <= q PROVE FALSE
  BY <1>1 DEF q, r
<1>3. d * (r + 1) <= d * q /\ d * (r + 1) = d * r + d
  BY <1>1, <1>2
<1>4. q * d <= q * e /\ q * d = d * q /\ q * e = e * q
  BY <1>1
<1>5. d * r \in Nat /\ d * q \in Nat /\ e * q \in Nat
  BY <1>1
<1> QED BY <1>1, <1>3, <1>4, <1>5

LEMMA Geometry ==
    /\ DataSize1 \in Nat \ {0} /\ DataSize \in Nat /\ DataSize1 <= DataSize
    /\ Alignment1 <= DataSize1
    /\ DataSize1 = Alignment1 * Count1 /\ DataSize = DataSize1 + Alignment2 * Count2
    /\ {Alignment1, Count1, Alignment2, Count2, BlockAlloc} \subseteq Nat \ {0}
    /\ MaxBatches \in Nat /\ HeadSize \in Nat /\ HeadSize < DataSize
    /\ Classes = 1..(Count1 + Count2) /\ 1 \in Classes
<1>1. Alignment1 * Count1 \in Nat \ {0} /\ Alignment2 * Count2 \in Nat
      /\ Alignment1 <= Alignment1 * Count1
  BY ManagerAssumption
<1> QED BY <1>1, ManagerAssumption DEF DataSize1, DataSize, Classes

LEMMA ClassSizes ==
    ASSUME NEW h \in Classes
    PROVE  /\ SizeOf(h) \in Nat \ {0} /\ Alignment1 <= SizeOf(h)
           /\ SizeOf(1) = Alignment1
           /\ UnitCount(h) \in Nat /\ UnitCount(h) <= UnitCount(1)
<1>1. SizeOf(1) = Alignment1
  BY Geometry DEF SizeOf
<1>2. SizeOf(h) \in Nat \ {0} /\ Alignment1 <= SizeOf(h)
  <2>1. CASE h <= Count1
    <3>1. SizeOf(h) = h * Alignment1
      BY <2>1 DEF SizeOf
    <3>2. 1 <= h /\ h \in Nat /\ Alignment1 \in Nat \ {0}
      BY Geometry
    <3> QED BY <3>1, <3>2
  <2>2. CASE ~(h <= Count1)
    <3>1. SizeOf(h) = (h - Count1) * Alignment2 + DataSize1
      BY <2>2 DEF SizeOf
    <3>2. h - Count1 \in Nat
      BY <2>2, Geometry
    <3>3. (h - Count1) * Alignment2 \in Nat
      BY <3>2, Geometry
    <3>4. DataSize1 \in Nat \ {0} /\ Alignment1 <= DataSize1 /\ Alignment1 \in Nat
      BY Geometry
    <3> DEFINE p == (h - Count1) * Alignment2
    <3> HIDE DEF p
    <3>5. SizeOf(h) = p + DataSize1 /\ p \in Nat
      BY <3>1, <3>3 DEF p
    <3> QED BY <3>4, <3>5
  <2> QED BY <2>1, <2>2
<1>3. UnitCount(h) \in Nat /\ UnitCount(h) <= UnitCount(1)
  <2>1. /\ SizeOf(h) + HeadSize \in Nat \ {0} /\ SizeOf(1) + HeadSize \in Nat \ {0}
        /\ SizeOf(1) + HeadSize <= SizeOf(h) + HeadSize
    <3>1. SizeOf(1) \in Nat \ {0} /\ SizeOf(1) <= SizeOf(h)
      BY <1>1, <1>2, ManagerAssumption
    <3> QED BY <1>2, <3>1, ManagerAssumption
  <2> QED BY <2>1, Geometry, SmallerDivisor, Quotient DEF UnitCount
<1> QED BY <1>1, <1>2, <1>3

\* A size that fits in a block has a class, and the class is no smaller.
LEMMA HashFits ==
    ASSUME NEW size \in Nat \ {0}, size <= DataSize
    PROVE  Hash(size) \in Classes /\ size <= SizeOf(Hash(size))
<1>1. CASE size <= DataSize1
  <2> DEFINE q == (size + Alignment1 - 1) \div Alignment1
  <2>1. /\ size + Alignment1 - 1 \in Nat /\ Alignment1 \in Nat \ {0}
        /\ Count1 \in Nat \ {0} /\ Count2 \in Nat \ {0}
    BY Geometry
  <2>2. q \in Nat /\ Alignment1 * q <= size + Alignment1 - 1
        /\ size + Alignment1 - 1 < Alignment1 * q + Alignment1
    BY <2>1, Quotient
  <2>3. Hash(size) = q
    BY <1>1 DEF Hash
  <2> HIDE DEF q
  <2>4. Alignment1 * q \in Nat
    BY <2>1, <2>2
  <2>5. size <= Alignment1 * q
    BY <2>1, <2>2, <2>4
  <2>6. q # 0
    BY <2>1, <2>5
  <2>7. q <= Count1
    <3> SUFFICES ASSUME Count1 + 1 <= q PROVE FALSE
      BY <2>1, <2>2
    <3>1. Alignment1 * (Count1 + 1) <= Alignment1 * q
          /\ Alignment1 * (Count1 + 1) = Alignment1 * Count1 + Alignment1
      BY <2>1, <2>2
    <3>2. size <= Alignment1 * Count1 /\ Alignment1 * Count1 \in Nat
      BY <1>1, Geometry
    <3> QED BY <2>1, <2>2, <2>4, <3>1, <3>2
  <2>8. SizeOf(q) = q * Alignment1 /\ q * Alignment1 = Alignment1 * q
    BY <2>1, <2>2, <2>7 DEF SizeOf
  <2> QED BY <2>1, <2>2, <2>3, <2>5, <2>6, <2>7, <2>8, Geometry
<1>2. CASE ~(size <= DataSize1)
  <2> DEFINE rest == size - DataSize1
             q == (rest + Alignment2 - 1) \div Alignment2
  <2>1. /\ rest \in Nat \ {0} /\ rest + Alignment2 - 1 \in Nat /\ Alignment2 \in Nat \ {0}
        /\ Count1 \in Nat \ {0} /\ Count2 \in Nat \ {0} /\ rest <= Alignment2 * Count2
        /\ Alignment2 * Count2 \in Nat
    <3>1. /\ DataSize1 \in Nat /\ DataSize = DataSize1 + Alignment2 * Count2
          /\ Alignment2 * Count2 \in Nat /\ Alignment2 \in Nat \ {0}
          /\ Count1 \in Nat \ {0} /\ Count2 \in Nat \ {0}
      BY ManagerAssumption DEF DataSize, DataSize1
    <3> DEFINE p == Alignment2 * Count2
    <3> HIDE DEF p
    <3>2. DataSize = DataSize1 + p /\ p \in Nat
      BY <3>1 DEF p
    <3>3. rest \in Nat \ {0} /\ rest <= p /\ rest + Alignment2 - 1 \in Nat
      BY <1>2, <3>1, <3>2
    <3> QED BY <3>1, <3>3 DEF p
  <2>2. q \in Nat /\ Alignment2 * q <= rest + Alignment2 - 1
        /\ rest + Alignment2 - 1 < Alignment2 * q + Alignment2
    BY <2>1, Quotient
  <2>3. Hash(size) = q + Count1
    BY <1>2 DEF Hash
  <2>4. size = rest + DataSize1
    BY Geometry
  <2> HIDE DEF q, rest
  <2>5. Alignment2 * q \in Nat
    BY <2>1, <2>2
  <2>6. rest <= Alignment2 * q
    BY <2>1, <2>2, <2>5
  <2>7. q # 0
    BY <2>1, <2>6
  <2>8. q <= Count2
    <3> SUFFICES ASSUME Count2 + 1 <= q PROVE FALSE
      BY <2>1, <2>2
    <3>1. Alignment2 * (Count2 + 1) <= Alignment2 * q
          /\ Alignment2 * (Count2 + 1) = Alignment2 * Count2 + Alignment2
      BY <2>1, <2>2
    <3> QED BY <2>1, <2>2, <2>5, <3>1
  <2>9. SizeOf(q + Count1) = q * Alignment2 + DataSize1 /\ q * Alignment2 = Alignment2 * q
    <3>1. ~(q + Count1 <= Count1) /\ (q + Count1) - Count1 = q
      BY <2>1, <2>2, <2>7
    <3> QED BY <2>1, <2>2, <3>1 DEF SizeOf
  <2> QED BY <2>1, <2>2, <2>3, <2>4, <2>5, <2>6, <2>7, <2>8, <2>9, Geometry
<1> QED BY <1>1, <1>2

\* A size that is not large has a class, whose units hold it, and a block of
\* the class has a unit.
LEMMA SmallSizes ==
    ASSUME NEW size \in Nat \ {0}, ~IsLarge(size)
    PROVE  /\ Hash(size) \in Classes /\ size <= SizeOf(Hash(size))
           /\ UnitCount(Hash(size)) \in Nat \ {0}
<1>1. size <= DataSize /\ ~(SizeOf(Hash(size)) > DataSize - HeadSize) /\ DataSize \in Nat
  <2>1. DataSize \in Nat
    BY Geometry
  <2> QED BY <2>1 DEF IsLarge
<1>2. Hash(size) \in Classes /\ size <= SizeOf(Hash(size))
  BY <1>1, HashFits
<1> DEFINE d == SizeOf(Hash(size)) + HeadSize
<1>3. d \in Nat \ {0} /\ d <= DataSize
  <2>1. SizeOf(Hash(size)) \in Nat \ {0}
    BY <1>2, ClassSizes
  <2> QED BY <1>1, <2>1, ManagerAssumption
<1>4. DataSize \div d \in Nat /\ DataSize < d * (DataSize \div d) + d
  BY <1>3, Geometry, Quotient
<1> DEFINE q == DataSize \div d
<1>5. q # 0
  <2> HIDE DEF q
  <2> SUFFICES ASSUME q = 0 PROVE FALSE
    OBVIOUS
  <2>1. DataSize < d * q + d
    BY <1>4 DEF q
  <2> QED BY <1>3, <2>1, Geometry
<1> QED BY <1>2, <1>4, <1>5 DEF UnitCount
-----------------------------------------------------------------------------
(* What the operators do to a manager, field by field.                       *)

LEMMA ManagerTypes ==
    ASSUME NEW m \in Managers
    PROVE  /\ m.unfill \in [Classes \cup {0} -> Blocks \cup {NULL}]
           /\ m.batches \in 0..MaxBatches /\ m.batches \in Nat
           /\ m.block \in [Blocks -> BlockType]
           /\ m.inUse \in [Units -> BOOLEAN]
           /\ m.size \in [Cells -> Nat \cup {Full}]
           /\ m.large \in Larges \cup {NULL}
           /\ m.before \in [Larges -> Larges \cup {NULL}]
           /\ m.after \in [Larges -> Larges \cup {NULL}]
           /\ m.usage \in Int
           /\ \A b \in Blocks :
                 /\ m.block[b] \in BlockType
                 /\ m.block[b].next \in Blocks \cup {NULL}
                 /\ m.block[b].prev \in Blocks \cup {NULL, BlockHead}
                 /\ m.block[b].hash \in Classes \cup {0}
                 /\ m.block[b].used \in Nat
                 /\ m.block[b].unfill \in Nat \cup {Full}
                 /\ m.block[b].maxused \in Nat
<1>1. \A b \in Blocks : m.block[b] \in BlockType
  BY DEF Managers
<1>2. m.batches \in 0..MaxBatches /\ MaxBatches \in Nat
  BY ManagerAssumption DEF Managers
<1>3. m.batches \in Nat
  BY <1>2
<1> QED BY <1>1, <1>2, <1>3 DEF Managers, BlockType

LEMMA Addresses ==
    /\ NULL \notin Blocks /\ NULL \notin Larges /\ NULL # BlockHead
    /\ BlockHead \notin Blocks /\ Larges \cap Units = {} /\ IsFiniteSet(Larges)
    /\ Blocks = 1..(BlockAlloc * MaxBatches) /\ BlockAlloc * MaxBatches \in Nat
    /\ Blocks \subseteq Nat /\ IsFiniteSet(Blocks) /\ 0 \notin Classes
<1>1. BlockAlloc * MaxBatches \in Nat
  BY ManagerAssumption
<1>2. IsFiniteSet(1..(BlockAlloc * MaxBatches))
  <2>1. 1 \in Int /\ BlockAlloc * MaxBatches \in Int
    BY <1>1
  <2> QED BY <2>1, FS_Interval
<1>3. Blocks \subseteq Nat
  BY <1>1 DEF Blocks
<1> QED BY <1>1, <1>2, <1>3, AddressAssumption DEF Blocks, Classes

LEMMA FiniteBlocks == \A S \in SUBSET Blocks : IsFiniteSet(S)
<1> QED BY Addresses, FS_Subset

LEMMA ReservedBlocks ==
    ASSUME NEW m \in Managers
    PROVE  ReservedOf(m) \subseteq Blocks
<1>1. m.batches \in 0..MaxBatches
  BY ManagerTypes
<1>2. /\ m.batches * BlockAlloc \in Nat /\ BlockAlloc * MaxBatches \in Nat
      /\ m.batches * BlockAlloc <= BlockAlloc * MaxBatches
  BY <1>1, ManagerAssumption
<1> QED BY <1>2 DEF ReservedOf, Blocks

\* n has the units of m, and the large cells.
SameUnits(m, n) ==
    /\ n.batches = m.batches /\ n.inUse = m.inUse /\ n.size = m.size
    /\ \A c \in Blocks : /\ n.block[c].hash = m.block[c].hash
                         /\ n.block[c].used = m.block[c].used
                         /\ n.block[c].unfill = m.block[c].unfill
                         /\ n.block[c].maxused = m.block[c].maxused

SameLarges(m, n) ==
    n.large = m.large /\ n.before = m.before /\ n.after = m.after

\* n has the lists of m.
SameLists(m, n) ==
    /\ n.batches = m.batches /\ n.unfill = m.unfill
    /\ \A c \in Blocks : /\ n.block[c].hash = m.block[c].hash
                         /\ n.block[c].next = m.block[c].next
                         /\ n.block[c].prev = m.block[c].prev

LEMMA UnlinkedFields ==
    ASSUME NEW m \in Managers, NEW b \in Blocks
    PROVE  LET n == Unlinked(m, b)
               blk == m.block[b]
           IN  /\ n \in Managers
               /\ SameUnits(m, n) /\ SameLarges(m, n) /\ n.usage = m.usage
               /\ \A h \in Classes \cup {0} :
                     n.unfill[h] = IF h = blk.hash /\ blk.prev = BlockHead
                                   THEN blk.next ELSE m.unfill[h]
               /\ \A c \in Blocks :
                     /\ n.block[c].next = IF c = blk.prev THEN blk.next ELSE m.block[c].next
                     /\ n.block[c].prev = IF c = b THEN NULL
                                          ELSE IF c = blk.next THEN blk.prev
                                          ELSE m.block[c].prev
<1> DEFINE blk == m.block[b]
           n == Unlinked(m, b)
           f == [c \in Blocks |-> [m.block[c] EXCEPT
                          !.next = IF c = blk.prev THEN blk.next ELSE @,
                          !.prev = IF c = b THEN NULL
                                   ELSE IF c = blk.next THEN blk.prev ELSE @]]
           g == [m.unfill EXCEPT ![blk.hash] =
                    IF blk.prev = BlockHead THEN blk.next ELSE @]
<1>1. \A c \in Blocks :
          /\ f[c] \in BlockType
          /\ f[c].next = IF c = blk.prev THEN blk.next ELSE m.block[c].next
          /\ f[c].prev = IF c = b THEN NULL
                         ELSE IF c = blk.next THEN blk.prev ELSE m.block[c].prev
          /\ f[c].hash = m.block[c].hash /\ f[c].used = m.block[c].used
          /\ f[c].unfill = m.block[c].unfill /\ f[c].maxused = m.block[c].maxused
  <2> TAKE c \in Blocks
  <2>1. m.block[c] \in BlockType /\ m.block[b] \in BlockType
    BY ManagerTypes
  <2> QED BY <2>1 DEF BlockType
<1>2. f \in [Blocks -> BlockType]
  <2>1. f = [c \in Blocks |-> f[c]]
    OBVIOUS
  <2> HIDE DEF f
  <2> QED BY <1>1, <2>1
<1>3. /\ g \in [Classes \cup {0} -> Blocks \cup {NULL}]
      /\ \A h \in Classes \cup {0} :
            g[h] = IF h = blk.hash /\ blk.prev = BlockHead THEN blk.next ELSE m.unfill[h]
  BY ManagerTypes
<1>4. n = [m EXCEPT !.unfill = g, !.block = f]
  BY DEF Unlinked
<1> HIDE DEF f, g
<1>5. n \in Managers /\ n.unfill = g /\ n.block = f
      /\ n.batches = m.batches /\ n.inUse = m.inUse /\ n.size = m.size
      /\ SameLarges(m, n) /\ n.usage = m.usage
  <2> HIDE DEF n
  <2> QED BY <1>2, <1>3, <1>4 DEF Managers, SameLarges
<1> HIDE DEF n
<1> QED BY <1>1, <1>3, <1>5 DEF SameUnits, n

LEMMA LinkedFields ==
    ASSUME NEW m \in Managers, NEW b \in Blocks
    PROVE  LET n == Linked(m, b)
               hash == m.block[b].hash
               old == m.unfill[hash]
           IN  /\ n \in Managers
               /\ SameUnits(m, n) /\ SameLarges(m, n) /\ n.usage = m.usage
               /\ \A h \in Classes \cup {0} :
                     n.unfill[h] = IF h = hash THEN b ELSE m.unfill[h]
               /\ \A c \in Blocks :
                     /\ n.block[c].next = IF c = b THEN old ELSE m.block[c].next
                     /\ n.block[c].prev = IF c = b THEN BlockHead
                                          ELSE IF c = old THEN b
                                          ELSE m.block[c].prev
<1> DEFINE hash == m.block[b].hash
           old == m.unfill[hash]
           n == Linked(m, b)
           f == [c \in Blocks |-> [m.block[c] EXCEPT
                          !.next = IF c = b THEN old ELSE @,
                          !.prev = IF c = b THEN BlockHead
                                   ELSE IF c = old THEN b ELSE @]]
           g == [m.unfill EXCEPT ![hash] = b]
<1>0. hash \in Classes \cup {0} /\ old \in Blocks \cup {NULL}
  BY ManagerTypes
<1>1. \A c \in Blocks :
          /\ f[c] \in BlockType
          /\ f[c].next = IF c = b THEN old ELSE m.block[c].next
          /\ f[c].prev = IF c = b THEN BlockHead
                         ELSE IF c = old THEN b ELSE m.block[c].prev
          /\ f[c].hash = m.block[c].hash /\ f[c].used = m.block[c].used
          /\ f[c].unfill = m.block[c].unfill /\ f[c].maxused = m.block[c].maxused
  <2> TAKE c \in Blocks
  <2>1. m.block[c] \in BlockType
    BY ManagerTypes
  <2> HIDE DEF old
  <2> QED BY <1>0, <2>1 DEF BlockType
<1>2. f \in [Blocks -> BlockType]
  <2>1. f = [c \in Blocks |-> f[c]]
    OBVIOUS
  <2> HIDE DEF f
  <2> QED BY <1>1, <2>1
<1>3. /\ g \in [Classes \cup {0} -> Blocks \cup {NULL}]
      /\ \A h \in Classes \cup {0} : g[h] = IF h = hash THEN b ELSE m.unfill[h]
  BY <1>0, ManagerTypes
<1>4. n = [m EXCEPT !.unfill = g, !.block = f]
  BY DEF Linked
<1> HIDE DEF f, g
<1>5. n \in Managers /\ n.unfill = g /\ n.block = f
      /\ n.batches = m.batches /\ n.inUse = m.inUse /\ n.size = m.size
      /\ SameLarges(m, n) /\ n.usage = m.usage
  <2> HIDE DEF n
  <2> QED BY <1>2, <1>3, <1>4 DEF Managers, SameLarges
<1> HIDE DEF n
<1> QED BY <1>1, <1>3, <1>5 DEF SameUnits, n

\* block_free, of a block that is on no list.
Emptied(m, b) == [m EXCEPT !.block[b].next = m.unfill[0], !.unfill[0] = b]

LEMMA EmptiedFields ==
    ASSUME NEW m \in Managers, NEW b \in Blocks
    PROVE  LET n == Emptied(m, b)
           IN  /\ n \in Managers
               /\ SameUnits(m, n) /\ SameLarges(m, n) /\ n.usage = m.usage
               /\ \A h \in Classes \cup {0} :
                     n.unfill[h] = IF h = 0 THEN b ELSE m.unfill[h]
               /\ \A c \in Blocks :
                     /\ n.block[c].next = IF c = b THEN m.unfill[0] ELSE m.block[c].next
                     /\ n.block[c].prev = m.block[c].prev
<1> DEFINE n == Emptied(m, b)
           x == m.unfill[0]
           f == [m.block EXCEPT ![b].next = x]
           g == [m.unfill EXCEPT ![0] = b]
<1>0. x \in Blocks \cup {NULL}
  BY ManagerTypes
<1>4. n = [m EXCEPT !.unfill = g, !.block = f]
  BY DEF Emptied, Managers
<1> HIDE DEF x
<1>1. \A c \in Blocks :
          /\ f[c] \in BlockType
          /\ f[c].next = IF c = b THEN x ELSE m.block[c].next
          /\ f[c].prev = m.block[c].prev
          /\ f[c].hash = m.block[c].hash /\ f[c].used = m.block[c].used
          /\ f[c].unfill = m.block[c].unfill /\ f[c].maxused = m.block[c].maxused
  <2> TAKE c \in Blocks
  <2>1. m.block[c] \in BlockType /\ m.block \in [Blocks -> BlockType]
    BY ManagerTypes
  <2>2. f[c] = IF c = b THEN [m.block[c] EXCEPT !.next = x] ELSE m.block[c]
    BY <2>1
  <2> QED BY <1>0, <2>1, <2>2 DEF BlockType
<1>2. f \in [Blocks -> BlockType]
  <2>1. f = [c \in Blocks |-> f[c]]
    BY ManagerTypes
  <2> HIDE DEF f
  <2> QED BY <1>1, <2>1
<1>3. /\ g \in [Classes \cup {0} -> Blocks \cup {NULL}]
      /\ \A h \in Classes \cup {0} : g[h] = IF h = 0 THEN b ELSE m.unfill[h]
  BY ManagerTypes
<1> HIDE DEF f, g
<1>5. n \in Managers /\ n.unfill = g /\ n.block = f
      /\ n.batches = m.batches /\ n.inUse = m.inUse /\ n.size = m.size
      /\ SameLarges(m, n) /\ n.usage = m.usage
  <2> HIDE DEF n
  <2> QED BY <1>2, <1>3, <1>4 DEF Managers, SameLarges
<1> HIDE DEF n
<1> QED BY <1>1, <1>3, <1>5 DEF SameUnits, n, x

\* The manager after malloc of a batch, before a block of it is taken.
LEMMA MoreBlocksFields ==
    ASSUME NEW m \in Managers, m.batches < MaxBatches
    PROVE  LET n == MoreBlocks(m)
               lo == m.batches * BlockAlloc + 1
               hi == lo + BlockAlloc - 1
           IN  /\ n \in Managers
               /\ lo \in Nat /\ hi \in Nat /\ 1 <= lo /\ lo <= hi
               /\ ReservedOf(m) = 1..(lo - 1) /\ ReservedOf(n) = 1..hi
               /\ lo..hi \subseteq Blocks
               /\ SameLarges(m, n) /\ n.usage = m.usage
               /\ n.size = m.size /\ n.inUse = m.inUse
               /\ \A h \in Classes : n.unfill[h] = m.unfill[h]
               /\ n.unfill[0] = IF hi = lo THEN NULL ELSE hi
               /\ \A c \in Blocks : c \notin (lo + 1)..hi => n.block[c] = m.block[c]
               /\ \A c \in (lo + 1)..hi :
                     /\ n.block[c].next = IF c = lo + 1 THEN NULL ELSE c - 1
                     /\ n.block[c].prev = NULL /\ n.block[c].used = 0
<1> DEFINE n == MoreBlocks(m)
           lo == m.batches * BlockAlloc + 1
           hi == lo + BlockAlloc - 1
           new(c) == [m.block[c] EXCEPT !.next = IF c = lo + 1 THEN NULL ELSE c - 1,
                                        !.prev = NULL, !.used = 0]
           f == [c \in Blocks |-> IF lo < c /\ c <= hi THEN new(c) ELSE m.block[c]]
           g == [m.unfill EXCEPT ![0] = IF hi = lo THEN NULL ELSE hi]
<1>1. /\ lo \in Nat /\ hi \in Nat /\ 1 <= lo /\ lo <= hi
      /\ lo - 1 = m.batches * BlockAlloc
      /\ hi = (m.batches + 1) * BlockAlloc /\ hi <= BlockAlloc * MaxBatches
      /\ m.batches + 1 \in 0..MaxBatches
  <2>1. /\ m.batches \in Nat /\ MaxBatches \in Nat /\ BlockAlloc \in Nat \ {0}
        /\ m.batches + 1 <= MaxBatches
    BY ManagerTypes, ManagerAssumption
  <2>2. /\ m.batches * BlockAlloc \in Nat
        /\ (m.batches + 1) * BlockAlloc = m.batches * BlockAlloc + BlockAlloc
    BY <2>1
  <2>3. (m.batches + 1) * BlockAlloc <= MaxBatches * BlockAlloc
        /\ MaxBatches * BlockAlloc = BlockAlloc * MaxBatches
    BY <2>1
  <2> QED BY <2>1, <2>2, <2>3
<1>2. n = [m EXCEPT !.batches = m.batches + 1, !.unfill = g, !.block = f]
  BY DEF MoreBlocks, Managers
<1>3. lo..hi \subseteq Blocks /\ (hi # lo => hi \in Blocks)
  <2> DEFINE all == BlockAlloc * MaxBatches
  <2>1. all \in Nat /\ Blocks = 1..all /\ hi <= all
    BY <1>1, Addresses
  <2> HIDE DEF all, lo, hi
  <2> QED BY <1>1, <2>1
<1> HIDE DEF lo, hi
<1>4. \A c \in Blocks : lo < c /\ c <= hi =>
          /\ new(c) \in BlockType
          /\ new(c).next = IF c = lo + 1 THEN NULL ELSE c - 1
          /\ new(c).prev = NULL /\ new(c).used = 0
  <2> SUFFICES ASSUME NEW c \in Blocks, lo < c, c <= hi
               PROVE  /\ new(c) \in BlockType
                      /\ new(c).next = IF c = lo + 1 THEN NULL ELSE c - 1
                      /\ new(c).prev = NULL /\ new(c).used = 0
    OBVIOUS
  <2>1. m.block[c] \in BlockType
    BY ManagerTypes
  <2>2. c # lo + 1 => c - 1 \in Blocks
    <3>1. c \in Nat
      BY Addresses
    <3> QED BY <1>1, <1>3, <3>1
  <2> QED BY <2>1, <2>2 DEF BlockType
<1> HIDE DEF new
<1>5. f \in [Blocks -> BlockType]
  BY <1>4, ManagerTypes
<1>6. /\ g \in [Classes \cup {0} -> Blocks \cup {NULL}]
      /\ \A h \in Classes : g[h] = m.unfill[h]
      /\ g[0] = IF hi = lo THEN NULL ELSE hi
  BY <1>3, ManagerTypes, Addresses
<1>7. /\ \A c \in Blocks : c \notin (lo + 1)..hi => f[c] = m.block[c]
      /\ \A c \in (lo + 1)..hi : c \in Blocks /\ f[c] = new(c) /\ lo < c /\ c <= hi
  <2>1. \A c \in Blocks : c \in Nat
    BY Addresses
  <2> QED BY <1>1, <1>3, <2>1
<1> HIDE DEF f, g
<1>8. n \in Managers /\ n.unfill = g /\ n.block = f
      /\ n.batches = m.batches + 1 /\ n.inUse = m.inUse /\ n.size = m.size
      /\ SameLarges(m, n) /\ n.usage = m.usage
  <2> HIDE DEF n
  <2> QED BY <1>1, <1>2, <1>5, <1>6 DEF Managers, SameLarges
<1> HIDE DEF n
<1>9. ReservedOf(m) = 1..(lo - 1) /\ ReservedOf(n) = 1..hi
  BY <1>1, <1>8 DEF ReservedOf
<1>10. \A c \in (lo + 1)..hi :
          /\ n.block[c].next = IF c = lo + 1 THEN NULL ELSE c - 1
          /\ n.block[c].prev = NULL /\ n.block[c].used = 0
  BY <1>4, <1>7, <1>8
<1> QED BY <1>1, <1>3, <1>6, <1>7, <1>8, <1>9, <1>10 DEF n, lo, hi

\* A block as block_malloc hands it to a class.
Fresh(hash) == [next |-> NULL, prev |-> BlockHead, hash |-> hash,
                used |-> 0, unfill |-> Full, maxused |-> 0]

Prepared(n, b, hash) ==
    [n EXCEPT !.unfill[hash] = b, !.block[b] = Fresh(hash),
              !.inUse = [u \in Units |-> u[1] = b \/ n.inUse[u]]]

LEMMA PreparedFields ==
    ASSUME NEW m \in Managers, NEW b \in Blocks, NEW hash \in Classes
    PROVE  LET n == Prepared(m, b, hash)
           IN  /\ n \in Managers
               /\ n.batches = m.batches /\ n.size = m.size
               /\ SameLarges(m, n) /\ n.usage = m.usage
               /\ \A u \in Units : u[1] # b => n.inUse[u] = m.inUse[u]
               /\ \A h \in Classes \cup {0} :
                     n.unfill[h] = IF h = hash THEN b ELSE m.unfill[h]
               /\ n.block[b] = Fresh(hash)
               /\ \A c \in Blocks : c # b => n.block[c] = m.block[c]
<1> DEFINE n == Prepared(m, b, hash)
           f == [m.block EXCEPT ![b] = Fresh(hash)]
           g == [m.unfill EXCEPT ![hash] = b]
           r == [u \in Units |-> u[1] = b \/ m.inUse[u]]
<1>1. n = [m EXCEPT !.unfill = g, !.block = f, !.inUse = r]
  BY DEF Prepared, Managers
<1>2. Fresh(hash) \in BlockType
  BY DEF Fresh, BlockType
<1>3. f \in [Blocks -> BlockType] /\ f[b] = Fresh(hash)
      /\ \A c \in Blocks : c # b => f[c] = m.block[c]
  BY <1>2, ManagerTypes
<1>4. /\ g \in [Classes \cup {0} -> Blocks \cup {NULL}]
      /\ \A h \in Classes \cup {0} : g[h] = IF h = hash THEN b ELSE m.unfill[h]
  BY ManagerTypes
<1>5. r \in [Units -> BOOLEAN] /\ \A u \in Units : u[1] # b => r[u] = m.inUse[u]
  <2>1. \A u \in Units : m.inUse[u] \in BOOLEAN
    BY ManagerTypes
  <2>2. \A u \in Units : r[u] = (u[1] = b \/ m.inUse[u])
    OBVIOUS
  <2>3. \A u \in Units : (u[1] = b \/ m.inUse[u]) \in BOOLEAN
    BY Zenon
  <2>4. r \in [Units -> BOOLEAN]
    BY <2>3
  <2>5. \A u \in Units : u[1] # b => r[u] = m.inUse[u]
    <3> TAKE u \in Units
    <3>1. m.inUse[u] = TRUE \/ m.inUse[u] = FALSE
      BY <2>1
    <3> QED BY <2>2, <3>1, Zenon
  <2> QED BY <2>4, <2>5
<1> HIDE DEF f, g, r
<1>6. n \in Managers /\ n.unfill = g /\ n.block = f /\ n.inUse = r
      /\ n.batches = m.batches /\ n.size = m.size
      /\ SameLarges(m, n) /\ n.usage = m.usage
  <2> HIDE DEF n
  <2> QED BY <1>1, <1>3, <1>4, <1>5 DEF Managers, SameLarges
<1> HIDE DEF n
<1> QED BY <1>3, <1>4, <1>5, <1>6 DEF n
-----------------------------------------------------------------------------
(* What they do to the lists.                                                *)

OfClass(m, L, h) == {c \in L : m.block[c].hash = h}

LEMMA ListsFacts ==
    ASSUME NEW m \in Managers, NEW F, NEW L, ListsInv(m, F, L)
    PROVE  /\ F \subseteq Blocks /\ L \subseteq Blocks /\ F \cap L = {}
           /\ F \subseteq ReservedOf(m) /\ L \subseteq ReservedOf(m)
           /\ IsFiniteSet(F) /\ IsFiniteSet(L)
           /\ \A h : OfClass(m, L, h) \subseteq L /\ IsFiniteSet(OfClass(m, L, h))
           /\ NULL \notin L /\ BlockHead \notin L /\ NULL \notin F
           /\ IsThread(F, m.unfill[0], Nexts(m), NULL)
           /\ \A h \in Classes :
                 IsDoubleThread(OfClass(m, L, h), m.unfill[h], Nexts(m), NULL,
                                Prevs(m), BlockHead)
           /\ \A c \in ReservedOf(m) : m.block[c].prev = NULL <=> c \notin L
           /\ \A c \in Blocks : Nexts(m)[c] = m.block[c].next
                                /\ Prevs(m)[c] = m.block[c].prev
<1>1. F \subseteq Blocks /\ L \subseteq Blocks /\ F \cap L = {}
      /\ F \subseteq ReservedOf(m) /\ L \subseteq ReservedOf(m)
  BY ReservedBlocks DEF ListsInv
<1>2. \A h : OfClass(m, L, h) \subseteq L
  BY DEF OfClass
<1>3. IsFiniteSet(F) /\ IsFiniteSet(L) /\ \A h : IsFiniteSet(OfClass(m, L, h))
  BY <1>1, <1>2, FiniteBlocks
<1>4. NULL \notin L /\ BlockHead \notin L /\ NULL \notin F
  BY <1>1, Addresses
<1>5. \A c \in Blocks : Nexts(m)[c] = m.block[c].next /\ Prevs(m)[c] = m.block[c].prev
  BY DEF Nexts, Prevs
<1> QED BY <1>1, <1>2, <1>3, <1>4, <1>5 DEF ListsInv, OfClass

LEMMA UnlinkedLists ==
    ASSUME NEW m \in Managers, NEW F, NEW L, ListsInv(m, F, L), NEW b \in L,
           m.block[b].hash \in Classes
    PROVE  ListsInv(Unlinked(m, b), F, L \ {b})
<1> DEFINE n == Unlinked(m, b)
           hash == m.block[b].hash
           nx == m.block[b].next
           pv == m.block[b].prev
           S == OfClass(m, L, hash)
<1>1. b \in Blocks /\ b \in S
  BY ListsFacts DEF OfClass
<1>2. /\ n \in Managers /\ SameUnits(m, n)
      /\ \A h \in Classes \cup {0} :
            n.unfill[h] = IF h = hash /\ pv = BlockHead THEN nx ELSE m.unfill[h]
      /\ \A c \in Blocks :
            /\ n.block[c].next = IF c = pv THEN nx ELSE m.block[c].next
            /\ n.block[c].prev = IF c = b THEN NULL
                                 ELSE IF c = nx THEN pv ELSE m.block[c].prev
  BY <1>1, UnlinkedFields
<1>3. ReservedOf(n) = ReservedOf(m)
  BY <1>2 DEF ReservedOf, SameUnits
<1>4. nx \in S \cup {NULL} /\ pv \in S \cup {BlockHead}
  <2>1. Nexts(m)[b] = nx /\ Prevs(m)[b] = pv
    BY <1>1, ListsFacts
  <2>2. IsFiniteSet(S) /\ IsDoubleThread(S, m.unfill[hash], Nexts(m), NULL, Prevs(m), BlockHead)
    BY ListsFacts
  <2> HIDE DEF S
  <2> QED BY <1>1, <2>1, <2>2, DoubleNeighbours
<1>5. \A h : OfClass(n, L \ {b}, h) = OfClass(m, L, h) \ {b}
  BY <1>2, ListsFacts DEF OfClass, SameUnits
<1>6. \A c \in Blocks : Nexts(n)[c] = n.block[c].next /\ Prevs(n)[c] = n.block[c].prev
                        /\ Nexts(m)[c] = m.block[c].next /\ Prevs(m)[c] = m.block[c].prev
  BY DEF Nexts, Prevs
<1> HIDE DEF n
<1>7. IsThread(F, n.unfill[0], Nexts(n), NULL)
  <2>1. n.unfill[0] = m.unfill[0]
    BY <1>2, Addresses
  <2>2. \A c \in F : Nexts(n)[c] = Nexts(m)[c]
    BY <1>2, <1>4, <1>6, ListsFacts, Addresses
  <2> QED BY <2>1, <2>2, ListsFacts, ThreadFrame
<1>8. ASSUME NEW h \in Classes
      PROVE  IsDoubleThread(OfClass(n, L \ {b}, h), n.unfill[h], Nexts(n), NULL,
                            Prevs(n), BlockHead)
  <2> DEFINE T == OfClass(m, L, h)
  <2>1. /\ IsFiniteSet(T) /\ T \subseteq Blocks /\ NULL \notin T /\ BlockHead \notin T
        /\ IsDoubleThread(T, m.unfill[h], Nexts(m), NULL, Prevs(m), BlockHead)
    BY ListsFacts, Addresses
  <2>2. CASE h = hash
    <3>1. T = S
      BY <2>2
    <3>2. n.unfill[h] = IF Prevs(m)[b] = BlockHead THEN Nexts(m)[b] ELSE m.unfill[h]
      BY <1>1, <1>2, <1>6, <2>2
    <3>3. \A c \in T \ {b} :
              /\ Nexts(n)[c] = IF c = Prevs(m)[b] THEN Nexts(m)[b] ELSE Nexts(m)[c]
              /\ Prevs(n)[c] = IF c = Nexts(m)[b] THEN Prevs(m)[b] ELSE Prevs(m)[c]
      BY <1>1, <1>2, <1>6, <2>1
    <3>4. b \in T
      BY <1>1, <3>1
    <3> HIDE DEF T
    <3>5. LinksOut(T, b, m.unfill[h], Nexts(m), Prevs(m), BlockHead,
                   n.unfill[h], Nexts(n), Prevs(n))
      BY <3>2, <3>3 DEF LinksOut
    <3>6. IsDoubleThread(T \ {b}, n.unfill[h], Nexts(n), NULL, Prevs(n), BlockHead)
      BY <2>1, <3>4, <3>5, DoubleRemove
    <3> QED BY <1>5, <3>6 DEF T
  <2>3. CASE h # hash
    <3>1. T \cap S = {} /\ T \ {b} = T
      BY <1>1, <2>3 DEF OfClass
    <3>2. \A c \in T : Nexts(n)[c] = Nexts(m)[c] /\ Prevs(n)[c] = Prevs(m)[c]
      BY <1>1, <1>2, <1>4, <1>6, <2>1, <3>1
    <3>3. n.unfill[h] = m.unfill[h]
      BY <1>2, <2>3
    <3>4. IsDoubleThread(T, n.unfill[h], Nexts(n), NULL, Prevs(n), BlockHead)
      BY <2>1, <3>2, <3>3, DoubleFrame
    <3> QED BY <1>5, <3>1, <3>4
  <2> QED BY <2>2, <2>3
<1>9. ASSUME NEW c \in ReservedOf(n) PROVE n.block[c].prev = NULL <=> c \notin L \ {b}
  <2>1. c \in ReservedOf(m) /\ c \in Blocks
    BY <1>2, <1>3, ReservedBlocks
  <2>2. pv # NULL /\ (c = nx => c \in L)
    BY <1>4, <2>1, ListsFacts, Addresses
  <2> QED BY <1>2, <2>1, <2>2, ListsFacts
<1>10. F \cap (L \ {b}) = {} /\ F \cup (L \ {b}) \subseteq ReservedOf(n)
  BY <1>3, ListsFacts
<1> QED BY <1>7, <1>8, <1>9, <1>10 DEF ListsInv, OfClass, n

LEMMA LinkedLists ==
    ASSUME NEW m \in Managers, NEW F, NEW L, ListsInv(m, F, L), NEW b \in ReservedOf(m),
           b \notin F \cup L, m.block[b].hash \in Classes
    PROVE  ListsInv(Linked(m, b), F, L \cup {b})
<1> DEFINE n == Linked(m, b)
           hash == m.block[b].hash
           old == m.unfill[hash]
           S == OfClass(m, L, hash)
<1>1. b \in Blocks /\ b \notin S
  BY ReservedBlocks DEF OfClass
<1>2. /\ n \in Managers /\ SameUnits(m, n)
      /\ \A h \in Classes \cup {0} : n.unfill[h] = IF h = hash THEN b ELSE m.unfill[h]
      /\ \A c \in Blocks :
            /\ n.block[c].next = IF c = b THEN old ELSE m.block[c].next
            /\ n.block[c].prev = IF c = b THEN BlockHead
                                 ELSE IF c = old THEN b ELSE m.block[c].prev
  BY <1>1, LinkedFields
<1>3. ReservedOf(n) = ReservedOf(m)
  BY <1>2 DEF ReservedOf, SameUnits
<1>4. old \in S \cup {NULL}
  <2>1. IsFiniteSet(S) /\ IsThread(S, m.unfill[hash], Nexts(m), NULL) /\ NULL \notin S
    BY ListsFacts, DoubleIsThread
  <2> HIDE DEF S
  <2> QED BY <2>1, ThreadHead
<1>5. \A h : OfClass(n, L \cup {b}, h) = IF h = hash THEN OfClass(m, L, h) \cup {b}
                                         ELSE OfClass(m, L, h)
  BY <1>1, <1>2, ListsFacts DEF OfClass, SameUnits
<1>6. \A c \in Blocks : Nexts(n)[c] = n.block[c].next /\ Prevs(n)[c] = n.block[c].prev
                        /\ Nexts(m)[c] = m.block[c].next /\ Prevs(m)[c] = m.block[c].prev
  BY DEF Nexts, Prevs
<1> HIDE DEF n
<1>7. IsThread(F, n.unfill[0], Nexts(n), NULL)
  <2>1. n.unfill[0] = m.unfill[0]
    BY <1>2, Addresses
  <2>2. \A c \in F : Nexts(n)[c] = Nexts(m)[c]
    BY <1>2, <1>6, ListsFacts
  <2> QED BY <2>1, <2>2, ListsFacts, ThreadFrame
<1>8. ASSUME NEW h \in Classes
      PROVE  IsDoubleThread(OfClass(n, L \cup {b}, h), n.unfill[h], Nexts(n), NULL,
                            Prevs(n), BlockHead)
  <2> DEFINE T == OfClass(m, L, h)
  <2>1. /\ IsFiniteSet(T) /\ T \subseteq Blocks /\ NULL \notin T /\ BlockHead \notin T
        /\ IsDoubleThread(T, m.unfill[h], Nexts(m), NULL, Prevs(m), BlockHead)
        /\ b \notin T
    <3>1. T \subseteq L /\ L \subseteq Blocks /\ NULL \notin L /\ BlockHead \notin L
      BY ListsFacts
    <3>2. /\ IsFiniteSet(T)
          /\ IsDoubleThread(T, m.unfill[h], Nexts(m), NULL, Prevs(m), BlockHead)
      BY ListsFacts
    <3> QED BY <3>1, <3>2
  <2>2. CASE h = hash
    <3>1. n.unfill[h] = b
      BY <1>2, <2>2
    <3>2. /\ Nexts(n)[b] = m.unfill[h] /\ Prevs(n)[b] = BlockHead
          /\ \A c \in T : /\ Nexts(n)[c] = Nexts(m)[c]
                          /\ Prevs(n)[c] = IF c = m.unfill[h] THEN b ELSE Prevs(m)[c]
      BY <1>1, <1>2, <1>6, <2>1, <2>2
    <3> HIDE DEF T
    <3>3. IsDoubleThread(T \cup {b}, b, Nexts(n), NULL, Prevs(n), BlockHead)
      BY <2>1, <3>2, DoublePush
    <3> QED BY <1>5, <2>2, <3>1, <3>3 DEF T
  <2>3. CASE h # hash
    <3>1. T \cap S = {}
      BY <2>3 DEF OfClass
    <3>2. \A c \in T : Nexts(n)[c] = Nexts(m)[c] /\ Prevs(n)[c] = Prevs(m)[c]
      BY <1>1, <1>2, <1>4, <1>6, <2>1, <3>1
    <3>3. n.unfill[h] = m.unfill[h]
      BY <1>2, <2>3
    <3>4. IsDoubleThread(T, n.unfill[h], Nexts(n), NULL, Prevs(n), BlockHead)
      BY <2>1, <3>2, <3>3, DoubleFrame
    <3> QED BY <1>5, <2>3, <3>4
  <2> QED BY <2>2, <2>3
<1>9. ASSUME NEW c \in ReservedOf(n) PROVE n.block[c].prev = NULL <=> c \notin L \cup {b}
  <2>1. c \in ReservedOf(m) /\ c \in Blocks
    BY <1>2, <1>3, ReservedBlocks
  <2>2. b # NULL /\ BlockHead # NULL /\ (c = old => c \in L)
    BY <1>1, <1>4, <2>1, ListsFacts, Addresses
  <2> QED BY <1>2, <2>1, <2>2, ListsFacts
<1>10. F \cap (L \cup {b}) = {} /\ F \cup (L \cup {b}) \subseteq ReservedOf(n)
  BY <1>3, ListsFacts
<1> QED BY <1>7, <1>8, <1>9, <1>10 DEF ListsInv, OfClass, n

\* A block that serves no class goes to the front of the list of those.
LEMMA EmptiedLists ==
    ASSUME NEW m \in Managers, NEW F, NEW L, ListsInv(m, F, L), NEW b \in ReservedOf(m),
           b \notin F \cup L
    PROVE  ListsInv(Emptied(m, b), F \cup {b}, L)
<1> DEFINE n == Emptied(m, b)
<1>1. b \in Blocks
  BY ReservedBlocks
<1>2. /\ n \in Managers /\ SameUnits(m, n)
      /\ \A h \in Classes \cup {0} : n.unfill[h] = IF h = 0 THEN b ELSE m.unfill[h]
      /\ \A c \in Blocks :
            /\ n.block[c].next = IF c = b THEN m.unfill[0] ELSE m.block[c].next
            /\ n.block[c].prev = m.block[c].prev
  BY <1>1, EmptiedFields
<1>3. ReservedOf(n) = ReservedOf(m)
  BY <1>2 DEF ReservedOf, SameUnits
<1>4. \A h : OfClass(n, L, h) = OfClass(m, L, h)
  BY <1>2, ListsFacts DEF OfClass, SameUnits
<1>5. \A c \in Blocks : Nexts(n)[c] = n.block[c].next /\ Prevs(n)[c] = n.block[c].prev
                        /\ Nexts(m)[c] = m.block[c].next /\ Prevs(m)[c] = m.block[c].prev
  BY DEF Nexts, Prevs
<1> HIDE DEF n
<1>6. IsThread(F \cup {b}, n.unfill[0], Nexts(n), NULL)
  <2>1. n.unfill[0] = b /\ Nexts(n)[b] = m.unfill[0]
    BY <1>1, <1>2, <1>5
  <2>2. \A c \in F : Nexts(n)[c] = Nexts(m)[c]
    BY <1>2, <1>5, ListsFacts
  <2>3. IsFiniteSet(F) /\ IsThread(F, m.unfill[0], Nexts(m), NULL)
    BY ListsFacts
  <2> QED BY <2>1, <2>2, <2>3, ThreadPush
<1>7. ASSUME NEW h \in Classes
      PROVE  IsDoubleThread(OfClass(n, L, h), n.unfill[h], Nexts(n), NULL,
                            Prevs(n), BlockHead)
  <2> DEFINE T == OfClass(m, L, h)
  <2>1. /\ IsFiniteSet(T) /\ T \subseteq Blocks
        /\ IsDoubleThread(T, m.unfill[h], Nexts(m), NULL, Prevs(m), BlockHead)
        /\ b \notin T
    <3>1. T \subseteq L /\ L \subseteq Blocks
      BY ListsFacts
    <3>2. /\ IsFiniteSet(T)
          /\ IsDoubleThread(T, m.unfill[h], Nexts(m), NULL, Prevs(m), BlockHead)
      BY ListsFacts
    <3> QED BY <3>1, <3>2
  <2>2. \A c \in T : Nexts(n)[c] = Nexts(m)[c] /\ Prevs(n)[c] = Prevs(m)[c]
    BY <1>2, <1>5, <2>1
  <2>3. n.unfill[h] = m.unfill[h]
    BY <1>2, Addresses
  <2> QED BY <1>4, <2>1, <2>2, <2>3, DoubleFrame
<1>8. ASSUME NEW c \in ReservedOf(n) PROVE n.block[c].prev = NULL <=> c \notin L
  BY <1>2, <1>3, ListsFacts, ReservedBlocks
<1>9. (F \cup {b}) \cap L = {} /\ (F \cup {b}) \cup L \subseteq ReservedOf(n)
  BY <1>3, ListsFacts
<1> QED BY <1>6, <1>7, <1>8, <1>9 DEF ListsInv, OfClass, n

\* The lists of m, but for what is written in the block b, which is on none.
ListsBut(m, F, L, b) ==
    /\ F \cap L = {} /\ F \cup L \subseteq ReservedOf(m) \ {b}
    /\ IsThread(F, m.unfill[0], Nexts(m), NULL)
    /\ \A h \in Classes :
          IsDoubleThread(OfClass(m, L, h), m.unfill[h], Nexts(m), NULL, Prevs(m), BlockHead)
    /\ \A c \in ReservedOf(m) \ {b} : m.block[c].prev = NULL <=> c \notin L

LEMMA PreparedLists ==
    ASSUME NEW m \in Managers, NEW F, NEW L, NEW b \in ReservedOf(m), NEW hash \in Classes,
           ListsBut(m, F, L, b), m.unfill[hash] = NULL
    PROVE  ListsInv(Prepared(m, b, hash), F, L \cup {b})
<1> DEFINE n == Prepared(m, b, hash)
<1>1. b \in Blocks /\ F \subseteq Blocks /\ L \subseteq Blocks /\ b \notin F /\ b \notin L
  BY ReservedBlocks DEF ListsBut
<1>2. /\ n \in Managers /\ n.batches = m.batches
      /\ \A h \in Classes \cup {0} : n.unfill[h] = IF h = hash THEN b ELSE m.unfill[h]
      /\ n.block[b] = Fresh(hash)
      /\ \A c \in Blocks : c # b => n.block[c] = m.block[c]
  BY <1>1, PreparedFields
<1>3. ReservedOf(n) = ReservedOf(m)
  BY <1>2 DEF ReservedOf
<1>4. /\ n.block[b].next = NULL /\ n.block[b].prev = BlockHead /\ n.block[b].hash = hash
  BY <1>2 DEF Fresh
<1>5. \A c \in Blocks : Nexts(n)[c] = n.block[c].next /\ Prevs(n)[c] = n.block[c].prev
                        /\ Nexts(m)[c] = m.block[c].next /\ Prevs(m)[c] = m.block[c].prev
  BY DEF Nexts, Prevs
<1> HIDE DEF n
<1>6. \A h : OfClass(n, L \cup {b}, h) = IF h = hash THEN OfClass(m, L, h) \cup {b}
                                         ELSE OfClass(m, L, h)
  BY <1>1, <1>2, <1>4 DEF OfClass
<1>7. IsThread(F, n.unfill[0], Nexts(n), NULL)
  <2>1. n.unfill[0] = m.unfill[0]
    BY <1>2, Addresses
  <2>2. \A c \in F : Nexts(n)[c] = Nexts(m)[c]
    BY <1>1, <1>2, <1>5
  <2>3. IsFiniteSet(F) /\ IsThread(F, m.unfill[0], Nexts(m), NULL)
    BY <1>1, FiniteBlocks DEF ListsBut
  <2> QED BY <2>1, <2>2, <2>3, ThreadFrame
<1>8. ASSUME NEW h \in Classes
      PROVE  IsDoubleThread(OfClass(n, L \cup {b}, h), n.unfill[h], Nexts(n), NULL,
                            Prevs(n), BlockHead)
  <2> DEFINE T == OfClass(m, L, h)
  <2>1. T \subseteq Blocks /\ b \notin T /\ IsFiniteSet(T) /\ NULL \notin T
    BY <1>1, FiniteBlocks, Addresses DEF OfClass
  <2>2. IsDoubleThread(T, m.unfill[h], Nexts(m), NULL, Prevs(m), BlockHead)
    BY DEF ListsBut
  <2>3. CASE h = hash
    <3>1. T = {}
      <4>1. IsThread(T, NULL, Nexts(m), NULL)
        BY <2>1, <2>2, <2>3, DoubleIsThread
      <4> HIDE DEF T
      <4> QED BY <2>1, <4>1, ThreadHead
    <3>2. OfClass(n, L \cup {b}, h) = {} \cup {b} /\ n.unfill[h] = b
      BY <1>2, <1>6, <2>3, <3>1
    <3>3. /\ Nexts(n)[b] = NULL /\ Prevs(n)[b] = BlockHead
      BY <1>1, <1>4, <1>5
    <3>4. IsFiniteSet({}) /\ IsDoubleThread({}, NULL, Nexts(n), NULL, Prevs(n), BlockHead)
      BY FS_EmptySet, DoubleEmpty
    <3>5. IsDoubleThread({} \cup {b}, b, Nexts(n), NULL, Prevs(n), BlockHead)
      BY <3>3, <3>4, DoublePush
    <3> QED BY <3>2, <3>5
  <2>4. CASE h # hash
    <3>1. \A c \in T : Nexts(n)[c] = Nexts(m)[c] /\ Prevs(n)[c] = Prevs(m)[c]
      BY <1>2, <1>5, <2>1
    <3>2. n.unfill[h] = m.unfill[h] /\ OfClass(n, L \cup {b}, h) = T
      BY <1>2, <1>6, <2>4
    <3> HIDE DEF T
    <3> QED BY <2>1, <2>2, <3>1, <3>2, DoubleFrame
  <2> QED BY <2>3, <2>4
<1>9. ASSUME NEW c \in ReservedOf(n) PROVE n.block[c].prev = NULL <=> c \notin L \cup {b}
  <2>1. c \in ReservedOf(m) /\ c \in Blocks /\ BlockHead # NULL
    BY <1>3, ReservedBlocks, Addresses
  <2> QED BY <1>1, <1>2, <1>4, <2>1 DEF ListsBut
<1>10. F \cap (L \cup {b}) = {} /\ F \cup (L \cup {b}) \subseteq ReservedOf(n)
  BY <1>1, <1>3 DEF ListsBut
<1> QED BY <1>7, <1>8, <1>9, <1>10 DEF ListsInv, OfClass, n

\* The first empty block is taken from the list of those.
Popped(m) == [m EXCEPT !.unfill[0] = m.block[m.unfill[0]].next]

LEMMA PoppedLists ==
    ASSUME NEW m \in Managers, NEW F, NEW L, ListsInv(m, F, L), m.unfill[0] # NULL
    PROVE  LET n == Popped(m)
               b == m.unfill[0]
           IN  /\ b \in F
               /\ n \in Managers /\ SameLarges(m, n) /\ SameUnits(m, n)
               /\ n.block = m.block /\ n.usage = m.usage
               /\ \A h \in Classes : n.unfill[h] = m.unfill[h]
               /\ ListsBut(n, F \ {b}, L, b)
<1> DEFINE b == m.unfill[0]
           n == Popped(m)
           g == [m.unfill EXCEPT ![0] = m.block[b].next]
<1>1. b \in F
  BY ListsFacts, ThreadHead
<1>2. b \in Blocks
  BY <1>1, ListsFacts
<1>3. /\ g \in [Classes \cup {0} -> Blocks \cup {NULL}]
      /\ g[0] = m.block[b].next
      /\ \A h \in Classes : g[h] = m.unfill[h]
  BY <1>2, ManagerTypes, Addresses
<1>4. n = [m EXCEPT !.unfill = g]
  BY DEF Popped, Managers
<1> HIDE DEF g
<1>5. n \in Managers /\ SameLarges(m, n) /\ n.block = m.block /\ n.usage = m.usage
      /\ n.unfill = g /\ SameUnits(m, n)
  <2> HIDE DEF n
  <2> QED BY <1>3, <1>4 DEF Managers, SameLarges, SameUnits
<1> HIDE DEF n
<1>6. Nexts(n) = Nexts(m) /\ Prevs(n) = Prevs(m) /\ ReservedOf(n) = ReservedOf(m)
      /\ \A h : OfClass(n, L, h) = OfClass(m, L, h)
  BY <1>5 DEF Nexts, Prevs, ReservedOf, SameUnits, OfClass
<1>7. IsThread(F \ {b}, n.unfill[0], Nexts(n), NULL)
  <2>1. Nexts(m)[b] = n.unfill[0]
    BY <1>2, <1>3, <1>5 DEF Nexts
  <2>2. IsFiniteSet(F) /\ IsThread(F, b, Nexts(m), NULL) /\ b # NULL
    BY ListsFacts
  <2> HIDE DEF b
  <2>3. IsThread(F \ {b}, Nexts(m)[b], Nexts(m), NULL)
    BY <2>2, ThreadPop
  <2> QED BY <1>6, <2>1, <2>3
<1>8. \A h \in Classes : IsDoubleThread(OfClass(n, L, h), n.unfill[h], Nexts(n), NULL,
                                        Prevs(n), BlockHead)
  BY <1>3, <1>5, <1>6, ListsFacts
<1>9. \A c \in ReservedOf(n) \ {b} : n.block[c].prev = NULL <=> c \notin L
  BY <1>5, <1>6, ListsFacts
<1>10. (F \ {b}) \cap L = {} /\ (F \ {b}) \cup L \subseteq ReservedOf(n) \ {b}
  BY <1>1, <1>6, ListsFacts
<1> QED BY <1>1, <1>3, <1>5, <1>7, <1>8, <1>9, <1>10 DEF ListsBut, n

LEMMA MoreBlocksLists ==
    ASSUME NEW m \in Managers, NEW F, NEW L, ListsInv(m, F, L),
           m.unfill[0] = NULL, m.batches < MaxBatches
    PROVE  LET n == MoreBlocks(m)
               lo == m.batches * BlockAlloc + 1
               hi == lo + BlockAlloc - 1
           IN  F = {} /\ ListsBut(n, (lo + 1)..hi, L, lo)
<1> DEFINE n == MoreBlocks(m)
           lo == m.batches * BlockAlloc + 1
           hi == lo + BlockAlloc - 1
           G == (lo + 1)..hi
<1>1. /\ n \in Managers
      /\ lo \in Nat /\ hi \in Nat /\ 1 <= lo /\ lo <= hi
      /\ ReservedOf(m) = 1..(lo - 1) /\ ReservedOf(n) = 1..hi
      /\ lo..hi \subseteq Blocks
      /\ \A h \in Classes : n.unfill[h] = m.unfill[h]
      /\ n.unfill[0] = IF hi = lo THEN NULL ELSE hi
      /\ \A c \in Blocks : c \notin G => n.block[c] = m.block[c]
      /\ \A c \in G : /\ n.block[c].next = IF c = lo + 1 THEN NULL ELSE c - 1
                      /\ n.block[c].prev = NULL
  BY MoreBlocksFields
<1> HIDE DEF n, lo, hi
<1>2. F = {}
  BY ListsFacts, ThreadHead
<1>3. \A c \in L : c \in 1..(lo - 1) /\ c \in Blocks /\ c \notin G
  BY <1>1, ListsFacts
<1>4. \A c \in Blocks : Nexts(n)[c] = n.block[c].next /\ Prevs(n)[c] = n.block[c].prev
                        /\ Nexts(m)[c] = m.block[c].next /\ Prevs(m)[c] = m.block[c].prev
  BY DEF Nexts, Prevs
<1>5. IsThread(G, n.unfill[0], Nexts(n), NULL)
  <2> DEFINE k == hi - lo
             s == [i \in 1..k |-> hi + 1 - i]
  <2>1. k \in Nat /\ \A i \in 1..k : hi + 1 - i \in G /\ s[i] = hi + 1 - i
    <3>1. lo \in Nat /\ hi \in Nat /\ lo <= hi
      BY <1>1
    <3> QED BY <3>1
  <2>2. Numbers(s, k, G)
    <3>1. \A x \in G : hi + 1 - x \in 1..k /\ hi + 1 - (hi + 1 - x) = x
      BY <1>1
    <3>2. \A i, j \in 1..k : hi + 1 - i = hi + 1 - j => i = j
      BY <1>1
    <3> QED BY <2>1, <3>1, <3>2 DEF Numbers
  <2>3. Leads(s, k, n.unfill[0], Nexts(n), NULL)
    <3>1. n.unfill[0] = IF k = 0 THEN NULL ELSE s[1]
      <4>1. k = 0 <=> hi = lo
        BY <1>1
      <4>2. k # 0 => 1 \in 1..k /\ hi + 1 - 1 = hi
        BY <1>1
      <4> QED BY <1>1, <4>1, <4>2
    <3>2. ASSUME NEW i \in 1..k PROVE Nexts(n)[s[i]] = IF i = k THEN NULL ELSE s[i + 1]
      <4> DEFINE c == hi + 1 - i
      <4>1. c \in G /\ c \in Blocks /\ s[i] = c
        BY <1>1, <2>1
      <4>2. Nexts(n)[c] = IF c = lo + 1 THEN NULL ELSE c - 1
        BY <1>1, <1>4, <4>1
      <4>3. c = lo + 1 <=> i = k
        <5>1. lo \in Nat /\ hi \in Nat /\ lo <= hi
          BY <1>1
        <5> QED BY <5>1
      <4>4. i # k => i + 1 \in 1..k /\ s[i + 1] = c - 1
        <5>1. lo \in Nat /\ hi \in Nat /\ lo <= hi
          BY <1>1
        <5>2. i # k => i + 1 \in 1..k /\ hi + 1 - (i + 1) = c - 1
          BY <5>1
        <5> HIDE DEF c, k
        <5> QED BY <2>1, <5>2
      <4> QED BY <4>1, <4>2, <4>3, <4>4
    <3> QED BY <3>1, <3>2 DEF Leads
  <2> HIDE DEF k, s
  <2> QED BY <2>1, <2>2, <2>3, ThreadIntro
<1>6. ASSUME NEW h \in Classes
      PROVE  IsDoubleThread(OfClass(n, L, h), n.unfill[h], Nexts(n), NULL,
                            Prevs(n), BlockHead)
  <2>1. OfClass(n, L, h) = OfClass(m, L, h) /\ OfClass(m, L, h) \subseteq L
    BY <1>1, <1>3 DEF OfClass
  <2>2. \A c \in L : Nexts(n)[c] = Nexts(m)[c] /\ Prevs(n)[c] = Prevs(m)[c]
    BY <1>1, <1>3, <1>4
  <2> DEFINE T == OfClass(m, L, h)
  <2>3. IsFiniteSet(T) /\ IsDoubleThread(T, m.unfill[h], Nexts(m), NULL, Prevs(m), BlockHead)
    BY ListsFacts
  <2>4. \A c \in T : Nexts(n)[c] = Nexts(m)[c] /\ Prevs(n)[c] = Prevs(m)[c]
    BY <2>1, <2>2
  <2>5. n.unfill[h] = m.unfill[h]
    BY <1>1
  <2> HIDE DEF T
  <2>6. IsDoubleThread(T, m.unfill[h], Nexts(n), NULL, Prevs(n), BlockHead)
    BY <2>3, <2>4, DoubleFrame
  <2> QED BY <2>1, <2>5, <2>6 DEF T
<1>7. ASSUME NEW c \in ReservedOf(n) \ {lo} PROVE n.block[c].prev = NULL <=> c \notin L
  <2>1. CASE c \in G
    BY <1>1, <1>3, <2>1
  <2>2. CASE c \notin G
    <3>1. c \in ReservedOf(m) /\ c \in Blocks
      BY <1>1, <2>2, ReservedBlocks
    <3> QED BY <1>1, <2>2, <3>1, ListsFacts
  <2> QED BY <2>1, <2>2
<1>8. G \cap L = {} /\ G \cup L \subseteq ReservedOf(n) \ {lo}
  BY <1>1, <1>3
<1> QED BY <1>2, <1>5, <1>6, <1>7, <1>8 DEF ListsBut, n, lo, hi

\* block_malloc: the block it hands to a class served none, and is then the
\* only one on the list of the class.
LEMMA BlockMallocGives ==
    ASSUME NEW m \in Managers, NEW F, NEW L, ListsInv(m, F, L), NEW hash \in Classes,
           m.unfill[hash] = NULL, m.unfill[0] # NULL \/ m.batches < MaxBatches
    PROVE  LET n == BlockMalloc(m, hash)
               b == n.unfill[hash]
           IN  /\ n \in Managers /\ SameLarges(m, n) /\ n.usage = m.usage /\ n.size = m.size
               /\ b \in ReservedOf(n) /\ b \in Blocks /\ n.block[b] = Fresh(hash)
               /\ b \in F \/ b \notin ReservedOf(m)
               /\ ReservedOf(m) \subseteq ReservedOf(n)
               /\ \A u \in Units : u[1] # b => n.inUse[u] = m.inUse[u]
               /\ \A c \in ReservedOf(m) : c # b => n.block[c] = m.block[c]
               /\ \A c \in ReservedOf(n) \ ReservedOf(m) : c # b => n.block[c].used = 0
               /\ ListsInv(n, (F \cup (ReservedOf(n) \ ReservedOf(m))) \ {b}, L \cup {b})
<1> DEFINE n == BlockMalloc(m, hash)
<1>1. CASE m.unfill[0] # NULL
  <2> DEFINE b == m.unfill[0]
             k == Popped(m)
  <2>1. n = Prepared(k, b, hash)
    BY <1>1 DEF BlockMalloc, Popped, Prepared, Fresh
  <2>2. /\ b \in F
        /\ k \in Managers /\ SameLarges(m, k) /\ SameUnits(m, k)
        /\ k.block = m.block /\ k.usage = m.usage
        /\ \A h \in Classes : k.unfill[h] = m.unfill[h]
        /\ ListsBut(k, F \ {b}, L, b)
    BY <1>1, PoppedLists
  <2>3. b \in Blocks /\ b \in ReservedOf(m) /\ ReservedOf(k) = ReservedOf(m)
    BY <2>2, ListsFacts DEF ReservedOf, SameUnits
  <2> HIDE DEF n, b, k
  <2>4. /\ n \in Managers
        /\ n.batches = k.batches /\ n.size = k.size
        /\ SameLarges(k, n) /\ n.usage = k.usage
        /\ \A u \in Units : u[1] # b => n.inUse[u] = k.inUse[u]
        /\ n.unfill[hash] = b
        /\ n.block[b] = Fresh(hash)
        /\ \A c \in Blocks : c # b => n.block[c] = k.block[c]
    BY <2>1, <2>2, <2>3, PreparedFields
  <2>5. ListsInv(n, F \ {b}, L \cup {b})
    BY <2>1, <2>2, <2>3, PreparedLists
  <2>6. ReservedOf(n) = ReservedOf(m)
    BY <2>3, <2>4 DEF ReservedOf
  <2>7. (F \cup (ReservedOf(n) \ ReservedOf(m))) \ {b} = F \ {b}
    BY <2>6
  <2>8. SameLarges(m, n) /\ n.usage = m.usage /\ n.size = m.size
        /\ (\A u \in Units : u[1] # b => n.inUse[u] = m.inUse[u])
        /\ \A c \in Blocks : c # b => n.block[c] = m.block[c]
    BY <2>2, <2>4 DEF SameLarges, SameUnits
  <2> QED BY <2>2, <2>3, <2>4, <2>5, <2>6, <2>7, <2>8, ReservedBlocks DEF n
<1>2. CASE m.unfill[0] = NULL
  <2> DEFINE lo == m.batches * BlockAlloc + 1
             hi == lo + BlockAlloc - 1
             k == MoreBlocks(m)
  <2>1. n = Prepared(k, lo, hash)
    BY <1>2 DEF BlockMalloc, Prepared, Fresh
  <2>2. /\ k \in Managers
        /\ lo \in Nat /\ hi \in Nat /\ 1 <= lo /\ lo <= hi
        /\ ReservedOf(m) = 1..(lo - 1) /\ ReservedOf(k) = 1..hi
        /\ lo..hi \subseteq Blocks
        /\ SameLarges(m, k) /\ k.usage = m.usage
        /\ k.size = m.size /\ k.inUse = m.inUse
        /\ \A h \in Classes : k.unfill[h] = m.unfill[h]
        /\ \A c \in Blocks : c \notin (lo + 1)..hi => k.block[c] = m.block[c]
        /\ \A c \in (lo + 1)..hi : k.block[c].used = 0
    BY <1>2, MoreBlocksFields
  <2>3. F = {} /\ ListsBut(k, (lo + 1)..hi, L, lo)
    BY <1>2, MoreBlocksLists
  <2> HIDE DEF n, lo, hi, k
  <2>4. lo \in Blocks /\ lo \in ReservedOf(k) /\ lo \notin ReservedOf(m)
    BY <2>2
  <2>5. /\ n \in Managers
        /\ n.batches = k.batches /\ n.size = k.size
        /\ SameLarges(k, n) /\ n.usage = k.usage
        /\ \A u \in Units : u[1] # lo => n.inUse[u] = k.inUse[u]
        /\ n.unfill[hash] = lo
        /\ n.block[lo] = Fresh(hash)
        /\ \A c \in Blocks : c # lo => n.block[c] = k.block[c]
    BY <2>1, <2>2, <2>4, PreparedFields
  <2>6. ListsInv(n, (lo + 1)..hi, L \cup {lo})
    <3>1. k.unfill[hash] = NULL
      BY <2>2
    <3> QED BY <2>1, <2>2, <2>3, <2>4, <3>1, PreparedLists
  <2>7. ReservedOf(n) = 1..hi
    BY <2>2, <2>5 DEF ReservedOf
  <2>8. (F \cup (ReservedOf(n) \ ReservedOf(m))) \ {lo} = (lo + 1)..hi
    BY <2>2, <2>3, <2>7
  <2>9. \A c \in ReservedOf(m) : c # lo => n.block[c] = m.block[c]
    <3>1. \A c \in ReservedOf(m) : c \in Blocks /\ c \notin (lo + 1)..hi
      BY <2>2, ReservedBlocks
    <3> QED BY <2>2, <2>5, <3>1
  <2>10. \A c \in ReservedOf(n) \ ReservedOf(m) : c # lo => n.block[c].used = 0
    <3>1. \A c \in ReservedOf(n) \ ReservedOf(m) : c \in Blocks /\ (c # lo => c \in (lo + 1)..hi)
      BY <2>2, <2>7
    <3> QED BY <2>2, <2>5, <3>1
  <2>11. ReservedOf(m) \subseteq ReservedOf(n)
    BY <2>2, <2>7
  <2>12. SameLarges(m, n) /\ n.usage = m.usage /\ n.size = m.size
         /\ \A u \in Units : u[1] # lo => n.inUse[u] = m.inUse[u]
    BY <2>2, <2>5 DEF SameLarges
  <2>13. lo \in ReservedOf(n)
    BY <2>2, <2>7
  <2> QED BY <2>4, <2>5, <2>6, <2>8, <2>9, <2>10, <2>11, <2>12, <2>13 DEF n
<1> QED BY <1>1, <1>2
-----------------------------------------------------------------------------
(* The units of blocks, and the blocks that serve a class.                   *)

LEMMA BlockUnits ==
    ASSUME NEW m \in Managers, NEW l, NEW b \in Blocks, UnitsOfBlock(m, l, b)
    PROVE  LET blk == m.block[b]
           IN  /\ blk.hash \in Classes /\ blk.maxused \in Nat /\ blk.used \in Nat
               /\ UnitCount(blk.hash) \in Nat /\ UnitCount(blk.hash) <= UnitCount(1)
               /\ blk.maxused <= UnitCount(blk.hash) /\ UnitCount(1) \in Nat
               /\ \A i \in 0..(UnitCount(1) - 1) : <<b, i>> \in Units /\ <<b, i>> \in Cells
               /\ 0..(blk.maxused - 1) \subseteq 0..(UnitCount(1) - 1)
               /\ FreeUnitsOf(m, l, b) \subseteq 0..(blk.maxused - 1)
               /\ IsFiniteSet(FreeUnitsOf(m, l, b)) /\ Cardinality(FreeUnitsOf(m, l, b)) \in Nat
               /\ Full \notin FreeUnitsOf(m, l, b) /\ 0..(blk.maxused - 1) \subseteq Nat
<1> DEFINE blk == m.block[b]
<1>1. blk.hash \in Classes /\ blk.maxused \in Nat /\ blk.used \in Nat
      /\ blk.maxused <= UnitCount(blk.hash)
  BY ManagerTypes DEF UnitsOfBlock
<1>2. UnitCount(blk.hash) \in Nat /\ UnitCount(blk.hash) <= UnitCount(1) /\ UnitCount(1) \in Nat
  BY <1>1, ClassSizes, Geometry
<1>3. \A i \in 0..(UnitCount(1) - 1) : <<b, i>> \in Units /\ <<b, i>> \in Cells
  BY DEF Units, Cells
<1>4. FreeUnitsOf(m, l, b) \subseteq 0..(blk.maxused - 1)
  BY DEF FreeUnitsOf
<1>5. IsFiniteSet(0..(blk.maxused - 1))
  <2>1. 0 \in Int /\ blk.maxused - 1 \in Int
    BY <1>1
  <2> HIDE DEF blk
  <2> QED BY <2>1, FS_Interval
<1>6. IsFiniteSet(FreeUnitsOf(m, l, b)) /\ Cardinality(FreeUnitsOf(m, l, b)) \in Nat
  BY <1>4, <1>5, FS_Subset, FS_CardinalityType
<1>7. 0..(blk.maxused - 1) \subseteq 0..(UnitCount(1) - 1) /\ Full \notin 0..(blk.maxused - 1)
      /\ 0..(blk.maxused - 1) \subseteq Nat
  <2> HIDE DEF blk
  <2> QED BY <1>1, <1>2 DEF Full
<1> QED BY <1>1, <1>2, <1>3, <1>4, <1>6, <1>7

\* The units of a block depend on the block alone.
LEMMA UnitsFrame ==
    ASSUME NEW m \in Managers, NEW n \in Managers, NEW l, NEW l2, NEW b \in Blocks,
           UnitsOfBlock(m, l, b),
           n.block[b].hash = m.block[b].hash, n.block[b].used = m.block[b].used,
           n.block[b].unfill = m.block[b].unfill, n.block[b].maxused = m.block[b].maxused,
           \A u \in Units : u[1] = b => /\ n.size[u] = m.size[u] /\ n.inUse[u] = m.inUse[u]
                                        /\ u \in l2 <=> u \in l
    PROVE  UnitsOfBlock(n, l2, b)
<1>1. \A i \in 0..(UnitCount(1) - 1) :
          /\ <<b, i>> \in Units /\ <<b, i>>[1] = b
          /\ n.size[<<b, i>>] = m.size[<<b, i>>] /\ n.inUse[<<b, i>>] = m.inUse[<<b, i>>]
          /\ <<b, i>> \in l2 <=> <<b, i>> \in l
  BY BlockUnits
<1>2. 0..(m.block[b].maxused - 1) \subseteq 0..(UnitCount(1) - 1)
  BY BlockUnits
<1>3. FreeUnitsOf(n, l2, b) = FreeUnitsOf(m, l, b)
  BY <1>1, <1>2 DEF FreeUnitsOf
<1>4. [i \in 0..(UnitCount(1) - 1) |-> m.size[<<b, i>>]]
      = [i \in 0..(UnitCount(1) - 1) |-> n.size[<<b, i>>]]
  BY <1>1
<1> QED BY <1>1, <1>3, <1>4 DEF UnitsOfBlock

\* A block handed to a class has no unit in use and none given back.
LEMMA FreshUnits ==
    ASSUME NEW m \in Managers, NEW l, NEW b \in Blocks, NEW hash \in Classes,
           m.block[b] = Fresh(hash), \A u \in l \cap Units : u[1] # b
    PROVE  UnitsOfBlock(m, l, b)
<1>1. /\ m.block[b].hash = hash /\ m.block[b].used = 0
      /\ m.block[b].unfill = Full /\ m.block[b].maxused = 0
  BY DEF Fresh
<1>2. FreeUnitsOf(m, l, b) = {}
  BY <1>1 DEF FreeUnitsOf
<1>3. Cardinality({}) = 0
  BY FS_EmptySet
<1>4. UnitCount(hash) \in Nat
  BY ClassSizes
<1>5. \A i \in 0..(UnitCount(1) - 1) : <<b, i>> \notin l /\ ~(i < 0)
  BY DEF Units
<1> QED BY <1>1, <1>2, <1>3, <1>4, <1>5, ThreadEmpty DEF UnitsOfBlock

LEMMA LargesFrame ==
    ASSUME NEW m, NEW n, NEW l, NEW l2, LargesInv(m, l), SameLarges(m, n),
           l \cap Larges = l2 \cap Larges
    PROVE  LargesInv(n, l2)
BY DEF LargesInv, SameLarges

\* The block AdrenoMM_Alloc takes a unit from is listed for the class of the
\* size asked for, and has one.
LEMMA WithBlockGives ==
    ASSUME NEW m \in Managers, NEW l, Good(m, l), NEW hash \in Classes,
           UnitCount(hash) \in Nat \ {0}, HasBlock(m, hash)
    PROVE  LET n == WithBlock(m, hash)
               b == n.unfill[hash]
               U == Serving(m) \cup {b}
               L == Giving(m) \cup {b}
           IN  /\ n \in Managers /\ b \in ReservedOf(n) /\ b \in Blocks
               /\ n.size = m.size /\ n.usage = m.usage
               /\ n.block[b].hash = hash
               /\ n.block[b].unfill # Full \/ n.block[b].maxused < UnitCount(hash)
               /\ UnitsInv(n, l, U) /\ ListsInv(n, ReservedOf(n) \ U, L) /\ LargesInv(n, l)
               /\ Serving(n) \cup {b} = U /\ Giving(n) \cup {b} = L
<1> DEFINE n == WithBlock(m, hash)
           b == n.unfill[hash]
<1> USE DEF Good
<1>1. CASE m.unfill[hash] # NULL
  <2> DEFINE S == OfClass(m, Giving(m), hash)
  <2>1. n = m
    BY <1>1 DEF WithBlock
  <2>2. b \in S
    <3>1. /\ IsFiniteSet(S) /\ IsThread(S, m.unfill[hash], Nexts(m), NULL) /\ NULL \notin S
      BY ListsFacts, DoubleIsThread
    <3> HIDE DEF S
    <3> QED BY <1>1, <2>1, <3>1, ThreadHead
  <2>3. b \in Giving(m) /\ m.block[b].hash = hash
    BY <2>2 DEF OfClass
  <2>4. b \in Serving(m) /\ b \in ReservedOf(m) /\ b \in Blocks
        /\ (m.block[b].unfill # Full \/ m.block[b].maxused < UnitCount(hash))
    BY <2>3, ReservedBlocks DEF Giving, Serving
  <2>5. Serving(m) \cup {b} = Serving(m) /\ Giving(m) \cup {b} = Giving(m)
    BY <2>3, <2>4
  <2> HIDE DEF b, n
  <2> QED BY <2>1, <2>3, <2>4, <2>5 DEF b, n
<1>2. CASE m.unfill[hash] = NULL
  <2> DEFINE F == ReservedOf(m) \ Serving(m)
             L == Giving(m)
             R == (F \cup (ReservedOf(n) \ ReservedOf(m))) \ {b}
  <2>1. n = BlockMalloc(m, hash)
    BY <1>2 DEF WithBlock
  <2>2. m.unfill[0] # NULL \/ m.batches < MaxBatches
    BY <1>2 DEF HasBlock
  <2>3. /\ n \in Managers /\ SameLarges(m, n) /\ n.usage = m.usage /\ n.size = m.size
        /\ b \in ReservedOf(n) /\ b \in Blocks /\ n.block[b] = Fresh(hash)
        /\ b \in F \/ b \notin ReservedOf(m)
        /\ ReservedOf(m) \subseteq ReservedOf(n)
        /\ \A u \in Units : u[1] # b => n.inUse[u] = m.inUse[u]
        /\ \A c \in ReservedOf(m) : c # b => n.block[c] = m.block[c]
        /\ \A c \in ReservedOf(n) \ ReservedOf(m) : c # b => n.block[c].used = 0
        /\ ListsInv(n, R, L \cup {b})
    <3> HIDE DEF F, L
    <3>1. ListsInv(m, F, L)
      BY DEF F, L
    <3> QED BY <1>2, <2>1, <2>2, <3>1, BlockMallocGives
  <2> HIDE DEF n, b
  <2>4. Serving(m) \subseteq ReservedOf(m) /\ b \notin Serving(m) /\ ReservedOf(m) \subseteq Blocks
        /\ ReservedOf(n) \subseteq Blocks
    BY <2>3, ReservedBlocks DEF Serving
  <2>5. R = ReservedOf(n) \ (Serving(m) \cup {b})
    BY <2>3, <2>4
  <2>6. \A c \in Serving(m) : n.block[c] = m.block[c] /\ c \in ReservedOf(n) /\ c \in Blocks
    BY <2>3, <2>4
  <2>7. /\ n.block[b].used = 0 /\ n.block[b].hash = hash
        /\ n.block[b].unfill = Full /\ n.block[b].maxused = 0
    BY <2>3 DEF Fresh
  <2>8. Serving(n) = Serving(m)
    BY <2>3, <2>4, <2>6, <2>7 DEF Serving
  <2>9. Giving(n) = Giving(m)
    BY <2>6, <2>8 DEF Giving
  <2>10. \A u \in l \cap Units : u[1] \in Serving(m)
    BY DEF UnitsInv
  <2>11. UnitsOfBlock(n, l, b)
    BY <2>3, <2>4, <2>10, FreshUnits
  <2>12. ASSUME NEW c \in Serving(m) PROVE UnitsOfBlock(n, l, c)
    <3>1. UnitsOfBlock(m, l, c) /\ c # b /\ c \in Blocks
      BY <2>4, <2>6 DEF UnitsInv
    <3>2. \A u \in Units : u[1] = c => n.size[u] = m.size[u] /\ n.inUse[u] = m.inUse[u]
      BY <2>3, <3>1
    <3> QED BY <2>3, <2>6, <3>1, <3>2, UnitsFrame
  <2>13. UnitsInv(n, l, Serving(m) \cup {b})
    BY <2>3, <2>6, <2>10, <2>11, <2>12 DEF UnitsInv
  <2>14. LargesInv(n, l)
    BY <2>3, LargesFrame
  <2>15. ListsInv(n, ReservedOf(n) \ (Serving(m) \cup {b}), Giving(m) \cup {b})
    BY <2>3, <2>5
  <2> QED BY <2>3, <2>7, <2>8, <2>9, <2>13, <2>14, <2>15 DEF n, b
<1> QED BY <1>1, <1>2
-----------------------------------------------------------------------------
(* A unit is taken from a block, and given back.                             *)

LEMMA ManagerRecord ==
    ASSUME NEW m \in Managers
    PROVE  /\ m = [unfill |-> m.unfill, batches |-> m.batches, block |-> m.block,
                   inUse |-> m.inUse, size |-> m.size, large |-> m.large,
                   before |-> m.before, after |-> m.after, usage |-> m.usage]
           /\ \A b \in Blocks : m.block[b] =
                  [next |-> m.block[b].next, prev |-> m.block[b].prev,
                   hash |-> m.block[b].hash, used |-> m.block[b].used,
                   unfill |-> m.block[b].unfill, maxused |-> m.block[b].maxused]
<1>1. \A b \in Blocks : m.block[b] \in BlockType
  BY ManagerTypes
<1>2. \A b \in Blocks : m.block[b] =
                  [next |-> m.block[b].next, prev |-> m.block[b].prev,
                   hash |-> m.block[b].hash, used |-> m.block[b].used,
                   unfill |-> m.block[b].unfill, maxused |-> m.block[b].maxused]
  BY <1>1 DEF BlockType
<1> QED BY <1>2 DEF Managers

\* What Given does to the manager with a block, and the unit of the block.
Taken(n, u, size) ==
    LET b == u[1]
        fresh == n.block[b].unfill = Full
    IN  [n EXCEPT !.usage = @ + size,
                  !.block[b].used = @ + 1,
                  !.block[b].maxused = IF fresh THEN @ + 1 ELSE @,
                  !.block[b].unfill = IF fresh THEN Full ELSE n.size[u],
                  !.inUse[u] = TRUE,
                  !.size[u] = size]

\* g is n after the unit i of the block b was taken.
Takes(n, g, b, i, size) ==
    LET u == <<b, i>>
        fresh == n.block[b].unfill = Full
    IN  /\ SameLists(n, g) /\ SameLarges(n, g)
        /\ g.usage = n.usage + size
        /\ \A c \in Blocks : c # b => g.block[c] = n.block[c]
        /\ g.block[b].used = n.block[b].used + 1
        /\ fresh => /\ g.block[b].maxused = n.block[b].maxused + 1
                    /\ g.block[b].unfill = Full
        /\ ~fresh => /\ g.block[b].maxused = n.block[b].maxused
                     /\ g.block[b].unfill = n.size[u]
        /\ g.inUse[u] = TRUE /\ g.size[u] = size
        /\ \A v \in Units : v # u => g.inUse[v] = n.inUse[v]
        /\ \A v \in Cells : v # u => g.size[v] = n.size[v]

LEMMA TakenFields ==
    ASSUME NEW n \in Managers, NEW b \in Blocks, NEW i, <<b, i>> \in Units, NEW size \in Nat
    PROVE  /\ Taken(n, <<b, i>>, size) \in Managers
           /\ Takes(n, Taken(n, <<b, i>>, size), b, i, size)
<1> DEFINE u == <<b, i>>
           g == Taken(n, u, size)
           fresh == n.block[b].unfill = Full
           blk == n.block[b]
           mx == IF fresh THEN blk.maxused + 1 ELSE blk.maxused
           un == IF fresh THEN Full ELSE n.size[u]
           new == [next |-> blk.next, prev |-> blk.prev, hash |-> blk.hash,
                   used |-> blk.used + 1, unfill |-> un, maxused |-> mx]
           f == [n.block EXCEPT ![b] = new]
           r == [n.inUse EXCEPT ![u] = TRUE]
           z == [n.size EXCEPT ![u] = size]
<1>1. u \in Cells /\ u[1] = b
  BY DEF Cells
<1>2. /\ mx \in Nat /\ un \in Nat \cup {Full}
      /\ fresh => mx = blk.maxused + 1 /\ un = Full
      /\ ~fresh => mx = blk.maxused /\ un = n.size[u]
  BY <1>1, ManagerTypes
<1>3. g = [n EXCEPT !.usage = n.usage + size, !.block = f, !.inUse = r, !.size = z]
  <2>1. g = [n EXCEPT !.usage = @ + size, !.block[b].used = @ + 1,
                      !.block[b].maxused = IF fresh THEN @ + 1 ELSE @,
                      !.block[b].unfill = IF fresh THEN Full ELSE n.size[u],
                      !.inUse[u] = TRUE, !.size[u] = size]
    BY <1>1 DEF Taken
  <2> DEFINE f2 == [n.block EXCEPT ![b].used = @ + 1,
                      ![b].maxused = IF fresh THEN @ + 1 ELSE @,
                      ![b].unfill = IF fresh THEN Full ELSE n.size[u]]
  <2>2. g = [n EXCEPT !.usage = n.usage + size, !.block = f2, !.inUse = r, !.size = z]
    BY <2>1, ManagerRecord
  <2>3. f2 = f
    <3>1. n.block[b] = [next |-> blk.next, prev |-> blk.prev, hash |-> blk.hash,
                        used |-> blk.used, unfill |-> blk.unfill, maxused |-> blk.maxused]
      BY ManagerRecord
    <3>2. n.block \in [Blocks -> BlockType]
      BY ManagerTypes
    <3> QED BY <3>1, <3>2
  <2> QED BY <2>2, <2>3
<1>4. new \in BlockType
  <2> HIDE DEF mx, un
  <2> QED BY <1>2, ManagerTypes DEF BlockType
<1>5. /\ new.next = blk.next /\ new.prev = blk.prev /\ new.hash = blk.hash
      /\ new.used = blk.used + 1 /\ new.unfill = un /\ new.maxused = mx
  OBVIOUS
<1> HIDE DEF new, mx, un
<1>6. f \in [Blocks -> BlockType] /\ f[b] = new /\ \A c \in Blocks : c # b => f[c] = n.block[c]
  BY <1>4, ManagerTypes
<1>7. r \in [Units -> BOOLEAN] /\ r[u] = TRUE /\ \A v \in Units : v # u => r[v] = n.inUse[v]
  BY ManagerTypes
<1>8. z \in [Cells -> Nat \cup {Full}] /\ z[u] = size
      /\ \A v \in Cells : v # u => z[v] = n.size[v]
  BY <1>1, ManagerTypes
<1> HIDE DEF f, r, z
<1>9. n.usage + size \in Int
  BY ManagerTypes
<1>10. g \in Managers /\ g.unfill = n.unfill /\ g.block = f /\ g.inUse = r /\ g.size = z
       /\ g.batches = n.batches /\ SameLarges(n, g) /\ g.usage = n.usage + size
  <2> HIDE DEF g
  <2> QED BY <1>3, <1>6, <1>7, <1>8, <1>9 DEF Managers, SameLarges
<1> HIDE DEF g
<1>11. SameLists(n, g)
  BY <1>5, <1>6, <1>10 DEF SameLists
<1> QED BY <1>2, <1>5, <1>6, <1>7, <1>8, <1>10, <1>11 DEF g, Takes

\* What AdrenoMM_Free does before it looks at the lists.
Untaken(m, u) ==
    [m EXCEPT !.usage = @ - m.size[u],
              !.inUse[u] = FALSE,
              !.block[u[1]].used = @ - 1]

\* g is n after the unit i of the block b was given back, but for the lists.
Untakes(n, g, b, i) ==
    LET u == <<b, i>>
    IN  /\ SameLists(n, g) /\ SameLarges(n, g)
        /\ g.usage = n.usage - n.size[u] /\ g.size = n.size
        /\ \A c \in Blocks : c # b => g.block[c] = n.block[c]
        /\ g.block[b].used = n.block[b].used - 1
        /\ g.block[b].maxused = n.block[b].maxused
        /\ g.block[b].unfill = n.block[b].unfill
        /\ g.inUse[u] = FALSE
        /\ \A v \in Units : v # u => g.inUse[v] = n.inUse[v]

LEMMA UntakenFields ==
    ASSUME NEW n \in Managers, NEW b \in Blocks, NEW i, <<b, i>> \in Units,
           n.block[b].used > 0, n.size[<<b, i>>] \in Nat
    PROVE  /\ Untaken(n, <<b, i>>) \in Managers
           /\ Untakes(n, Untaken(n, <<b, i>>), b, i)
<1> DEFINE u == <<b, i>>
           g == Untaken(n, u)
           blk == n.block[b]
           new == [next |-> blk.next, prev |-> blk.prev, hash |-> blk.hash,
                   used |-> blk.used - 1, unfill |-> blk.unfill, maxused |-> blk.maxused]
           f == [n.block EXCEPT ![b] = new]
           r == [n.inUse EXCEPT ![u] = FALSE]
           x == n.usage - n.size[u]
<1>1. u \in Cells /\ u[1] = b
  BY DEF Cells
<1>2. blk.used - 1 \in Nat
  BY ManagerTypes
<1>3. g = [n EXCEPT !.usage = x, !.block = f, !.inUse = r]
  <2>1. g = [n EXCEPT !.usage = @ - n.size[u], !.inUse[u] = FALSE, !.block[b].used = @ - 1]
    BY <1>1 DEF Untaken
  <2> DEFINE f2 == [n.block EXCEPT ![b].used = @ - 1]
  <2>2. g = [n EXCEPT !.usage = x, !.block = f2, !.inUse = r]
    BY <2>1, ManagerRecord
  <2>3. f2 = f
    <3>1. n.block[b] = [next |-> blk.next, prev |-> blk.prev, hash |-> blk.hash,
                        used |-> blk.used, unfill |-> blk.unfill, maxused |-> blk.maxused]
      BY ManagerRecord
    <3>2. n.block \in [Blocks -> BlockType]
      BY ManagerTypes
    <3> QED BY <3>1, <3>2
  <2> QED BY <2>2, <2>3
<1>4. new \in BlockType
  BY <1>2, ManagerTypes DEF BlockType
<1>5. /\ new.next = blk.next /\ new.prev = blk.prev /\ new.hash = blk.hash
      /\ new.used = blk.used - 1 /\ new.unfill = blk.unfill /\ new.maxused = blk.maxused
  OBVIOUS
<1> HIDE DEF new
<1>6. f \in [Blocks -> BlockType] /\ f[b] = new /\ \A c \in Blocks : c # b => f[c] = n.block[c]
  BY <1>4, ManagerTypes
<1>7. r \in [Units -> BOOLEAN] /\ r[u] = FALSE /\ \A v \in Units : v # u => r[v] = n.inUse[v]
  BY ManagerTypes
<1>8. x \in Int
  BY ManagerTypes
<1> HIDE DEF f, r, x
<1>10. g \in Managers /\ g.unfill = n.unfill /\ g.block = f /\ g.inUse = r /\ g.size = n.size
       /\ g.batches = n.batches /\ SameLarges(n, g) /\ g.usage = x
  <2> HIDE DEF g
  <2> QED BY <1>3, <1>6, <1>7, <1>8 DEF Managers, SameLarges
<1> HIDE DEF g
<1>11. SameLists(n, g)
  BY <1>5, <1>6, <1>10 DEF SameLists
<1> QED BY <1>5, <1>6, <1>7, <1>10, <1>11 DEF g, x, Untakes

\* And when the block is still in use: the unit goes to the front of unit_unfill's list.
Threaded(n, u) ==
    [n EXCEPT !.size[u] = n.block[u[1]].unfill, !.block[u[1]].unfill = u[2]]

PutsBack(n, g, b, i) ==
    LET u == <<b, i>>
    IN  /\ SameLists(n, g) /\ SameLarges(n, g)
        /\ g.usage = n.usage /\ g.inUse = n.inUse
        /\ \A c \in Blocks : c # b => g.block[c] = n.block[c]
        /\ g.block[b].used = n.block[b].used
        /\ g.block[b].maxused = n.block[b].maxused
        /\ g.block[b].unfill = i
        /\ g.size[u] = n.block[b].unfill
        /\ \A v \in Cells : v # u => g.size[v] = n.size[v]

LEMMA ThreadedFields ==
    ASSUME NEW n \in Managers, NEW b \in Blocks, NEW i \in Nat, <<b, i>> \in Units
    PROVE  /\ Threaded(n, <<b, i>>) \in Managers
           /\ PutsBack(n, Threaded(n, <<b, i>>), b, i)
<1> DEFINE u == <<b, i>>
           g == Threaded(n, u)
           blk == n.block[b]
           new == [next |-> blk.next, prev |-> blk.prev, hash |-> blk.hash,
                   used |-> blk.used, unfill |-> i, maxused |-> blk.maxused]
           f == [n.block EXCEPT ![b] = new]
           z == [n.size EXCEPT ![u] = blk.unfill]
<1>1. u \in Cells /\ u[1] = b /\ u[2] = i
  BY DEF Cells
<1>3. g = [n EXCEPT !.size = z, !.block = f]
  <2>1. g = [n EXCEPT !.size[u] = n.block[b].unfill, !.block[b].unfill = i]
    BY <1>1 DEF Threaded
  <2> DEFINE f2 == [n.block EXCEPT ![b].unfill = i]
  <2>2. g = [n EXCEPT !.size = z, !.block = f2]
    BY <2>1, ManagerRecord
  <2>3. f2 = f
    <3>1. n.block[b] = [next |-> blk.next, prev |-> blk.prev, hash |-> blk.hash,
                        used |-> blk.used, unfill |-> blk.unfill, maxused |-> blk.maxused]
      BY ManagerRecord
    <3>2. n.block \in [Blocks -> BlockType]
      BY ManagerTypes
    <3> QED BY <3>1, <3>2
  <2> QED BY <2>2, <2>3
<1>4. new \in BlockType
  BY ManagerTypes DEF BlockType
<1>5. /\ new.next = blk.next /\ new.prev = blk.prev /\ new.hash = blk.hash
      /\ new.used = blk.used /\ new.unfill = i /\ new.maxused = blk.maxused
  OBVIOUS
<1> HIDE DEF new
<1>6. f \in [Blocks -> BlockType] /\ f[b] = new /\ \A c \in Blocks : c # b => f[c] = n.block[c]
  BY <1>4, ManagerTypes
<1>7. z \in [Cells -> Nat \cup {Full}] /\ z[u] = blk.unfill
      /\ \A v \in Cells : v # u => z[v] = n.size[v]
  BY <1>1, ManagerTypes
<1> HIDE DEF f, z
<1>10. g \in Managers /\ g.unfill = n.unfill /\ g.block = f /\ g.inUse = n.inUse /\ g.size = z
       /\ g.batches = n.batches /\ SameLarges(n, g) /\ g.usage = n.usage
  <2> HIDE DEF g
  <2> QED BY <1>3, <1>6, <1>7 DEF Managers, SameLarges
<1> HIDE DEF g
<1>11. SameLists(n, g)
  BY <1>5, <1>6, <1>10 DEF SameLists
<1> QED BY <1>5, <1>6, <1>7, <1>10, <1>11 DEF g, PutsBack

LEMMA ListsFrame ==
    ASSUME NEW m \in Managers, NEW n \in Managers, NEW F, NEW L, ListsInv(m, F, L),
           SameLists(m, n)
    PROVE  ListsInv(n, F, L)
<1>1. Nexts(n) = Nexts(m) /\ Prevs(n) = Prevs(m) /\ ReservedOf(n) = ReservedOf(m)
      /\ n.unfill = m.unfill
  BY DEF SameLists, Nexts, Prevs, ReservedOf
<1>2. \A c \in ReservedOf(m) : n.block[c].prev = m.block[c].prev
                               /\ n.block[c].hash = m.block[c].hash
  BY ReservedBlocks DEF SameLists
<1>3. L \subseteq ReservedOf(m)
  BY ListsFacts
<1>4. \A h : {c \in L : n.block[c].hash = h} = {c \in L : m.block[c].hash = h}
  BY <1>2, <1>3
<1> QED BY <1>1, <1>2, <1>4 DEF ListsInv

LEMMA UnitsInvFrame ==
    ASSUME NEW m \in Managers, NEW n \in Managers, NEW l, NEW U, UnitsInv(m, l, U),
           SameUnits(m, n)
    PROVE  UnitsInv(n, l, U)
<1>1. ReservedOf(n) = ReservedOf(m)
  BY DEF SameUnits, ReservedOf
<1>2. ASSUME NEW b \in U PROVE UnitsOfBlock(n, l, b)
  <2>1. b \in Blocks /\ UnitsOfBlock(m, l, b)
    BY ReservedBlocks DEF UnitsInv
  <2> QED BY <2>1, UnitsFrame DEF SameUnits
<1> QED BY <1>1, <1>2 DEF UnitsInv

\* The index of the unit a block gives next.
FreeIndex(n, b) ==
    IF n.block[b].unfill = Full THEN n.block[b].maxused ELSE n.block[b].unfill

\* The unit taken is one the callers do not hold.
LEMMA TakenUnits ==
    ASSUME NEW n \in Managers, NEW l, NEW U, UnitsInv(n, l, U), NEW b \in U,
           n.block[b].unfill # Full \/ n.block[b].maxused < UnitCount(n.block[b].hash),
           NEW size \in Nat, size <= SizeOf(n.block[b].hash),
           NEW i, i = FreeIndex(n, b)
    PROVE  /\ i \in Nat /\ <<b, i>> \in Units /\ <<b, i>> \notin l /\ b \in Blocks
           /\ UnitsInv(Taken(n, <<b, i>>, size), l \cup {<<b, i>>}, U)
<1> DEFINE u == <<b, i>>
           blk == n.block[b]
           Fr == FreeUnitsOf(n, l, b)
           g == Taken(n, u, size)
           nx == [j \in 0..(UnitCount(1) - 1) |-> n.size[<<b, j>>]]
           nx2 == [j \in 0..(UnitCount(1) - 1) |-> g.size[<<b, j>>]]
<1>1. b \in Blocks /\ UnitsOfBlock(n, l, b)
  BY ReservedBlocks DEF UnitsInv
<1>2. /\ blk.hash \in Classes /\ blk.maxused \in Nat /\ blk.used \in Nat
      /\ UnitCount(blk.hash) \in Nat /\ UnitCount(blk.hash) <= UnitCount(1)
      /\ blk.maxused <= UnitCount(blk.hash) /\ UnitCount(1) \in Nat
      /\ \A j \in 0..(UnitCount(1) - 1) : <<b, j>> \in Units /\ <<b, j>> \in Cells
      /\ 0..(blk.maxused - 1) \subseteq 0..(UnitCount(1) - 1)
      /\ Fr \subseteq 0..(blk.maxused - 1)
      /\ IsFiniteSet(Fr) /\ Cardinality(Fr) \in Nat
      /\ Full \notin Fr /\ 0..(blk.maxused - 1) \subseteq Nat
  BY <1>1, BlockUnits
<1>3. /\ blk.used = blk.maxused - Cardinality(Fr)
      /\ IsThread(Fr, blk.unfill, nx, Full)
      /\ \A j \in 0..(UnitCount(1) - 1) :
            /\ j < blk.maxused => (n.inUse[<<b, j>>] <=> <<b, j>> \in l)
            /\ <<b, j>> \in l => j < blk.maxused /\ n.size[<<b, j>>] \in 0..SizeOf(blk.hash)
  BY <1>1 DEF UnitsOfBlock
<1> HIDE DEF Fr, nx
<1>4. /\ blk.unfill = Full => Fr = {} /\ i = blk.maxused /\ blk.maxused < UnitCount(blk.hash)
      /\ blk.unfill # Full => i = blk.unfill /\ i \in Fr
  BY <1>2, <1>3, ThreadHead DEF FreeIndex
<1>5. i \in Nat /\ i \in 0..(UnitCount(1) - 1) /\ u \in Units /\ u \in Cells
  <2>1. CASE blk.unfill = Full
    <3>1. i \in 0..(UnitCount(1) - 1)
      BY <1>2, <1>4, <2>1
    <3> QED BY <1>2, <3>1
  <2>2. CASE blk.unfill # Full
    <3>1. i \in Nat /\ i \in 0..(UnitCount(1) - 1)
      BY <1>2, <1>4, <2>2
    <3> QED BY <1>2, <3>1
  <2> QED BY <2>1, <2>2
<1>6. u \notin l
  <2>1. CASE blk.unfill = Full
    BY <1>2, <1>3, <1>4, <1>5, <2>1
  <2>2. CASE blk.unfill # Full
    BY <1>4, <2>2 DEF Fr, FreeUnitsOf
  <2> QED BY <2>1, <2>2
<1>7. /\ g \in Managers /\ SameLists(n, g)
      /\ \A c \in Blocks : c # b => g.block[c] = n.block[c]
      /\ g.block[b].used = blk.used + 1
      /\ blk.unfill = Full => g.block[b].maxused = blk.maxused + 1 /\ g.block[b].unfill = Full
      /\ blk.unfill # Full => g.block[b].maxused = blk.maxused /\ g.block[b].unfill = n.size[u]
      /\ g.inUse[u] = TRUE /\ g.size[u] = size
      /\ \A v \in Units : v # u => g.inUse[v] = n.inUse[v]
      /\ \A v \in Cells : v # u => g.size[v] = n.size[v]
  <2>1. b \in Blocks /\ u \in Units
    BY <1>1, <1>5
  <2>2. g \in Managers /\ Takes(n, g, b, i, size)
    BY <2>1, TakenFields
  <2> HIDE DEF g
  <2> QED BY <2>2 DEF Takes
<1>8. g.block[b].hash = blk.hash /\ ReservedOf(g) = ReservedOf(n)
  BY <1>1, <1>7 DEF SameLists, ReservedOf
<1> HIDE DEF g
<1> DEFINE l2 == l \cup {u}
<1>9. \A j : <<b, j>> \in l2 <=> <<b, j>> \in l \/ j = i
  OBVIOUS
<1>10. /\ g.block[b].maxused \in Nat
       /\ \A j \in 0..(UnitCount(1) - 1) :
             j < g.block[b].maxused <=> j < blk.maxused \/ j = i
       /\ g.block[b].maxused <= UnitCount(blk.hash)
  <2>1. CASE blk.unfill = Full
    BY <1>2, <1>4, <1>7, <2>1
  <2>2. CASE blk.unfill # Full
    <3>1. i < blk.maxused
      <4>1. i \in 0..(blk.maxused - 1) /\ blk.maxused \in Nat
        BY <1>2, <1>4, <2>2
      <4> HIDE DEF blk
      <4> QED BY <4>1
    <3> QED BY <1>2, <1>7, <2>2, <3>1
  <2> QED BY <2>1, <2>2
<1>11. FreeUnitsOf(g, l2, b) = Fr \ {i}
  <2>1. FreeUnitsOf(g, l2, b) \subseteq Fr \ {i}
    <3> SUFFICES ASSUME NEW j \in FreeUnitsOf(g, l2, b) PROVE j \in Fr \ {i}
      OBVIOUS
    <3>1. j \in 0..(g.block[b].maxused - 1) /\ <<b, j>> \notin l2
      BY DEF FreeUnitsOf
    <3>2. j \in 0..(UnitCount(1) - 1) /\ j < g.block[b].maxused
      BY <1>2, <1>10, <3>1
    <3>3. j < blk.maxused /\ j # i /\ <<b, j>> \notin l
      BY <1>9, <1>10, <3>1, <3>2
    <3> QED BY <1>2, <3>2, <3>3 DEF Fr, FreeUnitsOf
  <2>2. Fr \ {i} \subseteq FreeUnitsOf(g, l2, b)
    <3> SUFFICES ASSUME NEW j \in Fr \ {i} PROVE j \in FreeUnitsOf(g, l2, b)
      OBVIOUS
    <3>1. j \in 0..(blk.maxused - 1) /\ <<b, j>> \notin l /\ j # i
      BY DEF Fr, FreeUnitsOf
    <3>2. j \in 0..(UnitCount(1) - 1) /\ j < blk.maxused
      BY <1>2, <3>1
    <3>3. j < g.block[b].maxused /\ <<b, j>> \notin l2
      BY <1>9, <1>10, <3>1, <3>2
    <3> QED BY <1>10, <3>2, <3>3 DEF FreeUnitsOf
  <2> QED BY <2>1, <2>2
<1>12. g.block[b].used = g.block[b].maxused - Cardinality(Fr \ {i})
  <2>1. CASE blk.unfill = Full
    <3>1. Fr \ {i} = {} /\ Cardinality(Fr) = 0 /\ Cardinality(Fr \ {i}) = 0
      BY <1>4, <2>1, FS_EmptySet
    <3> QED BY <1>2, <1>3, <1>7, <2>1, <3>1
  <2>2. CASE blk.unfill # Full
    <3>1. Cardinality(Fr \ {i}) = Cardinality(Fr) - 1
      <4>1. i \in Fr /\ IsFiniteSet(Fr)
        BY <1>2, <1>4, <2>2
      <4>2. \A x : Cardinality(Fr \ {x}) =
                   IF x \in Fr THEN Cardinality(Fr) - 1 ELSE Cardinality(Fr)
        BY <4>1, FS_RemoveElement
      <4> QED BY <4>1, <4>2
    <3>2. /\ g.block[b].used = blk.used + 1 /\ g.block[b].maxused = blk.maxused
          /\ blk.used = blk.maxused - Cardinality(Fr)
          /\ Cardinality(Fr) \in Nat /\ blk.maxused \in Nat
      BY <1>2, <1>3, <1>7, <2>2
    <3> QED BY <3>1, <3>2
  <2> QED BY <2>1, <2>2
<1>13. IsThread(Fr \ {i}, g.block[b].unfill, nx2, Full)
  <2>1. CASE blk.unfill = Full
    <3>1. Fr \ {i} = {} /\ g.block[b].unfill = Full
      BY <1>4, <1>7, <2>1
    <3> QED BY <3>1, ThreadEmpty
  <2>2. CASE blk.unfill # Full
    <3>1. IsThread(Fr \ {i}, nx[i], nx, Full) /\ IsFiniteSet(Fr \ {i})
      <4>1. i = blk.unfill /\ i \in Fr /\ IsFiniteSet(Fr) /\ i # Full
        BY <1>2, <1>4, <2>2
      <4>2. IsThread(Fr, i, nx, Full)
        BY <1>3, <4>1
      <4>3. IsThread(Fr \ {i}, nx[i], nx, Full)
        BY <4>1, <4>2, ThreadPop
      <4> QED BY <4>1, <4>3, FS_RemoveElement
    <3>2. nx[i] = g.block[b].unfill
      BY <1>5, <1>7, <2>2 DEF nx
    <3>3. \A j \in Fr \ {i} : nx2[j] = nx[j]
      <4> SUFFICES ASSUME NEW j \in Fr \ {i} PROVE nx2[j] = nx[j]
        OBVIOUS
      <4>1. j \in 0..(UnitCount(1) - 1) /\ <<b, j>> # u /\ <<b, j>> \in Cells
        BY <1>2
      <4> QED BY <1>7, <4>1 DEF nx
    <3> HIDE DEF nx2
    <3> QED BY <3>1, <3>2, <3>3, ThreadFrame
  <2> QED BY <2>1, <2>2
<1>14. ASSUME NEW j \in 0..(UnitCount(1) - 1)
       PROVE  /\ j < g.block[b].maxused => (g.inUse[<<b, j>>] <=> <<b, j>> \in l2)
              /\ <<b, j>> \in l2 => /\ j < g.block[b].maxused
                                    /\ g.size[<<b, j>>] \in 0..SizeOf(g.block[b].hash)
  <2>1. CASE j = i
    <3>1. SizeOf(blk.hash) \in Nat
      BY <1>2, ClassSizes
    <3>2. size \in 0..SizeOf(blk.hash)
      BY <3>1
    <3> QED BY <1>7, <1>8, <1>10, <2>1, <3>2
  <2>2. CASE j # i
    <3>1. <<b, j>> # u /\ <<b, j>> \in Units /\ <<b, j>> \in Cells
      BY <1>2, <2>2
    <3>2. /\ g.inUse[<<b, j>>] = n.inUse[<<b, j>>] /\ g.size[<<b, j>>] = n.size[<<b, j>>]
          /\ j < g.block[b].maxused <=> j < blk.maxused
          /\ <<b, j>> \in l2 <=> <<b, j>> \in l
      BY <1>7, <1>9, <1>10, <2>2, <3>1
    <3> QED BY <1>3, <1>8, <3>2
  <2> QED BY <2>1, <2>2
<1>15. UnitsOfBlock(g, l2, b)
  <2>1. g.block[b].hash \in Classes /\ g.block[b].maxused <= UnitCount(g.block[b].hash)
    BY <1>2, <1>8, <1>10
  <2> HIDE DEF l2
  <2> QED BY <2>1, <1>11, <1>12, <1>13, <1>14 DEF UnitsOfBlock
<1>16. ASSUME NEW c \in U, c # b PROVE UnitsOfBlock(g, l2, c)
  <2>1. c \in Blocks /\ UnitsOfBlock(n, l, c)
    BY ReservedBlocks DEF UnitsInv
  <2>2. \A v \in Units : v[1] = c => v # u /\ v \in Cells
    BY <1>16 DEF Cells
  <2>3. \A v \in Units : v[1] = c => /\ g.size[v] = n.size[v] /\ g.inUse[v] = n.inUse[v]
                                     /\ v \in l2 <=> v \in l
    BY <1>7, <2>2
  <2> HIDE DEF l2
  <2> QED BY <1>7, <1>16, <2>1, <2>3, UnitsFrame
<1>17. UnitsInv(g, l2, U)
  BY <1>8, <1>15, <1>16 DEF UnitsInv
<1> QED BY <1>1, <1>5, <1>6, <1>17 DEF g

\* A unit the callers hold is counted in its block.
LEMMA HeldUnit ==
    ASSUME NEW m \in Managers, NEW l, NEW U, UnitsInv(m, l, U), NEW b, NEW i,
           <<b, i>> \in l, <<b, i>> \in Units
    PROVE  LET blk == m.block[b]
               Fr == FreeUnitsOf(m, l, b)
           IN  /\ b \in U /\ b \in Blocks /\ UnitsOfBlock(m, l, b)
               /\ i \in Nat /\ i \in 0..(UnitCount(1) - 1) /\ i \in 0..(blk.maxused - 1)
               /\ blk.used > 0 /\ m.size[<<b, i>>] \in Nat
               /\ m.size[<<b, i>>] <= SizeOf(blk.hash)
               /\ i \notin Fr
               /\ blk.used = 1 => \A j \in 0..(blk.maxused - 1) : j \in Fr \/ j = i
<1> DEFINE blk == m.block[b]
           Fr == FreeUnitsOf(m, l, b)
<1>1. b \in U /\ b \in Blocks /\ i \in 0..(UnitCount(1) - 1) /\ i \in Nat
  <2>1. <<b, i>>[1] \in U /\ <<b, i>>[1] = b
    BY DEF UnitsInv
  <2> QED BY <2>1 DEF Units
<1>2. UnitsOfBlock(m, l, b)
  BY <1>1 DEF UnitsInv
<1>3. i < blk.maxused /\ m.size[<<b, i>>] \in 0..SizeOf(blk.hash)
      /\ blk.used = blk.maxused - Cardinality(Fr)
  BY <1>1, <1>2 DEF UnitsOfBlock
<1>4. blk.maxused \in Nat /\ blk.used \in Nat /\ blk.hash \in Classes
      /\ Fr \subseteq 0..(blk.maxused - 1)
      /\ IsFiniteSet(Fr) /\ Cardinality(Fr) \in Nat
  BY <1>1, <1>2, BlockUnits
<1>5. SizeOf(blk.hash) \in Nat
  BY <1>4, ClassSizes
<1>6. m.size[<<b, i>>] \in Nat /\ m.size[<<b, i>>] <= SizeOf(blk.hash)
  BY <1>3, <1>5
<1>7. i \notin Fr
  BY DEF FreeUnitsOf
<1> HIDE DEF Fr, blk
<1>8. i \in 0..(blk.maxused - 1)
  BY <1>1, <1>3, <1>4
<1> DEFINE G == Fr \cup {i}
           A == 0..(blk.maxused - 1)
<1>9. IsFiniteSet(A) /\ Cardinality(A) = blk.maxused
  <2>1. 0 \in Int /\ blk.maxused - 1 \in Int
    BY <1>4
  <2>2. IsFiniteSet(A) /\ Cardinality(A) = IF 0 > blk.maxused - 1 THEN 0
                                           ELSE (blk.maxused - 1) - 0 + 1
    BY <2>1, FS_Interval
  <2> QED BY <1>4, <2>2
<1>10. G \subseteq A
  BY <1>4, <1>8
<1>11. Cardinality(G) = Cardinality(Fr) + 1
  <2>1. \A x : Cardinality(Fr \cup {x}) =
                   IF x \in Fr THEN Cardinality(Fr) ELSE Cardinality(Fr) + 1
    BY <1>4, FS_AddElement
  <2> QED BY <1>7, <2>1
<1>12. Cardinality(G) <= Cardinality(A) /\ (Cardinality(A) = Cardinality(G) => A = G)
  <2> HIDE DEF A, G
  <2> QED BY <1>9, <1>10, FS_Subset
<1>13. blk.used > 0
  <2>1. /\ blk.used = blk.maxused - Cardinality(Fr) /\ Cardinality(Fr) \in Nat
        /\ blk.maxused \in Nat /\ Cardinality(Fr) + 1 <= blk.maxused
    <3> HIDE DEF G, A
    <3>1. Cardinality(G) <= Cardinality(A)
      BY <1>12
    <3>2. Cardinality(Fr) + 1 <= blk.maxused
      BY <1>9, <1>11, <3>1
    <3> QED BY <1>3, <1>4, <3>2
  <2> QED BY <2>1
<1>14. blk.used = 1 => A = G
  <2> SUFFICES ASSUME blk.used = 1 PROVE A = G
    OBVIOUS
  <2>1. blk.maxused = Cardinality(Fr) + 1
    BY <1>3, <1>4
  <2> HIDE DEF G, A
  <2> QED BY <1>9, <1>11, <1>12, <2>1
<1>15. blk.used = 1 => \A j \in 0..(blk.maxused - 1) : j \in Fr \/ j = i
  BY <1>14
<1> QED BY <1>1, <1>2, <1>6, <1>7, <1>8, <1>13, <1>15 DEF Fr, blk

\* When the last unit in use is given back, the block serves no class.
LEMMA UntakenLast ==
    ASSUME NEW m \in Managers, NEW l, NEW U, UnitsInv(m, l, U), NEW b, NEW i,
           <<b, i>> \in l, <<b, i>> \in Units, m.block[b].used = 1,
           NEW g \in Managers, Untakes(m, g, b, i)
    PROVE  UnitsInv(g, l \ {<<b, i>>}, U \ {b})
<1> DEFINE u == <<b, i>>
           l2 == l \ {u}
<1>1. ReservedOf(g) = ReservedOf(m)
  BY DEF Untakes, SameLists, ReservedOf
<1>2. \A v \in l2 \cap Units : v[1] \in U /\ v[1] # b
  <2> SUFFICES ASSUME NEW v \in l2 \cap Units, v[1] = b PROVE FALSE
    BY DEF UnitsInv
  <2>1. PICK j \in 0..(UnitCount(1) - 1) : v = <<b, j>>
    BY DEF Units
  <2>2. <<b, j>> \in l /\ <<b, j>> \in Units /\ j # i
    BY <2>1
  <2>3. j \in 0..(m.block[b].maxused - 1) /\ j \notin FreeUnitsOf(m, l, b)
    BY <2>2, HeldUnit
  <2>4. j \in FreeUnitsOf(m, l, b) \/ j = i
    BY <2>3, HeldUnit
  <2> QED BY <2>2, <2>3, <2>4
<1>3. ASSUME NEW c \in U \ {b} PROVE UnitsOfBlock(g, l2, c)
  <2>1. c \in Blocks /\ UnitsOfBlock(m, l, c)
    BY ReservedBlocks DEF UnitsInv
  <2>2. \A v \in Units : v[1] = c => v # u
    OBVIOUS
  <2>3. \A v \in Units : v[1] = c => /\ g.size[v] = m.size[v] /\ g.inUse[v] = m.inUse[v]
                                     /\ v \in l2 <=> v \in l
    BY <2>2 DEF Untakes
  <2>4. g.block[c] = m.block[c]
    BY <2>1 DEF Untakes
  <2> HIDE DEF l2
  <2> QED BY <2>1, <2>3, <2>4, UnitsFrame
<1> QED BY <1>1, <1>2, <1>3 DEF UnitsInv

\* When others are still in use, the unit is put on the list of those given back.
LEMMA UntakenMore ==
    ASSUME NEW m \in Managers, NEW l, NEW U, UnitsInv(m, l, U), NEW b, NEW i,
           <<b, i>> \in l, <<b, i>> \in Units,
           NEW g \in Managers, Untakes(m, g, b, i),
           NEW k \in Managers, SameUnits(g, k),
           NEW t \in Managers, PutsBack(k, t, b, i)
    PROVE  UnitsInv(t, l \ {<<b, i>>}, U)
<1> DEFINE u == <<b, i>>
           l2 == l \ {u}
           blk == m.block[b]
           Fr == FreeUnitsOf(m, l, b)
           nx == [j \in 0..(UnitCount(1) - 1) |-> m.size[<<b, j>>]]
           nx2 == [j \in 0..(UnitCount(1) - 1) |-> t.size[<<b, j>>]]
<1>1. /\ b \in U /\ b \in Blocks /\ UnitsOfBlock(m, l, b)
      /\ i \in Nat /\ i \in 0..(UnitCount(1) - 1) /\ i \in 0..(blk.maxused - 1)
      /\ i \notin Fr
  BY HeldUnit
<1>2. /\ blk.hash \in Classes /\ blk.maxused \in Nat /\ blk.used \in Nat
      /\ blk.maxused <= UnitCount(blk.hash)
      /\ \A j \in 0..(UnitCount(1) - 1) : <<b, j>> \in Units /\ <<b, j>> \in Cells
      /\ 0..(blk.maxused - 1) \subseteq 0..(UnitCount(1) - 1)
      /\ Fr \subseteq 0..(blk.maxused - 1)
      /\ IsFiniteSet(Fr) /\ Cardinality(Fr) \in Nat
  BY <1>1, BlockUnits
<1>3. /\ blk.used = blk.maxused - Cardinality(Fr)
      /\ IsThread(Fr, blk.unfill, nx, Full)
      /\ \A j \in 0..(UnitCount(1) - 1) :
            /\ j < blk.maxused => (m.inUse[<<b, j>>] <=> <<b, j>> \in l)
            /\ <<b, j>> \in l => j < blk.maxused /\ m.size[<<b, j>>] \in 0..SizeOf(blk.hash)
  BY <1>1 DEF UnitsOfBlock
<1>4. ReservedOf(t) = ReservedOf(m)
  BY DEF Untakes, PutsBack, SameUnits, SameLists, ReservedOf
<1>5. /\ t.block[b].hash = blk.hash /\ t.block[b].used = blk.used - 1
      /\ t.block[b].unfill = i /\ t.block[b].maxused = blk.maxused
      /\ t.size[u] = blk.unfill
      /\ t.inUse[u] = FALSE
      /\ \A v \in Units : v # u => t.inUse[v] = m.inUse[v]
      /\ \A v \in Cells : v # u => t.size[v] = m.size[v]
  <2>1. /\ g.block[b].hash = blk.hash /\ g.block[b].used = blk.used - 1
        /\ g.block[b].unfill = blk.unfill /\ g.block[b].maxused = blk.maxused
        /\ g.inUse[u] = FALSE /\ g.size = m.size
        /\ \A v \in Units : v # u => g.inUse[v] = m.inUse[v]
    BY <1>1 DEF Untakes, SameLists
  <2>2. /\ k.block[b].hash = blk.hash /\ k.block[b].used = blk.used - 1
        /\ k.block[b].unfill = blk.unfill /\ k.block[b].maxused = blk.maxused
        /\ k.inUse = g.inUse /\ k.size = g.size
    BY <1>1, <2>1 DEF SameUnits
  <2>3. /\ t.block[b].hash = k.block[b].hash /\ t.block[b].used = k.block[b].used
        /\ t.block[b].unfill = i /\ t.block[b].maxused = k.block[b].maxused
        /\ t.size[u] = k.block[b].unfill /\ t.inUse = k.inUse
        /\ \A v \in Cells : v # u => t.size[v] = k.size[v]
    BY <1>1 DEF PutsBack, SameLists
  <2> QED BY <2>1, <2>2, <2>3
<1>6. ASSUME NEW c \in U, c # b PROVE UnitsOfBlock(t, l2, c)
  <2>1. c \in Blocks /\ UnitsOfBlock(m, l, c)
    BY ReservedBlocks DEF UnitsInv
  <2>2. \A v \in Units : v[1] = c => v # u /\ v \in Cells
    BY <1>6 DEF Cells
  <2>3. \A v \in Units : v[1] = c => /\ t.size[v] = m.size[v] /\ t.inUse[v] = m.inUse[v]
                                     /\ v \in l2 <=> v \in l
    BY <1>5, <2>2
  <2>4. /\ t.block[c].hash = m.block[c].hash /\ t.block[c].used = m.block[c].used
        /\ t.block[c].unfill = m.block[c].unfill /\ t.block[c].maxused = m.block[c].maxused
    BY <1>6, <2>1 DEF Untakes, SameUnits, PutsBack
  <2> HIDE DEF l2
  <2> QED BY <2>1, <2>3, <2>4, UnitsFrame
<1> HIDE DEF blk, Fr, nx
<1>7. \A j : <<b, j>> \in l2 <=> <<b, j>> \in l /\ j # i
  OBVIOUS
<1>8. FreeUnitsOf(t, l2, b) = Fr \cup {i}
  <2>1. \A j : j \in Fr <=> j \in 0..(blk.maxused - 1) /\ <<b, j>> \notin l
    BY DEF Fr, blk, FreeUnitsOf
  <2>2. \A j : j \in FreeUnitsOf(t, l2, b) <=> j \in 0..(blk.maxused - 1) /\ <<b, j>> \notin l2
    BY <1>5 DEF FreeUnitsOf
  <2> QED BY <1>1, <1>7, <2>1, <2>2
<1>9. t.block[b].used = t.block[b].maxused - Cardinality(Fr \cup {i})
  <2>1. \A x : Cardinality(Fr \cup {x}) =
                   IF x \in Fr THEN Cardinality(Fr) ELSE Cardinality(Fr) + 1
    BY <1>2, FS_AddElement
  <2>2. Cardinality(Fr \cup {i}) = Cardinality(Fr) + 1
    BY <1>1, <2>1
  <2>3. t.block[b].used = blk.used - 1 /\ t.block[b].maxused = blk.maxused
    BY <1>5
  <2> QED BY <1>2, <1>3, <2>2, <2>3
<1>10. IsThread(Fr \cup {i}, i, nx2, Full)
  <2>1. nx2[i] = blk.unfill
    BY <1>1, <1>5
  <2>2. \A j \in Fr : nx2[j] = nx[j]
    <3> SUFFICES ASSUME NEW j \in Fr PROVE nx2[j] = nx[j]
      OBVIOUS
    <3>1. j \in 0..(UnitCount(1) - 1) /\ <<b, j>> # u /\ <<b, j>> \in Cells
      BY <1>1, <1>2
    <3> QED BY <1>5, <3>1 DEF nx
  <2> HIDE DEF nx2
  <2> QED BY <1>1, <1>2, <1>3, <2>1, <2>2, ThreadPush
<1>11. ASSUME NEW j \in 0..(UnitCount(1) - 1)
       PROVE  /\ j < t.block[b].maxused => (t.inUse[<<b, j>>] <=> <<b, j>> \in l2)
              /\ <<b, j>> \in l2 => /\ j < t.block[b].maxused
                                    /\ t.size[<<b, j>>] \in 0..SizeOf(t.block[b].hash)
  <2>1. CASE j = i
    BY <1>5, <1>7, <2>1
  <2>2. CASE j # i
    <3>1. <<b, j>> # u /\ <<b, j>> \in Units /\ <<b, j>> \in Cells
      BY <1>2, <2>2
    <3>2. /\ t.inUse[<<b, j>>] = m.inUse[<<b, j>>] /\ t.size[<<b, j>>] = m.size[<<b, j>>]
          /\ <<b, j>> \in l2 <=> <<b, j>> \in l
      BY <1>5, <1>7, <2>2, <3>1
    <3> QED BY <1>3, <1>5, <3>2
  <2> QED BY <2>1, <2>2
<1>12. UnitsOfBlock(t, l2, b)
  <2>1. t.block[b].hash \in Classes /\ t.block[b].maxused <= UnitCount(t.block[b].hash)
        /\ t.block[b].unfill = i
    BY <1>2, <1>5
  <2> HIDE DEF l2
  <2> QED BY <2>1, <1>8, <1>9, <1>10, <1>11 DEF UnitsOfBlock
<1>13. \A v \in l2 \cap Units : v[1] \in U
  BY DEF UnitsInv
<1>14. U \subseteq ReservedOf(t)
  BY <1>4 DEF UnitsInv
<1> HIDE DEF l2
<1>15. UnitsInv(t, l2, U)
  BY <1>6, <1>12, <1>13, <1>14 DEF UnitsInv
<1> QED BY <1>15 DEF l2
-----------------------------------------------------------------------------
(* The list of large cells.                                                  *)

\* n is m with the large cell c at the front of the list.
PutsFirst(m, n, size, c) ==
    /\ n.unfill = m.unfill /\ n.batches = m.batches /\ n.block = m.block
    /\ n.inUse = m.inUse /\ n.usage = m.usage + size
    /\ n.large = c /\ n.size = [m.size EXCEPT ![c] = size]
    /\ n.after = [m.after EXCEPT ![c] = m.large]
    /\ n.before = [d \in Larges |-> IF d = c THEN NULL
                                    ELSE IF d = m.large THEN c ELSE m.before[d]]

LEMMA AllocLargeFields ==
    ASSUME NEW m \in Managers, NEW size \in Nat, NEW c \in Larges
    PROVE  /\ AfterAllocLarge(m, size, c) \in Managers
           /\ PutsFirst(m, AfterAllocLarge(m, size, c), size, c)
<1> DEFINE n == AfterAllocLarge(m, size, c)
           z == [m.size EXCEPT ![c] = size]
           a == [m.after EXCEPT ![c] = m.large]
           p == [d \in Larges |-> IF d = c THEN NULL
                                  ELSE IF d = m.large THEN c ELSE m.before[d]]
           x == m.usage + size
<1>1. /\ z \in [Cells -> Nat \cup {Full}] /\ a \in [Larges -> Larges \cup {NULL}]
      /\ p \in [Larges -> Larges \cup {NULL}] /\ x \in Int
  BY ManagerTypes DEF Cells
<1>2. n = [m EXCEPT !.usage = x, !.before = p, !.after = a, !.size = z, !.large = c]
  BY ManagerRecord DEF AfterAllocLarge
<1> HIDE DEF z, a, p, x
<1>3. /\ n \in Managers
      /\ n.unfill = m.unfill /\ n.batches = m.batches /\ n.block = m.block
      /\ n.inUse = m.inUse /\ n.usage = x /\ n.large = c /\ n.size = z
      /\ n.after = a /\ n.before = p
  <2> HIDE DEF n
  <2> QED BY <1>1, <1>2 DEF Managers
<1> HIDE DEF n
<1> QED BY <1>3 DEF n, z, a, p, x, PutsFirst

LEMMA FreeLargeFields ==
    ASSUME NEW m \in Managers, NEW c \in Larges, m.size[c] \in Nat
    PROVE  LET n == AfterFreeLarge(m, c)
           IN  /\ n \in Managers
               /\ n.unfill = m.unfill /\ n.batches = m.batches /\ n.block = m.block
               /\ n.inUse = m.inUse /\ n.usage = m.usage - m.size[c] /\ n.size = m.size
               /\ n.large = IF m.before[c] = NULL THEN m.after[c] ELSE m.large
               /\ n.after = [d \in Larges |-> IF d = m.before[c] THEN m.after[c]
                                              ELSE m.after[d]]
               /\ n.before = [d \in Larges |-> IF d = m.after[c] THEN m.before[c]
                                               ELSE m.before[d]]
<1> DEFINE n == AfterFreeLarge(m, c)
           h == IF m.before[c] = NULL THEN m.after[c] ELSE m.large
           a == [d \in Larges |-> IF d = m.before[c] THEN m.after[c] ELSE m.after[d]]
           p == [d \in Larges |-> IF d = m.after[c] THEN m.before[c] ELSE m.before[d]]
           x == m.usage - m.size[c]
<1>1. /\ h \in Larges \cup {NULL} /\ a \in [Larges -> Larges \cup {NULL}]
      /\ p \in [Larges -> Larges \cup {NULL}] /\ x \in Int
  BY ManagerTypes
<1>2. n = [m EXCEPT !.usage = x, !.large = h, !.after = a, !.before = p]
  BY ManagerRecord DEF AfterFreeLarge
<1> HIDE DEF h, a, p, x
<1>3. /\ n \in Managers
      /\ n.unfill = m.unfill /\ n.batches = m.batches /\ n.block = m.block
      /\ n.inUse = m.inUse /\ n.usage = x /\ n.large = h /\ n.size = m.size
      /\ n.after = a /\ n.before = p
  <2> HIDE DEF n
  <2> QED BY <1>1, <1>2 DEF Managers
<1> HIDE DEF n
<1> QED BY <1>3 DEF n, h, a, p, x

LEMMA FiniteLarges == \A l : IsFiniteSet(l \cap Larges) /\ NULL \notin l \cap Larges
<1>1. \A S \in SUBSET Larges : IsFiniteSet(S)
  BY Addresses, FS_Subset
<1> QED BY <1>1, Addresses

\* Callers' cells that are no units do not matter to blocks, and the reverse.
LEMMA UnitsInvOther ==
    ASSUME NEW m \in Managers, NEW n \in Managers, NEW l, NEW l2, NEW U, UnitsInv(m, l, U),
           n.batches = m.batches, n.block = m.block, n.inUse = m.inUse,
           \A u \in Units : n.size[u] = m.size[u], l2 \cap Units = l \cap Units
    PROVE  UnitsInv(n, l2, U)
<1>1. ReservedOf(n) = ReservedOf(m)
  BY DEF ReservedOf
<1>2. ASSUME NEW b \in U PROVE UnitsOfBlock(n, l2, b)
  <2>1. b \in Blocks /\ UnitsOfBlock(m, l, b)
    BY ReservedBlocks DEF UnitsInv
  <2>2. \A u \in Units : u[1] = b => /\ n.size[u] = m.size[u] /\ n.inUse[u] = m.inUse[u]
                                     /\ u \in l2 <=> u \in l
    OBVIOUS
  <2> QED BY <2>1, <2>2, UnitsFrame
<1> QED BY <1>1, <1>2 DEF UnitsInv

LEMMA SameBlocksGood ==
    ASSUME NEW m \in Managers, NEW n \in Managers, NEW l, NEW l2, Good(m, l),
           n.unfill = m.unfill, n.batches = m.batches, n.block = m.block, n.inUse = m.inUse,
           \A u \in Units : n.size[u] = m.size[u], l2 \cap Units = l \cap Units,
           LargesInv(n, l2)
    PROVE  Good(n, l2)
<1>1. ReservedOf(n) = ReservedOf(m) /\ Serving(n) = Serving(m) /\ Giving(n) = Giving(m)
  BY DEF ReservedOf, Serving, Giving
<1>2. ListsInv(n, ReservedOf(m) \ Serving(m), Giving(m))
  BY ListsFrame DEF SameLists, Good
<1>3. UnitsInv(n, l2, Serving(m))
  BY UnitsInvOther DEF Good
<1> QED BY <1>1, <1>2, <1>3 DEF Good

LEMMA AllocLargeGood ==
    ASSUME NEW m \in Managers, NEW l, Good(m, l), NEW size \in Nat, NEW c \in Larges, c \notin l
    PROVE  /\ AfterAllocLarge(m, size, c) \in Managers
           /\ Good(AfterAllocLarge(m, size, c), l \cup {c})
<1> DEFINE n == AfterAllocLarge(m, size, c)
           S == l \cap Larges
<1>1. /\ n \in Managers
      /\ n.unfill = m.unfill /\ n.batches = m.batches /\ n.block = m.block
      /\ n.inUse = m.inUse
      /\ n.large = c /\ n.size = [m.size EXCEPT ![c] = size]
      /\ n.after = [m.after EXCEPT ![c] = m.large]
      /\ n.before = [d \in Larges |-> IF d = c THEN NULL
                                      ELSE IF d = m.large THEN c ELSE m.before[d]]
  <2>1. n \in Managers /\ PutsFirst(m, n, size, c)
    BY AllocLargeFields
  <2> HIDE DEF n
  <2> QED BY <2>1 DEF PutsFirst
<1> HIDE DEF n
<1>2. c \notin Units
  BY Addresses
<1>3. \A u \in Units : n.size[u] = m.size[u]
  BY <1>1, <1>2, ManagerTypes DEF Cells
<1>4. (l \cup {c}) \cap Units = l \cap Units /\ (l \cup {c}) \cap Larges = S \cup {c}
  BY <1>2
<1>5. IsDoubleThread(S, m.large, m.after, NULL, m.before, NULL)
  BY DEF Good, LargesInv
<1>6. IsFiniteSet(S) /\ NULL \notin S /\ c \notin S
  BY FiniteLarges
<1>7. /\ n.after[c] = m.large /\ \A d \in S : n.after[d] = m.after[d]
      /\ n.before[c] = NULL
      /\ \A d \in S : n.before[d] = IF d = m.large THEN c ELSE m.before[d]
  BY <1>1, <1>6, ManagerTypes
<1> HIDE DEF S
<1>8. IsDoubleThread(S \cup {c}, c, n.after, NULL, n.before, NULL)
  <2> DEFINE next == m.after
             prev == m.before
             next2 == n.after
             prev2 == n.before
             head == m.large
  <2>1. /\ IsFiniteSet(S) /\ NULL \notin S /\ c \notin S
        /\ IsDoubleThread(S, head, next, NULL, prev, NULL)
        /\ next2[c] = head /\ prev2[c] = NULL
    BY <1>5, <1>6, <1>7
  <2>2. \A d \in S : next2[d] = next[d]
    BY <1>7
  <2>3. \A d \in S : prev2[d] = IF d = head THEN c ELSE prev[d]
    BY <1>7
  <2> HIDE DEF next, prev, next2, prev2, head
  <2>4. IsDoubleThread(S \cup {c}, c, next2, NULL, prev2, NULL)
    BY <2>1, <2>2, <2>3, DoublePush
  <2> QED BY <2>4 DEF next2, prev2
<1>9. LargesInv(n, l \cup {c})
  BY <1>1, <1>4, <1>8 DEF LargesInv
<1>10. Good(n, l \cup {c})
  BY <1>1, <1>3, <1>4, <1>9, SameBlocksGood
<1> QED BY <1>1, <1>10 DEF n

LEMMA FreeLargeGood ==
    ASSUME NEW m \in Managers, NEW l, Good(m, l), NEW c \in Larges, c \in l, m.size[c] \in Nat
    PROVE  /\ AfterFreeLarge(m, c) \in Managers
           /\ Good(AfterFreeLarge(m, c), l \ {c})
<1> DEFINE n == AfterFreeLarge(m, c)
           S == l \cap Larges
<1>1. /\ n \in Managers
      /\ n.unfill = m.unfill /\ n.batches = m.batches /\ n.block = m.block
      /\ n.inUse = m.inUse /\ n.size = m.size
      /\ n.large = IF m.before[c] = NULL THEN m.after[c] ELSE m.large
      /\ n.after = [d \in Larges |-> IF d = m.before[c] THEN m.after[c] ELSE m.after[d]]
      /\ n.before = [d \in Larges |-> IF d = m.after[c] THEN m.before[c] ELSE m.before[d]]
  BY FreeLargeFields
<1> HIDE DEF n
<1>2. c \notin Units
  BY Addresses
<1>3. \A u \in Units : n.size[u] = m.size[u]
  BY <1>1
<1>4. (l \ {c}) \cap Units = l \cap Units /\ (l \ {c}) \cap Larges = S \ {c}
  BY <1>2
<1>5. IsDoubleThread(S, m.large, m.after, NULL, m.before, NULL)
  BY DEF Good, LargesInv
<1>6. IsFiniteSet(S) /\ NULL \notin S /\ c \in S
  BY FiniteLarges
<1>7. LinksOut(S, c, m.large, m.after, m.before, NULL, n.large, n.after, n.before)
  BY <1>1 DEF LinksOut
<1> HIDE DEF S
<1>8. IsDoubleThread(S \ {c}, n.large, n.after, NULL, n.before, NULL)
  BY <1>5, <1>6, <1>7, DoubleRemove
<1>9. LargesInv(n, l \ {c})
  BY <1>4, <1>8 DEF LargesInv
<1>10. Good(n, l \ {c})
  BY <1>1, <1>3, <1>4, <1>9, SameBlocksGood
<1> QED BY <1>1, <1>10 DEF n
-----------------------------------------------------------------------------
(* Alloc and Free of a unit preserve the invariant.                          *)

\* What an allocation does to the sizes and to the count of bytes.
Grows(m, n, c, size) ==
    /\ n.usage = m.usage + size
    /\ n.size[c] = size
    /\ \A v \in Cells : v # c => n.size[v] = m.size[v]

LEMMA AllocUnitGood ==
    ASSUME NEW m \in Managers, NEW l, Good(m, l), NEW size \in Nat \ {0}, ~IsLarge(size),
           HasBlock(m, Hash(size))
    PROVE  LET u == UnitOf(m, size)
           IN  /\ u \in Units /\ u \notin l
               /\ AfterAlloc(m, size) \in Managers
               /\ Good(AfterAlloc(m, size), l \cup {u})
               /\ Grows(m, AfterAlloc(m, size), u, size)
<1> DEFINE hash == Hash(size)
           n == WithBlock(m, hash)
           b == n.unfill[hash]
           i == FreeIndex(n, b)
           u == <<b, i>>
           g == Taken(n, u, size)
           U == Serving(m) \cup {b}
           L == Giving(m) \cup {b}
           l2 == l \cup {u}
           t == AfterAlloc(m, size)
<1>1. hash \in Classes /\ size <= SizeOf(hash) /\ UnitCount(hash) \in Nat \ {0}
  BY SmallSizes
<1>2. UnitOf(m, size) = u
  BY DEF UnitOf, FreeIndex
<1>3. Given(m, size) = g
  BY <1>2 DEF Given, Taken
<1>4. t = IF g.block[b].unfill = Full /\ g.block[b].maxused >= UnitCount(g.block[b].hash)
          THEN Unlinked(g, b) ELSE g
  BY <1>2, <1>3 DEF AfterAlloc
<1> HIDE DEF hash
<1>5. /\ n \in Managers /\ b \in ReservedOf(n) /\ b \in Blocks
      /\ n.size = m.size /\ n.usage = m.usage
      /\ n.block[b].hash = hash
      /\ n.block[b].unfill # Full \/ n.block[b].maxused < UnitCount(hash)
      /\ UnitsInv(n, l, U) /\ ListsInv(n, ReservedOf(n) \ U, L) /\ LargesInv(n, l)
      /\ Serving(n) \cup {b} = U /\ Giving(n) \cup {b} = L
  <2>1. HasBlock(m, hash)
    BY DEF hash
  <2> QED BY <1>1, <2>1, WithBlockGives
<1> HIDE DEF n, b, t
<1>6. b \in U /\ b \in L
  OBVIOUS
<1>7. /\ i \in Nat /\ u \in Units /\ u \notin l
      /\ UnitsInv(g, l2, U)
  <2>1. /\ UnitsInv(n, l, U) /\ b \in U /\ size \in Nat /\ size <= SizeOf(n.block[b].hash)
        /\ n.block[b].unfill # Full \/ n.block[b].maxused < UnitCount(n.block[b].hash)
    BY <1>1, <1>5
  <2> HIDE DEF i, U
  <2>2. i = FreeIndex(n, b)
    BY DEF i
  <2> QED BY <1>5, <2>1, <2>2, TakenUnits
<1>8. g \in Managers /\ Takes(n, g, b, i, size)
  <2> HIDE DEF i
  <2> QED BY <1>5, <1>7, TakenFields
<1> HIDE DEF g, i, U, L, l2
<1>9. /\ SameLists(n, g) /\ SameLarges(n, g)
      /\ \A c \in Blocks : c # b => g.block[c] = n.block[c]
      /\ g.block[b].used = n.block[b].used + 1
      /\ g.block[b].hash = hash
      /\ g.usage = n.usage + size /\ g.size[u] = size
      /\ \A v \in Cells : v # u => g.size[v] = n.size[v]
  BY <1>5, <1>8 DEF Takes, SameLists
<1>10. ReservedOf(g) = ReservedOf(n)
  BY <1>9 DEF SameLists, ReservedOf
<1>11. ReservedOf(n) \subseteq Blocks
  BY <1>5, ReservedBlocks
<1>12. Serving(g) = U
  <2>1. g.block[b].used > 0
    BY <1>5, <1>9, ManagerTypes
  <2>2. \A c \in ReservedOf(n) : c # b => (c \in Serving(g) <=> c \in Serving(n))
    BY <1>9, <1>10, <1>11 DEF Serving
  <2>3. Serving(g) \subseteq ReservedOf(n) /\ Serving(n) \subseteq ReservedOf(n) /\ b \in Serving(g)
    BY <1>5, <1>10, <2>1 DEF Serving
  <2> QED BY <1>5, <2>2, <2>3
<1>13. Giving(g) \cup {b} = L
  <2>1. \A c \in ReservedOf(n) : c # b => (c \in Serving(g) <=> c \in Serving(n))
    BY <1>9, <1>10, <1>11 DEF Serving
  <2>2. Giving(g) \subseteq ReservedOf(n) /\ Giving(n) \subseteq ReservedOf(n)
    BY <1>10 DEF Giving, Serving
  <2>3. \A c \in ReservedOf(n) : c # b => (c \in Giving(g) <=> c \in Giving(n))
    BY <1>9, <1>11, <2>1 DEF Giving
  <2> QED BY <1>5, <2>2, <2>3
<1>14. ListsInv(g, ReservedOf(n) \ U, L)
  BY <1>5, <1>8, <1>9, ListsFrame
<1>15. l2 \cap Larges = l \cap Larges
  BY <1>7, Addresses DEF l2
<1>16. LargesInv(g, l2)
  BY <1>5, <1>9, <1>15, LargesFrame
<1>17. CASE g.block[b].unfill = Full /\ g.block[b].maxused >= UnitCount(g.block[b].hash)
  <2>1. t = Unlinked(g, b)
    BY <1>4, <1>17
  <2>2. t \in Managers /\ SameUnits(g, t) /\ SameLarges(g, t) /\ t.usage = g.usage
    BY <1>5, <1>8, <2>1, UnlinkedFields
  <2>3. ListsInv(t, ReservedOf(n) \ U, L \ {b})
    BY <1>1, <1>6, <1>8, <1>9, <1>14, <2>1, UnlinkedLists
  <2>4. UnitsInv(t, l2, U)
    BY <1>7, <1>8, <2>2, UnitsInvFrame
  <2>5. ReservedOf(t) = ReservedOf(n) /\ Serving(t) = U
    BY <1>10, <1>11, <1>12, <2>2 DEF SameUnits, ReservedOf, Serving
  <2>6. Giving(t) = Giving(g)
    <3>1. \A c \in U : c \in Blocks
      BY <1>11, <2>5 DEF Serving
    <3> QED BY <1>12, <2>2, <2>5, <3>1 DEF Giving, SameUnits
  <2>7. b \notin Giving(g)
    <3>1. UnitCount(hash) \in Nat /\ g.block[b].maxused \in Nat
      BY <1>1, <1>5, <1>8, ManagerTypes
    <3>2. ~(g.block[b].maxused < UnitCount(hash))
      BY <1>9, <1>17, <3>1
    <3> QED BY <1>9, <1>17, <3>2 DEF Giving
  <2>8. Giving(t) = L \ {b}
    BY <1>13, <2>6, <2>7
  <2>9. LargesInv(t, l2)
    BY <1>16, <2>2, LargesFrame
  <2>10. t.size = g.size
    BY <2>2 DEF SameUnits
  <2>11. Grows(m, t, u, size)
    BY <1>5, <1>9, <2>2, <2>10 DEF Grows
  <2> QED BY <1>2, <1>7, <2>2, <2>3, <2>4, <2>5, <2>8, <2>9, <2>11 DEF Good, l2, t
<1>18. CASE ~(g.block[b].unfill = Full /\ g.block[b].maxused >= UnitCount(g.block[b].hash))
  <2>1. t = g
    BY <1>4, <1>18
  <2>2. b \in Giving(g)
    <3>1. UnitCount(hash) \in Nat /\ g.block[b].maxused \in Nat
      BY <1>1, <1>5, <1>8, ManagerTypes
    <3>2. g.block[b].unfill # Full \/ g.block[b].maxused < UnitCount(hash)
      BY <1>9, <1>18, <3>1
    <3> QED BY <1>6, <1>9, <1>12, <3>2 DEF Giving
  <2>3. Giving(g) = L
    BY <1>13, <2>2
  <2>4. Grows(m, g, u, size)
    BY <1>5, <1>9 DEF Grows
  <2> QED BY <1>2, <1>7, <1>8, <1>10, <1>12, <1>14, <1>16, <2>1, <2>3, <2>4 DEF Good, l2, t
<1> QED BY <1>17, <1>18

Shrinks(m, n, c) ==
    /\ n.usage = m.usage - m.size[c]
    /\ \A v \in Cells : v # c => n.size[v] = m.size[v]

LEMMA FreeUnitGood ==
    ASSUME NEW m \in Managers, NEW l, Good(m, l), NEW u \in Units, u \in l
    PROVE  /\ AfterFree(m, u) \in Managers
           /\ Good(AfterFree(m, u), l \ {u})
           /\ Shrinks(m, AfterFree(m, u), u)
<1>1. PICK b \in Blocks, i \in 0..(UnitCount(1) - 1) : u = <<b, i>>
  BY DEF Units
<1> DEFINE g == Untaken(m, u)
           k == IF g.block[b].used > 0 /\ g.block[b].prev = NULL THEN Linked(g, b) ELSE g
           U == Serving(m)
           L == Giving(m)
           F == ReservedOf(m) \ U
           l2 == l \ {u}
           t == AfterFree(m, u)
<1>2. u[1] = b /\ u[2] = i /\ <<b, i>> \in l /\ <<b, i>> \in Units
  BY <1>1
<1>3. UnitsInv(m, l, U) /\ ListsInv(m, F, L) /\ LargesInv(m, l)
  BY DEF Good
<1>4. /\ b \in U /\ UnitsOfBlock(m, l, b) /\ i \in Nat
      /\ m.block[b].used > 0 /\ m.size[u] \in Nat /\ m.block[b].used \in Nat
  <2> HIDE DEF U
  <2> QED BY <1>1, <1>2, <1>3, HeldUnit, ManagerTypes
<1>5. Returned(m, u) = k
  BY <1>2 DEF Returned, Untaken
<1>6. t = IF k.block[b].used = 0 THEN BlockFree(k, b) ELSE Threaded(k, u)
  BY <1>2, <1>5 DEF AfterFree, Threaded
<1> HIDE DEF t, k
<1>7. g \in Managers /\ Untakes(m, g, b, i)
  BY <1>1, <1>2, <1>4, UntakenFields
<1>8. k = IF g.block[b].used > 0 /\ g.block[b].prev = NULL THEN Linked(g, b) ELSE g
  BY DEF k
<1> HIDE DEF g, U, L, l2
<1>9. /\ SameLists(m, g) /\ SameLarges(m, g)
      /\ g.usage = m.usage - m.size[u] /\ g.size = m.size
      /\ \A c \in Blocks : c # b => g.block[c] = m.block[c]
      /\ g.block[b].used = m.block[b].used - 1
      /\ g.block[b].maxused = m.block[b].maxused
      /\ g.block[b].hash = m.block[b].hash
      /\ g.block[b].prev = m.block[b].prev
  BY <1>1, <1>2, <1>7 DEF Untakes, SameLists
<1>10. ReservedOf(g) = ReservedOf(m) /\ ReservedOf(m) \subseteq Blocks /\ b \in ReservedOf(m)
  BY <1>3, <1>4, <1>9, ReservedBlocks DEF SameLists, ReservedOf, UnitsInv
<1>11. ListsInv(g, F, L)
  BY <1>3, <1>7, <1>9, ListsFrame
<1>12. g.block[b].prev = NULL <=> b \notin L
  BY <1>3, <1>9, <1>10, ListsFacts
<1>13. g.block[b].hash \in Classes
  BY <1>4, <1>9 DEF UnitsOfBlock
<1>14. l2 \cap Larges = l \cap Larges
  BY Addresses DEF l2
<1>15. U = {c \in ReservedOf(m) : m.block[c].used > 0}
  BY DEF U, Serving
<1>16. L = {c \in U : \/ m.block[c].unfill # Full
                      \/ m.block[c].maxused < UnitCount(m.block[c].hash)}
  BY DEF L, U, Giving
<1>17. CASE m.block[b].used = 1
  <2> DEFINE k1 == IF g.block[b].prev # NULL THEN Unlinked(g, b) ELSE g
  <2>1. g.block[b].used = 0
    BY <1>9, <1>17
  <2>2. k = g /\ t = Emptied(k1, b)
    <3>1. k = g
      BY <1>8, <2>1
    <3>2. t = BlockFree(g, b)
      BY <1>6, <2>1, <3>1
    <3> QED BY <3>1, <3>2 DEF BlockFree, Emptied
  <2>3. /\ k1 \in Managers /\ SameUnits(g, k1) /\ SameLarges(g, k1) /\ k1.usage = g.usage
        /\ ListsInv(k1, F, L \ {b})
    <3>1. CASE g.block[b].prev # NULL
      <4>1. b \in L /\ k1 = Unlinked(g, b)
        BY <1>12, <3>1
      <4> HIDE DEF k1
      <4> QED BY <1>1, <1>7, <1>11, <1>13, <4>1, UnlinkedFields, UnlinkedLists
    <3>2. CASE g.block[b].prev = NULL
      <4>1. L \ {b} = L /\ k1 = g
        BY <1>12, <3>2
      <4> QED BY <1>7, <1>11, <4>1 DEF SameUnits, SameLarges
    <3> QED BY <3>1, <3>2
  <2> HIDE DEF k1
  <2>4. ReservedOf(k1) = ReservedOf(m)
    BY <1>10, <2>3 DEF SameUnits, ReservedOf
  <2>5. /\ t \in Managers /\ SameUnits(k1, t) /\ SameLarges(k1, t) /\ t.usage = k1.usage
    BY <1>1, <2>2, <2>3, EmptiedFields
  <2>6. ListsInv(t, F \cup {b}, L \ {b})
    <3>1. b \notin F \cup (L \ {b}) /\ b \in ReservedOf(k1)
      BY <1>4, <1>10, <2>4
    <3> HIDE DEF F
    <3> QED BY <2>2, <2>3, <3>1, EmptiedLists
  <2>7. UnitsInv(g, l2, U \ {b})
    BY <1>1, <1>2, <1>3, <1>7, <1>17, UntakenLast DEF l2
  <2>8. UnitsInv(t, l2, U \ {b})
    BY <1>7, <2>3, <2>5, <2>7, UnitsInvFrame
  <2>9. /\ ReservedOf(t) = ReservedOf(m)
        /\ \A c \in Blocks : /\ t.block[c].hash = g.block[c].hash
                             /\ t.block[c].used = g.block[c].used
                             /\ t.block[c].unfill = g.block[c].unfill
                             /\ t.block[c].maxused = g.block[c].maxused
        /\ t.size = g.size
    BY <2>3, <2>4, <2>5 DEF SameUnits, ReservedOf
  <2>10. /\ \A c \in Blocks : c # b => /\ t.block[c].hash = m.block[c].hash
                                       /\ t.block[c].used = m.block[c].used
                                       /\ t.block[c].unfill = m.block[c].unfill
                                       /\ t.block[c].maxused = m.block[c].maxused
         /\ t.block[b].used = 0
    BY <1>1, <1>9, <2>1, <2>9
  <2>11. Serving(t) = U \ {b}
    BY <1>10, <1>15, <2>9, <2>10 DEF Serving
  <2>12. Giving(t) = L \ {b}
    <3>1. \A c \in U \ {b} : c \in Blocks /\ c # b
      BY <1>10, <1>15
    <3> QED BY <1>16, <2>10, <2>11, <3>1 DEF Giving
  <2>13. ReservedOf(t) \ Serving(t) = F \cup {b}
    BY <1>10, <2>9, <2>11
  <2>14. LargesInv(t, l2)
    <3>1. SameLarges(m, t)
      BY <1>9, <2>3, <2>5 DEF SameLarges
    <3> QED BY <1>3, <1>14, <3>1, LargesFrame
  <2>15. Good(t, l2)
    BY <2>6, <2>8, <2>11, <2>12, <2>13, <2>14 DEF Good
  <2>16. Shrinks(m, t, u)
    BY <1>9, <2>3, <2>5, <2>9 DEF Shrinks
  <2> QED BY <2>5, <2>15, <2>16 DEF t, l2
<1>18. CASE m.block[b].used # 1
  <2>1. g.block[b].used > 0
    BY <1>4, <1>9, <1>18
  <2>2. /\ k \in Managers /\ SameUnits(g, k) /\ SameLarges(g, k) /\ k.usage = g.usage
        /\ ListsInv(k, F, L \cup {b})
    <3>1. CASE g.block[b].prev = NULL
      <4>1. b \notin L /\ k = Linked(g, b)
        BY <1>8, <1>12, <2>1, <3>1
      <4>2. b \in ReservedOf(g) /\ b \notin F \cup L
        BY <1>4, <1>10, <4>1
      <4> HIDE DEF F
      <4> QED BY <1>1, <1>7, <1>11, <1>13, <4>1, <4>2, LinkedFields, LinkedLists
    <3>2. CASE g.block[b].prev # NULL
      <4>1. L \cup {b} = L /\ k = g
        BY <1>8, <1>12, <3>2
      <4> QED BY <1>7, <1>11, <4>1 DEF SameUnits, SameLarges
    <3> QED BY <3>1, <3>2
  <2>3. k.block[b].used = g.block[b].used
    BY <1>1, <2>2 DEF SameUnits
  <2>4. t = Threaded(k, u)
    <3>1. k.block[b].used # 0
      BY <2>1, <2>3
    <3> QED BY <1>6, <3>1
  <2>5. t \in Managers /\ PutsBack(k, t, b, i)
    BY <1>1, <1>2, <1>4, <2>2, <2>4, ThreadedFields
  <2>6. UnitsInv(t, l2, U)
    BY <1>1, <1>2, <1>3, <1>7, <2>2, <2>5, UntakenMore DEF l2
  <2>7. SameLists(k, t) /\ SameLarges(k, t) /\ t.usage = k.usage
        /\ (\A c \in Blocks : c # b => t.block[c] = k.block[c])
        /\ t.block[b].used = k.block[b].used
        /\ t.block[b].unfill = i
        /\ \A v \in Cells : v # u => t.size[v] = k.size[v]
    BY <1>1, <2>5 DEF PutsBack
  <2>8. ListsInv(t, F, L \cup {b})
    BY <2>2, <2>5, <2>7, ListsFrame
  <2>9. ReservedOf(t) = ReservedOf(m)
    BY <1>10, <2>2, <2>7 DEF SameUnits, SameLists, ReservedOf
  <2>10. /\ \A c \in Blocks : c # b => /\ t.block[c].hash = m.block[c].hash
                                       /\ t.block[c].used = m.block[c].used
                                       /\ t.block[c].unfill = m.block[c].unfill
                                       /\ t.block[c].maxused = m.block[c].maxused
         /\ t.block[b].used > 0
    BY <1>9, <2>1, <2>2, <2>3, <2>7 DEF SameUnits
  <2>11. Serving(t) = U
    BY <1>4, <1>10, <1>15, <2>9, <2>10 DEF Serving
  <2>12. Giving(t) = L \cup {b}
    <3>1. \A c \in U : c \in Blocks
      BY <1>10, <1>15
    <3>2. i # Full
      BY <1>4 DEF Full
    <3> QED BY <1>4, <1>16, <2>7, <2>10, <2>11, <3>1, <3>2 DEF Giving
  <2>13. LargesInv(t, l2)
    <3>1. SameLarges(m, t)
      BY <1>9, <2>2, <2>7 DEF SameLarges
    <3> QED BY <1>3, <1>14, <3>1, LargesFrame
  <2>14. Good(t, l2)
    BY <2>6, <2>8, <2>9, <2>11, <2>12, <2>13 DEF Good
  <2>15. k.size = g.size
    BY <2>2 DEF SameUnits
  <2>16. Shrinks(m, t, u)
    BY <1>9, <2>2, <2>7, <2>15 DEF Shrinks
  <2> QED BY <2>5, <2>14, <2>16 DEF t, l2
<1> QED BY <1>17, <1>18
-----------------------------------------------------------------------------
(* Every operation preserves the invariant.                                  *)

LEMMA GiveGood ==
    ASSUME NEW m \in Managers, Good(m, live), NEW size \in Nat \ {0}, NEW c,
           CanGive(m, size, c)
    PROVE  /\ c \in Cells /\ c \notin live
           /\ With(m, size, c) \in Managers
           /\ Good(With(m, size, c), live \cup {c})
           /\ Grows(m, With(m, size, c), c, size)
<1>1. CASE IsLarge(size)
  <2> DEFINE n == AfterAllocLarge(m, size, c)
  <2>1. c \in Larges /\ c \notin live /\ With(m, size, c) = n
    BY <1>1 DEF CanGive, With
  <2>2. n \in Managers /\ Good(n, live \cup {c}) /\ PutsFirst(m, n, size, c)
    <3> HIDE DEF n
    <3>1. n = AfterAllocLarge(m, size, c)
      BY DEF n
    <3> QED BY <2>1, <3>1, AllocLargeGood, AllocLargeFields
  <2> HIDE DEF n
  <2>3. c \in Cells /\ m.size \in [Cells -> Nat \cup {Full}]
    BY <2>1, ManagerTypes DEF Cells
  <2>4. Grows(m, n, c, size)
    BY <2>2, <2>3 DEF PutsFirst, Grows
  <2> QED BY <2>1, <2>2, <2>3, <2>4
<1>2. CASE ~IsLarge(size)
  <2>1. HasBlock(m, Hash(size)) /\ c = UnitOf(m, size) /\ With(m, size, c) = AfterAlloc(m, size)
    BY <1>2 DEF CanGive, With
  <2>2. c \in Units /\ c \notin live
        /\ AfterAlloc(m, size) \in Managers /\ Good(AfterAlloc(m, size), live \cup {c})
        /\ Grows(m, AfterAlloc(m, size), c, size)
    BY <1>2, <2>1, AllocUnitGood
  <2> QED BY <2>1, <2>2 DEF Cells
<1> QED BY <1>1, <1>2

LEMMA ReturnGood ==
    ASSUME NEW m \in Managers, NEW l, Good(m, l), NEW c \in Cells, c \in l, m.size[c] \in Nat
    PROVE  /\ After(m, c) \in Managers
           /\ Good(After(m, c), l \ {c})
           /\ Shrinks(m, After(m, c), c)
<1>1. CASE c \in Larges
  <2> DEFINE n == AfterFreeLarge(m, c)
  <2>1. After(m, c) = n
    BY <1>1 DEF After
  <2>2. n \in Managers /\ Good(n, l \ {c})
    BY <1>1, FreeLargeGood
  <2>3. n.usage = m.usage - m.size[c] /\ n.size = m.size
    BY <1>1, FreeLargeFields
  <2> HIDE DEF n
  <2> QED BY <2>1, <2>2, <2>3 DEF Shrinks
<1>2. CASE c \notin Larges
  <2>1. c \in Units /\ After(m, c) = AfterFree(m, c)
    BY <1>2 DEF Cells, After
  <2> QED BY <2>1, FreeUnitGood
<1> QED BY <1>1, <1>2

\* The size field of a cell in use is what the caller asked for.
AskedIsSize == \A c \in live : asked[c] = mm.size[c]

LEMMA LiveSizes ==
    ASSUME TypeOK, AskedIsSize, NEW c \in live
    PROVE  c \in Cells /\ mm.size[c] = asked[c] /\ mm.size[c] \in Nat
<1>1. c \in Cells /\ mm.size[c] = asked[c] /\ asked[c] \in Sizes \cup {0}
  BY DEF TypeOK, AskedIsSize
<1>2. Sizes \cup {0} \subseteq Nat
  BY ManagerAssumption
<1> QED BY <1>1, <1>2

LEMMA InitIInv == Init => IInv
<1> SUFFICES ASSUME Init PROVE IInv
  OBVIOUS
<1>1. mm.block = [b \in Blocks |-> [next |-> NULL, prev |-> NULL, hash |-> 0,
                                    used |-> 0, unfill |-> Full, maxused |-> 0]]
      /\ mm.unfill = [h \in Classes \cup {0} |-> NULL] /\ mm.batches = 0
      /\ mm.large = NULL /\ live = {} /\ outstanding = 0 /\ asked = [c \in Cells |-> 0]
  BY DEF Init
<1>2. TypeOK
  <2>1. 0 \in 0..MaxBatches
    BY ManagerAssumption
  <2>2. [next |-> NULL, prev |-> NULL, hash |-> 0, used |-> 0, unfill |-> Full,
         maxused |-> 0] \in BlockType
    BY DEF BlockType
  <2>3. mm \in Managers
    BY <2>1, <2>2 DEF Init, Managers
  <2> QED BY <1>1, <2>3 DEF TypeOK
<1>3. ReservedOf(mm) = {} /\ Serving(mm) = {} /\ Giving(mm) = {}
  <2>1. mm.batches * BlockAlloc = 0
    BY <1>1, ManagerAssumption
  <2>2. 1..(mm.batches * BlockAlloc) = {}
    BY <2>1
  <2> QED BY <2>2 DEF ReservedOf, Serving, Giving
<1>4. UnitsInv(mm, live, {})
  BY <1>1 DEF UnitsInv
<1>5. ListsInv(mm, {}, {})
  <2>1. IsThread({}, NULL, Nexts(mm), NULL) /\ mm.unfill[0] = NULL
    BY <1>1, ThreadEmpty
  <2>2. ASSUME NEW h \in Classes
        PROVE  IsDoubleThread({b \in {} : mm.block[b].hash = h}, mm.unfill[h], Nexts(mm), NULL,
                              Prevs(mm), BlockHead)
    <3>1. {b \in {} : mm.block[b].hash = h} = {} /\ mm.unfill[h] = NULL
      BY <1>1
    <3> QED BY <3>1, DoubleEmpty
  <2> QED BY <1>3, <2>1, <2>2 DEF ListsInv
<1>6. LargesInv(mm, live)
  <2>1. live \cap Larges = {}
    BY <1>1
  <2> QED BY <1>1, <2>1, DoubleEmpty DEF LargesInv
<1>7. Good(mm, live)
  <2>1. ReservedOf(mm) \ Serving(mm) = {}
    BY <1>3
  <2> QED BY <1>3, <1>4, <1>5, <1>6, <2>1 DEF Good
<1> QED BY <1>1, <1>2, <1>7 DEF IInv

LEMMA AllocIInv ==
    ASSUME IInv, NEW size \in Sizes, NEW c \in Cells, Alloc(size, c)
    PROVE  c \notin live /\ IInv'
<1> DEFINE n == With(mm, size, c)
<1>1. mm \in Managers /\ Good(mm, live) /\ size \in Nat \ {0} /\ CanGive(mm, size, c)
  BY ManagerAssumption DEF IInv, TypeOK, Alloc
<1>2. c \notin live /\ n \in Managers /\ Good(n, live \cup {c}) /\ Grows(mm, n, c, size)
  BY <1>1, GiveGood
<1>3. mm' = n /\ live' = live \cup {c} /\ outstanding' = outstanding + 1
      /\ asked' = [asked EXCEPT ![c] = size]
  BY DEF Alloc
<1> HIDE DEF n
<1>4. TypeOK'
  BY <1>2, <1>3 DEF IInv, TypeOK
<1>5. Good(mm', live')
  BY <1>2, <1>3
<1>6. ASSUME NEW d \in live' PROVE asked'[d] = mm'.size[d]
  <2>1. d \in Cells
    BY <1>4 DEF TypeOK
  <2>2. asked \in [Cells -> Sizes \cup {0}] /\ \A e \in live : asked[e] = mm.size[e]
    BY DEF IInv, TypeOK
  <2> QED BY <1>2, <1>3, <2>1, <2>2 DEF Grows
<1> QED BY <1>2, <1>4, <1>5, <1>6 DEF IInv

LEMMA FreeIInv ==
    ASSUME IInv, NEW c \in live, Free(c)
    PROVE  IInv'
<1> DEFINE n == After(mm, c)
<1>1. mm \in Managers /\ Good(mm, live) /\ TypeOK /\ AskedIsSize
  BY DEF IInv, TypeOK, AskedIsSize
<1>2. c \in Cells /\ mm.size[c] \in Nat
  BY <1>1, LiveSizes
<1>3. n \in Managers /\ Good(n, live \ {c}) /\ Shrinks(mm, n, c)
  BY <1>1, <1>2, ReturnGood
<1>4. mm' = n /\ live' = live \ {c} /\ outstanding' = outstanding - 1
      /\ asked' = [asked EXCEPT ![c] = 0]
  BY DEF Free
<1> HIDE DEF n
<1>5. TypeOK'
  BY <1>1, <1>3, <1>4 DEF TypeOK
<1>6. Good(mm', live')
  BY <1>3, <1>4
<1>7. ASSUME NEW d \in live' PROVE asked'[d] = mm'.size[d]
  <2>1. d \in Cells
    BY <1>5 DEF TypeOK
  <2> QED BY <1>1, <1>3, <1>4, <2>1 DEF Shrinks, TypeOK, AskedIsSize
<1> QED BY <1>5, <1>6, <1>7 DEF IInv

LEMMA ReallocIInv ==
    ASSUME IInv, NEW c \in live, NEW size \in Sizes, NEW d \in Cells, Realloc(c, size, d)
    PROVE  d \notin live /\ IInv'
<1> DEFINE k == With(mm, size, d)
           n == After(k, c)
<1>1. /\ mm \in Managers /\ Good(mm, live) /\ TypeOK /\ AskedIsSize
      /\ size \in Nat \ {0} /\ CanGive(mm, size, d)
  BY ManagerAssumption DEF IInv, TypeOK, AskedIsSize, Realloc
<1>2. c \in Cells /\ mm.size[c] \in Nat
  BY <1>1, LiveSizes
<1>3. d \notin live /\ k \in Managers /\ Good(k, live \cup {d}) /\ Grows(mm, k, d, size)
  BY <1>1, GiveGood
<1>4. c # d /\ c \in live \cup {d}
  BY <1>3
<1> HIDE DEF k
<1>5. k.size[c] = mm.size[c]
  BY <1>2, <1>3, <1>4 DEF Grows
<1>6. n \in Managers /\ Good(n, (live \cup {d}) \ {c}) /\ Shrinks(k, n, c)
  BY <1>2, <1>3, <1>4, <1>5, ReturnGood
<1>7. mm' = n /\ live' = (live \cup {d}) \ {c} /\ outstanding' = outstanding
      /\ asked' = [asked EXCEPT ![d] = size, ![c] = 0]
  BY DEF Realloc, k
<1> HIDE DEF n
<1>8. TypeOK'
  BY <1>1, <1>6, <1>7 DEF TypeOK
<1>9. Good(mm', live')
  BY <1>6, <1>7
<1>10. ASSUME NEW e \in live' PROVE asked'[e] = mm'.size[e]
  <2>1. e \in Cells /\ e # c
    BY <1>7, <1>8 DEF TypeOK
  <2>2. n.size[e] = k.size[e] /\ (e # d => k.size[e] = mm.size[e]) /\ k.size[d] = size
    BY <1>3, <1>6, <2>1 DEF Grows, Shrinks
  <2> QED BY <1>1, <1>7, <2>1, <2>2 DEF TypeOK, AskedIsSize
<1> QED BY <1>3, <1>8, <1>9, <1>10 DEF IInv

LEMMA StepIInv == IInv /\ [Next]_vars => IInv'
<1> SUFFICES ASSUME IInv, [Next]_vars PROVE IInv'
  OBVIOUS
<1>1. ASSUME NEW size \in Sizes, NEW c \in Cells, Alloc(size, c) PROVE IInv'
  BY <1>1, AllocIInv
<1>2. ASSUME NEW size \in Sizes, NEW c \in Cells, NEW old \in live, Realloc(old, size, c)
      PROVE  IInv'
  BY <1>2, ReallocIInv
<1>3. ASSUME NEW c \in live, Free(c) PROVE IInv'
  BY <1>3, FreeIInv
<1>4. CASE UNCHANGED vars
  <2>1. mm' = mm /\ live' = live /\ outstanding' = outstanding /\ asked' = asked
    BY <1>4 DEF vars
  <2>2. TypeOK'
    BY <2>1 DEF IInv, TypeOK
  <2> QED BY <2>1, <2>2 DEF IInv
<1> QED BY <1>1, <1>2, <1>3, <1>4 DEF Next

LEMMA ManagerInv == Spec => []IInv
<1> QED BY InitIInv, StepIInv, PTL DEF Spec

\* The manager, its blocks, its lists and its counts stay in the types of
\* memory.c, whatever is allocated and freed.
THEOREM ManagerTyped == Spec => []TypeOK
<1>1. IInv => TypeOK
  BY DEF IInv
<1> QED BY <1>1, ManagerInv, PTL

\* The memory manager keeps the promise of an allocator: Alloc and Realloc hand
\* out no cell that is in use, and a cell in use stays so until its caller
\* frees it (AdrenoMM_Alloc, AdrenoMM_Realloc and AdrenoMM_Free).
THEOREM ManagerIsHeap == Spec => IsHeap
<1>1. Init => Promise!Init
  BY DEF Init, Promise!Init
<1>2. ASSUME IInv, [Next]_vars PROVE [Promise!Next]_<<live, outstanding>>
  <2>1. ASSUME NEW size \in Sizes, NEW c \in Cells, Alloc(size, c) PROVE Promise!Next
    <3>1. Promise!Alloc(c)
      BY <1>2, <2>1, AllocIInv DEF Alloc, Promise!Alloc
    <3> QED BY <3>1 DEF Promise!Next
  <2>2. ASSUME NEW size \in Sizes, NEW c \in Cells, NEW old \in live, Realloc(old, size, c)
        PROVE  Promise!Next
    <3>1. Promise!Move(old, c)
      BY <1>2, <2>2, ReallocIInv DEF Realloc, Promise!Move
    <3>2. old \in Cells
      BY <1>2 DEF IInv, TypeOK
    <3> QED BY <3>1, <3>2 DEF Promise!Next
  <2>3. ASSUME NEW c \in live, Free(c) PROVE Promise!Next
    <3>1. Promise!Free(c) /\ c \in Cells
      BY <1>2, <2>3 DEF Free, Promise!Free, IInv, TypeOK
    <3> QED BY <3>1 DEF Promise!Next
  <2>4. CASE UNCHANGED vars
    BY <2>4 DEF vars
  <2> QED BY <1>2, <2>1, <2>2, <2>3, <2>4 DEF Next
<1> QED BY <1>1, <1>2, ManagerInv, PTL DEF Spec, IsHeap, Promise!Spec
-----------------------------------------------------------------------------
(* What the invariant says of the code.                                      *)

\* A unit is no smaller than what AdrenoMM_Alloc was asked for, and lies within
\* its block, also in a block that has served other classes before: HashFits is
\* where size2hash and hash2size must agree.
THEOREM CellsFitAlways == Spec => []CellsFit
<1>1. IInv => CellsFit
  <2> SUFFICES ASSUME IInv, NEW u \in live \cap Units
               PROVE  /\ asked[u] <= SizeOf(mm.block[u[1]].hash)
                      /\ u[2] < UnitCount(mm.block[u[1]].hash)
    BY DEF CellsFit
  <2>1. PICK b \in Blocks, i \in 0..(UnitCount(1) - 1) : u = <<b, i>>
    BY DEF Units
  <2>2. mm \in Managers /\ UnitsInv(mm, live, Serving(mm)) /\ asked[u] = mm.size[u]
    BY DEF IInv, TypeOK, Good
  <2>3. /\ UnitsOfBlock(mm, live, b) /\ i \in 0..(mm.block[b].maxused - 1)
        /\ mm.size[u] <= SizeOf(mm.block[b].hash)
    BY <2>1, <2>2, HeldUnit
  <2>4. /\ mm.block[b].maxused <= UnitCount(mm.block[b].hash) /\ mm.block[b].maxused \in Nat
        /\ mm.block[b].hash \in Classes
    BY <2>2, <2>3, ManagerTypes DEF UnitsOfBlock
  <2>5. UnitCount(mm.block[b].hash) \in Nat
    BY <2>4, ClassSizes
  <2> QED BY <2>1, <2>2, <2>3, <2>4, <2>5
<1> QED BY <1>1, ManagerInv, PTL

\* The assertions of AdrenoMM_Alloc (memory.c 302, 303) never fail: a block
\* that heads the list of a class and threads no unit has one left to hand out
\* for the first time, and the index of that unit is unit_used.
THEOREM AssertionsNeverFail == Spec => []AssertionsHold
<1>1. IInv => AssertionsHold
  <2> SUFFICES ASSUME IInv, NEW h \in Classes, mm.unfill[h] # NULL,
                      mm.block[mm.unfill[h]].unfill = Full
               PROVE  /\ mm.block[mm.unfill[h]].used < UnitCount(h)
                      /\ mm.block[mm.unfill[h]].used = mm.block[mm.unfill[h]].maxused
    BY DEF AssertionsHold
  <2> DEFINE b == mm.unfill[h]
             Fr == FreeUnitsOf(mm, live, b)
  <2>1. mm \in Managers /\ UnitsInv(mm, live, Serving(mm))
        /\ ListsInv(mm, ReservedOf(mm) \ Serving(mm), Giving(mm))
    BY DEF IInv, TypeOK, Good
  <2>2. IsFiniteSet(OfClass(mm, Giving(mm), h)) /\ NULL \notin OfClass(mm, Giving(mm), h)
        /\ IsDoubleThread(OfClass(mm, Giving(mm), h), b, Nexts(mm), NULL, Prevs(mm), BlockHead)
    BY <2>1, ListsFacts
  <2> HIDE DEF b
  <2>3. IsThread(OfClass(mm, Giving(mm), h), b, Nexts(mm), NULL)
    BY <2>2, DoubleIsThread
  <2>4. b \in OfClass(mm, Giving(mm), h)
    <3>1. b # NULL
      BY DEF b
    <3> QED BY <2>2, <2>3, <3>1, ThreadHead
  <2>5. b \in Giving(mm) /\ mm.block[b].hash = h /\ b \in Serving(mm) /\ b \in Blocks
    BY <2>1, <2>4, ReservedBlocks DEF OfClass, Giving, Serving
  <2>6. mm.block[b].unfill = Full
    BY DEF b
  <2>7. mm.block[b].maxused < UnitCount(h)
    BY <2>5, <2>6 DEF Giving
  <2>8. UnitsOfBlock(mm, live, b)
    BY <2>1, <2>5 DEF UnitsInv
  <2>9. Fr = {}
    <3>1. IsFiniteSet(Fr) /\ Full \notin Fr
      BY <2>1, <2>5, <2>8, BlockUnits
    <3>2. IsThread(Fr, Full, [i \in 0..(UnitCount(1) - 1) |-> mm.size[<<b, i>>]], Full)
      BY <2>6, <2>8 DEF UnitsOfBlock
    <3> HIDE DEF Fr
    <3> QED BY <3>1, <3>2, ThreadHead
  <2>10. mm.block[b].used = mm.block[b].maxused
    <3>1. mm.block[b].used = mm.block[b].maxused - Cardinality(Fr)
      BY <2>8 DEF UnitsOfBlock
    <3>2. Cardinality(Fr) = 0 /\ mm.block[b].maxused \in Nat
      BY <2>1, <2>5, <2>9, FS_EmptySet, ManagerTypes
    <3> QED BY <3>1, <3>2
  <2> QED BY <2>7, <2>10 DEF b
<1> QED BY <1>1, ManagerInv, PTL
-----------------------------------------------------------------------------
(* What a walk along a list meets, from its head on.                         *)

LEMMA LeastNatural ==
    ASSUME NEW S \in SUBSET Nat, S # {}
    PROVE  \E n \in S : \A m \in S : n <= m
<1> DEFINE T == {0..n : n \in S}
<1>1. T \subseteq FiniteSubsetsOf(Nat) /\ T # {}
  <2>1. \A n \in S : 0..n \in SUBSET Nat /\ IsFiniteSet(0..n)
    BY FS_Interval
  <2> QED BY <2>1 DEF FiniteSubsetsOf
<1>2. PICK x \in T : \A y \in T : <<y, x>> \notin StrictSubsetOrdering(Nat)
  <2> HIDE DEF T
  <2> QED BY <1>1, FS_StrictSubsetOrderingWellFounded, WFMin
<1>3. PICK n \in S : x = 0..n
  BY <1>2
<1> SUFFICES ASSUME NEW m \in S, m < n PROVE FALSE
  OBVIOUS
<1>4. <<0..m, 0..n>> \notin StrictSubsetOrdering(Nat)
  BY <1>2, <1>3
<1>5. 0..m \subseteq 0..n /\ n \in 0..n /\ n \notin 0..m /\ 0..n \subseteq Nat
  OBVIOUS
<1> QED BY <1>4, <1>5 DEF StrictSubsetOrdering

\* w starts at head, follows next along S, and stays at the end.
Walks(w, S, head, next, end) ==
    /\ w[0] = head
    /\ \A k \in Nat : /\ w[k] \in S => w[k + 1] = next[w[k]]
                      /\ w[k] = end => w[k + 1] = end

LEMMA WalkExists ==
    ASSUME NEW S, NEW head, NEW next, NEW end, IsFiniteSet(S), end \notin S,
           IsThread(S, head, next, end)
    PROVE  \E w : /\ w = [k \in Nat |-> w[k]]
                  /\ Walks(w, S, head, next, end)
                  /\ \A k \in Nat : w[k] \in S \cup {end}
<1>1. PICK n \in Nat : \E s : Numbers(s, n, S) /\ Leads(s, n, head, next, end)
  BY ThreadElim
<1>2. PICK s : Numbers(s, n, S) /\ Leads(s, n, head, next, end)
  BY <1>1
<1> DEFINE w == [k \in Nat |-> IF k < n THEN s[k + 1] ELSE end]
<1>3. \A k \in Nat : w[k] \in S \cup {end}
  BY <1>2 DEF Numbers
<1>4. w[0] = head
  BY <1>2 DEF Leads
<1>5. ASSUME NEW k \in Nat, w[k] \in S PROVE w[k + 1] = next[w[k]]
  <2>1. k < n /\ w[k] = s[k + 1] /\ k + 1 \in 1..n
    BY <1>5
  <2>2. next[s[k + 1]] = IF k + 1 = n THEN end ELSE s[k + 1 + 1]
    BY <1>2, <2>1 DEF Leads
  <2>3. w[k + 1] = IF k + 1 < n THEN s[k + 1 + 1] ELSE end
    OBVIOUS
  <2> QED BY <2>1, <2>2, <2>3
<1>6. ASSUME NEW k \in Nat, w[k] = end PROVE w[k + 1] = end
  <2>1. ~(k < n)
    BY <1>2, <1>6 DEF Numbers
  <2> QED BY <2>1
<1>7. w = [k \in Nat |-> w[k]]
  OBVIOUS
<1> HIDE DEF w
<1>8. Walks(w, S, head, next, end)
  BY <1>4, <1>5, <1>6 DEF Walks
<1> QED BY <1>3, <1>7, <1>8

LEMMA WalkMeets ==
    ASSUME NEW S, NEW head, NEW next, NEW end, IsFiniteSet(S), end \notin S,
           IsThread(S, head, next, end), NEW w, Walks(w, S, head, next, end)
    PROVE  /\ Cardinality(S) \in Nat
           /\ {w[k] : k \in 0..(Cardinality(S) - 1)} = S
           /\ \A k \in Nat : k >= Cardinality(S) => w[k] = end
<1>1. PICK n \in Nat : \E s : Numbers(s, n, S) /\ Leads(s, n, head, next, end)
  BY ThreadElim
<1>2. PICK s : Numbers(s, n, S) /\ Leads(s, n, head, next, end)
  BY <1>1
<1> DEFINE At(k) == IF k < n THEN s[k + 1] ELSE end
           B == {k \in Nat : w[k] # At(k)}
<1>3. B = {}
  <2> SUFFICES ASSUME B # {} PROVE FALSE
    OBVIOUS
  <2>1. PICK k \in B : \A j \in B : k <= j
    <3>1. B \in SUBSET Nat
      OBVIOUS
    <3> HIDE DEF B
    <3> QED BY <3>1, LeastNatural
  <2>2. k \in Nat /\ w[k] # At(k)
    OBVIOUS
  <2>3. CASE k = 0
    BY <1>2, <2>2, <2>3 DEF Walks, Leads
  <2>4. CASE k # 0
    <3>1. k - 1 \in Nat /\ k - 1 \notin B /\ (k - 1) + 1 = k
      BY <2>1, <2>2, <2>4
    <3>2. w[k - 1] = At(k - 1)
      BY <3>1
    <3>3. CASE k - 1 < n
      <4>1. k \in 1..n /\ w[k - 1] = s[k] /\ s[k] \in S
        BY <1>2, <2>2, <2>4, <3>1, <3>2, <3>3 DEF Numbers
      <4>2. w[k] = next[s[k]]
        BY <3>1, <4>1 DEF Walks
      <4>3. next[s[k]] = IF k = n THEN end ELSE s[k + 1]
        BY <1>2, <4>1 DEF Leads
      <4> QED BY <2>2, <4>1, <4>2, <4>3
    <3>4. CASE ~(k - 1 < n)
      <4>1. w[k - 1] = end
        BY <3>2, <3>4
      <4>2. w[k] = end
        BY <3>1, <4>1 DEF Walks
      <4> QED BY <2>2, <3>4, <4>2
    <3> QED BY <3>3, <3>4
  <2> QED BY <2>3, <2>4
<1>4. \A k \in Nat : w[k] = At(k)
  BY <1>3
<1>5. Cardinality(S) = n
  BY <1>2, NumbersCardinality
<1>6. {w[k] : k \in 0..(n - 1)} = S
  <2>1. ASSUME NEW k \in 0..(n - 1) PROVE w[k] \in S
    BY <1>2, <1>4 DEF Numbers
  <2>2. ASSUME NEW x \in S PROVE \E k \in 0..(n - 1) : w[k] = x
    <3>1. PICK i \in 1..n : s[i] = x
      BY <1>2 DEF Numbers
    <3>2. i - 1 \in 0..(n - 1) /\ i - 1 \in Nat /\ i - 1 < n /\ (i - 1) + 1 = i
      BY <3>1
    <3>3. w[i - 1] = s[i]
      BY <1>4, <3>2
    <3> QED BY <3>1, <3>2, <3>3
  <2> QED BY <2>1, <2>2
<1> QED BY <1>4, <1>5, <1>6

\* The units of a block given back are threaded through the size fields of
\* their heads, each once and no other, and the counters of the block say how
\* many they are (unit_unfill, unit_used and unit_maxused in memory.c 300-311
\* and 476-477).
THEOREM ManagerThreadsFreeUnits == Spec => []FreeUnitsThreaded
<1>1. IInv => FreeUnitsThreaded
  <2> SUFFICES ASSUME IInv, NEW b \in Reserved, mm.block[b].used > 0
               PROVE  LET walk[k \in Nat] ==
                              IF k = 0 THEN mm.block[b].unfill
                              ELSE IF <<b, walk[k - 1]>> \in Units
                                   THEN mm.size[<<b, walk[k - 1]>>] ELSE Full
                          n == Cardinality(FreeUnits(b))
                      IN  /\ {walk[k] : k \in 0..(n - 1)} = FreeUnits(b)
                          /\ walk[n] = Full
                          /\ mm.block[b].used = mm.block[b].maxused - n
                          /\ mm.block[b].maxused <= UnitCount(mm.block[b].hash)
    BY DEF FreeUnitsThreaded
  <2> DEFINE walk[k \in Nat] ==
                 IF k = 0 THEN mm.block[b].unfill
                 ELSE IF <<b, walk[k - 1]>> \in Units
                      THEN mm.size[<<b, walk[k - 1]>>] ELSE Full
             S == FreeUnits(b)
             next == [i \in 0..(UnitCount(1) - 1) |-> mm.size[<<b, i>>]]
  <2>1. mm \in Managers /\ b \in Blocks /\ b \in Serving(mm) /\ UnitsInv(mm, live, Serving(mm))
    BY ReservedBlocks DEF IInv, TypeOK, Good, Serving, Reserved, ReservedOf
  <2>2. UnitsOfBlock(mm, live, b) /\ S = FreeUnitsOf(mm, live, b)
    BY <2>1 DEF UnitsInv, FreeUnits, FreeUnitsOf
  <2>3. /\ IsFiniteSet(S) /\ Full \notin S /\ S \subseteq 0..(UnitCount(1) - 1)
        /\ \A i \in 0..(UnitCount(1) - 1) : <<b, i>> \in Units
    BY <2>1, <2>2, BlockUnits
  <2>4. IsThread(S, mm.block[b].unfill, next, Full)
    BY <2>2 DEF UnitsOfBlock
  <2>5. \A i \in S : <<b, i>> \in Units /\ next[i] = mm.size[<<b, i>>]
    BY <2>3
  <2>6. <<b, Full>> \notin Units
    BY DEF Units, Full
  <2> HIDE DEF S, next
  <2>7. walk = [k \in Nat |-> IF k = 0 THEN mm.block[b].unfill
                              ELSE IF <<b, walk[k - 1]>> \in Units
                                   THEN mm.size[<<b, walk[k - 1]>>] ELSE Full]
    <3>1. PICK w : /\ w = [k \in Nat |-> w[k]]
                   /\ Walks(w, S, mm.block[b].unfill, next, Full)
                   /\ \A k \in Nat : w[k] \in S \cup {Full}
      BY <2>3, <2>4, WalkExists
    <3>2. ASSUME NEW k \in Nat
          PROVE  w[k] = IF k = 0 THEN mm.block[b].unfill
                        ELSE IF <<b, w[k - 1]>> \in Units
                             THEN mm.size[<<b, w[k - 1]>>] ELSE Full
      <4>1. CASE k = 0
        BY <3>1, <4>1 DEF Walks
      <4>2. CASE k # 0
        <5>1. k - 1 \in Nat /\ (k - 1) + 1 = k
          BY <4>2
        <5>2. /\ w[k - 1] \in S \cup {Full}
              /\ w[k - 1] \in S => w[k] = next[w[k - 1]]
              /\ w[k - 1] = Full => w[k] = Full
          BY <3>1, <5>1 DEF Walks
        <5> QED BY <2>5, <2>6, <4>2, <5>2
      <4> QED BY <4>1, <4>2
    <3>3. w = [k \in Nat |-> IF k = 0 THEN mm.block[b].unfill
                             ELSE IF <<b, w[k - 1]>> \in Units
                                  THEN mm.size[<<b, w[k - 1]>>] ELSE Full]
      BY <3>1, <3>2
    <3> QED BY <3>3
  <2> HIDE DEF walk
  <2>8. Walks(walk, S, mm.block[b].unfill, next, Full)
    <3>1. walk[0] = mm.block[b].unfill
      BY <2>7
    <3>2. ASSUME NEW k \in Nat
          PROVE  walk[k + 1] = IF <<b, walk[k]>> \in Units THEN mm.size[<<b, walk[k]>>] ELSE Full
      <4>1. k + 1 \in Nat /\ k + 1 # 0 /\ (k + 1) - 1 = k
        OBVIOUS
      <4> QED BY <2>7, <4>1
    <3> QED BY <2>5, <2>6, <3>1, <3>2 DEF Walks
  <2>9. /\ Cardinality(S) \in Nat
        /\ {walk[k] : k \in 0..(Cardinality(S) - 1)} = S
        /\ \A k \in Nat : k >= Cardinality(S) => walk[k] = Full
    BY <2>3, <2>4, <2>8, WalkMeets
  <2>10. /\ mm.block[b].used = mm.block[b].maxused - Cardinality(S)
         /\ mm.block[b].maxused <= UnitCount(mm.block[b].hash)
    BY <2>2 DEF UnitsOfBlock
  <2>11. walk[Cardinality(S)] = Full
    BY <2>9
  <2> QED BY <2>9, <2>10, <2>11 DEF S, walk
<1> QED BY <1>1, ManagerInv, PTL

\* The list of a class holds each block that serves it and has a unit to give
\* once, and no other; the list of class 0 those that serve none.  So no block
\* that could give a unit is lost, and none is given to two classes
\* (block_malloc, block_free and the lists of AdrenoMM_Alloc and Free).
THEOREM ManagerListsBlocks == Spec => []BlocksAreListed
<1>1. IInv => BlocksAreListed
  <2> SUFFICES ASSUME IInv, NEW h \in Classes \cup {0}
               PROVE  LET walk[k \in Nat] ==
                              IF k = 0 THEN mm.unfill[h]
                              ELSE IF walk[k - 1] = NULL THEN NULL
                                   ELSE mm.block[walk[k - 1]].next
                          listed == {b \in Reserved : IF h = 0 THEN mm.block[b].used = 0
                                                      ELSE /\ mm.block[b].used > 0
                                                           /\ mm.block[b].hash = h
                                                           /\ HasUnit(b)}
                          n == Cardinality(listed)
                      IN  {walk[k] : k \in 0..(n - 1)} = listed /\ walk[n] = NULL
    BY DEF BlocksAreListed
  <2> DEFINE walk[k \in Nat] ==
                 IF k = 0 THEN mm.unfill[h]
                 ELSE IF walk[k - 1] = NULL THEN NULL ELSE mm.block[walk[k - 1]].next
             S == {b \in Reserved : IF h = 0 THEN mm.block[b].used = 0
                                    ELSE /\ mm.block[b].used > 0
                                         /\ mm.block[b].hash = h
                                         /\ HasUnit(b)}
             F == ReservedOf(mm) \ Serving(mm)
             L == Giving(mm)
             next == Nexts(mm)
  <2>1. mm \in Managers /\ ListsInv(mm, F, L) /\ ReservedOf(mm) \subseteq Blocks
        /\ Reserved = ReservedOf(mm)
    BY ReservedBlocks DEF IInv, TypeOK, Good, Reserved, ReservedOf
  <2>2. IsFiniteSet(S) /\ NULL \notin S /\ S \subseteq Blocks
        /\ IsThread(S, mm.unfill[h], next, NULL)
    <3> HIDE DEF F, L, next
    <3>1. S \subseteq Blocks /\ IsFiniteSet(S) /\ NULL \notin S
      BY <2>1, FiniteBlocks, Addresses
    <3>2. CASE h = 0
      <4>1. S = F
        <5>1. \A b \in ReservedOf(mm) : mm.block[b].used \in Nat
          BY <2>1, ManagerTypes
        <5> QED BY <2>1, <3>2, <5>1 DEF F, Serving
      <4>2. IsThread(F, mm.unfill[0], next, NULL)
        BY <2>1, ListsFacts DEF next
      <4> QED BY <3>1, <3>2, <4>1, <4>2
    <3>3. CASE h # 0
      <4>1. S = OfClass(mm, L, h) /\ h \in Classes
        BY <2>1, <3>3 DEF L, OfClass, Giving, Serving, HasUnit
      <4>2. IsDoubleThread(OfClass(mm, L, h), mm.unfill[h], next, NULL, Prevs(mm), BlockHead)
        BY <2>1, <4>1, ListsFacts DEF next
      <4> HIDE DEF S
      <4> QED BY <3>1, <4>1, <4>2, DoubleIsThread
    <3> QED BY <3>2, <3>3
  <2>3. \A b \in S : next[b] = mm.block[b].next /\ b # NULL
    BY <2>2 DEF Nexts
  <2> HIDE DEF S, next
  <2>4. walk = [k \in Nat |-> IF k = 0 THEN mm.unfill[h]
                              ELSE IF walk[k - 1] = NULL THEN NULL
                                   ELSE mm.block[walk[k - 1]].next]
    <3>1. PICK w : /\ w = [k \in Nat |-> w[k]]
                   /\ Walks(w, S, mm.unfill[h], next, NULL)
                   /\ \A k \in Nat : w[k] \in S \cup {NULL}
      BY <2>2, WalkExists
    <3>2. ASSUME NEW k \in Nat
          PROVE  w[k] = IF k = 0 THEN mm.unfill[h]
                        ELSE IF w[k - 1] = NULL THEN NULL ELSE mm.block[w[k - 1]].next
      <4>1. CASE k = 0
        BY <3>1, <4>1 DEF Walks
      <4>2. CASE k # 0
        <5>1. k - 1 \in Nat /\ (k - 1) + 1 = k
          BY <4>2
        <5>2. /\ w[k - 1] \in S \cup {NULL}
              /\ w[k - 1] \in S => w[k] = next[w[k - 1]]
              /\ w[k - 1] = NULL => w[k] = NULL
          BY <3>1, <5>1 DEF Walks
        <5> QED BY <2>3, <4>2, <5>2
      <4> QED BY <4>1, <4>2
    <3>3. w = [k \in Nat |-> IF k = 0 THEN mm.unfill[h]
                             ELSE IF w[k - 1] = NULL THEN NULL ELSE mm.block[w[k - 1]].next]
      BY <3>1, <3>2
    <3> QED BY <3>3
  <2> HIDE DEF walk
  <2>5. Walks(walk, S, mm.unfill[h], next, NULL)
    <3>1. walk[0] = mm.unfill[h]
      BY <2>4
    <3>2. ASSUME NEW k \in Nat
          PROVE  walk[k + 1] = IF walk[k] = NULL THEN NULL ELSE mm.block[walk[k]].next
      <4>1. k + 1 \in Nat /\ k + 1 # 0 /\ (k + 1) - 1 = k
        OBVIOUS
      <4> QED BY <2>4, <4>1
    <3> QED BY <2>3, <3>1, <3>2 DEF Walks
  <2>6. /\ Cardinality(S) \in Nat
        /\ {walk[k] : k \in 0..(Cardinality(S) - 1)} = S
        /\ \A k \in Nat : k >= Cardinality(S) => walk[k] = NULL
    BY <2>2, <2>5, WalkMeets
  <2>7. walk[Cardinality(S)] = NULL
    BY <2>6
  <2> QED BY <2>6, <2>7 DEF S, walk
<1> QED BY <1>1, ManagerInv, PTL

LEMMA LargeCellsListed ==
    ASSUME IInv
    PROVE  LargeCells = live \cap Larges
<1> DEFINE walk[k \in Nat] == IF k = 0 THEN mm.large
                              ELSE IF walk[k - 1] = NULL THEN NULL
                                   ELSE mm.after[walk[k - 1]]
           S == live \cap Larges
           next == mm.after
<1>1. IsFiniteSet(S) /\ NULL \notin S
  BY FiniteLarges
<1>2. IsThread(S, mm.large, next, NULL)
  <2>1. IsDoubleThread(S, mm.large, next, NULL, mm.before, NULL)
    BY DEF IInv, Good, LargesInv
  <2> HIDE DEF S, next
  <2> QED BY <1>1, <2>1, DoubleIsThread
<1>3. Cardinality(S) <= Cardinality(Larges) /\ Cardinality(Larges) \in Nat
  <2>1. S \in SUBSET Larges
    OBVIOUS
  <2> HIDE DEF S
  <2> QED BY <2>1, Addresses, FS_Subset, FS_CardinalityType
<1> HIDE DEF S, next
<1>4. walk = [k \in Nat |-> IF k = 0 THEN mm.large
                            ELSE IF walk[k - 1] = NULL THEN NULL ELSE mm.after[walk[k - 1]]]
  <2>1. PICK w : /\ w = [k \in Nat |-> w[k]]
                 /\ Walks(w, S, mm.large, next, NULL)
                 /\ \A k \in Nat : w[k] \in S \cup {NULL}
    BY <1>1, <1>2, WalkExists
  <2>2. ASSUME NEW k \in Nat
        PROVE  w[k] = IF k = 0 THEN mm.large
                      ELSE IF w[k - 1] = NULL THEN NULL ELSE mm.after[w[k - 1]]
    <3>1. CASE k = 0
      BY <2>1, <3>1 DEF Walks
    <3>2. CASE k # 0
      <4>1. k - 1 \in Nat /\ (k - 1) + 1 = k
        BY <3>2
      <4>2. /\ w[k - 1] \in S \cup {NULL}
            /\ w[k - 1] \in S => w[k] = next[w[k - 1]]
            /\ w[k - 1] = NULL => w[k] = NULL
        BY <2>1, <4>1 DEF Walks
      <4> QED BY <1>1, <3>2, <4>2 DEF next
    <3> QED BY <3>1, <3>2
  <2>3. w = [k \in Nat |-> IF k = 0 THEN mm.large
                           ELSE IF w[k - 1] = NULL THEN NULL ELSE mm.after[w[k - 1]]]
    BY <2>1, <2>2
  <2> QED BY <2>3
<1> HIDE DEF walk
<1>5. Walks(walk, S, mm.large, next, NULL)
  <2>1. walk[0] = mm.large
    BY <1>4
  <2>2. ASSUME NEW k \in Nat
        PROVE  walk[k + 1] = IF walk[k] = NULL THEN NULL ELSE mm.after[walk[k]]
    <3>1. k + 1 \in Nat /\ k + 1 # 0 /\ (k + 1) - 1 = k
      OBVIOUS
    <3> QED BY <1>4, <3>1
  <2> QED BY <1>1, <2>1, <2>2 DEF Walks, next
<1>6. /\ Cardinality(S) \in Nat
      /\ {walk[k] : k \in 0..(Cardinality(S) - 1)} = S
      /\ \A k \in Nat : k >= Cardinality(S) => walk[k] = NULL
  BY <1>1, <1>2, <1>5, WalkMeets
<1> DEFINE n == Cardinality(S)
           c == Cardinality(Larges)
<1> HIDE DEF n, c
<1>7. n \in Nat /\ c \in Nat /\ n <= c
  BY <1>3, <1>6 DEF n, c
<1>8. {walk[k] : k \in 0..(n - 1)} = S /\ \A k \in Nat : k >= n => walk[k] = NULL
  BY <1>6 DEF n
<1>9. \A k \in 0..c : walk[k] \in S \cup {NULL}
  <2> SUFFICES ASSUME NEW k \in 0..c PROVE walk[k] \in S \cup {NULL}
    OBVIOUS
  <2>1. CASE k < n
    BY <1>7, <1>8, <2>1
  <2>2. CASE ~(k < n)
    BY <1>7, <1>8, <2>2
  <2> QED BY <2>1, <2>2
<1>10. S \subseteq {walk[k] : k \in 0..c}
  BY <1>7, <1>8
<1>11. {walk[k] : k \in 0..c} \ {NULL} = S
  BY <1>1, <1>9, <1>10
<1> QED BY <1>11 DEF LargeCells, walk, c, S

\* memmgr_verify finds a cell in use exactly when a caller holds it, for every
\* cell there is; what memmgr_final frees at the end, found in the same way, is
\* what was never freed.
THEOREM VerifyIsRight == Spec => []VerifyTellsLive
<1>1. IInv => VerifyTellsLive
  <2> SUFFICES ASSUME IInv PROVE Active = live
    BY DEF VerifyTellsLive
  <2>1. mm \in Managers /\ live \subseteq Cells /\ UnitsInv(mm, live, Serving(mm))
    BY DEF IInv, TypeOK, Good
  <2>2. ASSUME NEW u \in Units
        PROVE  u \in live <=> /\ u[1] \in Reserved
                              /\ mm.block[u[1]].used > 0
                              /\ u[2] < mm.block[u[1]].maxused
                              /\ mm.inUse[u]
    <3>1. PICK b \in Blocks, i \in 0..(UnitCount(1) - 1) : u = <<b, i>>
      BY DEF Units
    <3>2. u[1] = b /\ u[2] = i /\ mm.inUse[u] \in BOOLEAN
      BY <2>1, <3>1, ManagerTypes
    <3>3. (b \in Reserved /\ mm.block[b].used > 0) <=> b \in Serving(mm)
      BY DEF Serving, Reserved, ReservedOf
    <3>4. u \in live => b \in Serving(mm)
      BY <2>1, <3>2 DEF UnitsInv
    <3>5. b \in Serving(mm) =>
              /\ i < mm.block[b].maxused => (mm.inUse[<<b, i>>] <=> <<b, i>> \in live)
              /\ <<b, i>> \in live => i < mm.block[b].maxused
      BY <2>1 DEF UnitsInv, UnitsOfBlock
    <3> QED BY <3>1, <3>2, <3>3, <3>4, <3>5
  <2>3. LargeCells = live \cap Larges
    BY LargeCellsListed
  <2>4. live = (live \cap Units) \cup (live \cap Larges)
    BY <2>1 DEF Cells
  <2>5. {u \in Units : /\ u[1] \in Reserved
                       /\ mm.block[u[1]].used > 0
                       /\ u[2] < mm.block[u[1]].maxused
                       /\ mm.inUse[u]} = live \cap Units
    BY <2>2
  <2> QED BY <2>3, <2>4, <2>5 DEF Active
<1> QED BY <1>1, ManagerInv, PTL
-----------------------------------------------------------------------------
(* Sums over finite sets: the members may be taken in any order.             *)

Picked(s) == CHOOSE x \in s : TRUE

\* What MapThenSumSet computes, of the values a.
Total(a, S) ==
    LET iter[s \in SUBSET S] ==
            IF s = {} THEN 0 ELSE a[Picked(s)] + iter[s \ {Picked(s)}]
    IN  iter[S]

Sums(g, a, S) ==
    \A s \in SUBSET S : g[s] = IF s = {} THEN 0 ELSE a[Picked(s)] + g[s \ {Picked(s)}]

LEMMA FewerMembers ==
    ASSUME NEW S, IsFiniteSet(S), NEW s \in SUBSET S, s # {}
    PROVE  /\ Picked(s) \in s /\ s \ {Picked(s)} \in SUBSET S
           /\ \A x \in s : Cardinality(s \ {x}) = Cardinality(s) - 1
           /\ Cardinality(s) \in Nat \ {0}
<1>1. Picked(s) \in s
  BY DEF Picked
<1>2. IsFiniteSet(s) /\ Cardinality(s) \in Nat
  BY FS_Subset, FS_CardinalityType
<1>3. \A x : Cardinality(s \ {x}) = IF x \in s THEN Cardinality(s) - 1 ELSE Cardinality(s)
  BY <1>2, FS_RemoveElement
<1>4. Cardinality(s) # 0
  BY <1>2, FS_EmptySet
<1> QED BY <1>1, <1>2, <1>3, <1>4

LEMMA SmallestSet ==
    ASSUME NEW S, IsFiniteSet(S), NEW B \in SUBSET (SUBSET S), B # {}
    PROVE  \E s \in B : \A t \in B : Cardinality(s) <= Cardinality(t)
<1> DEFINE N == {Cardinality(s) : s \in B}
<1>1. \A s \in B : Cardinality(s) \in Nat
  BY FS_Subset, FS_CardinalityType
<1>2. N \in SUBSET Nat /\ N # {}
  BY <1>1
<1>3. PICK n \in N : \A k \in N : n <= k
  <2> HIDE DEF N
  <2> QED BY <1>2, LeastNatural
<1> QED BY <1>3

SumsUp(g, a, S) ==
    g = [s \in SUBSET S |-> IF s = {} THEN 0 ELSE a[Picked(s)] + g[s \ {Picked(s)}]]

LEMMA SumExists ==
    ASSUME NEW S, IsFiniteSet(S), NEW a
    PROVE  \E g : SumsUp(g, a, S)
<1> DEFINE Upto(g, n) == \A s \in SUBSET S : Cardinality(s) <= n =>
               g[s] = IF s = {} THEN 0 ELSE a[Picked(s)] + g[s \ {Picked(s)}]
           Bad == {n \in Nat : ~\E g : Upto(g, n)}
<1>1. Bad = {}
  <2> SUFFICES ASSUME Bad # {} PROVE FALSE
    OBVIOUS
  <2>1. PICK n \in Bad : \A k \in Bad : n <= k
    <3>1. Bad \in SUBSET Nat
      OBVIOUS
    <3> HIDE DEF Bad
    <3> QED BY <3>1, LeastNatural
  <2>2. n \in Nat /\ ~\E g : Upto(g, n)
    OBVIOUS
  <2>3. PICK g : n = 0 \/ Upto(g, n - 1)
    <3>1. CASE n = 0
      BY <3>1
    <3>2. CASE n # 0
      <4>1. n - 1 \in Nat /\ n - 1 \notin Bad
        <5>1. n - 1 \in Nat /\ ~(n <= n - 1)
          BY <2>2, <3>2
        <5> HIDE DEF Bad
        <5> QED BY <2>1, <5>1
      <4> QED BY <4>1
    <3> QED BY <3>1, <3>2
  <2> DEFINE h == [s \in SUBSET S |->
                       IF s = {} THEN 0 ELSE a[Picked(s)] + g[s \ {Picked(s)}]]
  <2>4. ASSUME NEW s \in SUBSET S, Cardinality(s) <= n
        PROVE  h[s] = IF s = {} THEN 0 ELSE a[Picked(s)] + h[s \ {Picked(s)}]
    <3>1. CASE s = {}
      BY <3>1
    <3>2. CASE s # {}
      <4> DEFINE t == s \ {Picked(s)}
      <4>1. /\ t \in SUBSET S /\ Cardinality(t) = Cardinality(s) - 1
            /\ Cardinality(s) \in Nat \ {0}
        BY <3>2, FewerMembers
      <4>2. Cardinality(t) <= n - 1 /\ n # 0
        BY <2>2, <2>4, <4>1
      <4>3. g[t] = IF t = {} THEN 0 ELSE a[Picked(t)] + g[t \ {Picked(t)}]
        <5> HIDE DEF t
        <5> QED BY <2>3, <4>1, <4>2
      <4>4. g[t] = h[t]
        <5> HIDE DEF t
        <5> QED BY <4>1, <4>3
      <4>5. h[s] = a[Picked(s)] + g[t]
        BY <3>2
      <4> HIDE DEF h, t
      <4> QED BY <3>2, <4>4, <4>5 DEF t
    <3> QED BY <3>1, <3>2
  <2>5. Upto(h, n)
    <3> HIDE DEF h
    <3> QED BY <2>4
  <2> QED BY <2>2, <2>5
<1>2. Cardinality(S) \in Nat
  BY FS_CardinalityType
<1>3. PICK g : Upto(g, Cardinality(S))
  BY <1>1, <1>2
<1>4. \A s \in SUBSET S : Cardinality(s) <= Cardinality(S)
  BY FS_Subset
<1> DEFINE h == [s \in SUBSET S |-> g[s]]
<1>5. ASSUME NEW s \in SUBSET S
      PROVE  h[s] = IF s = {} THEN 0 ELSE a[Picked(s)] + h[s \ {Picked(s)}]
  <2>1. s # {} => s \ {Picked(s)} \in SUBSET S
    OBVIOUS
  <2>2. h[s] = g[s] /\ (s # {} => h[s \ {Picked(s)}] = g[s \ {Picked(s)}])
    BY <2>1
  <2>3. g[s] = IF s = {} THEN 0 ELSE a[Picked(s)] + g[s \ {Picked(s)}]
    BY <1>3, <1>4
  <2> HIDE DEF h
  <2> QED BY <2>2, <2>3
<1>6. h = [s \in SUBSET S |-> h[s]]
  OBVIOUS
<1> HIDE DEF h
<1>7. h = [s \in SUBSET S |-> IF s = {} THEN 0 ELSE a[Picked(s)] + h[s \ {Picked(s)}]]
  BY <1>5, <1>6
<1> QED BY <1>7 DEF SumsUp

LEMMA TotalSums ==
    ASSUME NEW S, IsFiniteSet(S), NEW a
    PROVE  \E g : Sums(g, a, S) /\ Total(a, S) = g[S]
<1> DEFINE iter[s \in SUBSET S] ==
               IF s = {} THEN 0 ELSE a[Picked(s)] + iter[s \ {Picked(s)}]
<1>1. iter = [s \in SUBSET S |->
                  IF s = {} THEN 0 ELSE a[Picked(s)] + iter[s \ {Picked(s)}]]
  <2>1. PICK g : SumsUp(g, a, S)
    BY SumExists
  <2> QED BY <2>1 DEF SumsUp
<1>2. Total(a, S) = iter[S]
  BY DEF Total
<1> HIDE DEF iter
<1>3. Sums(iter, a, S)
  BY <1>1 DEF Sums
<1> QED BY <1>2, <1>3

LEMMA SumsAgree ==
    ASSUME NEW S, NEW T, IsFiniteSet(S), S \subseteq T, NEW a, NEW b, NEW g, NEW h,
           Sums(g, a, S), Sums(h, b, T), \A x \in S : a[x] \in Int /\ b[x] = a[x],
           NEW s \in SUBSET S
    PROVE  g[s] = h[s] /\ g[s] \in Int
<1> DEFINE B == {t \in SUBSET S : ~(g[t] = h[t] /\ g[t] \in Int)}
<1> SUFFICES ASSUME B # {} PROVE FALSE
  OBVIOUS
<1>1. PICK t \in B : \A v \in B : Cardinality(t) <= Cardinality(v)
  <2>1. B \in SUBSET (SUBSET S)
    OBVIOUS
  <2> HIDE DEF B
  <2> QED BY <2>1, SmallestSet
<1>2. t \in SUBSET S /\ t \in SUBSET T /\ ~(g[t] = h[t] /\ g[t] \in Int)
  OBVIOUS
<1>3. t # {}
  <2>1. {} \in SUBSET S /\ {} \in SUBSET T
    OBVIOUS
  <2>2. g[{}] = 0 /\ h[{}] = 0
    BY <2>1 DEF Sums
  <2> QED BY <1>2, <2>2
<1> DEFINE v == t \ {Picked(t)}
<1>4. v \in SUBSET S /\ Picked(t) \in S /\ Cardinality(v) = Cardinality(t) - 1
      /\ Cardinality(t) \in Nat
  BY <1>2, <1>3, FewerMembers
<1>5. v \notin B
  <2> HIDE DEF B, v
  <2> QED BY <1>1, <1>4
<1>6. g[v] = h[v] /\ g[v] \in Int
  BY <1>4, <1>5
<1>7. g[t] = a[Picked(t)] + g[v] /\ h[t] = b[Picked(t)] + h[v]
  BY <1>2, <1>3 DEF Sums
<1> HIDE DEF v
<1> QED BY <1>2, <1>4, <1>6, <1>7

LEMMA SumOfMore ==
    ASSUME NEW S, IsFiniteSet(S), NEW a, NEW g, Sums(g, a, S), \A x \in S : a[x] \in Int,
           NEW s \in SUBSET S, NEW y \in S, y \notin s
    PROVE  g[s \cup {y}] = g[s] + a[y]
<1> DEFINE B == {t \in SUBSET S : \E z \in S : z \notin t /\ g[t \cup {z}] # g[t] + a[z]}
<1> SUFFICES ASSUME B # {} PROVE FALSE
  OBVIOUS
<1>1. PICK t \in B : \A v \in B : Cardinality(t) <= Cardinality(v)
  <2>1. B \in SUBSET (SUBSET S)
    OBVIOUS
  <2> HIDE DEF B
  <2> QED BY <2>1, SmallestSet
<1>2. PICK z \in S : z \notin t /\ g[t \cup {z}] # g[t] + a[z]
  OBVIOUS
<1>3. t \in SUBSET S
  OBVIOUS
<1>4. \A v \in SUBSET S : g[v] \in Int
  BY SumsAgree
<1> DEFINE u == t \cup {z}
           x == Picked(u)
<1>5. u \in SUBSET S /\ u # {} /\ x \in u /\ u \ {x} \in SUBSET S
  BY <1>2, <1>3, FewerMembers
<1>6. g[u] = a[x] + g[u \ {x}]
  BY <1>5 DEF Sums
<1>7. CASE x = z
  <2>1. u \ {x} = t
    BY <1>2, <1>7
  <2> HIDE DEF u, x
  <2>2. g[u] = a[z] + g[t] /\ a[z] \in Int /\ g[t] \in Int
    BY <1>2, <1>3, <1>4, <1>6, <1>7, <2>1
  <2> QED BY <1>2, <2>2 DEF u
<1>8. CASE x # z
  <2> DEFINE w == t \ {x}
  <2>1. x \in t /\ x \in S
    BY <1>2, <1>3, <1>5, <1>8
  <2> HIDE DEF x
  <2>2. /\ w \in SUBSET S /\ x \notin w /\ z \notin w
        /\ u \ {x} = w \cup {z} /\ w \cup {x} = t
    BY <1>2, <1>3, <1>8, <2>1
  <2>3. Cardinality(w) = Cardinality(t) - 1 /\ Cardinality(t) \in Nat
    BY <1>3, <2>1, FewerMembers
  <2>4. w \notin B
    <3> HIDE DEF B, w
    <3> QED BY <1>1, <2>2, <2>3
  <2>5. g[w \cup {z}] = g[w] + a[z] /\ g[w \cup {x}] = g[w] + a[x]
    BY <1>2, <2>1, <2>2, <2>4
  <2>6. g[w] \in Int /\ a[z] \in Int /\ a[x] \in Int
    BY <1>2, <1>4, <2>1, <2>2
  <2> HIDE DEF u, w
  <2>7. g[u] = a[x] + (g[w] + a[z]) /\ g[t] = g[w] + a[x]
    BY <1>6, <2>2, <2>5
  <2> QED BY <1>2, <2>6, <2>7 DEF u
<1> QED BY <1>7, <1>8

\* One more member adds its value to the sum.
LEMMA TotalOfMore ==
    ASSUME NEW S, IsFiniteSet(S), NEW c, c \notin S, NEW a, NEW b,
           \A x \in S : a[x] \in Int /\ b[x] = a[x], b[c] \in Int
    PROVE  Total(b, S \cup {c}) = Total(a, S) + b[c] /\ Total(a, S) \in Int
<1> DEFINE T == S \cup {c}
<1>1. IsFiniteSet(T)
  BY FS_AddElement
<1>2. PICK g : Sums(g, a, S) /\ Total(a, S) = g[S]
  BY TotalSums
<1>3. PICK h : Sums(h, b, T) /\ Total(b, T) = h[T]
  <2> HIDE DEF T
  <2> QED BY <1>1, TotalSums
<1>4. \A x \in T : b[x] \in Int
  OBVIOUS
<1>5. S \in SUBSET T /\ c \in T /\ T = S \cup {c}
  OBVIOUS
<1> HIDE DEF T
<1>6. g[S] = h[S] /\ g[S] \in Int
  <2>1. S \in SUBSET S /\ S \subseteq T
    BY <1>5
  <2> QED BY <1>2, <1>3, <2>1, SumsAgree
<1>7. h[S \cup {c}] = h[S] + b[c]
  BY <1>1, <1>3, <1>4, <1>5, SumOfMore
<1> QED BY <1>2, <1>3, <1>5, <1>6, <1>7 DEF T

LEMMA UsageIsTotal == UsageIsExact <=> mm.usage = Total(asked, live)
BY DEF UsageIsExact, MapThenSumSet, MapThenFoldSet, Total, Picked

LEMMA FiniteLive ==
    ASSUME TypeOK
    PROVE  IsFiniteSet(live)
<1>1. IsFiniteSet(0..(UnitCount(1) - 1))
  <2>1. 0 \in Int /\ UnitCount(1) - 1 \in Int
    BY ClassSizes, Geometry
  <2> QED BY <2>1, FS_Interval
<1>2. IsFiniteSet(Units)
  BY <1>1, Addresses, FS_Product DEF Units
<1>3. IsFiniteSet(Cells)
  BY <1>2, Addresses, FS_Union DEF Cells
<1> QED BY <1>3, FS_Subset DEF TypeOK

\* memmgr_usage_bytes is the sum of what was asked for every cell in use: a
\* unit's size field counts while it is in use, and is a link of the free list
\* only after it has been subtracted (memory.c 298, 349, 458, 477, 503).
THEOREM UsageIsCounted == Spec => []UsageIsExact
<1> DEFINE Inv == mm.usage = Total(asked, live)
<1>1. Init => Inv
  <2> SUFFICES ASSUME Init PROVE Inv
    OBVIOUS
  <2>1. IsFiniteSet({}) /\ live = {} /\ mm.usage = 0
    BY FS_EmptySet DEF Init
  <2>2. PICK g : Sums(g, asked, {}) /\ Total(asked, {}) = g[{}]
    BY <2>1, TotalSums
  <2>3. g[{}] = 0
    BY <2>2 DEF Sums
  <2> QED BY <2>1, <2>2, <2>3
<1>2. ASSUME Inv, IInv, IInv', [Next]_vars PROVE Inv'
  <2>1. /\ TypeOK /\ AskedIsSize /\ mm \in Managers /\ Good(mm, live)
        /\ IsFiniteSet(live) /\ \A c \in live : c \in Cells /\ asked[c] \in Nat
    <3>1. TypeOK /\ AskedIsSize
      BY <1>2 DEF IInv, AskedIsSize
    <3> QED BY <1>2, <3>1, FiniteLive, LiveSizes DEF IInv, TypeOK
  <2>2. Sizes \subseteq Nat \ {0} /\ asked \in [Cells -> Sizes \cup {0}]
    BY <2>1, ManagerAssumption DEF TypeOK
  <2>3. ASSUME NEW size \in Sizes, NEW c \in Cells, Alloc(size, c) PROVE Inv'
    <3> DEFINE n == With(mm, size, c)
               a == [asked EXCEPT ![c] = size]
    <3>1. CanGive(mm, size, c) /\ mm' = n /\ live' = live \cup {c} /\ asked' = a
      BY <2>3 DEF Alloc
    <3>2. c \notin live /\ n.usage = mm.usage + size
      <4>1. size \in Nat \ {0}
        BY <2>2
      <4>2. c \notin live /\ Grows(mm, n, c, size)
        BY <2>1, <3>1, <4>1, GiveGood
      <4> QED BY <4>2 DEF Grows
    <3>3. a[c] = size /\ a[c] \in Int /\ \A x \in live : asked[x] \in Int /\ a[x] = asked[x]
      BY <2>1, <2>2, <3>2
    <3> HIDE DEF n, a
    <3>4. Total(a, live \cup {c}) = Total(asked, live) + a[c]
      BY <2>1, <3>2, <3>3, TotalOfMore
    <3> QED BY <1>2, <3>1, <3>2, <3>3, <3>4
  <2>4. ASSUME NEW size \in Sizes, NEW d \in Cells, NEW c \in live, Realloc(c, size, d)
        PROVE  Inv'
    <3> DEFINE k == With(mm, size, d)
               n == After(k, c)
               a == [asked EXCEPT ![d] = size]
               b == [asked EXCEPT ![d] = size, ![c] = 0]
               S == (live \cup {d}) \ {c}
    <3>1. CanGive(mm, size, d) /\ mm' = n /\ live' = S /\ asked' = b
      BY <2>4 DEF Realloc
    <3>2. d \notin live /\ k \in Managers /\ Good(k, live \cup {d}) /\ Grows(mm, k, d, size)
      <4>1. size \in Nat \ {0}
        BY <2>2
      <4> QED BY <2>1, <3>1, <4>1, GiveGood
    <3> HIDE DEF k
    <3>3. c \in Cells /\ c # d /\ c \in live \cup {d} /\ mm.size[c] = asked[c]
          /\ asked[c] \in Nat
      BY <2>1, <3>2 DEF AskedIsSize
    <3>4. k.size[c] = asked[c] /\ k.usage = mm.usage + size
      BY <3>2, <3>3 DEF Grows
    <3>5. n.usage = k.usage - asked[c]
      <4>1. k.size[c] \in Nat
        BY <3>3, <3>4
      <4>2. Shrinks(k, n, c)
        BY <3>2, <3>3, <4>1, ReturnGood
      <4> QED BY <3>4, <4>2 DEF Shrinks
    <3>6. /\ a[d] = size /\ a[d] \in Int /\ \A x \in live : asked[x] \in Int /\ a[x] = asked[x]
          /\ a[c] = asked[c] /\ a[c] \in Int
      BY <2>1, <2>2, <3>2, <3>3
    <3>7. \A x \in S : b[x] \in Int /\ a[x] = b[x]
      BY <2>1, <2>2, <3>2, <3>3
    <3>8. IsFiniteSet(S) /\ c \notin S /\ S \cup {c} = live \cup {d}
      <4>1. IsFiniteSet(live \cup {d})
        BY <2>1, FS_AddElement
      <4> QED BY <3>3, <4>1, FS_Subset
    <3> HIDE DEF n, a, b, S
    <3>9. Total(a, live \cup {d}) = Total(asked, live) + a[d]
      BY <2>1, <3>2, <3>6, TotalOfMore
    <3>10. Total(a, S \cup {c}) = Total(b, S) + a[c] /\ Total(b, S) \in Int
      BY <3>6, <3>7, <3>8, TotalOfMore
    <3>11. mm.usage \in Int
      BY <2>1, ManagerTypes
    <3>12. mm.usage + size = Total(b, S) + asked[c]
      BY <1>2, <3>6, <3>8, <3>9, <3>10
    <3>13. n.usage = (mm.usage + size) - asked[c] /\ asked[c] \in Int /\ size \in Int
      BY <2>2, <3>3, <3>4, <3>5
    <3>14. n.usage = Total(b, S)
      BY <3>10, <3>11, <3>12, <3>13
    <3> QED BY <3>1, <3>14
  <2>5. ASSUME NEW c \in live, Free(c) PROVE Inv'
    <3> DEFINE n == After(mm, c)
               b == [asked EXCEPT ![c] = 0]
               S == live \ {c}
    <3>1. mm' = n /\ live' = S /\ asked' = b
      BY <2>5 DEF Free
    <3>2. c \in Cells /\ mm.size[c] = asked[c] /\ asked[c] \in Nat
      BY <2>1 DEF AskedIsSize
    <3>3. n.usage = mm.usage - asked[c]
      <4>1. mm.size[c] \in Nat
        BY <3>2
      <4>2. Shrinks(mm, n, c)
        BY <2>1, <3>2, <4>1, ReturnGood
      <4> QED BY <3>2, <4>2 DEF Shrinks
    <3>4. \A x \in S : b[x] \in Int /\ asked[x] = b[x]
      BY <2>1, <2>2
    <3>5. IsFiniteSet(S) /\ c \notin S /\ S \cup {c} = live
      BY <2>1, FS_Subset
    <3> HIDE DEF n, b, S
    <3>6. asked[c] \in Int
      BY <3>2
    <3>7. Total(asked, S \cup {c}) = Total(b, S) + asked[c] /\ Total(b, S) \in Int
      BY <3>4, <3>5, <3>6, TotalOfMore
    <3>8. mm.usage \in Int
      BY <2>1, ManagerTypes
    <3>9. mm.usage = Total(b, S) + asked[c]
      BY <1>2, <3>5, <3>7
    <3>10. n.usage = Total(b, S)
      BY <3>3, <3>6, <3>7, <3>8, <3>9
    <3> QED BY <3>1, <3>10
  <2>6. CASE UNCHANGED vars
    BY <1>2, <2>6 DEF vars
  <2> QED BY <1>2, <2>3, <2>4, <2>5, <2>6 DEF Next
<1>3. Spec => []Inv
  BY <1>1, <1>2, ManagerInv, PTL DEF Spec
<1> QED BY <1>3, UsageIsTotal, PTL
=============================================================================
