-------------------------- MODULE MemoryPoolProofs --------------------------
(* The pool is a correct allocator for every page size and page count.       *)
EXTENDS MemoryPool, TLAPS

USE DEF HandOut

\* Putting a free cell in front of the list, and taking the first one off,
\* changes the set of listed cells by exactly that cell.
LEMMA PushAddsCell ==
    ASSUME TypeOK, NEW c \in Cells, order' = <<c>> \o order
    PROVE  /\ order' \in Seq(Cells)
           /\ Len(order') = Len(order) + 1
           /\ order'[1] = c
           /\ \A i \in DOMAIN order : order'[i + 1] = order[i]
           /\ FreeCells' = FreeCells \cup {c}
<1> DEFINE s == order'
<1>1. /\ s \in Seq(Cells) /\ Len(s) = Len(order) + 1 /\ s[1] = c
      /\ \A i \in 1..Len(order) : s[i + 1] = order[i]
  BY DEF TypeOK
<1>2. DOMAIN s = 1..(Len(order) + 1) /\ DOMAIN order = 1..Len(order)
      /\ Len(order) \in Nat
  BY <1>1 DEF TypeOK
<1>3. \A i \in DOMAIN s : s[i] \in FreeCells \cup {c}
  <2> SUFFICES ASSUME NEW i \in DOMAIN s PROVE s[i] \in FreeCells \cup {c}
    OBVIOUS
  <2>1. CASE i = 1
    BY <2>1, <1>1
  <2>2. CASE i # 1
    <3>1. i - 1 \in 1..Len(order) /\ i = (i - 1) + 1
      BY <2>2, <1>2
    <3>2. s[i] = order[i - 1]
      BY <3>1, <1>1
    <3> QED BY <3>1, <3>2, <1>2 DEF FreeCells
  <2> QED BY <2>1, <2>2
<1>4. FreeCells \cup {c} \subseteq {s[i] : i \in DOMAIN s}
  <2>1. 1 \in DOMAIN s
    BY <1>2
  <2>2. \A i \in DOMAIN order : i + 1 \in DOMAIN s
    BY <1>2
  <2> QED BY <2>1, <2>2, <1>1, <1>2 DEF FreeCells
<1>5. FreeCells' \subseteq FreeCells \cup {c}
  BY <1>3 DEF FreeCells
<1>6. FreeCells \cup {c} \subseteq FreeCells'
  BY <1>4 DEF FreeCells
<1> QED BY <1>1, <1>2, <1>5, <1>6

LEMMA TailDropsFirst ==
    ASSUME TypeOK, order # <<>>, order' = Tail(order),
           \A i, j \in DOMAIN order : order[i] = order[j] => i = j
    PROVE  /\ order' \in Seq(Cells)
           /\ Len(order') = Len(order) - 1
           /\ \A i \in DOMAIN order' : order'[i] = order[i + 1]
                                       /\ i + 1 \in DOMAIN order
           /\ FreeCells' = FreeCells \ {order[1]}
           /\ order[1] \in FreeCells
<1>1. /\ Len(order) \in Nat \ {0} /\ DOMAIN order = 1..Len(order)
      /\ order' \in Seq(Cells) /\ Len(order') = Len(order) - 1
      /\ DOMAIN order' = 1..(Len(order) - 1)
  BY DEF TypeOK
<1>2. \A i \in DOMAIN order' : order'[i] = order[i + 1] /\ i + 1 \in DOMAIN order
  BY <1>1 DEF TypeOK
<1>3. order[1] \in FreeCells
  BY <1>1 DEF FreeCells
<1>4. \A i \in DOMAIN order' : order'[i] \in FreeCells \ {order[1]}
  <2> SUFFICES ASSUME NEW i \in DOMAIN order'
               PROVE  order'[i] \in FreeCells \ {order[1]}
    OBVIOUS
  <2>1. order'[i] = order[i + 1] /\ i + 1 \in DOMAIN order /\ i + 1 # 1
    BY <1>1, <1>2
  <2>2. 1 \in DOMAIN order
    BY <1>1
  <2> QED BY <2>1, <2>2 DEF FreeCells
<1>5. \A i \in DOMAIN order : order[i] # order[1] => order[i] \in FreeCells'
  <2> SUFFICES ASSUME NEW i \in DOMAIN order, order[i] # order[1]
               PROVE  order[i] \in FreeCells'
    OBVIOUS
  <2>1. i # 1 /\ i - 1 \in DOMAIN order' /\ (i - 1) + 1 = i
    BY <1>1
  <2>2. order'[i - 1] = order[i]
    BY <2>1, <1>2
  <2> QED BY <2>1, <2>2 DEF FreeCells
<1>6. FreeCells' \subseteq FreeCells \ {order[1]}
  BY <1>4 DEF FreeCells
<1>7. FreeCells \ {order[1]} \subseteq FreeCells'
  BY <1>5 DEF FreeCells
<1> QED BY <1>1, <1>2, <1>3, <1>6, <1>7

LEMMA InitIInv == Init => IInv
<1> SUFFICES ASSUME Init PROVE IInv
  OBVIOUS
<1>1. /\ order = <<>> /\ FreeCells = {} /\ Carved = {}
  BY PoolAssumption DEF Init, FreeCells, Carved, Cells
<1>2. TypeOK
  BY PoolAssumption DEF Init, TypeOK, Cells
<1>3. ReuseThreadsFreeCells
  BY DEF Init, ReuseThreadsFreeCells
<1>4. CarvedAccounted
  BY <1>1 DEF Init, CarvedAccounted
<1>5. PagesFillInOrder
  BY PoolAssumption DEF Init, PagesFillInOrder
<1> QED BY <1>2, <1>3, <1>4, <1>5 DEF IInv

LEMMA AllocReuseIInv == IInv /\ AllocReuse => IInv'
<1> SUFFICES ASSUME IInv, AllocReuse PROVE IInv'
  OBVIOUS
<1> USE DEF IInv
<1>1. order # <<>> /\ reuse = order[1] /\ 1 \in DOMAIN order
  BY DEF AllocReuse, ReuseThreadsFreeCells, TypeOK
<1>2. /\ order' \in Seq(Cells)
      /\ Len(order') = Len(order) - 1
      /\ \A i \in DOMAIN order' : order'[i] = order[i + 1]
                                  /\ i + 1 \in DOMAIN order
      /\ FreeCells' = FreeCells \ {order[1]}
      /\ order[1] \in FreeCells
  BY <1>1, TailDropsFirst DEF AllocReuse, ReuseThreadsFreeCells
<1>3. reuse' = IF order' = <<>> THEN NULL ELSE order'[1]
  <2>1. reuse' = IF 1 = Len(order) THEN NULL ELSE order[2]
    <3>1. link[order[1]] = IF 1 = Len(order) THEN NULL ELSE order[1 + 1]
      BY <1>1 DEF ReuseThreadsFreeCells
    <3> QED BY <1>1, <3>1 DEF AllocReuse
  <2>2. order' = <<>> <=> Len(order) = 1
    BY <1>1, <1>2 DEF TypeOK
  <2>3. Len(order) # 1 => 1 \in DOMAIN order'
    BY <1>1, <1>2 DEF TypeOK
  <2> QED BY <2>1, <2>2, <2>3, <1>2
<1>4. TypeOK'
  <2>1. reuse' \in Cells \cup {NULL}
    <3>1. order' # <<>> => 1 \in DOMAIN order'
      BY <1>2
    <3> QED BY <1>2, <1>3, <3>1
  <2>2. reuse \in Cells
    BY DEF AllocReuse, TypeOK
  <2> QED BY <2>1, <2>2, <1>2 DEF AllocReuse, TypeOK
<1>5. ReuseThreadsFreeCells'
  <2>1. \A i \in DOMAIN order' :
           link[order'[i]] = IF i = Len(order') THEN NULL ELSE order'[i + 1]
    <3> SUFFICES ASSUME NEW i \in DOMAIN order'
                 PROVE  link[order'[i]]
                          = IF i = Len(order') THEN NULL ELSE order'[i + 1]
      OBVIOUS
    <3>1. /\ i \in Nat /\ Len(order) \in Nat
          /\ i = Len(order') <=> i + 1 = Len(order)
          /\ i # Len(order') => i + 1 \in DOMAIN order'
      BY <1>2 DEF TypeOK
    <3>2. link[order[i + 1]]
            = IF i + 1 = Len(order) THEN NULL ELSE order[(i + 1) + 1]
      BY <1>2 DEF ReuseThreadsFreeCells
    <3> QED BY <3>1, <3>2, <1>2
  <2>2. \A i, j \in DOMAIN order' : order'[i] = order'[j] => i = j
    <3> SUFFICES ASSUME NEW i \in DOMAIN order', NEW j \in DOMAIN order',
                        order'[i] = order'[j]
                 PROVE  i = j
      OBVIOUS
    <3>1. i + 1 = j + 1
      BY <1>2 DEF ReuseThreadsFreeCells
    <3>2. i \in Nat /\ j \in Nat
      BY <1>2
    <3> QED BY <3>1, <3>2
  <2> QED BY <1>3, <2>1, <2>2 DEF ReuseThreadsFreeCells, AllocReuse
<1>6. Carved' = Carved
  BY DEF AllocReuse, Carved
<1>7. CarvedAccounted'
  BY <1>1, <1>2, <1>6 DEF CarvedAccounted, AllocReuse
<1>8. PagesFillInOrder'
  BY DEF PagesFillInOrder, AllocReuse
<1> QED BY <1>4, <1>5, <1>7, <1>8

LEMMA AllocFreshIInv == IInv /\ AllocFresh => IInv'
<1> SUFFICES ASSUME IInv, AllocFresh PROVE IInv'
  OBVIOUS
<1> USE DEF IInv
<1> DEFINE c == <<pageCount, useCount[pageCount] + 1>>
<1>1. /\ pageCount \in 1..MaxPages
      /\ useCount[pageCount] \in Nat
      /\ useCount[pageCount] + 1 \in 1..PerPage
      /\ c \in Cells
  BY PoolAssumption DEF AllocFresh, TypeOK, Cells
<1>2. TypeOK'
  <2>1. useCount[pageCount] + 1 \in 0..PerPage
    BY <1>1, PoolAssumption
  <2>2. useCount' \in [1..MaxPages -> 0..PerPage]
    BY <1>1, <2>1 DEF AllocFresh, TypeOK
  <2>3. live' \subseteq Cells /\ outstanding' \in Int
    BY <1>1 DEF AllocFresh, TypeOK
  <2> QED BY <2>2, <2>3 DEF AllocFresh, TypeOK
<1>3. FreeCells' = FreeCells /\ ReuseThreadsFreeCells'
  BY DEF AllocFresh, FreeCells, ReuseThreadsFreeCells
<1>4. c \notin Carved
  BY <1>1 DEF Carved
<1>5. Carved' = Carved \cup {c}
  <2>1. \A d \in Cells : d \in Carved' <=> d \in Carved \/ d = c
    <3> SUFFICES ASSUME NEW d \in Cells
                 PROVE  d \in Carved' <=> d \in Carved \/ d = c
      OBVIOUS
    <3>1. d[1] \in 1..MaxPages /\ d[2] \in 1..PerPage /\ d = <<d[1], d[2]>>
      BY DEF Cells
    <3>2. CASE d[1] = pageCount
      <4>1. useCount'[d[1]] = useCount[pageCount] + 1
        BY <3>2, <1>1 DEF AllocFresh, TypeOK
      <4> QED BY <3>1, <3>2, <4>1, <1>1, PoolAssumption DEF AllocFresh, Carved
    <3>3. CASE d[1] # pageCount
      <4>1. useCount'[d[1]] = useCount[d[1]]
        BY <3>1, <3>3 DEF AllocFresh, TypeOK
      <4> QED BY <3>1, <3>3, <4>1 DEF AllocFresh, Carved
    <3> QED BY <3>2, <3>3
  <2>2. Carved' \subseteq Cells /\ Carved \subseteq Cells
    BY DEF Carved, Cells
  <2> QED BY <2>1, <2>2, <1>1
<1>6. CarvedAccounted'
  BY <1>3, <1>4, <1>5 DEF CarvedAccounted, AllocFresh
<1>7. PagesFillInOrder'
  <2> SUFFICES ASSUME NEW p \in 1..MaxPages
               PROVE  /\ p < pageCount' => useCount'[p] = PerPage
                      /\ p > pageCount' => useCount'[p] = 0
    BY DEF PagesFillInOrder
  <2>1. p # pageCount => useCount'[p] = useCount[p]
    BY DEF AllocFresh, TypeOK
  <2> QED BY <2>1, <1>1 DEF AllocFresh, PagesFillInOrder
<1> QED BY <1>2, <1>3, <1>6, <1>7

LEMMA AllocExpandIInv == IInv /\ AllocExpand => IInv'
<1> SUFFICES ASSUME IInv, AllocExpand PROVE IInv'
  OBVIOUS
<1> USE DEF IInv
<1> DEFINE c == <<pageCount + 1, 1>>
<1>1. /\ pageCount \in 1..MaxPages
      /\ pageCount + 1 \in 1..MaxPages
      /\ 1 \in 1..PerPage
      /\ c \in Cells
      /\ useCount[pageCount + 1] = 0
  BY PoolAssumption DEF AllocExpand, TypeOK, Cells, PagesFillInOrder
<1>2. TypeOK'
  <2>1. useCount' \in [1..MaxPages -> 0..PerPage]
    <3>1. 1 \in 0..PerPage
      BY PoolAssumption
    <3> QED BY <3>1, <1>1 DEF AllocExpand, TypeOK
  <2>2. link' \in [Cells -> Cells \cup {NULL, Garbage}]
    BY <1>1 DEF AllocExpand, TypeOK
  <2> QED BY <1>1, <2>1, <2>2 DEF AllocExpand, TypeOK
<1>3. order = <<>>
  <2>1. order # <<>> => order[1] \in Cells
    BY DEF TypeOK
  <2>2. NULL \notin Cells
    BY PoolAssumption DEF Cells
  <2> QED BY <2>1, <2>2 DEF AllocExpand, ReuseThreadsFreeCells
<1>4. FreeCells' = FreeCells /\ FreeCells = {} /\ ReuseThreadsFreeCells'
  BY <1>3 DEF AllocExpand, FreeCells, ReuseThreadsFreeCells
<1>5. c \notin Carved
  BY <1>1 DEF Carved
<1>6. Carved' = Carved \cup {c}
  <2>1. \A d \in Cells : d \in Carved' <=> d \in Carved \/ d = c
    <3> SUFFICES ASSUME NEW d \in Cells
                 PROVE  d \in Carved' <=> d \in Carved \/ d = c
      OBVIOUS
    <3>1. d[1] \in 1..MaxPages /\ d[2] \in 1..PerPage /\ d = <<d[1], d[2]>>
      BY DEF Cells
    <3>2. CASE d[1] = pageCount + 1
      <4>1. useCount'[d[1]] = 1
        BY <3>2, <1>1 DEF AllocExpand, TypeOK
      <4> QED BY <3>1, <3>2, <4>1, <1>1, PoolAssumption DEF AllocExpand, Carved
    <3>3. CASE d[1] # pageCount + 1
      <4>1. useCount'[d[1]] = useCount[d[1]]
        BY <3>1, <3>3 DEF AllocExpand, TypeOK
      <4>2. d[1] <= pageCount + 1 <=> d[1] <= pageCount
        BY <3>1, <3>3, <1>1
      <4> QED BY <3>3, <4>1, <4>2 DEF AllocExpand, Carved
    <3> QED BY <3>2, <3>3
  <2>2. Carved' \subseteq Cells /\ Carved \subseteq Cells
    BY DEF Carved, Cells
  <2> QED BY <2>1, <2>2, <1>1
<1>7. CarvedAccounted'
  BY <1>4, <1>5, <1>6 DEF CarvedAccounted, AllocExpand
<1>8. PagesFillInOrder'
  <2> SUFFICES ASSUME NEW p \in 1..MaxPages
               PROVE  /\ p < pageCount' => useCount'[p] = PerPage
                      /\ p > pageCount' => useCount'[p] = 0
    BY DEF PagesFillInOrder
  <2>1. useCount[pageCount] = PerPage
    BY <1>1, PoolAssumption DEF AllocExpand, TypeOK
  <2>2. CASE p = pageCount + 1
    BY <2>2, <1>1 DEF AllocExpand
  <2>3. CASE p # pageCount + 1
    <3>1. useCount'[p] = useCount[p]
      BY <2>3 DEF AllocExpand, TypeOK
    <3> QED BY <3>1, <2>1, <2>3, <1>1 DEF AllocExpand, PagesFillInOrder
  <2> QED BY <2>2, <2>3
<1> QED BY <1>2, <1>4, <1>7, <1>8

LEMMA FreeIInv == ASSUME NEW c \in Cells PROVE IInv /\ Free(c) => IInv'
<1> SUFFICES ASSUME IInv, Free(c) PROVE IInv'
  OBVIOUS
<1> USE DEF IInv
<1>1. /\ order' \in Seq(Cells)
      /\ Len(order') = Len(order) + 1
      /\ order'[1] = c
      /\ \A i \in DOMAIN order : order'[i + 1] = order[i]
      /\ FreeCells' = FreeCells \cup {c}
  BY PushAddsCell DEF Free
<1>2. Len(order) \in Nat /\ DOMAIN order = 1..Len(order)
      /\ DOMAIN order' = 1..(Len(order) + 1)
  BY <1>1 DEF TypeOK
<1>3. TypeOK'
  BY <1>1 DEF Free, TypeOK
<1>4. c \notin FreeCells
  BY DEF Free, CarvedAccounted
<1>5. \A i \in DOMAIN order' :
         \/ i = 1 /\ order'[i] = c
         \/ i - 1 \in DOMAIN order /\ order'[i] = order[i - 1]
  <2> SUFFICES ASSUME NEW i \in DOMAIN order', i # 1
               PROVE  i - 1 \in DOMAIN order /\ order'[i] = order[i - 1]
    BY <1>1
  <2>1. i - 1 \in DOMAIN order /\ (i - 1) + 1 = i
    BY <1>2
  <2> QED BY <2>1, <1>1
<1>6. \A i \in DOMAIN order : order[i] \in Cells /\ order[i] # c
  BY <1>4 DEF FreeCells, TypeOK
<1>7. reuse' = IF order' = <<>> THEN NULL ELSE order'[1]
  BY <1>1, <1>2 DEF Free
<1>8. \A i \in DOMAIN order' :
         link'[order'[i]] = IF i = Len(order') THEN NULL ELSE order'[i + 1]
  <2> SUFFICES ASSUME NEW i \in DOMAIN order'
               PROVE  link'[order'[i]]
                        = IF i = Len(order') THEN NULL ELSE order'[i + 1]
    OBVIOUS
  <2>1. CASE i = 1
    <3>1. link'[order'[i]] = reuse
      BY <2>1, <1>1 DEF Free, TypeOK
    <3>2. order = <<>> <=> Len(order) = 0
      BY DEF TypeOK
    <3>3. order # <<>> => 1 \in DOMAIN order /\ order'[1 + 1] = order[1]
      BY <3>2, <1>1, <1>2
    <3> QED BY <2>1, <3>1, <3>2, <3>3, <1>1, <1>2 DEF ReuseThreadsFreeCells
  <2>2. CASE i # 1
    <3>1. i - 1 \in DOMAIN order /\ order'[i] = order[i - 1]
      BY <2>2, <1>5
    <3>2. link'[order'[i]] = link[order[i - 1]]
      BY <3>1, <1>6 DEF Free, TypeOK
    <3>3. link[order[i - 1]]
            = IF i - 1 = Len(order) THEN NULL ELSE order[(i - 1) + 1]
      BY <3>1 DEF ReuseThreadsFreeCells
    <3>4. i \in Nat /\ (i = Len(order') <=> i - 1 = Len(order))
          /\ (i # Len(order') => i \in DOMAIN order) /\ (i - 1) + 1 = i
      BY <1>1, <1>2
    <3>5. i # Len(order') => order'[i + 1] = order[i]
      BY <3>4, <1>1
    <3> QED BY <3>2, <3>3, <3>4, <3>5
  <2> QED BY <2>1, <2>2
<1>9. \A i, j \in DOMAIN order' : order'[i] = order'[j] => i = j
  <2> SUFFICES ASSUME NEW i \in DOMAIN order', NEW j \in DOMAIN order',
                      order'[i] = order'[j]
               PROVE  i = j
    OBVIOUS
  <2>1. CASE i = 1 \/ j = 1
    BY <2>1, <1>1, <1>5, <1>6
  <2>2. CASE i # 1 /\ j # 1
    <3>1. i - 1 = j - 1
      BY <2>2, <1>5 DEF ReuseThreadsFreeCells
    <3> QED BY <3>1, <1>2
  <2> QED BY <2>1, <2>2
<1>10. ReuseThreadsFreeCells'
  BY <1>7, <1>8, <1>9 DEF ReuseThreadsFreeCells
<1>11. Carved' = Carved
  BY DEF Free, Carved
<1>12. CarvedAccounted'
  BY <1>1, <1>4, <1>11 DEF CarvedAccounted, Free
<1>13. PagesFillInOrder'
  BY DEF PagesFillInOrder, Free
<1> QED BY <1>3, <1>10, <1>12, <1>13

LEMMA StepIInv == IInv /\ [Next]_vars => IInv'
<1> SUFFICES ASSUME IInv, [Next]_vars PROVE IInv'
  OBVIOUS
<1>1. CASE AllocReuse
  BY <1>1, AllocReuseIInv
<1>2. CASE AllocFresh
  BY <1>2, AllocFreshIInv
<1>3. CASE AllocExpand
  BY <1>3, AllocExpandIInv
<1>4. ASSUME NEW c \in Cells, Free(c) PROVE IInv'
  BY <1>4, FreeIInv
<1>5. CASE UNCHANGED vars
  BY <1>5 DEF vars, IInv, TypeOK, ReuseThreadsFreeCells, CarvedAccounted,
              PagesFillInOrder, FreeCells, Carved
<1> QED BY <1>1, <1>2, <1>3, <1>4, <1>5 DEF Next

\* On every run the reuse list threads exactly the freed cells, every carved
\* cell is in use or on that list, and the pages fill in order (Alloc, Free).
THEOREM PoolCorrect == Spec => []IInv
<1> QED BY InitIInv, StepIInv, PTL DEF Spec

\* The reuse chain through the cells given back ends, and holds them all, each
\* once: a pool that reuses cells can neither lose one nor give one twice.
THEOREM PoolThreadsFreeCells == Spec => []ReuseThreadsFreeCells
<1> QED BY PoolCorrect, PTL DEF IInv

\* A cell taken from a page is in use or waits on the chain, never both.
THEOREM PoolAccountsForCells == Spec => []CarvedAccounted
<1> QED BY PoolCorrect, PTL DEF IInv

\* Only the last page of a pool has room: no page is left behind unfilled.
THEOREM PoolFillsPages == Spec => []PagesFillInOrder
<1> QED BY PoolCorrect, PTL DEF IInv

\* A pool of any size asks for a page only when all its cells are in use
\* (the last branch of AdrenoMemoryPool_Alloc).
THEOREM PoolGrowsOnlyWhenFull == Spec => GrowsOnlyWhenFull
<1>1. IInv /\ [Next]_vars
        => [pageCount' # pageCount => live = (1..pageCount) \X (1..PerPage)]_vars
  <2> SUFFICES ASSUME IInv, [Next]_vars, pageCount' # pageCount
               PROVE  live = (1..pageCount) \X (1..PerPage)
    OBVIOUS
  <2> USE DEF IInv
  <2>1. AllocExpand
    BY DEF Next, AllocReuse, AllocFresh, Free, vars, TypeOK
  <2>2. order = <<>> /\ FreeCells = {}
    <3>1. order # <<>> => order[1] \in Cells
      BY DEF TypeOK
    <3>2. NULL \notin Cells
      BY PoolAssumption DEF Cells
    <3>3. order = <<>>
      BY <2>1, <3>1, <3>2 DEF AllocExpand, ReuseThreadsFreeCells
    <3> QED BY <3>3 DEF FreeCells
  <2>3. live = Carved
    BY <2>2 DEF CarvedAccounted
  <2>4. pageCount \in 1..MaxPages /\ useCount[pageCount] = PerPage
    BY <2>1, PoolAssumption DEF AllocExpand, TypeOK
  <2>5. \A p \in 1..pageCount : p \in 1..MaxPages /\ useCount[p] = PerPage
    <3> SUFFICES ASSUME NEW p \in 1..pageCount
                 PROVE  p \in 1..MaxPages /\ useCount[p] = PerPage
      OBVIOUS
    <3>1. p \in 1..MaxPages /\ (p = pageCount \/ p < pageCount)
      BY <2>4, PoolAssumption
    <3> QED BY <3>1, <2>4 DEF PagesFillInOrder
  <2>6. Carved = (1..pageCount) \X (1..PerPage)
    <3>1. Carved \subseteq (1..pageCount) \X (1..PerPage)
      BY DEF Carved, Cells
    <3>2. (1..pageCount) \X (1..PerPage) \subseteq Carved
      BY <2>5, PoolAssumption DEF Carved, Cells
    <3> QED BY <3>1, <3>2
  <2> QED BY <2>3, <2>6
<1> QED BY <1>1, PoolCorrect, PTL DEF Spec, GrowsOnlyWhenFull

\* The pool implements the abstract allocator: whatever branch of Alloc is
\* taken, the cell it returns was not in use.
THEOREM PoolIsHeap == Spec => IsHeap
<1>1. Init => Promise!Init
  BY DEF Init, Promise!Init
<1>2. IInv /\ [Next]_vars => [Promise!Next]_<<live, outstanding>>
  <2> SUFFICES ASSUME IInv, [Next]_vars PROVE [Promise!Next]_<<live, outstanding>>
    OBVIOUS
  <2> USE DEF IInv
  <2>1. CASE AllocReuse
    <3>1. reuse \in Cells /\ reuse \in FreeCells
      <4>1. order # <<>> /\ reuse = order[1] /\ 1 \in DOMAIN order
        BY <2>1 DEF AllocReuse, ReuseThreadsFreeCells, TypeOK
      <4> QED BY <4>1 DEF FreeCells, TypeOK
    <3>2. Promise!Alloc(reuse)
      BY <2>1, <3>1 DEF AllocReuse, CarvedAccounted, Promise!Alloc
    <3> QED BY <3>1, <3>2 DEF Promise!Next
  <2>2. CASE AllocFresh
    <3> DEFINE c == <<pageCount, useCount[pageCount] + 1>>
    <3>1. c \in Cells /\ c \notin Carved
      BY <2>2, PoolAssumption DEF AllocFresh, TypeOK, Cells, Carved
    <3>2. Promise!Alloc(c)
      BY <2>2, <3>1 DEF AllocFresh, CarvedAccounted, Promise!Alloc
    <3> QED BY <3>1, <3>2 DEF Promise!Next
  <2>3. CASE AllocExpand
    <3> DEFINE c == <<pageCount + 1, 1>>
    <3>1. c \in Cells /\ c \notin Carved
      BY <2>3, PoolAssumption DEF AllocExpand, TypeOK, Cells, Carved
    <3>2. Promise!Alloc(c)
      BY <2>3, <3>1 DEF AllocExpand, CarvedAccounted, Promise!Alloc
    <3> QED BY <3>1, <3>2 DEF Promise!Next
  <2>4. ASSUME NEW c \in Cells, Free(c) PROVE Promise!Next
    <3>1. Promise!Free(c)
      BY <2>4 DEF Free, Promise!Free
    <3> QED BY <3>1 DEF Promise!Next
  <2>5. CASE UNCHANGED vars
    BY <2>5 DEF vars
  <2> QED BY <2>1, <2>2, <2>3, <2>4, <2>5 DEF Next
<1> QED BY <1>1, <1>2, PoolCorrect, PTL DEF Spec, IsHeap, Promise!Spec
=============================================================================
