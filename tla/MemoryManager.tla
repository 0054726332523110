---------------------------- MODULE MemoryManager ----------------------------
(* memory.c with USE_MEMORY_MANAGER ON.  Small allocations are units of      *)
(* blocks: a block serves one size class at a time, a class keeps a list of  *)
(* its blocks that have a unit to give, and a block threads its free units   *)
(* through the size field of their heads.  Large ones come from malloc and   *)
(* are kept in a list.  Callers free what they hold, and nothing else.       *)
EXTENDS Integers, FiniteSets, FiniteSetsExt

CONSTANTS Alignment1, Count1,   \* BLOCK_ALIGNMENT1, BLOCK_DATA_COUNT1
          Alignment2, Count2,   \* BLOCK_ALIGNMENT2, BLOCK_DATA_COUNT2
          HeadSize,             \* sizeof(struct unit_head)
          BlockAlloc,           \* BLOCK_ALLOC
          MaxBatches,           \* bound: how often block_malloc calls malloc
          Sizes,                \* bound: the sizes asked for
          Larges,               \* bound: the large cells malloc can give
          NULL,
          BlockHead             \* &block_head

DataSize1 == Alignment1 * Count1
DataSize == DataSize1 + Alignment2 * Count2

ASSUME ManagerAssumption ==
    /\ {Alignment1, Count1, Alignment2, Count2} \subseteq Nat \ {0}
    /\ HeadSize \in Nat /\ HeadSize < DataSize
    /\ BlockAlloc \in Nat \ {0}
    /\ MaxBatches \in Nat
    /\ Sizes \subseteq Nat \ {0}

Full == -1         \* 0xFFFF in unit_unfill: no unit has been given back
-----------------------------------------------------------------------------
\* Faults: an operator named for its mistake stands for the one after it of the
\* same name; some property must notice when it takes that one's place.
HashRoundingDown(size) ==
    IF size <= DataSize1 THEN (size + Alignment1 - 1) \div Alignment1
    ELSE (size - DataSize1) \div Alignment2 + Count1

\* size2hash; above DataSize it returns 0xffff, which hash2size makes larger
\* than any block.
Hash(size) ==
    IF size <= DataSize1
    THEN (size + Alignment1 - 1) \div Alignment1
    ELSE (size - DataSize1 + Alignment2 - 1) \div Alignment2 + Count1

\* hash2size
SizeOf(hash) ==
    IF hash <= Count1 THEN hash * Alignment1
    ELSE (hash - Count1) * Alignment2 + DataSize1

IsLarge(size) == size > DataSize \/ SizeOf(Hash(size)) > DataSize - HeadSize

Classes == 1..(Count1 + Count2)

\* unit_count
UnitCount(hash) == DataSize \div (SizeOf(hash) + HeadSize)

Blocks == 1..(BlockAlloc * MaxBatches)

Units == Blocks \X (0..(UnitCount(1) - 1))

Cells == Units \cup Larges

\* What malloc returns is no part of a block, and no address is NULL.
ASSUME AddressAssumption ==
    /\ NULL \notin Blocks \cup Larges \cup {BlockHead}
    /\ BlockHead \notin Blocks
    /\ Larges \cap Units = {}
    /\ IsFiniteSet(Larges)

VARIABLES mm,           \* the static variables of memory.c and all blocks
          live,         \* the cells the callers hold
          outstanding,  \* history: allocations not given back
          asked         \* history: the size each cell was asked for

vars == <<mm, live, outstanding, asked>>

\* struct block.  A block is on the list of its class while unit_unfill's
\* list or the units after maxused have one to give.
BlockType ==
    [next : Blocks \cup {NULL}, prev : Blocks \cup {NULL, BlockHead},
     hash : Classes \cup {0}, used : Nat, unfill : Nat \cup {Full}, maxused : Nat]

Managers ==
    [unfill : [Classes \cup {0} -> Blocks \cup {NULL}],
     batches : 0..MaxBatches,
     block : [Blocks -> BlockType],
     inUse : [Units -> BOOLEAN],
     size : [Cells -> Nat \cup {Full}],
     large : Larges \cup {NULL},
     before : [Larges -> Larges \cup {NULL}],
     after : [Larges -> Larges \cup {NULL}],
     usage : Int]

TypeOK ==
    /\ mm \in Managers
    /\ live \subseteq Cells
    /\ outstanding \in Int
    /\ asked \in [Cells -> Sizes \cup {0}]
-----------------------------------------------------------------------------
\* block_malloc: the first block on the list of empty ones, after malloc of
\* BlockAlloc blocks if there is none; the first of those is not put on it.
\* Where the heads of its units lie now, anything may have been: inUse is
\* what memmgr_verify and memmgr_final would take for a unit in use.
MoreBlocks(m) ==
    LET lo == m.batches * BlockAlloc + 1
        hi == lo + BlockAlloc - 1
    IN  [m EXCEPT !.batches = @ + 1,
                  !.unfill[0] = IF hi = lo THEN NULL ELSE hi,
                  !.block = [b \in Blocks |->
                      IF lo < b /\ b <= hi
                      THEN [m.block[b] EXCEPT !.next = IF b = lo + 1 THEN NULL ELSE b - 1,
                                              !.prev = NULL, !.used = 0]
                      ELSE m.block[b]]]

BlockMalloc(m, hash) ==
    LET recycled == m.unfill[0] # NULL
        b == IF recycled THEN m.unfill[0] ELSE m.batches * BlockAlloc + 1
        n == IF recycled THEN [m EXCEPT !.unfill[0] = m.block[b].next]
                         ELSE MoreBlocks(m)
    IN  [n EXCEPT !.unfill[hash] = b,
                  !.block[b] = [next |-> NULL, prev |-> BlockHead, hash |-> hash,
                                used |-> 0, unfill |-> Full, maxused |-> 0],
                  !.inUse = [u \in Units |-> u[1] = b \/ n.inUse[u]]]

\* Takes a block from the list of its class.
Unlinked(m, b) ==
    LET blk == m.block[b]
    IN  [m EXCEPT !.unfill[blk.hash] = IF blk.prev = BlockHead THEN blk.next ELSE @,
                  !.block = [c \in Blocks |->
                      [m.block[c] EXCEPT
                          !.next = IF c = blk.prev THEN blk.next ELSE @,
                          !.prev = IF c = b THEN NULL
                                   ELSE IF c = blk.next THEN blk.prev ELSE @]]]

\* Puts it there, at the front.
Linked(m, b) ==
    LET hash == m.block[b].hash
        old == m.unfill[hash]
    IN  [m EXCEPT !.unfill[hash] = b,
                  !.block = [c \in Blocks |->
                      [m.block[c] EXCEPT
                          !.next = IF c = b THEN old ELSE @,
                          !.prev = IF c = b THEN BlockHead
                                   ELSE IF c = old THEN b ELSE @]]]

BlockFreeKeepsListed(m, b) ==       \* it stays on the list of its class
    [m EXCEPT !.block[b].next = m.unfill[0], !.unfill[0] = b]

\* block_free
BlockFree(m, b) ==
    LET n == IF m.block[b].prev # NULL THEN Unlinked(m, b) ELSE m
    IN  [n EXCEPT !.block[b].next = n.unfill[0], !.unfill[0] = b]
-----------------------------------------------------------------------------
\* AdrenoMM_Alloc of a unit: the manager after it, and the unit.
HasBlock(m, hash) ==
    m.unfill[hash] # NULL \/ m.unfill[0] # NULL \/ m.batches < MaxBatches

WithBlock(m, hash) == IF m.unfill[hash] # NULL THEN m ELSE BlockMalloc(m, hash)

UnitOfByUse(m, size) ==             \* unit_used for the index of a free unit
    LET n == WithBlock(m, Hash(size))
        b == n.unfill[Hash(size)]
    IN  <<b, n.block[b].used>>

UnitOf(m, size) ==
    LET n == WithBlock(m, Hash(size))
        b == n.unfill[Hash(size)]
    IN  <<b, IF n.block[b].unfill = Full THEN n.block[b].maxused
             ELSE n.block[b].unfill>>

Given(m, size) ==
    LET n == WithBlock(m, Hash(size))
        u == UnitOf(m, size)
        b == u[1]
        fresh == n.block[b].unfill = Full
    IN  [n EXCEPT !.usage = @ + size,
                  !.block[b].used = @ + 1,
                  !.block[b].maxused = IF fresh THEN @ + 1 ELSE @,
                  !.block[b].unfill = IF fresh THEN Full ELSE n.size[u],
                  !.inUse[u] = TRUE,
                  !.size[u] = size]

AfterAllocKeepsFull(m, size) == Given(m, size)    \* full blocks stay listed

\* A block that has no unit left leaves the list of its class.
AfterAlloc(m, size) ==
    LET n == Given(m, size)
        b == UnitOf(m, size)[1]
    IN  IF n.block[b].unfill = Full /\ n.block[b].maxused >= UnitCount(n.block[b].hash)
        THEN Unlinked(n, b) ELSE n

AfterAllocLarge(m, size, c) ==
    [m EXCEPT !.usage = @ + size,
              !.before = [d \in Larges |-> IF d = c THEN NULL
                                           ELSE IF d = m.large THEN c ELSE m.before[d]],
              !.after[c] = m.large,
              !.size[c] = size,
              !.large = c]

\* AdrenoMM_Free of a unit in use.
Returned(m, u) ==
    LET b == u[1]
        freed == [m EXCEPT !.usage = @ - m.size[u],
                           !.inUse[u] = FALSE,
                           !.block[b].used = @ - 1]
    IN  IF freed.block[b].used > 0 /\ freed.block[b].prev = NULL
        THEN Linked(freed, b) ELSE freed

AfterFreeActive(m, u) ==            \* head->block is not cleared
    LET n == Returned(m, u)
        b == u[1]
        k == IF n.block[b].used = 0 THEN BlockFree(n, b)
             ELSE [n EXCEPT !.size[u] = n.block[b].unfill, !.block[b].unfill = u[2]]
    IN  [k EXCEPT !.inUse[u] = TRUE]

AfterFreeUnthreaded(m, u) ==        \* the size field of the head is not written
    LET n == Returned(m, u)
    IN  IF n.block[u[1]].used = 0 THEN BlockFree(n, u[1])
        ELSE [n EXCEPT !.block[u[1]].unfill = u[2]]

AfterFree(m, u) ==
    LET n == Returned(m, u)
        b == u[1]
    IN  IF n.block[b].used = 0 THEN BlockFree(n, b)
        ELSE [n EXCEPT !.size[u] = n.block[b].unfill, !.block[b].unfill = u[2]]

AfterFreeLarge(m, c) ==
    [m EXCEPT !.usage = @ - m.size[c],
              !.large = IF m.before[c] = NULL THEN m.after[c] ELSE @,
              !.after = [d \in Larges |-> IF d = m.before[c] THEN m.after[c]
                                          ELSE m.after[d]],
              !.before = [d \in Larges |-> IF d = m.after[c] THEN m.before[c]
                                           ELSE m.before[d]]]

After(m, c) == IF c \in Larges THEN AfterFreeLarge(m, c) ELSE AfterFree(m, c)

\* A cell AdrenoMM_Alloc may return for size, and the manager after it.
CanGive(m, size, c) ==
    IF IsLarge(size) THEN c \in Larges \ live
    ELSE HasBlock(m, Hash(size)) /\ c = UnitOf(m, size)

With(m, size, c) ==
    IF IsLarge(size) THEN AfterAllocLarge(m, size, c) ELSE AfterAlloc(m, size)
-----------------------------------------------------------------------------
Init ==
    /\ mm = [unfill |-> [h \in Classes \cup {0} |-> NULL],
             batches |-> 0,
             block |-> [b \in Blocks |-> [next |-> NULL, prev |-> NULL, hash |-> 0,
                                          used |-> 0, unfill |-> Full, maxused |-> 0]],
             inUse |-> [u \in Units |-> FALSE],
             size |-> [c \in Cells |-> 0],
             large |-> NULL,
             before |-> [c \in Larges |-> NULL],
             after |-> [c \in Larges |-> NULL],
             usage |-> 0]
    /\ live = {}
    /\ outstanding = 0
    /\ asked = [c \in Cells |-> 0]

Alloc(size, c) ==
    /\ CanGive(mm, size, c)
    /\ mm' = With(mm, size, c)
    /\ live' = live \cup {c}
    /\ outstanding' = outstanding + 1
    /\ asked' = [asked EXCEPT ![c] = size]

Free(c) ==
    /\ c \in live
    /\ mm' = After(mm, c)
    /\ live' = live \ {c}
    /\ outstanding' = outstanding - 1
    /\ asked' = [asked EXCEPT ![c] = 0]

\* AdrenoMM_Realloc to no less than the cell's size: a new cell, then the old
\* one is freed.  To less it returns the cell as it is.
Realloc(c, size, d) ==
    /\ c \in live
    /\ size >= mm.size[c]
    /\ CanGive(mm, size, d)
    /\ mm' = After(With(mm, size, d), c)
    /\ live' = (live \cup {d}) \ {c}
    /\ asked' = [asked EXCEPT ![d] = size, ![c] = 0]
    /\ UNCHANGED outstanding

Next ==
    \/ \E size \in Sizes, c \in Cells :
          \/ Alloc(size, c)
          \/ \E old \in live : Realloc(old, size, c)
    \/ \E c \in live : Free(c)

Spec == Init /\ [][Next]_vars
-----------------------------------------------------------------------------
Reserved == 1..(mm.batches * BlockAlloc)

FreeUnits(b) == {i \in 0..(mm.block[b].maxused - 1) : <<b, i>> \notin live}

\* unit_unfill and the size fields of free units thread exactly the units
\* given back (Alloc 300-311, Free 476-477), and the counters of the block say
\* how many there are.
FreeUnitsThreaded ==
    \A b \in Reserved : mm.block[b].used > 0 =>
        LET walk[k \in Nat] ==
                IF k = 0 THEN mm.block[b].unfill
                ELSE IF <<b, walk[k - 1]>> \in Units THEN mm.size[<<b, walk[k - 1]>>]
                ELSE Full
            n == Cardinality(FreeUnits(b))
        IN  /\ {walk[k] : k \in 0..(n - 1)} = FreeUnits(b)
            /\ walk[n] = Full
            /\ mm.block[b].used = mm.block[b].maxused - n
            /\ mm.block[b].maxused <= UnitCount(mm.block[b].hash)

HasUnit(b) ==
    mm.block[b].unfill # Full \/ mm.block[b].maxused < UnitCount(mm.block[b].hash)

\* The list of a class holds exactly the blocks in use for it that have a unit
\* to give, the list of class 0 exactly the blocks not in use.
BlocksAreListed ==
    \A h \in Classes \cup {0} :
        LET walk[k \in Nat] ==
                IF k = 0 THEN mm.unfill[h]
                ELSE IF walk[k - 1] = NULL THEN NULL ELSE mm.block[walk[k - 1]].next
            listed == {b \in Reserved : IF h = 0 THEN mm.block[b].used = 0
                                        ELSE /\ mm.block[b].used > 0
                                             /\ mm.block[b].hash = h
                                             /\ HasUnit(b)}
            n == Cardinality(listed)
        IN  {walk[k] : k \in 0..(n - 1)} = listed /\ walk[n] = NULL

\* The assertions of Alloc (302, 303) about the block it takes.
AssertionsHold ==
    \A h \in Classes :
        LET b == mm.unfill[h]
        IN  b # NULL /\ mm.block[b].unfill = Full =>
                /\ mm.block[b].used < UnitCount(h)
                /\ mm.block[b].used = mm.block[b].maxused

\* memmgr_verify, of the first byte of a cell; memmgr_final frees what it finds
\* in the same way.
LargeCells ==
    LET walk[k \in Nat] == IF k = 0 THEN mm.large
                           ELSE IF walk[k - 1] = NULL THEN NULL ELSE mm.after[walk[k - 1]]
    IN  {walk[k] : k \in 0..Cardinality(Larges)} \ {NULL}

Active ==
    {u \in Units : /\ u[1] \in Reserved
                   /\ mm.block[u[1]].used > 0
                   /\ u[2] < mm.block[u[1]].maxused
                   /\ mm.inUse[u]} \cup LargeCells

VerifyTellsLive == Active = live

\* A unit is no smaller than what it was asked for, also in a block that has
\* served other classes before.
CellsFit ==
    \A u \in live \cap Units :
        /\ asked[u] <= SizeOf(mm.block[u[1]].hash)
        /\ u[2] < UnitCount(mm.block[u[1]].hash)

\* memmgr_usage_bytes is what the callers hold.
UsageIsExact ==
    LET size(c) == asked[c] IN mm.usage = MapThenSumSet(size, live)

Promise == INSTANCE Heap
IsHeap == Promise!Spec
-----------------------------------------------------------------------------
(* The inductive invariant, of a manager m and the cells l its callers hold. *)

\* From head, next leads through every member of S once, and then to end.
Threads(s, S, head, next, end) ==
    LET n == Cardinality(S)
    IN  /\ \A i, j \in 1..n : s[i] = s[j] => i = j
        /\ \A x \in S : \E i \in 1..n : s[i] = x
        /\ head = IF n = 0 THEN end ELSE s[1]
        /\ \A i \in 1..n : next[s[i]] = IF i = n THEN end ELSE s[i + 1]

IsThread(S, head, next, end) ==
    \E s \in [1..Cardinality(S) -> S] : Threads(s, S, head, next, end)

\* And prev leads back, from the first of them to start.
IsDoubleThread(S, head, next, end, prev, start) ==
    \E s \in [1..Cardinality(S) -> S] :
        /\ Threads(s, S, head, next, end)
        /\ \A i \in 1..Cardinality(S) : prev[s[i]] = IF i = 1 THEN start ELSE s[i - 1]

ReservedOf(m) == 1..(m.batches * BlockAlloc)

FreeUnitsOf(m, l, b) == {i \in 0..(m.block[b].maxused - 1) : <<b, i>> \notin l}

\* The blocks that serve a class, and those of them that have a unit to give.
Serving(m) == {b \in ReservedOf(m) : m.block[b].used > 0}

Giving(m) == {b \in Serving(m) :
                 \/ m.block[b].unfill # Full
                 \/ m.block[b].maxused < UnitCount(m.block[b].hash)}

\* The units of the block b, which serves a class.
UnitsOfBlock(m, l, b) ==
    LET blk == m.block[b]
    IN  /\ blk.hash \in Classes
        /\ blk.maxused <= UnitCount(blk.hash)
        /\ blk.used = blk.maxused - Cardinality(FreeUnitsOf(m, l, b))
        /\ IsThread(FreeUnitsOf(m, l, b), blk.unfill,
                    [i \in 0..(UnitCount(1) - 1) |-> m.size[<<b, i>>]], Full)
        /\ \A i \in 0..(UnitCount(1) - 1) :
              /\ i < blk.maxused => (m.inUse[<<b, i>>] <=> <<b, i>> \in l)
              /\ <<b, i>> \in l => i < blk.maxused /\ m.size[<<b, i>>] \in 0..SizeOf(blk.hash)

\* The units of all blocks, when U are the blocks that serve a class.
UnitsInv(m, l, U) ==
    /\ U \subseteq ReservedOf(m)
    /\ \A b \in U : UnitsOfBlock(m, l, b)
    /\ \A u \in l \cap Units : u[1] \in U

Nexts(m) == [b \in Blocks |-> m.block[b].next]
Prevs(m) == [b \in Blocks |-> m.block[b].prev]

\* The lists, when F are the blocks that serve no class and L those on the
\* list of the one they serve.
ListsInv(m, F, L) ==
    /\ F \cap L = {} /\ F \cup L \subseteq ReservedOf(m)
    /\ IsThread(F, m.unfill[0], Nexts(m), NULL)
    /\ \A h \in Classes :
          IsDoubleThread({b \in L : m.block[b].hash = h}, m.unfill[h], Nexts(m), NULL,
                         Prevs(m), BlockHead)
    /\ \A b \in ReservedOf(m) : m.block[b].prev = NULL <=> b \notin L

LargesInv(m, l) ==
    IsDoubleThread(l \cap Larges, m.large, m.after, NULL, m.before, NULL)

Good(m, l) ==
    /\ UnitsInv(m, l, Serving(m))
    /\ ListsInv(m, ReservedOf(m) \ Serving(m), Giving(m))
    /\ LargesInv(m, l)

IInv ==
    /\ TypeOK
    /\ Good(mm, live)
    /\ \A c \in live : asked[c] = mm.size[c]
=============================================================================
