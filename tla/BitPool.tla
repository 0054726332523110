------------------------------ MODULE BitPool ------------------------------
(* utils/memorypool.c with ADRENOMP_USE_LINKED_LIST off: a bit array tells   *)
(* the cells in use.  A cell's address is <<page, number in the page>>; bit  *)
(* i of the array is the cell number i of all pages in a row.                *)
EXTENDS BitArray, FiniteSets

CONSTANTS PerPage,    \* ExpansionFactor * PageSize / ObjectSize
          MaxPages    \* bound: how often the model lets the pool expand

ASSUME BitPoolAssumption ==
    /\ PerPage \in Nat \ {0}
    /\ PerPage >= W     \* Resize reserves nothing for fewer bits than a word's
    /\ MaxPages \in Nat \ {0}

VARIABLES pageCount,    \* mp->PageCount; TotalMaxCount is PerPage for each
          totalCount,   \* mp->TotalCount
          freeList,     \* mp->FreeList
          live,         \* the cells the callers hold
          outstanding   \* history: allocations not given back

vars == <<pageCount, totalCount, freeList, live, outstanding>>

Cells == (0..(MaxPages - 1)) \X (0..(PerPage - 1))

TotalMaxCount == pageCount * PerPage

\* Never asked for -1, as SearchFinds in BitProofs shows.
Address(i) == <<i \div PerPage, i % PerPage>>

Number(c) == c[1] * PerPage + c[2]

TypeOK ==
    /\ pageCount \in 1..MaxPages
    /\ totalCount \in Nat
    /\ freeList \in [words : Nat, ones : SUBSET Nat, index : Nat, offset : Nat]
    /\ live \subseteq Cells
    /\ outstanding \in Int
-----------------------------------------------------------------------------
\* AdrenoMemoryPool_Initialize, with its first Expand.
Init ==
    /\ pageCount = 1
    /\ totalCount = 0
    /\ freeList = Resize(Empty, PerPage)
    /\ live = {}
    /\ outstanding = 0

\* Search, then Set, in an array that Expand may have resized before.
Take(ba) ==
    \E i \in Positions(ba.words) \cup {-1} :
        /\ Finds(ba, i)
        /\ freeList' = Set(Searched(ba, i), i)
        /\ live' = live \cup {Address(i)}
        /\ totalCount' = totalCount + 1
        /\ outstanding' = outstanding + 1

Alloc ==
    /\ totalCount < TotalMaxCount
    /\ Take(freeList)
    /\ UNCHANGED pageCount

AllocExpand ==
    /\ totalCount >= TotalMaxCount
    /\ pageCount < MaxPages
    /\ pageCount' = pageCount + 1
    /\ Take(Resize(freeList, TotalMaxCount + PerPage))

\* Fault: the cell's number within its page.
FreeInFirstPage(c) ==
    /\ c \in live
    /\ live' = live \ {c}
    /\ outstanding' = outstanding - 1
    /\ totalCount' = totalCount - 1
    /\ freeList' = Unset(freeList, c[2])
    /\ UNCHANGED pageCount

\* The page is the one whose addresses the pointer lies in.
Free(c) ==
    /\ c \in live
    /\ live' = live \ {c}
    /\ outstanding' = outstanding - 1
    /\ totalCount' = totalCount - 1
    /\ freeList' = Unset(freeList, Number(c))
    /\ UNCHANGED pageCount

Next == Alloc \/ AllocExpand \/ \E c \in Cells : Free(c)

Spec == Init /\ [][Next]_vars
-----------------------------------------------------------------------------
\* No free cell lies before the place the next search starts from: starting
\* there loses none (bitarray.c 53-60, 71-80 and 101-126).
SearchLosesNone == AnchorIsFirst(freeList)

\* The bits that are 1 are those of the cells in use, TotalCount is their
\* number, and they all fit in the words Resize has left (memorypool.c 188-206
\* and 219-234, bitarray.c 138-153).
BitsTellLive ==
    /\ freeList.ones = {Number(c) : c \in live}
    /\ totalCount = Cardinality(live)
    /\ freeList.ones \subseteq 0..(TotalMaxCount - 1)

\* The words are enough for every cell of every page.
WordsSuffice == TotalMaxCount <= freeList.words * W

AnchorInWords ==
    /\ freeList.index <= freeList.words
    /\ freeList.offset < W
    /\ ~UseOffset => freeList.offset = 0

IInv ==
    /\ TypeOK
    /\ SearchLosesNone
    /\ BitsTellLive
    /\ WordsSuffice
    /\ AnchorInWords

\* This build of the pool is a correct allocator, too: the cell handed out was
\* not in use and lies in one of the pages.
Promise == INSTANCE Heap
IsHeap == Promise!Spec
=============================================================================
