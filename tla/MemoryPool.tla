----------------------------- MODULE MemoryPool -----------------------------
(* utils/memorypool.c in its default build (ADRENOMP_USE_LINKED_LIST ON): a  *)
(* pool of equal cells carved from pages.  Each cell is preceded by one      *)
(* header word; while the cell is free that word links it to the next free   *)
(* one, and mp->Reuse points at the first.  A cell is <<page, index>>.       *)
EXTENDS Integers, Sequences

CONSTANTS PerPage,    \* ExpansionFactor * PageSize / ObjectSize
          MaxPages,   \* bound: how often the model lets the pool expand
          NULL,
          Garbage     \* what a header word holds before anybody writes it

ASSUME PoolAssumption ==
    /\ PerPage \in Nat \ {0}
    /\ MaxPages \in Nat \ {0}
    /\ NULL \notin (1..MaxPages) \X (1..PerPage)
    /\ Garbage \notin (1..MaxPages) \X (1..PerPage)
    /\ Garbage # NULL

VARIABLES pageCount,  \* mp->PageCount
          useCount,   \* mp->Pages[i].UseCount
          reuse,      \* mp->Reuse
          link,       \* the header word of every cell
          live,       \* the cells the callers hold
          outstanding,  \* history: allocations not given back
          order         \* history: the free cells, the last one freed first

vars == <<pageCount, useCount, reuse, link, live, outstanding, order>>

Cells == (1..MaxPages) \X (1..PerPage)

Carved == {c \in Cells : c[1] <= pageCount /\ c[2] <= useCount[c[1]]}

FreeCells == {order[i] : i \in DOMAIN order}

TypeOK ==
    /\ pageCount \in 1..MaxPages
    /\ useCount \in [1..MaxPages -> 0..PerPage]
    /\ reuse \in Cells \cup {NULL}
    /\ link \in [Cells -> Cells \cup {NULL, Garbage}]
    /\ live \subseteq Cells
    /\ outstanding \in Int
    /\ order \in Seq(Cells)
-----------------------------------------------------------------------------
HandOut(c) == live' = live \cup {c} /\ outstanding' = outstanding + 1

\* Faults: each operator is one of the actions below with a plausible mistake;
\* some property must notice when it takes that action's place.
AllocReuseKeepsHead ==      \* Reuse is not advanced
    /\ reuse # NULL
    /\ HandOut(reuse)
    /\ order' = SubSeq(order, 2, Len(order))
    /\ UNCHANGED <<pageCount, useCount, reuse, link>>

AllocFreshUncounted ==      \* UseCount is not incremented
    /\ reuse = NULL
    /\ useCount[pageCount] < PerPage
    /\ HandOut(<<pageCount, useCount[pageCount] + 1>>)
    /\ UNCHANGED <<pageCount, useCount, reuse, link, order>>

ExpandWhen(need) ==
    /\ need
    /\ pageCount < MaxPages
    /\ pageCount' = pageCount + 1
    /\ useCount' = [useCount EXCEPT ![pageCount + 1] = 1]
    /\ link' = [link EXCEPT ![<<pageCount + 1, 1>>] = NULL]
    /\ HandOut(<<pageCount + 1, 1>>)
    /\ UNCHANGED <<reuse, order>>

AllocExpandEarly ==         \* the last cell of a page is forgotten
    ExpandWhen(reuse = NULL /\ useCount[pageCount] >= PerPage - 1)

AllocExpandBeforeReuse ==   \* the page is tested before the reuse list
    ExpandWhen(useCount[pageCount] >= PerPage)

FreeUnlinked(c) ==          \* the header word is not written
    /\ c \in live
    /\ live' = live \ {c}
    /\ outstanding' = outstanding - 1
    /\ reuse' = c
    /\ order' = <<c>> \o order
    /\ UNCHANGED <<pageCount, useCount, link>>
-----------------------------------------------------------------------------
\* AdrenoMemoryPool_Initialize ends with the first Expand, which clears the
\* header of the new page's first cell and nothing else.
Init ==
    /\ pageCount = 1
    /\ useCount = [p \in 1..MaxPages |-> 0]
    /\ reuse = NULL
    /\ link = [c \in Cells |-> IF c = <<1, 1>> THEN NULL ELSE Garbage]
    /\ live = {}
    /\ outstanding = 0
    /\ order = <<>>

AllocReuse ==
    /\ reuse # NULL
    /\ HandOut(reuse)
    /\ reuse' = link[reuse]
    /\ order' = Tail(order)
    /\ UNCHANGED <<pageCount, useCount, link>>

AllocFresh ==
    /\ reuse = NULL
    /\ useCount[pageCount] < PerPage
    /\ useCount' = [useCount EXCEPT ![pageCount] = @ + 1]
    /\ HandOut(<<pageCount, useCount[pageCount] + 1>>)
    /\ UNCHANGED <<pageCount, reuse, link, order>>

\* The last branch: Expand, then Alloc again, which carves the new page.
AllocExpand ==
    /\ reuse = NULL
    /\ useCount[pageCount] >= PerPage
    /\ pageCount < MaxPages
    /\ pageCount' = pageCount + 1
    /\ useCount' = [useCount EXCEPT ![pageCount + 1] = 1]
    /\ link' = [link EXCEPT ![<<pageCount + 1, 1>>] = NULL]
    /\ HandOut(<<pageCount + 1, 1>>)
    /\ UNCHANGED <<reuse, order>>

\* The pool trusts its caller: only a cell that is in use may be freed.
Free(c) ==
    /\ c \in live
    /\ live' = live \ {c}
    /\ outstanding' = outstanding - 1
    /\ link' = [link EXCEPT ![c] = reuse]
    /\ reuse' = c
    /\ order' = <<c>> \o order
    /\ UNCHANGED <<pageCount, useCount>>

Next ==
    \/ AllocReuse
    \/ AllocFresh
    \/ AllocExpand
    \/ \E c \in Cells : Free(c)

Spec == Init /\ [][Next]_vars
-----------------------------------------------------------------------------
\* mp->Reuse and the header words thread exactly the cells freed and not
\* handed out again, the last one first: no cell is lost from the list, none
\* is on it twice, and the walk ends (Alloc 164-171 and Free 213-215).
ReuseThreadsFreeCells ==
    /\ reuse = IF order = <<>> THEN NULL ELSE order[1]
    /\ \A i \in DOMAIN order :
          link[order[i]] = IF i = Len(order) THEN NULL ELSE order[i + 1]
    /\ \A i, j \in DOMAIN order : order[i] = order[j] => i = j

\* Every cell carved from a page is either held by a caller or on the reuse
\* list, never both and never neither (Alloc 172-176).
CarvedAccounted ==
    /\ live \cap FreeCells = {}
    /\ live \cup FreeCells = Carved

\* All pages but the last are carved to the end, the pages not reserved yet
\* not at all: what makes testing the last page's UseCount enough (Alloc 172).
PagesFillInOrder ==
    \A p \in 1..MaxPages :
        /\ p < pageCount => useCount[p] = PerPage
        /\ p > pageCount => useCount[p] = 0

IInv == TypeOK /\ ReuseThreadsFreeCells /\ CarvedAccounted /\ PagesFillInOrder

\* The pool takes a new page from the system only when every cell of every
\* page it owns is in use (the else branch of Alloc, 177-182).
GrowsOnlyWhenFull ==
    [][pageCount' # pageCount => live = (1..pageCount) \X (1..PerPage)]_vars

\* The pool is a correct allocator: a cell it hands out was not in use.
Promise == INSTANCE Heap
IsHeap == Promise!Spec
=============================================================================
