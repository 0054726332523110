------------------------------ MODULE BitArray ------------------------------
(* utils/bitarray.c as operators on a record: Data is ones, the set of the   *)
(* positions whose bit is 1, in DataCount words of W bits; the anchor is     *)
(* where a search begins.                                                    *)
EXTENDS Integers

CONSTANTS W,          \* bits of a word: 32
          UseOffset   \* the build option BITARRAY_USE_ANCHOR_OFFSET

ASSUME BitArrayAssumption == W \in Nat \ {0} /\ UseOffset \in BOOLEAN

\* Fault: rounded down.
WordsForTruncated(size) == size \div W

\* How many words Resize reserves.  For a size that is no multiple of W the
\* code adds the size less its remainder, where W less the remainder is meant.
WordsFor(size) ==
    (IF size % W > 0 THEN size + (size - (size % W)) ELSE size) \div W

Positions(words) == 0..(words * W - 1)

Word(i) == (W * i)..(W * i + W - 1)

\* AdrenoBitArray_Initialize with size 0, and AdrenoBitArray_Free.
Empty == [words |-> 0, ones |-> {}, index |-> 0, offset |-> 0]

\* New words are zero; AdrenoRealloc to fewer words drops the last ones.
Resize(ba, size) ==
    [ba EXCEPT !.words = WordsFor(size),
               !.ones = @ \cap Positions(WordsFor(size))]

\* A position behind the last word, -1 included, is ignored.
Set(ba, i) ==
    IF i \notin Positions(ba.words) THEN ba
    ELSE LET filled == /\ i \div W = ba.index
                       /\ Word(ba.index) \subseteq ba.ones \cup {i}
         IN  [ba EXCEPT !.ones = @ \cup {i},
                        !.index = IF filled THEN @ + 1 ELSE @,
                        !.offset = IF filled THEN 0 ELSE @]

\* Fault: the anchor stays where it is.
UnsetKeepsAnchor(ba, i) ==
    IF i \notin Positions(ba.words) THEN ba ELSE [ba EXCEPT !.ones = @ \ {i}]

\* The anchor's offset is lowered only, also when its word changes.
Unset(ba, i) ==
    IF i \notin Positions(ba.words) THEN ba
    ELSE LET back == i \div W <= ba.index
         IN  [ba EXCEPT
                !.ones = @ \ {i},
                !.index = IF back THEN i \div W ELSE @,
                !.offset = IF UseOffset /\ back /\ i % W < @ THEN i % W ELSE @]

Get(ba, i) ==
    CASE i \notin Positions(ba.words) -> -1
      [] i \in ba.ones -> 1
      [] OTHER -> 0

Start(ba) == W * ba.index + ba.offset

\* i is what AdrenoBitArray_Search returns: the first clear bit at or behind
\* the anchor, or -1.
Finds(ba, i) ==
    \/ /\ i \in Positions(ba.words) \ ba.ones
       /\ i >= Start(ba)
       /\ \A j \in Start(ba)..(i - 1) : j \in ba.ones
    \/ /\ i = -1
       /\ \A j \in Positions(ba.words) : j >= Start(ba) => j \in ba.ones

\* Where the search has moved the anchor to.
Searched(ba, i) ==
    IF i = -1 THEN ba
    ELSE [ba EXCEPT !.index = i \div W,
                    !.offset = IF UseOffset THEN i % W ELSE @]

\* AdrenoBitArray_Clear: the words, not the anchor.
Clear(ba) == [ba EXCEPT !.ones = {}]

\* Every bit before the anchor is 1: what makes starting there right.
AnchorIsFirst(ba) == \A i \in 0..(Start(ba) - 1) : i \in ba.ones
=============================================================================
