-------------------------------- MODULE Heap --------------------------------
(* What every allocator of libadreno promises its callers: a cell handed out *)
(* was not in use, and it stays in use until the caller gives it back.       *)
(* outstanding counts the allocations not given back: handing out a cell     *)
(* that is already in use changes it and leaves live alone, so it shows.     *)
EXTENDS Integers

CONSTANT Cells
VARIABLES live, outstanding

Init == live = {} /\ outstanding = 0

Alloc(c) ==
    /\ c \notin live
    /\ live' = live \cup {c}
    /\ outstanding' = outstanding + 1

Free(c) ==
    /\ c \in live
    /\ live' = live \ {c}
    /\ outstanding' = outstanding - 1

\* A realloc that moves.
Move(c, d) ==
    /\ c \in live
    /\ d \notin live
    /\ live' = (live \cup {d}) \ {c}
    /\ UNCHANGED outstanding

Next ==
    \E c \in Cells : Alloc(c) \/ Free(c) \/ \E d \in Cells : Move(c, d)

Spec == Init /\ [][Next]_<<live, outstanding>>
=============================================================================
