----------------------------- MODULE MCAdrenoVM -----------------------------
(* main and a function with one local for TLC; one constant and two cells,   *)
(* enough for a string to outlive the cells it was made from.                *)
EXTENDS AdrenoVM, AdrenoOperators, TLC

MCFunctions == {"main", "f"}
MCLocalsCount == [g \in MCFunctions |-> IF g = "main" THEN 0 ELSE 1]
MCBytecodeSize == [g \in MCFunctions |-> 3]
CellSymmetry == Permutations(Cells)

\* What the next steps can tell apart when CleanLocals holds: of a popped slot
\* only whether ENTER may take it for a local, of the registers only those set
\* again neither by Start nor by ENTER.
Readable ==
    <<[k \in Slots |-> IF k < sp THEN <<stack[k] = Plain /\ ref[k] = None>>
                       ELSE <<stack[k], ref[k]>>],
      sp, state, rc, used, lost,
      IF state = "RUN" THEN <<fn, ip, callers>> ELSE <<>>,
      IF state = "RUN" /\ ip > 0 THEN <<argp, locals>> ELSE <<>> >>
-----------------------------------------------------------------------------
(* What the operators compute, checked against arithmetic for short words.   *)

\* Every operator gives words or an error, and one thing only unless C leaves
\* it open.
ASSUME OperatorsGiveWords ==
    \A op \in DualOps, x \in Words, y \in Words :
        LET rs == DualResults(op, Word(x), Word(y))
        IN  /\ \A r \in rs : Failed(r) \/ r.it \in Words
            /\ Cardinality(rs) # 1 => op \in ShiftOps /\ y >= Bits

\* The bitwise operators are what the carries of an addition make of them.
ASSUME BitwiseIsArithmetic ==
    \A x \in Words, y \in Words :
        /\ Bitwise("and", x, y) + Bitwise("or", x, y) = x + y
        /\ Bitwise("xor", x, y) = Bitwise("or", x, y) - Bitwise("and", x, y)
        /\ SingleResult("not", Word(x)).it = Modulus - 1 - x

\* A shift to the left and back keeps what did not leave the word.
ASSUME ShiftsAreInverse ==
    \A x \in Words, n \in 0..(Bits - 1) :
        x * 2^n < Modulus =>
            \A z \in Shifts("shl", x, n) : Shifts("shr", z, n) = {x}
=============================================================================
