--------------------------- MODULE MCAdrenoFrames ---------------------------
(* Two functions for TLC: main, and a function with a local that can be      *)
(* called from main and from itself, on a stack two frames can fill.         *)
EXTENDS AdrenoFrames

MCFunctions == {"main", "f"}
MCLocalsCount == [g \in MCFunctions |-> IF g = "main" THEN 0 ELSE 1]
MCBytecodeSize == [g \in MCFunctions |-> 3]

\* What the next steps can tell apart: of a popped slot only whether it holds
\* a return info, of the registers only those set again neither by Start nor
\* by ENTER.
Readable ==
    <<[k \in Slots |-> IF k < sp THEN <<Stale(k)>> ELSE <<stack[k], k>>],
      sp, state, callers, IF state = "RUN" THEN <<fn, ip>> ELSE <<>>,
      IF state = "RUN" /\ ip > 0 THEN <<argp, locals>> ELSE <<>> >>
=============================================================================
