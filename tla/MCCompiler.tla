----------------------------- MODULE MCCompiler -----------------------------
(* Compiler for TLC: bytes of eight values and operands of two bytes, so     *)
(* that backward jumps wrap as in the code.                                  *)
EXTENDS Compiler

MCOpByte == [nop |-> 0, jump |-> 1, ldstr |-> 2] @@ ("ldc.i4" :> 3)
MCInputs == {<<"nop", FALSE>>, <<"nop", TRUE>>, <<"jump", FALSE>>, <<"ldstr", FALSE>>, <<"ldc.i4", TRUE>>}
MCHash == [n \in Names |-> IF n = "f" THEN 1 ELSE 0]

\* What may follow the beginning of a comment, up to four characters.
MCComments == UNION {[1..n -> {"*", "/", "x"}] : n \in 0..4}

\* A literal fits the memory ail_parse_string takes for it, with the NUL
\* behind it, whatever escapes it has.
ASSUME LiteralsFit ==
    \A str \in UNION {[1..n -> {"\"", "\\", "n", "x"}] : n \in 2..6} :
        IsLiteral(str) => Len(ParseString(str)) + 1 <= Len(str)

\* The emitter writes an operand after exactly the opcodes for which the
\* interpreter skips one.
ASSUME OperandsAreFetched == Fetched = {o \in DOMAIN Grammar : Grammar[o] # "nothing"}

\* Reading leaves the position where it is, and no seek reaches the end.
ASSUME StreamPositions ==
    \A n \in 1..3, m \in 0..4 :
        LET ms == Write(Open, [i \in 1..n |-> i])
            back == Seek(ms, 0, m)
        IN  /\ Read(ms, m) = <<>>
            /\ m < n => Read(back, 1) = <<m + 1>>
            /\ m >= n => back = ms
            /\ Seek(ms, 2, 0 - n) = Seek(ms, 0, 0)
=============================================================================
