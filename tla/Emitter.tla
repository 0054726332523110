------------------------------- MODULE Emitter -------------------------------
(* vm/emit.c as operators: the script a compiler fills, its string table,    *)
(* and the function that is being emitted, with its labels and the jumps     *)
(* that Finalize patches.  A function is in the script's table from the      *)
(* moment it is created; an entry is found by the hash of a name or label,   *)
(* and hashes are taken to differ.                                           *)
EXTENDS MemoryStream, SequencesExt

CONSTANTS Byte,     \* values of a byte: 256
          Width,    \* bytes of an operand: 4
          Names,    \* of functions
          Labels,
          OpByte,   \* the number of each opcode used
          None

ASSUME EmitterAssumption ==
    Byte \in Nat \ {0, 1} /\ Width \in Nat \ {0} /\ None \notin Names \cup Labels \cup Nat

\* Of the byte; an operand is one of Modulus numbers.
Power[k \in Nat] == IF k = 0 THEN 1 ELSE Byte * Power[k - 1]
Modulus == Power[Width]

\* An operand in the bytecode, the lowest byte first.
Encoded(v) == [i \in 1..Width |-> (v \div Power[i - 1]) % Byte]
Operand(code, at) == FoldRight(LAMBDA b, v : b + Byte * v, SubSeq(code, at + 1, at + Width), 0)

\* An opcode with or without P_REFERENCE, the highest bit of the byte.
Prefixed(op, ref) == OpByte[op] + (IF ref THEN Byte \div 2 ELSE 0)

\* A new script: AdrenoScript_Initialize.
EmptyScript == [strings |-> <<>>, functions |-> <<>>]

Defined(script) == DOMAIN script.functions

\* AdrenoHashtable_Set on the functions of a script: a function of that name is
\* replaced, and lost.
Enter(script, name, f) ==
    [script EXCEPT !.functions = [n \in DOMAIN @ \cup {name} |-> IF n = name THEN f ELSE @[n]]]

\* The first node of a table is not counted (see Hashtable).
NodeCount(script) ==
    IF Defined(script) = {} THEN 0 ELSE Cardinality(Defined(script)) - 1

\* AdrenoEmit_AddString.
AddString(script, s) ==
    IF Contains(script.strings, s) THEN script
    ELSE [script EXCEPT !.strings = Append(@, s)]

StringIndex(script, s) == SelectInSeq(script.strings, LAMBDA t : t = s) - 1

\* AdrenoEmit_CreateFunction.
CreateFunction(script, name) ==
    LET s == AddString(script, name)
        f == [nameIndex |-> StringIndex(s, name), index |-> NodeCount(s), locals |-> 0,
              code |-> <<>>, stream |-> Open,
              labels |-> [l \in Labels |-> None], refs |-> <<>>]
    IN  Enter(s, name, f)

\* AdrenoEmit_EmitOp and AdrenoEmit_EmitOp2_I4.
EmitOp(f, op, ref) == [f EXCEPT !.stream = Write(@, <<Prefixed(op, ref)>>)]

EmitOp2(f, op, ref, val) ==
    [f EXCEPT !.stream = Write(Write(@, <<Prefixed(op, ref)>>), Encoded(val))]

\* AdrenoEmit_EmitJump: the operand is noted and left 0.
EmitJump(f, op, ref, label) ==
    EmitOp2([f EXCEPT !.refs = Append(@, [offset |-> f.stream.position + 1, label |-> label])],
            op, ref, 0)

\* AdrenoEmit_SetLabel: a label set again moves.
SetLabel(f, label) == [f EXCEPT !.labels[label] = f.stream.position]

\* The references before the first to an unknown label: all that is patched.
Known(f) ==
    LET unknown == SelectInSeq(f.refs, LAMBDA r : f.labels[r.label] = None)
    IN  IF unknown = 0 THEN f.refs ELSE SubSeq(f.refs, 1, unknown - 1)

\* Fault: relative to the operand, not to the instruction after it.
PatchedShort(f, code, r) ==
    LET v == Encoded((f.labels[r.label] - r.offset) % Modulus)
    IN  [i \in DOMAIN code |->
            IF i \in r.offset + 1 .. r.offset + Width THEN v[i - r.offset] ELSE code[i]]

\* A jump is relative to the instruction after it, and unsigned.
Patched(f, code, r) ==
    LET v == Encoded((f.labels[r.label] - (r.offset + Width)) % Modulus)
    IN  [i \in DOMAIN code |->
            IF i \in r.offset + 1 .. r.offset + Width THEN v[i - r.offset] ELSE code[i]]

\* AdrenoEmit_Finalize, which tells whether it knew every label; if not, the
\* labels and references stay allocated.
Finalizes(f) == Known(f) = f.refs

Finalized(f) ==
    [f EXCEPT !.code = FoldLeft(LAMBDA code, r : Patched(f, code, r),
                                Clone(f.stream), Known(f)),
              !.stream = Open,
              !.labels = [l \in Labels |-> None],
              !.refs = <<>>]
=============================================================================
