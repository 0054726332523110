------------------------------ MODULE Compiler ------------------------------
(* AilCompiler_Compile (ail/ailc.c) on every program of a bounded size, and  *)
(* what the command line tool does with its result: the parser of ail/ail.y  *)
(* takes a token a step and calls the emitter where Bison reduces a rule;    *)
(* a finished script is saved, loaded again and freed.                       *)
(*                                                                           *)
(* Tokens come as the scanner classifies them.  A comment, which the scanner *)
(* skips character by character, may stand before the first of them.         *)
EXTENDS ScriptFile, Scanner

CONSTANTS Inputs,      \* opcodes used, with and without REF
          Strings,     \* string literals
          Constants,   \* numbers after an opcode
          Comments,    \* texts from a "/*" to the end of the program
          MaxItems,     \* bound: labels and instructions in a program
          MaxFunctions  \* bound: functions in a program

\* The opcodes the scanner has words for: the rules of the grammar for newarr,
\* stelem, ldelem, rmelem and ldlen are never reached.
StackOps == {"nop", "pop", "pop.s", "stloc.0", "stloc.1", "stloc.2", "stloc.3", "stloc.s",
             "ldloc.0", "ldloc.1", "ldloc.2", "ldloc.3", "ldloc.s",
             "ldarg.0", "ldarg.1", "ldarg.2", "ldarg.3", "ldarg.s"}
ConstantOps == {"ldnull", "ldc.i4.m1", "ldc.i4.0", "ldc.i4.1", "ldc.i4", "ldstr"}
OperatorOps == {"add", "sub", "mul", "div", "rem", "neg", "or", "and", "xor", "not", "shl",
                "shr", "lor", "land", "lnot", "eq", "ne", "gt", "ge", "lt", "le"}
FlowOps == {"jump", "brtrue", "brfalse", "switch"}
FunctionOps == {"ldfunc", "call", "enter", "ret"}

\* What each is followed by.
Grammar ==
    [op \in StackOps \cup ConstantOps \cup OperatorOps \cup FlowOps \cup FunctionOps |->
        CASE op \in {"pop.s", "stloc.s", "ldloc.s", "ldarg.s", "ldc.i4"} -> "number"
          [] op \in {"ldstr", "ldfunc"} -> "string"
          [] op \in {"jump", "brtrue", "brfalse"} -> "label"
          [] OTHER -> "nothing"]

\* The opcodes after which AdrenoVM_Run skips four bytes more.
Fetched == {"pop.s", "stloc.s", "ldloc.s", "ldarg.s", "ldc.i4", "ldstr", "jump", "brtrue",
            "brfalse", "ldfunc"}

\* Those used by the programs checked.
Opcodes == DOMAIN OpByte

ASSUME CompilerAssumption ==
    /\ Opcodes \subseteq DOMAIN Grammar
    /\ Inputs \subseteq Opcodes \X BOOLEAN
    /\ \A o \in Opcodes : OpByte[o] \in 0..(Byte \div 2 - 1)
    /\ Constants \subseteq 0..(Modulus - 1)
    /\ MaxItems \in Nat /\ MaxFunctions \in Nat
    /\ (1 + Width) * MaxItems + MaxFunctions < Modulus   \* bytecode and strings fit an operand

VARIABLES phase,     \* of the tool: what it does, or how it ended
          script,    \* compiler->Script
          current,   \* the name of compiler->CurrentFunction
          prefix,    \* compiler->Prefix: REF or not
          at,        \* what the parser expects
          taken,     \* the token its next reduction needs
          tables,    \* HT_UseCount: hash tables initialised, not destroyed
          comment,   \* the scanner in a comment
          file, loaded,
          source     \* history: the functions parsed, with their statements

vars == <<phase, script, current, prefix, at, taken, tables, comment, file, loaded, source>>

parsing == <<script, current, prefix, at, taken, tables, source>>
tool == <<phase, comment, file, loaded>>

NoComment == [at |-> "none", text |-> <<>>, b |-> SetupBuffer(<<>>)]

\* at names the parser's state by what may come next.
Parsing(state) == phase = "compile" /\ comment.at = "none" /\ at = state

Item(op, ref, word, num) == [op |-> op, ref |-> ref, word |-> word, num |-> num]

Init ==
    /\ phase = "compile"
    /\ script = EmptyScript
    /\ current = None
    /\ prefix = FALSE
    /\ at = "functions"
    /\ taken = None
    /\ tables = 1
    /\ comment = NoComment
    /\ file = BadFile
    /\ loaded = EmptyScript
    /\ source = <<>>
-----------------------------------------------------------------------------
(* Comments.                                                                 *)

\* "/*": the scanner's action calls ail_comment with both characters read.
BeginComment(text) ==
    /\ Parsing("functions") /\ source = <<>>
    /\ comment' = [at |-> "loop", text |-> text,
                   b |-> [SetupBuffer(<<"/", "*">> \o text) EXCEPT !.pos = 2]]
    /\ UNCHANGED <<parsing, phase, file, loaded>>

\* while ((c = input()) != '*').
SkipChar ==
    /\ comment.at = "loop"
    /\ CanInput(comment.b)
    /\ comment' = [comment EXCEPT !.at = IF InputChar(comment.b) = "*" THEN "star" ELSE "loop",
                                  !.b = AfterInput(comment.b)]
    /\ UNCHANGED <<parsing, phase, file, loaded>>

\* Fault: the character after a star is not looked at again.
AfterStarForgets ==
    /\ comment.at = "star"
    /\ CanInput(comment.b)
    /\ comment' = [comment EXCEPT !.at = IF InputChar(comment.b) = "/" THEN "left" ELSE "loop",
                                  !.b = AfterInput(comment.b)]
    /\ UNCHANGED <<parsing, phase, file, loaded>>

\* if ((c1 = input()) != '/') unput(c1), and on.
AfterStar ==
    /\ comment.at = "star"
    /\ CanInput(comment.b)
    /\ LET c1 == InputChar(comment.b)
           b == AfterInput(comment.b)
       IN  comment' = IF c1 = "/" THEN [comment EXCEPT !.at = "left", !.b = b]
                      ELSE [comment EXCEPT !.at = "loop", !.b = Unput(b, c1)]
    /\ UNCHANGED <<parsing, phase, file, loaded>>

\* No end of the comment: flex reads on from a file that is NULL.
ReadNoFile ==
    /\ comment.at \in {"loop", "star"}
    /\ ~CanInput(comment.b)
    /\ phase' = "CRASH"
    /\ comment' = NoComment
    /\ UNCHANGED <<parsing, file, loaded>>

LeaveComment ==
    /\ comment.at = "left"
    /\ comment' = NoComment
    /\ UNCHANGED <<parsing, phase, file, loaded>>
-----------------------------------------------------------------------------
(* The parser.                                                               *)

\* Shift a token that no action belongs to.
Shift(from, to, token) ==
    /\ Parsing(from)
    /\ at' = to
    /\ taken' = token
    /\ UNCHANGED <<script, current, prefix, tables, source, tool>>

Items == FoldLeft(LAMBDA n, fn : n + Len(fn.items), 0, source)

\* Reduce a statement: the function emitted is f, the item joins the source.
Reduce(s, f, item, then) ==
    /\ Items < MaxItems
    /\ script' = [s EXCEPT !.functions[current] = f]
    /\ source' = [source EXCEPT ![Len(source)].items = Append(@, item)]
    /\ at' = then
    /\ taken' = None
    /\ UNCHANGED <<current, tables, tool>>

This == script.functions[current]

\* fstart.  Bound: functions in a program.
StartFunction ==
    /\ Parsing("open")
    /\ Len(source) < MaxFunctions
    /\ script' = CreateFunction(script, taken)
    /\ current' = taken
    /\ source' = Append(source, [name |-> taken, items |-> <<>>])
    /\ tables' = tables + 1
    /\ at' = "statement"
    /\ taken' = None
    /\ UNCHANGED <<prefix, tool>>

\* Fault: the labels are never destroyed.
EndFunctionKeepsLabels ==
    /\ Parsing("statement")
    /\ script' = [script EXCEPT !.functions[current] = Finalized(This)]
    /\ at' = "functions"
    /\ UNCHANGED <<current, prefix, taken, tables, source, tool>>

\* fend, whose action does not look at what Finalize returns.
EndFunction ==
    /\ Parsing("statement")
    /\ script' = [script EXCEPT !.functions[current] = Finalized(This)]
    /\ tables' = IF Finalizes(This) THEN tables - 1 ELSE tables
    /\ at' = "functions"
    /\ UNCHANGED <<current, prefix, taken, source, tool>>

\* A label, after its identifier: the colon.
Label ==
    /\ Parsing("colon")
    /\ Reduce(script, SetLabel(This, taken), Item("label", FALSE, taken, 0), "statement")
    /\ UNCHANGED prefix

\* mopcode: .initlocals and a constant, with or without a semicolon.
InitLocals(n) ==
    /\ Parsing("statement")
    /\ Reduce(script, [This EXCEPT !.locals = n], Item("locals", FALSE, None, n), "statement")
    /\ UNCHANGED prefix

\* prefix opcode.  The prefix is set by every opcode, and by no other
\* statement.
Op(o, ref) ==
    /\ Parsing("statement")
    /\ Grammar[o] = "nothing"
    /\ prefix' = ref
    /\ Reduce(script, EmitOp(This, o, ref), Item(o, ref, None, 0), "statement")

\* An opcode and its constant.
OpNumber(o, ref, n) ==
    /\ Parsing("statement")
    /\ Grammar[o] = "number"
    /\ prefix' = ref
    /\ Reduce(script, EmitOp2(This, o, ref, n), Item(o, ref, None, n), "statement")

\* ldstr and ldfunc: the string's place in the table.
OpString(o, ref, str) ==
    /\ Parsing("statement")
    /\ Grammar[o] = "string"
    /\ prefix' = ref
    /\ LET s == AddString(script, str)
       IN  Reduce(s, EmitOp2(This, o, ref, StringIndex(s, str)), Item(o, ref, str, 0),
                  "statement")

\* jump, brtrue and brfalse.
OpLabel(o, ref, label) ==
    /\ Parsing("statement")
    /\ Grammar[o] = "label"
    /\ prefix' = ref
    /\ Reduce(script, EmitJump(This, o, ref, label), Item(o, ref, label, 0), "statement")

\* The end of the program, after a function or before the first.
Accept ==
    /\ Parsing("functions")
    /\ phase' = "compiled"
    /\ UNCHANGED <<parsing, comment, file, loaded>>

\* A token no state expects, the end of the program in a function too: no
\* rule has an error token, so Bison unwinds its stack and returns 1.
\* AilCompiler_Compile frees the script with AdrenoScript_Free, which finds
\* no iterator for an empty table, and then once more with AdrenoFree.
SyntaxError ==
    /\ phase = "compile" /\ comment.at = "none"
    /\ phase' = IF Defined(script) = {} THEN "CRASH" ELSE "WILD"
    /\ script' = EmptyScript
    /\ source' = <<>>
    /\ current' = None
    /\ taken' = None
    /\ UNCHANGED <<prefix, at, tables, comment, file, loaded>>
-----------------------------------------------------------------------------
(* The tool.                                                                 *)

\* AdrenoScript_Save.
Save ==
    /\ phase = "compiled"
    /\ IF Defined(script) = {} THEN phase' = "CRASH" /\ file' = file
       ELSE phase' = "saved" /\ file' = Saved(script)
    /\ UNCHANGED <<parsing, comment, loaded>>

\* AdrenoScript_Free after saving: the script's table goes, and those of
\* functions whose labels Finalize left behind stay.
FreeSaved ==
    /\ phase = "saved"
    /\ phase' = "freed"
    /\ tables' = tables - 1
    /\ UNCHANGED <<script, current, prefix, at, taken, source, comment, file, loaded>>

\* AdrenoScript_Load.
Load ==
    /\ phase = "freed"
    /\ phase' = "loaded"
    /\ loaded' = Loaded(file)
    /\ tables' = tables + 1
    /\ UNCHANGED <<script, current, prefix, at, taken, source, comment, file>>

\* Of a file that is none: the script made for it is lost, table and all.
LoadBad ==
    /\ phase = "freed"
    /\ phase' = "refused"
    /\ tables' = tables + 1
    /\ UNCHANGED <<script, current, prefix, at, taken, source, comment, file, loaded>>

\* AdrenoScript_Free of what was loaded, which may be no function at all.
FreeLoaded ==
    /\ phase = "loaded"
    /\ IF Defined(loaded) = {} THEN phase' = "CRASH" /\ tables' = tables
       ELSE phase' = "end" /\ tables' = tables - 1
    /\ UNCHANGED <<script, current, prefix, at, taken, source, comment, file, loaded>>

Shifts ==
    \/ Shift("functions", "name", None)
    \/ \E n \in Names : Shift("name", "open", n)
    \/ \E l \in Labels : Shift("statement", "colon", l)

Skipping == SkipChar \/ AfterStar \/ ReadNoFile

Next ==
    \/ \E t \in Comments : BeginComment(t)
    \/ Skipping
    \/ LeaveComment
    \/ Shifts
    \/ StartFunction
    \/ EndFunction
    \/ Label
    \/ \E n \in Constants : InitLocals(n)
    \/ \E in \in Inputs :
          \/ Op(in[1], in[2])
          \/ \E n \in Constants : OpNumber(in[1], in[2], n)
          \/ \E s \in Strings : OpString(in[1], in[2], s)
          \/ \E l \in Labels : OpLabel(in[1], in[2], l)
    \/ Accept
    \/ SyntaxError
    \/ Save \/ FreeSaved \/ Load \/ LoadBad \/ FreeLoaded

\* One thread runs the scanner's loop, and nothing makes it wait.
Spec == Init /\ [][Next]_vars /\ WF_vars(Skipping)
-----------------------------------------------------------------------------
(* What the program means, from its statements alone.                        *)
Bytes(item) ==
    CASE item.op \in {"label", "locals"} -> 0
      [] item.op \in Fetched -> 1 + Width
      [] OTHER -> 1

Form(item) == IF item.op \in Opcodes THEN Grammar[item.op] ELSE "none"

\* Where the i-th statement of a function begins.
Address(items, i) == FoldLeft(LAMBDA n, it : n + Bytes(it), 0, SubSeq(items, 1, i - 1))

Places(items, label) == {i \in DOMAIN items : items[i].op = "label" /\ items[i].word = label}

\* The address a label stands for is that of its last place.
LabelAddress(items, label) ==
    Address(items, CHOOSE i \in Places(items, label) : \A j \in Places(items, label) : j <= i)

\* Jumps from the first one on that has no label go nowhere.
Lost(items, i) ==
    \E j \in 1..i : Form(items[j]) = "label" /\ Places(items, items[j].word) = {}

\* OP_JUMP: opSize and InstructionPointer are unsigned.
Follow(code, ip) == (ip + ((1 + Width + Operand(code, ip + 1)) % Modulus)) % Modulus

Means(f, items, i) ==
    LET item == items[i]
        ip == Address(items, i)
        val == Operand(f.code, ip + 1)
    IN  /\ f.code[ip + 1] = Prefixed(item.op, item.ref)
        /\ Form(item) = "number" => val = item.num
        /\ Form(item) = "string" => script.strings[val + 1] = item.word
        /\ Form(item) = "label" =>
              Follow(f.code, ip) = IF Lost(items, i) THEN ip + 1 + Width
                                   ELSE LabelAddress(items, item.word)

\* A function of the program: all of it parsed, and not replaced since.
Parsed(k) == k \in DOMAIN source /\ (k < Len(source) \/ at \notin {"statement", "colon"})

Final(k) == Parsed(k) /\ \A j \in DOMAIN source : source[j].name = source[k].name => j <= k

\* Every finished function is its program: under its name, with its locals,
\* and in bytecode instruction after instruction, each with its prefix and
\* operand, strings found in the script's table, and every jump, forward or
\* backward, taken by the interpreter to where its label was last set; jumps
\* from the first unknown label on fall through to the next instruction.
CodeRunsAsWritten ==
    \A k \in DOMAIN source : Final(k) =>
        LET f == script.functions[source[k].name]
            items == source[k].items
            counts == {i \in DOMAIN items : items[i].op = "locals"}
        IN  /\ script.strings[f.nameIndex + 1] = source[k].name
            /\ f.locals = (IF counts = {} THEN 0 ELSE items[Max(counts)].num)
            /\ Len(f.code) = Address(items, Len(items) + 1)
            /\ \A i \in DOMAIN items :
                  items[i].op \notin {"label", "locals"} => Means(f, items, i)

\* A script that is saved and loaded is the script but for one function, the
\* last in the order of the hashes, whose code and name are the only loss.
LoadDropsLast ==
    phase = "loaded" =>
        LET last == CHOOSE n \in Defined(script) : \A m \in Defined(script) : Hash[m] <= Hash[n]
        IN  /\ loaded.strings = script.strings
            /\ Defined(loaded) = Defined(script) \ {last}
            /\ \A n \in Defined(loaded) :
                  /\ loaded.functions[n].code = script.functions[n].code
                  /\ loaded.functions[n].locals = script.functions[n].locals
                  /\ loaded.strings[loaded.functions[n].nameIndex + 1] = n

Unresolved ==
    {k \in DOMAIN source : Parsed(k) /\ Lost(source[k].items, Len(source[k].items))}

\* HT_UseCount, which keeps the pool of nodes alive: one for the script while
\* there is one, one for the function being compiled, and one lost for each
\* function with a jump that has no label and for each bad file loaded.
TablesBalance ==
    phase \notin {"CRASH", "WILD"} =>
        tables = Cardinality(Unresolved)
                 + (IF phase \in {"freed", "end"} THEN 0 ELSE 1)
                 + (IF phase = "compile" /\ at \in {"statement", "colon"} THEN 1 ELSE 0)

\* A comment is left at its first end, whatever stars precede it.
CommentEnd(text) ==
    CHOOSE i \in 2..Len(text) :
        /\ text[i - 1] = "*" /\ text[i] = "/"
        /\ \A j \in 2..(i - 1) : ~(text[j - 1] = "*" /\ text[j] = "/")

Closed(text) == \E i \in 2..Len(text) : text[i - 1] = "*" /\ text[i] = "/"

ClosedCommentIsLeft ==
    (comment.at \in {"loop", "star"} /\ Closed(comment.text))
        ~> (comment.at = "left" /\ comment.b.pos = 2 + CommentEnd(comment.text))
=============================================================================
