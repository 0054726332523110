----------------------------- MODULE ScriptFile -----------------------------
(* vm/script.c as operators on a script of Emitter: a saved script is a      *)
(* header, the strings and the functions, in the order the hash table's      *)
(* iterator has them.                                                        *)
EXTENDS Emitter

CONSTANT Hash   \* of a function's name

ASSUME ScriptFileAssumption ==
    Hash \in [Names -> Nat] /\ \A m, n \in Names : Hash[m] = Hash[n] => m = n

\* The functions as the iterator gives them.
Ascending(s) == \A i, j \in DOMAIN s : i < j => Hash[s[i]] < Hash[s[j]]

Order(script) ==
    CHOOSE s \in [1..Cardinality(Defined(script)) -> Defined(script)] : Ascending(s)

\* AdrenoScript_Save; a table without functions has no iterator.
Saved(script) ==
    [good |-> TRUE,
     functionCount |-> NodeCount(script),
     strings |-> script.strings,
     functions |-> [i \in DOMAIN Order(script) |->
                      LET f == script.functions[Order(script)[i]]
                      IN  [nameIndex |-> f.nameIndex, locals |-> f.locals, code |-> f.code]]]

\* A file whose magic or version AdrenoScript_Load rejects.
BadFile == [good |-> FALSE, functionCount |-> 0, strings |-> <<>>, functions |-> <<>>]

\* Fault: a function is entered by its place in the file.
LoadedNameByPlace(file, i) == file.strings[i]

LoadedName(file, i) == file.strings[file.functions[i].nameIndex + 1]

\* AdrenoScript_Load of a good file: as many functions as the header says.
Loaded(file) ==
    FoldLeft(LAMBDA s, i :
                Enter(s, LoadedName(file, i),
                      [nameIndex |-> file.functions[i].nameIndex, index |-> i - 1,
                       locals |-> file.functions[i].locals, code |-> file.functions[i].code]),
             [EmptyScript EXCEPT !.strings = file.strings],
             [i \in 1..file.functionCount |-> i])
=============================================================================
