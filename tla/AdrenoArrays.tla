---------------------------- MODULE AdrenoArrays ----------------------------
(* Arrays in AdrenoVM_Run (vm/vm.c 438-655) and what vm/value.c does to the  *)
(* cells of AdrenoVM_ValuePool: strings and arrays, which values refer to,   *)
(* and the cells OP_STELEM makes for elements.  One function runs, on locals *)
(* and an operand stack of its own; AdrenoFrames has the calls.              *)
(*                                                                           *)
(* A value is [type, to, rc, flags]: a null, an integer or a reference.  The *)
(* number an integer holds is left open, the counter and GCFlags are kept:   *)
(* GC_FREE on a value makes AdrenoValue_Free give its address to the pool,   *)
(* and a value may be a C variable of AdrenoVM_Run.  The table of an array   *)
(* has its shape from KeyTree, with the Parent fields that removals leave    *)
(* wrong.                                                                    *)
(*                                                                           *)
(* When the code uses a cell or a table's node that is in its pool, or gives *)
(* the pool memory that is none of its own, anything may follow: the model   *)
(* stops in WILD.  It stops in CRASH where a NULL pointer is followed.       *)
EXTENDS KeyTree, Sequences

CONSTANTS Cells,        \* cells of AdrenoVM_ValuePool the model hands out
          LocalsCount,  \* of the function
          StackSize,    \* operands the stack has room for
          RcMod,        \* ReferenceCounter is unsigned: it wraps
          MaxObjects,   \* bound: strings and arrays in use
          MaxLoading,   \* bound: cells in use when an element is loaded, and later
          MaxComputing, \* bound: cells in use when OP_NEG is run
          MaxLost       \* bound: references lost before the run is stopped

ASSUME ArraysAssumption ==
    /\ IsFiniteSet(Cells) /\ None \notin Cells
    /\ LocalsCount \in Nat /\ StackSize \in Nat
    /\ MaxObjects \in Nat /\ MaxLost \in Nat
    /\ MaxLoading \in Nat /\ MaxComputing \in Nat
    /\ RcMod \in Nat \ {0, 1} /\ LocalsCount + StackSize + Cardinality(Cells) + MaxLost < RcMod

VARIABLES state,    \* RUN, END, WILD or CRASH
          stack,    \* the operands, the top one first
          locals,
          cell,     \* the contents of every cell
          lost,     \* history: references popped and forgotten, for each cell
          orphans,  \* history: elements' cells replaced or removed
          loaded    \* history: OP_LDELEM has copied an element

vars == <<state, stack, locals, cell, lost, orphans, loaded>>

Locals == 1..LocalsCount

Null == [type |-> "null", to |-> None, rc |-> 1, flags |-> {}]
Integer(rc) == [type |-> "int", to |-> None, rc |-> rc, flags |-> {}]
Ref(o) == [type |-> "ref", to |-> o, rc |-> 1, flags |-> {}]

\* A reference to such a cell dates from before the cell was given back.
Reused == {"free", "ref"}

FreeCell == [type |-> "free", to |-> None, rc |-> 0, flags |-> {}]
StringCell == [type |-> "string", to |-> None, rc |-> 1, flags |-> {"FREE", "COLLECT"}]

\* An array has a table from keys to cells, its nodes in a tree, and the type
\* of its first key.
ArrayCell == [type |-> "array", to |-> None, rc |-> 1, flags |-> {"FREE", "COLLECT"},
              key |-> "null", elems |-> [k \in Keys |-> None], tree |-> EmptyTree]

Types == {"free", "string", "array", "ref", "int", "null"}

OfType(types) ==
    {v \in [type : types, to : Cells \cup {None}, rc : 0..(RcMod - 1),
            flags : SUBSET {"FREE", "COLLECT"}] : v.type = "ref" <=> v.to \in Cells}

Values == OfType({"null", "int", "ref"})

Arrays == [type : {"array"}, to : {None}, rc : 0..(RcMod - 1), flags : SUBSET {"FREE", "COLLECT"},
           key : Types, elems : [Keys -> Cells \cup {None}], tree : Trees]

TypeOK ==
    /\ state \in {"RUN", "END", "WILD", "CRASH"}
    /\ stack \in Seq(Values) /\ Len(stack) <= StackSize
    /\ locals \in [Locals -> Values]
    /\ cell \in [Cells -> OfType(Types \ {"array"}) \cup Arrays]
    /\ lost \in [Cells -> Nat]
    /\ orphans \subseteq Cells
    /\ loaded \in BOOLEAN
-----------------------------------------------------------------------------
(* AdrenoValue_Dereference and AdrenoValue_Free.  A heap h has the cells,    *)
(* the first thing that went wrong, the values still to be released, and the *)
(* calls of AdrenoValue_Free that are not finished, the innermost first:     *)
(* each frees an array and has some of its elements left.                    *)
Heap == [cell |-> cell, fault |-> "RUN", values |-> <<>>, freeing |-> <<>>]

Failed(h, what) == [h EXCEPT !.fault = what]

Elements(a) == {k \in Keys : a.elems[k] # None}

\* A cell counts one reference less.  The last one frees a string, or the copy
\* of an integer or a null, and begins to free an array.  Of an empty array,
\* CreateIterator follows a NULL root.
Dereference(h, o) ==
    LET c == h.cell[o]
        less == (c.rc - 1) % RcMod
    IN  CASE c.type \in Reused -> Failed(h, "WILD")
          [] c.type \notin Reused /\ less # 0 -> [h EXCEPT !.cell[o].rc = less]
          [] c.type \notin Reused \cup {"array"} /\ less = 0 -> [h EXCEPT !.cell[o] = FreeCell]
          [] c.type = "array" /\ less = 0 ->
                IF Elements(c) = {} THEN Failed(h, "CRASH")
                ELSE [h EXCEPT !.cell[o].rc = 0,
                               !.freeing = <<[array |-> o, keys |-> Elements(c)]>> \o @]

\* Fault: the cell of the element counts, a reference like any other value.
CountedItself(h, e) == e

\* A reference in a cell counts its target down, itself never: the cell stays
\* allocated for good.
Counted(h, e) == IF h.cell[e].type = "ref" THEN h.cell[e].to ELSE e

\* The elements in left are still to come: on its way from the one before them
\* the iterator reads a Parent that leads to a node given back.
Strays(a, left) ==
    \E k \in Elements(a) \ left :
        /\ \A j \in Elements(a) \ left : j <= k
        /\ Leaving(a.tree, k) \cap a.tree.stale # {}

\* The iterator visits the elements in the order of their keys, then the array
\* goes back to the pool.
FreeNext(h) ==
    LET f == Head(h.freeing)
        a == h.cell[f.array]
        k == Least(f.keys)
        astray == a.type # "array" \/ Strays(a, f.keys)
    IN  CASE astray -> Failed(h, "WILD")
          [] ~astray /\ f.keys = {} ->
                [h EXCEPT !.cell[f.array] = FreeCell, !.freeing = Tail(@)]
          [] ~astray /\ f.keys # {} ->
                Dereference([h EXCEPT !.freeing =
                                <<[array |-> f.array, keys |-> f.keys \ {k}]>> \o Tail(@)],
                            Counted(h, a.elems[k]))

\* The next value.  One that is no reference counts itself, a C variable that
\* goes to the pool if it has GC_FREE.
ReleaseNext(h) ==
    LET v == Head(h.values)
        rest == [h EXCEPT !.values = Tail(@)]
    IN  CASE v.type = "ref" -> Dereference(rest, v.to)
          [] v.type # "ref" /\ v.rc = 1 /\ "FREE" \in v.flags -> Failed(h, "WILD")
          [] OTHER -> rest

Done(h) == h.fault # "RUN" \/ (h.freeing = <<>> /\ h.values = <<>>)

Go(h) ==
    CASE Done(h) -> h
      [] ~Done(h) /\ h.freeing # <<>> -> FreeNext(h)
      [] ~Done(h) /\ h.freeing = <<>> -> ReleaseNext(h)

Tables(h) == {c \in Cells : h.cell[c].type = "array"}

\* A value is released once, and an array is freed once, element by element.
Enough(h, s) == Len(s) + Cardinality(Tables(h)) * (Cardinality(Keys) + 2)

\* The values of s, one after the other.
Release(h, s) ==
    LET run[n \in Nat] == IF n = 0 THEN [h EXCEPT !.values = s] ELSE Go(run[n - 1])
    IN  run[Enough(h, s)]

Slots == stack \o locals

Objects == {c \in Cells : cell[c].type \in {"string", "array"}}

InUse == {c \in Cells : cell[c].type # "free"}

\* A cell that AdrenoMemoryPool_Alloc may hand out.
Available(c) == cell[c].type = "free" /\ (loaded => Cardinality(InUse) < MaxLoading)

\* How many of the values refer to o.
Pointing(s, o) == Cardinality({i \in DOMAIN s : s[i].to = o})

\* What AdrenoValue_GetValue finds; a cell in the pool is no value.
TypeOf(v) == IF v.type = "ref" THEN cell[v.to].type ELSE v.type

\* AdrenoValue_CreateReference.
Referenced(h, o) == [h EXCEPT !.cell[o].rc = (@ + 1) % RcMod]
-----------------------------------------------------------------------------
(* How an instruction ends.                                                  *)

\* It goes on with heap h.
Proceed(h, st) ==
    /\ state' = h.fault
    /\ cell' = h.cell
    /\ stack' = st

\* It stops the script, which clears the stack, locals and all; what it has
\* popped is lost.
Abandon(h, popped, rest) ==
    LET left == Release(h, rest \o locals)
    IN  /\ state' = IF left.fault = "RUN" THEN "END" ELSE left.fault
        /\ cell' = left.cell
        /\ stack' = <<>>
        /\ locals' = [l \in Locals |-> Null]
        /\ lost' = [c \in Cells |-> lost[c] + Pointing(popped, c)]

\* AdrenoStack_Push: on a full stack the value is lost and the script stops.
Push(h, v, rest) ==
    IF Len(rest) < StackSize
    THEN Proceed(h, <<v>> \o rest) /\ UNCHANGED <<locals, lost>>
    ELSE Abandon(h, <<v>>, rest)

Running == state = "RUN" /\ \A c \in Cells : lost[c] <= MaxLost

Operands(n) == SubSeq(stack, 1, n)
Rest(n) == SubSeq(stack, n + 1, Len(stack))

\* An operand refers to a cell given back: what it holds is anything.
Dangling(v) == v.type = "ref" /\ TypeOf(v) \in Reused
Stale(n) == \E i \in 1..n : Dangling(stack[i])

GoWild == state' = "WILD" /\ UNCHANGED <<stack, locals, cell, lost, orphans, loaded>>

\* A pop from an empty stack, after fewer operands than the instruction takes.
Underflow ==
    /\ Running
    /\ Len(stack) < 3
    /\ \E n \in {0, Len(stack)} : Abandon(Heap, Operands(n), Rest(n))
    /\ UNCHANGED <<orphans, loaded>>
-----------------------------------------------------------------------------
Init ==
    /\ state = "RUN"
    /\ stack = <<>>
    /\ locals = [l \in Locals |-> Null]
    /\ cell = [c \in Cells |-> FreeCell]
    /\ lost = [c \in Cells |-> 0]
    /\ orphans = {}
    /\ loaded = FALSE

\* OP_LDC_I4.  A null, which OP_LDNULL pushes, is what the locals start with.
LoadConstant ==
    /\ Running
    /\ Push(Heap, Integer(1), stack)
    /\ UNCHANGED <<orphans, loaded>>

Room(c) == Available(c) /\ Cardinality(Objects) < MaxObjects

\* AdrenoValue_LoadString, for OP_ADD of two strings or an API function.
LoadString(c) ==
    /\ Running
    /\ Room(c)
    /\ Push([Heap EXCEPT !.cell[c] = StringCell], Ref(c), stack)
    /\ UNCHANGED <<orphans, loaded>>

\* OP_NEG: the result's counter is 0.
Compute ==
    /\ Running
    /\ Len(stack) >= 1
    /\ stack[1].type = "int"
    /\ Cardinality(InUse) <= MaxComputing
    /\ Push(Release(Heap, <<stack[1]>>), Integer(0), Rest(1))
    /\ UNCHANGED <<orphans, loaded>>

Pop ==
    /\ Running
    /\ Len(stack) >= 1
    /\ Proceed(Release(Heap, <<stack[1]>>), Rest(1))
    /\ UNCHANGED <<locals, lost, orphans, loaded>>

\* OP_LDLOC: AdrenoVM_LoadValue copies a reference by CreateReference.
LoadLocal(l) ==
    /\ Running
    /\ ~Dangling(locals[l])
    /\ Push(IF locals[l].type = "ref" THEN Referenced(Heap, locals[l].to) ELSE Heap,
            locals[l], stack)
    /\ UNCHANGED <<orphans, loaded>>

LoadStaleLocal(l) == Running /\ Dangling(locals[l]) /\ GoWild

StoreLocal(l) ==
    /\ Running
    /\ Len(stack) >= 1
    /\ Proceed(Release(Heap, <<locals[l]>>), Rest(1))
    /\ locals' = [locals EXCEPT ![l] = stack[1]]
    /\ UNCHANGED <<lost, orphans, loaded>>

\* OP_NEWARR.
NewArray(c) ==
    /\ Running
    /\ Room(c)
    /\ Push([Heap EXCEPT !.cell[c] = ArrayCell], Ref(c), stack)
    /\ UNCHANGED <<orphans, loaded>>
-----------------------------------------------------------------------------
\* The operands of an element instruction: the array is the n-th from the top,
\* its key the one above.
Element(n) ==
    /\ Running
    /\ Len(stack) >= n
    /\ ~Stale(n)

Accepts(a, k) ==
    TypeOf(a) = "array" /\ TypeOf(k) # "null" /\ cell[a.to].key \in {"null", TypeOf(k)}

\* A null, an array of other keys, or no array: the script stops.
FailElement(n) ==
    /\ Element(n)
    /\ ~Accepts(stack[n], stack[n - 1])
    /\ Abandon(Heap, Operands(n), Rest(n))
    /\ UNCHANGED <<orphans, loaded>>

UseStale(n) == Running /\ Len(stack) >= n /\ Stale(n) /\ GoWild

\* The heap with the array's first key type noted, and tree its table's shape.
Keyed(a, k, tree) == [Heap EXCEPT !.cell[a.to].key = TypeOf(k), !.cell[a.to].tree = tree]

Tree(a) == cell[a.to].tree

\* Fault: the element replaced is given back.
ReplacedFreed(a, k, h) ==
    LET old == h.cell[a].elems[k]
    IN  IF old = None THEN h ELSE [h EXCEPT !.cell[old] = FreeCell]

\* Fault: the element takes over the reference of the operand.
StoreCellUncounted(v, c, h) ==
    [h EXCEPT !.cell[c] = IF v.type = "ref" THEN Ref(v.to) ELSE [v EXCEPT !.flags = {"FREE", "COLLECT"}]]

\* The cell for an element: a reference of its own to a string or an array, or
\* a copy of any other value, counter included.  Flags of a reference are left
\* out: AdrenoValue_Free, which reads them, never gets one.
StoreCell(v, c, h) ==
    IF v.type = "ref"
    THEN [Referenced(h, v.to) EXCEPT !.cell[c] = Ref(v.to)]
    ELSE [h EXCEPT !.cell[c] = [v EXCEPT !.flags = {"FREE", "COLLECT"}]]

\* The element replaced is not released.
Replaced(a, k, h) == h

\* The element of key k leaves the table of the array, the third operand.
Orphan(k) ==
    orphans' = orphans \cup ({cell[stack[3].to].elems[k]} \ {None})

\* OP_STELEM.
StoreElement(k, c) ==
    /\ Element(3)
    /\ Accepts(stack[3], stack[2])
    /\ Available(c)
    /\ LET a == stack[3].to
           h == Replaced(a, k, StoreCell(stack[1], c,
                    Keyed(stack[3], stack[2], Planted(Tree(stack[3]), k))))
       IN  Proceed(Release([h EXCEPT !.cell[a].elems[k] = c],
                           <<stack[3], stack[2], stack[1]>>), Rest(3))
    /\ Orphan(k)
    /\ UNCHANGED <<locals, lost, loaded>>

\* OP_LDELEM: the element's value as it is, a reference not counted, flags and
\* all.  The cell loses GC_COLLECT.  Bound: no second element is loaded.
LoadElement(k) ==
    /\ Element(2)
    /\ ~loaded /\ Cardinality(InUse) <= MaxLoading
    /\ Accepts(stack[2], stack[1])
    /\ LET e == cell[stack[2].to].elems[k]
           h == [Keyed(stack[2], stack[1], Tree(stack[2])) EXCEPT !.cell[e].flags = @ \ {"COLLECT"}]
       IN  /\ e # None
           /\ Proceed(Release(h, <<stack[2], stack[1]>>), <<cell[e]>> \o Rest(2))
    /\ loaded' = TRUE
    /\ UNCHANGED <<locals, lost, orphans>>

\* No such element: a null, whose counter and flags are what the C variable
\* held before.
LoadMissing(k) ==
    /\ Element(2)
    /\ ~loaded /\ Cardinality(InUse) <= MaxLoading
    /\ Accepts(stack[2], stack[1])
    /\ cell[stack[2].to].elems[k] = None
    /\ \E f \in {{}, {"FREE"}} :
          Proceed(Release(Keyed(stack[2], stack[1], Tree(stack[2])), <<stack[2], stack[1]>>),
                  <<[Null EXCEPT !.flags = f]>> \o Rest(2))
    /\ loaded' = TRUE
    /\ UNCHANGED <<locals, lost, orphans>>

Lose(popped) == lost' = [c \in Cells |-> lost[c] + Pointing(popped, c)]

\* OP_LDLEN of an array or a string: the length is computed and dropped, and
\* the operand with it.
LoadLength ==
    /\ Running
    /\ Len(stack) >= 1
    /\ TypeOf(stack[1]) \in {"array", "string"}
    /\ Proceed(Heap, Rest(1))
    /\ Lose(Operands(1))
    /\ UNCHANGED <<locals, orphans, loaded>>

\* OP_RMELEM takes a third operand, which it loses; the element stays
\* allocated.
RemoveElement(k) ==
    /\ Element(3)
    /\ Accepts(stack[3], stack[2])
    /\ LET h == Keyed(stack[3], stack[2], Pruned(Tree(stack[3]), k))
       IN  Proceed(Release([h EXCEPT !.cell[stack[3].to].elems[k] = None],
                           <<stack[3], stack[2]>>), Rest(3))
    /\ Lose(Operands(1))
    /\ Orphan(k)
    /\ UNCHANGED <<locals, loaded>>

\* OP_RET of the only function, or an instruction that fails.
Stop ==
    /\ Running
    /\ Len(stack) >= 1
    /\ Abandon(Heap, Operands(1), Rest(1))
    /\ UNCHANGED <<orphans, loaded>>

Next ==
    \/ LoadConstant
    \/ Compute
    \/ Pop
    \/ LoadLength
    \/ Stop
    \/ Underflow
    \/ \E c \in Cells : LoadString(c) \/ NewArray(c)
    \/ \E l \in Locals : LoadLocal(l) \/ LoadStaleLocal(l) \/ StoreLocal(l)
    \/ \E n \in {2, 3} : FailElement(n) \/ UseStale(n)
    \/ \E k \in Keys :
          \/ \E c \in Cells : StoreElement(k, c)
          \/ LoadElement(k)
          \/ LoadMissing(k)
          \/ RemoveElement(k)

Spec == Init /\ [][Next]_vars
-----------------------------------------------------------------------------
Held == orphans \cup {cell[a].elems[k] : a \in {c \in Cells : cell[c].type = "array"}, k \in Keys}

RefsTo(o) ==
    Pointing(Slots, o)
      + Cardinality({c \in Cells \cap Held : cell[c].to = o})

\* The counter of a string or array is the number of slots that refer to it,
\* of element cells that do, those replaced or removed included, and of
\* references lost: as long as no element has been loaded, however elements
\* are stored, replaced and removed, and whatever arrays are freed with theirs.
CountsAreExact ==
    state \in {"RUN", "END"} /\ ~loaded =>
        \A o \in Objects : cell[o].rc = RefsTo(o) + lost[o]

\* The arrays being freed whose table OP_RMELEM has left with a wrong Parent.
TangledFreed ==
    {a \in Cells : cell[a].type = "array" /\ cell[a].rc = 0 /\ cell[a].tree.stale # {}}

\* Storing and replacing elements, removing them from a table whose Parent
\* fields stay right, and freeing such arrays, in whatever order, never break
\* the memory of the program: a script that has not loaded an element uses no
\* cell or node given back, and gives back nothing else, until it frees an
\* array that a removal has tangled.
OnlyTanglesBreak == state = "WILD" /\ ~loaded => TangledFreed # {}

\* The cell of a reference element is never returned to the pool, neither when
\* the element is replaced or removed nor when its array is freed.
ElementCellsStay ==
    [][\A c \in Cells : cell[c].type = "ref" =>
          cell'[c].type = "ref" /\ cell'[c].to = cell[c].to]_vars
=============================================================================
