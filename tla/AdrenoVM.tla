------------------------------ MODULE AdrenoVM ------------------------------
(* The values of AdrenoVM_Run: the steps of AdrenoFrames, with what each one *)
(* does to the strings the slots refer to (vm/value.c).  A string lives in a *)
(* cell of AdrenoVM_ValuePool, allocated while the script runs, or is one of *)
(* the script's constants.  AdrenoValue_Dereference counts its references    *)
(* down and at zero returns the cell to the pool; a constant stays.          *)
(*                                                                           *)
(* A slot is a reference to a string (ref) or a value of its own, a null, an *)
(* integer or a function, whose counter nothing depends on.  Arrays and the  *)
(* "ref" prefix are not modelled.  The constants below name two more rules   *)
(* that scripts keep and nothing in the code checks; what AdrenoFrames does  *)
(* in UseStale and LoadReturnInfo is undefined and not repeated here.        *)
EXTENDS AdrenoFrames, FiniteSets

CONSTANTS Consts,         \* the script's strings
          Cells,          \* the cells of the pool
          None,           \* a slot that is no reference
          ScriptHold,     \* a constant's first count: 0 in a script that was
                          \* compiled, 1 in one that AdrenoScript_Load read
          RcMod,          \* ReferenceCounter is unsigned: it wraps
          MaxLost,        \* bound: references to a string lost while running
          CleanLocals,    \* rule: ENTER never finds a reference in its locals
          ApiOnIntegers   \* rule: API functions get integers, no strings

Objects == Consts \cup Cells

ASSUME VMAssumption ==
    /\ ~CanExpand
    /\ IsFiniteSet(Objects)
    /\ Consts \cap Cells = {}
    /\ None \notin Objects
    /\ ScriptHold \in {0, 1}
    /\ MaxLost \in Nat
    /\ RcMod \in Nat
    /\ RcMod > 4 + StackSize + MaxLost
    /\ CleanLocals \in BOOLEAN
    /\ ApiOnIntegers \in BOOLEAN

VARIABLES ref,    \* the string each slot refers to, popped slots included
          rc,     \* its ReferenceCounter
          used,   \* the cells allocated
          lost    \* history: references dropped without AdrenoValue_Dereference

vmVars == <<vars, ref, rc, used, lost>>

values == <<ref, rc, used, lost>>

Live(s) == s..(StackSize - 1)

\* How many of the slots S hold a reference to o.
Refs(r, S, o) == Cardinality({k \in S : r[k] = o})

VMTypeOK ==
    /\ ref \in [Slots -> Objects \cup {None}]
    /\ rc \in [Objects -> 0..(RcMod - 1)]
    /\ used \subseteq Cells
    /\ lost \in [Objects -> Nat]
-----------------------------------------------------------------------------
\* AdrenoValue_CreateReference; nothing to do for a value that is its own.
Referenced(o) == IF o = None THEN rc ELSE [rc EXCEPT ![o] = @ + 1]

\* References popped into a C variable and forgotten.
Lose(S) == lost' = [o \in Objects |-> lost[o] + Refs(ref, S, o)]

\* Fault: the epilogue that clears the stack is missing.
SettleWithoutClear(counts, cells, dropped, top) ==
    /\ rc' = [o \in Objects |-> (counts[o] - Refs(ref, dropped, o)) % RcMod]
    /\ used' = cells \ {o \in Cells : /\ counts[o] > 0
                                     /\ Refs(ref, dropped, o) >= counts[o]}

\* AdrenoValue_Dereference of the slots in dropped and, when the instruction
\* is the last one, AdrenoStack_Clear of the stack from top on.  counts and
\* cells are the counters and the pool after the references it has made.
Settle(counts, cells, dropped, top) ==
    LET drops == [o \in Objects |->
                    Refs(ref, dropped, o)
                      + IF state' = "RUN" THEN 0 ELSE Refs(ref', Live(top), o)]
    IN  /\ rc' = [o \in Objects |-> (counts[o] - drops[o]) % RcMod]
        /\ used' = cells \ {o \in Cells : counts[o] > 0 /\ drops[o] >= counts[o]}

\* What a push of a reference to o, or of a value that is none, does.
Pushed(o) ==
    /\ ref' = [ref EXCEPT ![sp - 1] = o]
    /\ lost' = lost
    /\ Settle(Referenced(o), used, {}, sp - 1)
-----------------------------------------------------------------------------
\* Faults, as in AdrenoFrames.
StoreKeepsOld(k) ==       \* OP_STLOC does not release the local's old value
    /\ StoreInto(k)
    /\ ref' = [ref EXCEPT ![k] = ref[sp]]
    /\ lost' = lost
    /\ Settle(rc, used, {}, sp + 1)

ReturnReleasesResult ==   \* OP_RET releases the result with the locals
    /\ Ret
    /\ ref' = [ref EXCEPT ![Returning] = ref[sp]]
    /\ lost' = lost
    /\ Settle(rc, used, {sp} \cup Released, Returning)
-----------------------------------------------------------------------------
VMInit ==
    /\ Init
    /\ ref = [k \in Slots |-> None]
    /\ rc = [o \in Objects |-> IF o \in Consts THEN ScriptHold ELSE 0]
    /\ used = {}
    /\ lost = [o \in Objects |-> 0]

StartRun(f) ==
    /\ Start(f)
    /\ \A o \in Objects : lost[o] <= MaxLost
    /\ UNCHANGED values

\* A return info left among the locals leads to UseStale.
EnterFunction ==
    /\ \A k \in Slots : sp - LocalsCount[fn] <= k /\ k < sp =>
          stack[k] = Plain /\ (CleanLocals => ref[k] = None)
    /\ Enter
    /\ UNCHANGED <<ref, lost>>
    /\ Settle(rc, used, {}, sp - LocalsCount[fn])

\* OP_LDNULL, OP_LDC_I4, OP_LDFUNC: None; OP_LDSTR: a constant.
LoadConstant == \E o \in Consts \cup {None} : Operate(0, 1, ip + 1) /\ Pushed(o)

\* OP_LDLOC and OP_LDARG: AdrenoVM_LoadValue copies a reference by
\* AdrenoValue_CreateReference.
Copy(k) == Load(k) /\ Pushed(ref[k])

CopyLocal == \E k \in LocalSlots : stack[k] = Plain /\ Copy(k)

CopyArgument == \E k \in Indexed : stack[k] = Plain /\ Copy(k)

Store(k) ==
    /\ StoreInto(k)
    /\ ref' = [ref EXCEPT ![k] = ref[sp]]
    /\ lost' = lost
    /\ Settle(rc, used, {k}, sp + 1)

\* The instructions that release what they pop and push at most a value of its
\* own: OP_NOP, OP_POP, OP_POP_S, arithmetic, comparisons, jumps, branches.
Consume(pops, pushes, t) ==
    /\ Operate(pops, pushes, t)
    /\ ref' = IF pushes = 0 THEN ref ELSE [ref EXCEPT ![sp + pops - 1] = None]
    /\ lost' = lost
    /\ Settle(rc, used, Slots \cap (sp..(sp + pops - 1)), sp + pops - pushes)

Discard == \E n \in 0..2 : Consume(n, 0, ip + 1)

Branch == \E n \in {0, 1}, t \in 1..BytecodeSize[fn] : Consume(n, 0, t)

\* OP_NEG, OP_NOT and OP_LNOT take an integer; two operands have one type.
Compute ==
    \/ Consume(1, 1, ip + 1) /\ ref[sp] = None
    \/ Consume(2, 1, ip + 1) /\ (ref[sp] = None <=> ref[sp + 1] = None)

\* OP_ADD of two strings, in a cell of its own.
Concat(c) ==
    /\ Operate(2, 1, ip + 1)
    /\ ref[sp] # None /\ ref[sp + 1] # None
    /\ c \notin used
    /\ ref' = [ref EXCEPT ![sp + 1] = c]
    /\ lost' = lost
    /\ Settle([rc EXCEPT ![c] = 1], used \cup {c}, {sp, sp + 1}, sp + 1)

\* Calls by name lose the reference to the name.
CallFunction(g) ==
    /\ Call(g)
    /\ ref[sp] # None => lost[ref[sp]] < MaxLost
    /\ ref' = [ref EXCEPT ![sp] = None]
    /\ Lose({sp})
    /\ UNCHANGED <<rc, used>>

\* OP_CALL of print, strtoint or inttostr (vm/stdlib.c): the function value is
\* popped, its argument, the operand below, is released where it is and stays
\* there, and the result, for inttostr a new string, is pushed.
CallApi(result) ==
    /\ Depth >= 2
    /\ Operate(1, 1, ip + 1)
    /\ ref[sp] # None => lost[ref[sp]] < MaxLost
    /\ ApiOnIntegers => ref[sp + 1] = None
    /\ result # None => result \notin used /\ ref[sp + 1] = None
    /\ ref' = [ref EXCEPT ![sp] = result]
    /\ Lose({sp})
    /\ IF result = None
       THEN Settle(rc, used, {sp + 1}, sp)
       ELSE Settle([rc EXCEPT ![result] = 1], used \cup {result}, {}, sp)

\* The result moves to the slot of the return info, its count unchanged.
Return ==
    /\ Ret
    /\ ref' = [ref EXCEPT ![Returning] = ref[sp]]
    /\ lost' = lost
    /\ Settle(rc, used, Released, Returning)

\* OP_RET of main, and OP_RET that finds no return info, drop the result and
\* what was popped for the return info.
ReturnFromMain ==
    /\ RetFromMain
    /\ ref' = ref
    /\ Lose({sp})
    /\ Settle(rc, used, Released, StackSize)

ReturnCorrupt ==
    /\ RetCorrupt
    /\ ref' = ref
    /\ Lose({sp, Returning})
    /\ Settle(rc, used, Released, Returning + 1)

\* A failed push loses the reference just made to a constant, or to what a
\* local or an argument refers to.
PushOverflow ==
    /\ Overflow
    /\ ref' = ref
    /\ \E o \in {None} \cup IF ip = 0 THEN {}
                           ELSE Consts \cup {ref[k] : k \in LocalSlots \cup Indexed} :
          /\ lost' = IF o = None THEN lost ELSE [lost EXCEPT ![o] = @ + 1]
          /\ Settle(Referenced(o), used, {}, sp)

PopUnderflow == Underflow /\ UNCHANGED <<ref, lost>> /\ Settle(rc, used, {}, sp)

\* An instruction that fails keeps the operands it has popped.
FailInstruction(pops) ==
    /\ Fail
    /\ Depth >= pops
    /\ ref' = ref
    /\ Lose(Slots \cap (sp..(sp + pops - 1)))
    /\ Settle(rc, used, {}, sp + pops)

VMNext ==
    \/ \E f \in Functions : StartRun(f) \/ CallFunction(f)
    \/ EnterFunction
    \/ LoadConstant
    \/ CopyLocal
    \/ CopyArgument
    \/ \E k \in LocalSlots : Store(k)
    \/ Discard
    \/ Branch
    \/ Compute
    \/ \E c \in Cells : Concat(c)
    \/ \E r \in Cells \cup {None} : CallApi(r)
    \/ Return
    \/ ReturnFromMain
    \/ ReturnCorrupt
    \/ PushOverflow
    \/ PopUnderflow
    \/ \E n \in 0..2 : FailInstruction(n)

VMSpec == VMInit /\ [][VMNext]_vmVars
-----------------------------------------------------------------------------
Hold(o) == IF o \in Consts THEN ScriptHold ELSE 0

\* Every counter is exact: the script's own reference to a constant, the slots
\* in use that refer to the string, and the references lost.
CountsAreExact ==
    \A o \in Objects : rc[o] = Hold(o) + Refs(ref, Live(sp), o) + lost[o]

\* No slot in use, of any function, refers to a cell that is back in the pool.
NoDanglingReference ==
    \A k \in Live(sp) : ref[k] \in used \cup Consts \cup {None}

\* A cell is in the pool exactly when nothing refers to it.
UsedIsCounted == used = {c \in Cells : rc[c] > 0}

LostIsBounded ==
    \A o \in Objects : lost[o] <= MaxLost + IF state = "RUN" THEN 0 ELSE 2

\* A return info is never a reference as well: CALL loses the function value
\* before it writes over it.
ReturnInfosHoldNothing == \A k \in Slots : stack[k] # Plain => ref[k] = None

CountInv ==
    /\ VMTypeOK
    /\ CountsAreExact
    /\ NoDanglingReference
    /\ UsedIsCounted
    /\ LostIsBounded

VMIInv == CountInv /\ ReturnInfosHoldNothing

\* Once the script has stopped, however it did, the strings it made are all
\* back in the pool, those excepted that an instruction lost a reference to.
StopReleasesAll ==
    state = "END" => used = {c \in Cells : lost[c] > 0}
=============================================================================
