---------------------------- MODULE AdrenoFrames ----------------------------
(* The call protocol of AdrenoVM_Run (vm/vm.c): the value stack, which grows *)
(* downwards from StackSize, and the registers of the context that locate    *)
(* the running function's frame in it.  A frame is, from high to low         *)
(* addresses, its caller's AdrenoReturnInfo, its locals and its operands.    *)
(*                                                                           *)
(* What the values are is left to AdrenoVM; here a slot holds a return info  *)
(* or Plain, any other value.  InstructionPointer counts instructions.       *)
(* Scripts keep rules that nothing in the code checks: a function runs ENTER *)
(* as its first instruction and nowhere else, and an instruction pops only   *)
(* operands its own function pushed.  A third is the constant                *)
(* ArgumentsInRange.                                                         *)
EXTENDS Integers, Sequences

CONSTANTS Functions,
          LocalsCount,    \* [Functions -> Nat]
          BytecodeSize,   \* [Functions -> Nat], in instructions
          StackSize,
          CanExpand,      \* ADRENOSTACK_CAN_EXPAND
          Reuse,          \* the host runs a context again after it ended
          ArgumentsInRange, \* rule: LDARG's index counts the caller's operands
          Plain

NoLocals == -1            \* ctx->Locals == NULL

ReturnInfo == [fn : Functions, ip : Nat, argp : Nat, locals : Int]

ASSUME FramesAssumption ==
    /\ LocalsCount \in [Functions -> Nat]
    /\ BytecodeSize \in [Functions -> Nat \ {0}]
    /\ StackSize \in Nat \ {0}
    /\ CanExpand \in BOOLEAN
    /\ Reuse \in BOOLEAN
    /\ ArgumentsInRange \in BOOLEAN
    /\ Plain \notin ReturnInfo

VARIABLES stack,    \* ctx->Stack.Stack, what pops leave behind included
          sp,       \* ctx->Stack.StackPointer
          fn,       \* ctx->CurrentFunction
          ip,       \* ctx->InstructionPointer
          argp,     \* ctx->ArgumentsPointer
          locals,   \* ctx->Locals
          state,    \* vm->State; "WILD" once the behaviour is undefined
          error,    \* vm->Error
          callers   \* history: the calls not returned from, the outermost
                    \* first: the return info pushed and the slot it went to

vars == <<stack, sp, fn, ip, argp, locals, state, error, callers>>

Slots == 0..(StackSize - 1)

PendingCall == [at : Slots, info : ReturnInfo]

TypeOK ==
    /\ stack \in [Slots -> ReturnInfo \cup {Plain}]
    /\ sp \in 0..StackSize
    /\ fn \in Functions
    /\ ip \in Nat
    /\ argp \in Nat
    /\ locals \in Int
    /\ state \in {"IDLE", "RUN", "END", "WILD"}
    /\ error \in {"NONE", "SCRIPT_END", "STACK_CORRUPTION", "STACK_OVERFLOW",
                  "STACK_UNDERFLOW", "OTHER"}
    /\ callers \in Seq(PendingCall)
-----------------------------------------------------------------------------
\* The slot above the frame of the i-th pending call, of the running function.
TopOf(i) == IF i = 1 THEN StackSize ELSE callers[i - 1].at
Top == TopOf(Len(callers) + 1)

\* How many operands the running function has on the stack.
Depth == Top - LocalsCount[fn] - sp

LocalSlots == {k \in Slots : locals <= k /\ k < locals + LocalsCount[fn]}

\* A return info in a local was left there by a call that ended long ago: the
\* object it points at was freed by AdrenoStack_Clear.
Stale(k) == stack[k] # Plain

\* The epilogue once State is ST_END: AdrenoStack_Clear pops every slot.
Stop(s, e) ==
    /\ state' = s
    /\ error' = e
    /\ sp' = StackSize
    /\ callers' = <<>>

\* The epilogue otherwise: running past the last instruction ends the script.
Continue(newSp, newCallers, newFn, newIp) ==
    /\ ip' = newIp
    /\ IF newIp >= BytecodeSize[newFn]
       THEN Stop("END", "NONE")
       ELSE sp' = newSp /\ callers' = newCallers /\ UNCHANGED <<state, error>>

Running == state = "RUN" /\ ip > 0
-----------------------------------------------------------------------------
\* Faults: each operator is one of the definitions below with a plausible
\* mistake; some property must notice when it takes that definition's place.
EnterAt(first, fits) ==
    /\ state = "RUN"
    /\ ip = 0
    /\ fits
    /\ argp' = first
    /\ locals' = IF LocalsCount[fn] = 0 THEN NoLocals ELSE sp - LocalsCount[fn]
    /\ Continue(sp - LocalsCount[fn], callers, fn, 1)
    /\ UNCHANGED <<stack, fn>>

EnterUnchecked == EnterAt(sp + 1, TRUE)       \* Take does not compare count

EnterOnReturnInfo == EnterAt(sp, sp >= LocalsCount[fn])  \* argp without + 1

StoreLocalPastEnd ==      \* index > LocalsCount in place of >=
    /\ Running
    /\ Depth >= 1
    /\ \E k \in LocalSlots \cup (Slots \cap {locals + LocalsCount[fn]}) :
          stack' = [stack EXCEPT ![k] = stack[sp]]
    /\ Continue(sp + 1, callers, fn, ip + 1)
    /\ UNCHANGED <<fn, argp, locals>>

RetInto(top, oldLocals, next) ==
    /\ Running
    /\ Depth = 1
    /\ callers # <<>>
    /\ fn' = stack[Top].fn
    /\ argp' = stack[Top].argp
    /\ locals' = oldLocals
    /\ stack' = top
    /\ Continue(Top, SubSeq(callers, 1, Len(callers) - 1), stack[Top].fn, next)

RetKeepsLocals ==         \* ctx->Locals is not restored
    RetInto([stack EXCEPT ![Top] = stack[sp]], locals, stack[Top].ip + 1)

RetLosesResult ==         \* the result is not pushed over the return info
    RetInto(stack, stack[Top].locals, stack[Top].ip + 1)

ReturningAmongLocals == sp + LocalsCount[fn]   \* one local too few is popped
-----------------------------------------------------------------------------
Init ==
    /\ stack = [k \in Slots |-> Plain]
    /\ sp = StackSize
    /\ fn \in Functions
    /\ ip = 0
    /\ argp \in 0..StackSize      \* AdrenoContext_Initialize does not set it
    /\ locals = NoLocals
    /\ state = "IDLE"
    /\ error = "NONE"
    /\ callers = <<>>

\* The host: AdrenoContext_SetFunctionByName, then AdrenoVM_Run.
Start(f) ==
    /\ state = "IDLE" \/ (Reuse /\ state = "END")
    /\ fn' = f
    /\ ip' = 0
    /\ state' = "RUN"
    /\ error' = "NONE"
    /\ UNCHANGED <<stack, sp, argp, locals, callers>>

\* OP_ENTER: the locals are the slots AdrenoStack_Take makes room for, with
\* whatever they hold.
Enter ==
    /\ state = "RUN"
    /\ ip = 0
    /\ sp >= LocalsCount[fn]
    /\ argp' = sp + 1
    /\ locals' = IF LocalsCount[fn] = 0 THEN NoLocals ELSE sp - LocalsCount[fn]
    /\ Continue(sp - LocalsCount[fn], callers, fn, 1)
    /\ UNCHANGED <<stack, fn>>

\* An instruction that takes pops operands and leaves pushes results, and goes
\* on at t: arithmetic, loads, POP, arrays, jumps, branches and API calls.
Operate(pops, pushes, t) ==
    /\ Running
    /\ Depth >= pops
    /\ sp + pops >= pushes
    /\ LET new == sp + pops - pushes
       IN  /\ stack' = [k \in Slots |->
                          IF new <= k /\ k < sp + pops THEN Plain ELSE stack[k]]
           /\ Continue(new, callers, fn, t)
    /\ UNCHANGED <<fn, argp, locals>>

\* OP_LDLOC and OP_LDARG copy a slot, found through a register, to the top.
Load(k) ==
    /\ Running
    /\ sp > 0
    /\ stack' = [stack EXCEPT ![sp - 1] = stack[k]]
    /\ Continue(sp - 1, callers, fn, ip + 1)
    /\ UNCHANGED <<fn, argp, locals>>

LoadLocal == \E k \in LocalSlots : ~Stale(k) /\ Load(k)

\* As many slots from ArgumentsPointer on as the caller has operands.
Arguments ==
    LET n == Len(callers)
        c == callers[n]
        count == TopOf(n) - LocalsCount[c.info.fn] - c.at - 1
    IN  IF callers = <<>> THEN {} ELSE Slots \cap (argp..(argp + count - 1))

\* What AdrenoContext_GetArgument may find: the index is signed, and only the
\* size of the stack limits it.
Indexed == IF ArgumentsInRange THEN Arguments ELSE Slots

LoadArgument == \E k \in Indexed : ~Stale(k) /\ Load(k)

\* OP_LDARG copies a return info.  The copy owns it as well, and the second of
\* the two to be popped frees it again.
LoadReturnInfo ==
    /\ Running
    /\ sp > 0
    /\ \E k \in Indexed : Stale(k) /\ stack' = [stack EXCEPT ![sp - 1] = stack[k]]
    /\ sp' = sp - 1
    /\ state' = "WILD"
    /\ UNCHANGED <<fn, ip, argp, locals, error, callers>>

\* OP_STLOC releases what the local holds and pops into it.
StoreInto(k) ==
    /\ Running
    /\ Depth >= 1
    /\ ~Stale(k)
    /\ stack' = [stack EXCEPT ![k] = stack[sp]]
    /\ Continue(sp + 1, callers, fn, ip + 1)
    /\ UNCHANGED <<fn, argp, locals>>

StoreLocal == \E k \in LocalSlots : StoreInto(k)

\* OP_CALL of a script function: the return info takes the slot of the
\* function value just popped, and the callee starts at its ENTER.
Call(g) ==
    /\ Running
    /\ Depth >= 1
    /\ LET info == [fn |-> fn, ip |-> ip, argp |-> argp, locals |-> locals]
       IN  /\ stack' = [stack EXCEPT ![sp] = info]
           /\ callers' = Append(callers, [at |-> sp, info |-> info])
    /\ fn' = g
    /\ ip' = 0
    /\ UNCHANGED <<sp, argp, locals, state, error>>

\* OP_RET pops the result, as many slots as the function has locals, which it
\* releases, and then what should be the return info.
Returning == sp + 1 + LocalsCount[fn]
Released == {k \in Slots : sp < k /\ k < Returning}

Returns == Running /\ Depth >= 1 /\ \A k \in Released : ~Stale(k)

\* OP_RET to the caller; the result takes the slot of the return info.
Ret ==
    /\ Returns
    /\ Returning = Top /\ Top < StackSize
    /\ stack[Returning] # Plain
    /\ fn' = stack[Returning].fn
    /\ argp' = stack[Returning].argp
    /\ locals' = stack[Returning].locals
    /\ stack' = [stack EXCEPT ![Returning] = stack[sp]]
    /\ Continue(Returning, SubSeq(callers, 1, Len(callers) - 1),
                stack[Returning].fn, stack[Returning].ip + 1)

\* OP_RET of the function the host started: nothing is left to pop.
RetFromMain ==
    /\ Returns
    /\ Returning = StackSize
    /\ Stop("END", "SCRIPT_END")
    /\ UNCHANGED <<stack, fn, ip, argp, locals>>

\* OP_RET finds another value where the return info should be.
RetCorrupt ==
    /\ Returns
    /\ Returning < StackSize
    /\ stack[Returning] = Plain
    /\ Stop("END", "STACK_CORRUPTION")
    /\ UNCHANGED <<stack, fn, ip, argp, locals>>

\* OP_STLOC, OP_LDLOC or OP_RET releases, copies or returns through a stale
\* return info.
UseStale ==
    /\ Running
    /\ \E k \in LocalSlots : Stale(k)
    /\ Stop("WILD", error)
    /\ UNCHANGED <<stack, fn, ip, argp, locals>>

\* A push, or ENTER's Take, does not fit.  An expandable stack is enlarged at
\* its high end, and StackPointer, unsigned, wraps below zero.
Overflow ==
    /\ state = "RUN"
    /\ IF ip = 0 THEN sp < LocalsCount[fn] ELSE sp = 0
    /\ IF CanExpand THEN Stop("WILD", error) ELSE Stop("END", "STACK_OVERFLOW")
    /\ UNCHANGED <<stack, fn, ip, argp, locals>>

\* Any instruction that pops, with nothing on the stack at all.
Underflow ==
    /\ Running
    /\ sp = StackSize
    /\ Stop("END", "STACK_UNDERFLOW")
    /\ UNCHANGED <<stack, fn, ip, argp, locals>>

\* The other errors; OP_CALL of an unknown function ends without naming one.
Fail ==
    /\ Running
    /\ \E e \in {"OTHER", "NONE"} : Stop("END", e)
    /\ UNCHANGED <<stack, fn, ip, argp, locals>>

\* <<operands taken, results pushed>> of the instructions that go on at the
\* next one; MATHOP_DUAL is <<2, 1>>, OP_STELEM <<3, 0>>, an API call <<1, 1>>.
Effects == {<<0, 0>>, <<0, 1>>, <<1, 0>>, <<1, 1>>, <<2, 0>>, <<2, 1>>, <<3, 0>>}

Step == \E e \in Effects : Operate(e[1], e[2], ip + 1)

\* OP_JUMP, OP_BRTRUE and OP_BRFALSE.
Jump == \E pops \in {0, 1}, t \in 1..BytecodeSize[fn] : Operate(pops, 0, t)

Next ==
    \/ \E f \in Functions : Start(f) \/ Call(f)
    \/ Enter
    \/ Step
    \/ Jump
    \/ LoadLocal
    \/ LoadArgument
    \/ LoadReturnInfo
    \/ StoreLocal
    \/ Ret
    \/ RetFromMain
    \/ RetCorrupt
    \/ UseStale
    \/ Overflow
    \/ Underflow
    \/ Fail

Spec == Init /\ [][Next]_vars
-----------------------------------------------------------------------------
\* The registers describe the frame of the running function from its ENTER
\* on; before it nothing lies above its return info.
RegistersDescribeFrame ==
    state = "RUN" =>
        IF ip = 0
        THEN sp = Top
        ELSE /\ argp = Top + 1
             /\ locals = (IF LocalsCount[fn] = 0 THEN NoLocals
                          ELSE Top - LocalsCount[fn])
             /\ Depth >= 0

\* Every pending call's return info is intact in its slot, inside the frame
\* its own contents describe and below the calls before it, whatever the
\* callees did since (CALL, ENTER).
FramesOnStack ==
    \A i \in 1..Len(callers) :
        LET c == callers[i]
            f == c.info.fn
        IN  /\ stack[c.at] = c.info
            /\ c.at < TopOf(i) - LocalsCount[f]
            /\ \A j \in 1..(i - 1) : c.at < callers[j].at
            /\ c.info.ip > 0
            /\ c.info.argp = TopOf(i) + 1
            /\ c.info.locals = (IF LocalsCount[f] = 0 THEN NoLocals
                                ELSE TopOf(i) - LocalsCount[f])

CallerOperandsArePlain ==
    \A i \in 1..Len(callers) : \A k \in Slots :
        callers[i].at < k /\ k < TopOf(i) - LocalsCount[callers[i].info.fn]
            => stack[k] = Plain

OwnOperandsArePlain ==
    state = "RUN" \/ (state = "WILD" /\ ArgumentsInRange) => \A k \in Slots :
        sp <= k /\ k < Top - LocalsCount[fn] => stack[k] = Plain

\* No operand of any function on the stack is a return info: no result, and no
\* copy that LDLOC makes, nor LDARG of a caller's operand.
OperandsArePlain == CallerOperandsArePlain /\ OwnOperandsArePlain

\* In a context run once, the only return infos in the whole stack, the slots
\* below StackPointer included, are those of the calls still pending: RET
\* overwrites each one with the result.
ReturnInfosArePending ==
    ~Reuse /\ state \in {"IDLE", "RUN"} =>
        \A k \in Slots :
            stack[k] = Plain \/ \E i \in 1..Len(callers) : callers[i].at = k

\* AdrenoStack_Clear has run whenever the machine is not running.
StoppedIsEmpty == state \in {"IDLE", "END"} => sp = StackSize /\ callers = <<>>

\* An instruction that records an error is the last one.
RunningHasNoError == state = "RUN" => error = "NONE"

IInv ==
    /\ TypeOK
    /\ RegistersDescribeFrame
    /\ FramesOnStack
    /\ CallerOperandsArePlain
    /\ OwnOperandsArePlain
    /\ ReturnInfosArePending
    /\ StoppedIsEmpty
    /\ RunningHasNoError

\* RET of a called function puts its caller back exactly where CALL left it:
\* function, next instruction, arguments, locals and operands, with the result
\* in place of the function value.
ReturnRestoresCaller ==
    [][Len(callers') < Len(callers) /\ state' = "RUN" =>
          LET c == callers[Len(callers)]
          IN  /\ callers' = SubSeq(callers, 1, Len(callers) - 1)
              /\ fn' = c.info.fn
              /\ ip' = c.info.ip + 1
              /\ argp' = c.info.argp
              /\ locals' = c.info.locals
              /\ sp' = c.at
              /\ \A k \in Slots : k > c.at => stack'[k] = stack[k]]_vars

\* A function that returns to its caller, or ends the script, leaves no operand
\* behind; ERR_STACK_CORRUPTION means that it left some.
ReturnsAreBalanced ==
    [][state = "RUN" =>
          /\ Len(callers') < Len(callers) /\ state' = "RUN" => Depth = 1
          /\ error' = "SCRIPT_END" => Depth = 1 /\ callers = <<>>
          /\ error' = "STACK_CORRUPTION" => Depth > 1]_vars

\* On a stack of fixed size, in a context that is run once, no return info is
\* ever used that CALL did not push for the running function, and none is
\* copied as an argument.
NeverWild == ~CanExpand /\ ~Reuse /\ ArgumentsInRange => state # "WILD"

\* "AdrenoVM stack is expandable" (src/adreno/CMakeLists.txt, 10): a context
\* run once, whose stack may expand, does nothing undefined either.
StackExpands == CanExpand /\ ~Reuse /\ ArgumentsInRange => state # "WILD"
=============================================================================
