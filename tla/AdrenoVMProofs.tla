--------------------------- MODULE AdrenoVMProofs ---------------------------
(* The call protocol is right for every set of functions, every number of    *)
(* locals and every stack size (AdrenoFrames); every string counter of       *)
(* AdrenoVM is exact, for all scripts that keep the two rules, all stack      *)
(* sizes and any number of strings; and what the operators of                *)
(* AdrenoOperators compute.                                                  *)
EXTENDS AdrenoVM, AdrenoOperators, SequenceTheorems, FiniteSetTheorems, TLAPS

LEMMA FrontFacts ==
    ASSUME NEW S, NEW s \in Seq(S), Len(s) > 0
    PROVE  LET f == SubSeq(s, 1, Len(s) - 1)
           IN  /\ f \in Seq(S)
               /\ Len(f) = Len(s) - 1
               /\ \A i \in 1..(Len(s) - 1) : f[i] = s[i]
<1> DEFINE f == SubSeq(s, 1, Len(s) - 1)
<1>1. Len(s) - 1 \in Nat /\ Len(s) \in Nat
  OBVIOUS
<1>2. \A i \in 1..(Len(s) - 1) : s[i] \in S
  BY <1>1
<1>3. /\ f \in Seq(S)
      /\ Len(f) = IF 1 <= Len(s) - 1 THEN (Len(s) - 1) - 1 + 1 ELSE 0
      /\ \A i \in 1..((Len(s) - 1) - 1 + 1) : f[i] = s[1 + i - 1]
  BY <1>1, <1>2, SubSeqProperties
<1> HIDE DEF f
<1>4. Len(f) = Len(s) - 1
  <2> DEFINE n == Len(s)
  <2>1. n \in Nat \ {0} /\ Len(f) = IF 1 <= n - 1 THEN (n - 1) - 1 + 1 ELSE 0
    BY <1>1, <1>3
  <2> HIDE DEF n
  <2>2. Len(f) = n - 1
    BY <2>1
  <2> QED BY <2>2 DEF n
<1>5. \A i \in 1..(Len(s) - 1) : f[i] = s[i]
  <2> SUFFICES ASSUME NEW i \in 1..(Len(s) - 1) PROVE f[i] = s[i]
    OBVIOUS
  <2>1. i \in 1..((Len(s) - 1) - 1 + 1) /\ 1 + i - 1 = i
    BY <1>1
  <2> QED BY <2>1, <1>3
<1> QED BY <1>3, <1>4, <1>5 DEF f

\* Where the running function's frame lies: below every pending call.
LEMMA Geometry ==
    ASSUME TypeOK, RegistersDescribeFrame, FramesOnStack, state = "RUN"
    PROVE  /\ Len(callers) \in Nat
           /\ Top \in 0..StackSize
           /\ sp \in 0..Top
           /\ \A i \in 1..Len(callers) : Top <= callers[i].at
           /\ LocalsCount[fn] \in Nat
           /\ callers # <<>> => Top = callers[Len(callers)].at
           /\ callers = <<>> => Top = StackSize
<1>1. Len(callers) \in Nat /\ LocalsCount[fn] \in Nat /\ StackSize \in Nat \ {0}
  BY FramesAssumption DEF TypeOK
<1>2. \A i \in 1..Len(callers) : callers[i].at \in Slots
  <2> SUFFICES ASSUME NEW i \in 1..Len(callers) PROVE callers[i].at \in Slots
    OBVIOUS
  <2>1. callers[i] \in PendingCall
    BY ElementOfSeq DEF TypeOK
  <2> QED BY <2>1 DEF PendingCall
<1>3. callers = <<>> <=> Len(callers) = 0
  BY DEF TypeOK
<1>4. callers # <<>> => Top = callers[Len(callers)].at
  BY <1>1, <1>3 DEF Top, TopOf
<1>5. callers = <<>> => Top = StackSize
  BY <1>3 DEF Top, TopOf
<1>6. Top \in 0..StackSize
  <2>1. CASE callers = <<>>
    BY <2>1, <1>1, <1>5
  <2>2. CASE callers # <<>>
    <3>1. Len(callers) \in 1..Len(callers)
      BY <2>2, <1>1, <1>3
    <3> QED BY <2>2, <3>1, <1>1, <1>2, <1>4 DEF Slots
  <2> QED BY <2>1, <2>2
<1>7. sp \in 0..Top
  <2>1. sp \in Nat
    BY <1>1 DEF TypeOK
  <2>2. CASE ip = 0
    BY <2>1, <2>2, <1>6 DEF RegistersDescribeFrame
  <2>3. CASE ip # 0
    BY <2>1, <2>3, <1>1, <1>6 DEF RegistersDescribeFrame, Depth
  <2> QED BY <2>2, <2>3
<1>8. \A i \in 1..Len(callers) : Top <= callers[i].at
  <2> SUFFICES ASSUME NEW i \in 1..Len(callers) PROVE Top <= callers[i].at
    OBVIOUS
  <2>1. callers # <<>> /\ Len(callers) \in 1..Len(callers)
    BY <1>1, <1>3
  <2>2. CASE i = Len(callers)
    BY <2>1, <2>2, <1>2, <1>4 DEF Slots
  <2>3. CASE i # Len(callers)
    <3>1. i \in 1..(Len(callers) - 1)
      BY <2>3, <1>1
    <3>2. callers[Len(callers)].at < callers[i].at
      BY <2>1, <3>1 DEF FramesOnStack
    <3> QED BY <2>1, <3>2, <1>2, <1>4 DEF Slots
  <2> QED BY <2>2, <2>3
<1> QED BY <1>1, <1>4, <1>5, <1>6, <1>7, <1>8

\* Stopping leaves nothing to say of the stack.
LEMMA StopIInv ==
    ASSUME NEW s \in {"END", "WILD"}, NEW e, Stop(s, e),
           e \in {"NONE", "SCRIPT_END", "STACK_CORRUPTION", "STACK_OVERFLOW",
                  "STACK_UNDERFLOW", "OTHER"},
           stack' \in [Slots -> ReturnInfo \cup {Plain}], fn' \in Functions,
           ip' \in Nat, argp' \in Nat, locals' \in Int
    PROVE  IInv'
<1>1. /\ state' = s /\ state' # "RUN" /\ state' # "IDLE"
      /\ callers' = <<>> /\ Len(callers') = 0 /\ sp' = StackSize
  BY DEF Stop
<1>2. callers' \in Seq(PendingCall)
  BY <1>1
<1>3. TypeOK'
  BY <1>1, <1>2, FramesAssumption DEF Stop, TypeOK
<1>4. FramesOnStack' /\ CallerOperandsArePlain'
  BY <1>1 DEF FramesOnStack, CallerOperandsArePlain
<1>5. OwnOperandsArePlain'
  <2>1. \A k \in Slots : ~ (sp' <= k)
    BY <1>1, FramesAssumption DEF Slots
  <2> QED BY <2>1 DEF OwnOperandsArePlain
<1> QED BY <1>1, <1>3, <1>4, <1>5 DEF IInv, RegistersDescribeFrame,
           ReturnInfosArePending, StoppedIsEmpty, RunningHasNoError

\* What is on the stack of the pending calls does not change while a function
\* writes to its own frame only.
LEMMA FrameRule ==
    ASSUME IInv, state = "RUN", callers' = callers,
           \A k \in Slots : k >= Top => stack'[k] = stack[k]
    PROVE  FramesOnStack' /\ CallerOperandsArePlain' /\ Top' = Top
<1> USE DEF IInv
<1>1. \A i : TopOf(i)' = TopOf(i)
  BY DEF TopOf
<1>2. Top' = Top
  BY DEF Top, TopOf
<1>3. \A i \in 1..Len(callers) : callers[i].at \in Slots /\ callers[i].at >= Top
  <2> SUFFICES ASSUME NEW i \in 1..Len(callers)
               PROVE  callers[i].at \in Slots /\ callers[i].at >= Top
    OBVIOUS
  <2>1. callers[i].at \in Slots
    <3>1. callers[i] \in PendingCall
      BY ElementOfSeq DEF TypeOK
    <3> QED BY <3>1 DEF PendingCall
  <2>2. Top <= callers[i].at /\ Top \in Int
    BY Geometry
  <2> QED BY <2>1, <2>2 DEF Slots
<1>4. FramesOnStack'
  BY <1>1, <1>3 DEF FramesOnStack
<1>5. CallerOperandsArePlain'
  <2> SUFFICES ASSUME NEW i \in 1..Len(callers), NEW k \in Slots,
                      callers[i].at < k,
                      k < TopOf(i) - LocalsCount[callers[i].info.fn]
               PROVE  stack'[k] = Plain
    BY <1>1 DEF CallerOperandsArePlain
  <2>1. k >= Top
    <3>1. Top \in Int
      BY Geometry
    <3> QED BY <3>1, <1>3 DEF Slots
  <2> QED BY <2>1 DEF CallerOperandsArePlain
<1> QED BY <1>2, <1>4, <1>5

\* An instruction that leaves only plain operands in its own frame, and the
\* rest of the stack alone, keeps the invariant.
LEMMA WithinFrame ==
    ASSUME IInv, Running, NEW new \in Nat, NEW t \in Nat \ {0},
           new <= Top - LocalsCount[fn],
           Continue(new, callers, fn, t), UNCHANGED <<fn, argp, locals>>,
           stack' \in [Slots -> ReturnInfo \cup {Plain}],
           \A k \in Slots : k >= Top => stack'[k] = stack[k],
           \A k \in Slots : new <= k /\ k < Top - LocalsCount[fn]
                               => stack'[k] = Plain,
           \A k \in Slots : stack'[k] \in {stack[k], Plain}
    PROVE  IInv'
<1> USE DEF IInv
<1>1. CASE Stop("END", "NONE")
  <2>1. ip' \in Nat
    BY DEF Continue
  <2>2. fn' \in Functions /\ argp' \in Nat /\ locals' \in Int
    BY DEF TypeOK
  <2> QED BY <1>1, <2>1, <2>2, StopIInv
<1>2. CASE ~Stop("END", "NONE")
  <2>1. /\ ip' = t /\ sp' = new /\ callers' = callers
        /\ state' = state /\ error' = error /\ state = "RUN"
    BY <1>2 DEF Continue, Running
  <2>2. FramesOnStack' /\ CallerOperandsArePlain' /\ Top' = Top
    BY <2>1, FrameRule
  <2>3. /\ Top \in 0..StackSize /\ LocalsCount[fn] \in Nat
        /\ StackSize \in Nat /\ ip > 0
    BY <2>1, Geometry, FramesAssumption DEF Running
  <2>4. TypeOK'
    <3>1. sp' \in 0..StackSize
      BY <2>1, <2>3
    <3> QED BY <2>1, <3>1 DEF TypeOK
  <2>5. RegistersDescribeFrame'
    <3>1. /\ argp = Top + 1
          /\ locals = (IF LocalsCount[fn] = 0 THEN NoLocals
                       ELSE Top - LocalsCount[fn])
      BY <2>1, <2>3 DEF RegistersDescribeFrame
    <3>2. Depth' >= 0
      BY <2>1, <2>2, <2>3 DEF Depth
    <3> QED BY <2>1, <2>2, <3>1, <3>2 DEF RegistersDescribeFrame, NoLocals
  <2>6. OwnOperandsArePlain'
    BY <2>1, <2>2 DEF OwnOperandsArePlain
  <2>7. ReturnInfosArePending'
    BY <2>1 DEF ReturnInfosArePending
  <2>8. StoppedIsEmpty' /\ RunningHasNoError'
    BY <2>1 DEF StoppedIsEmpty, RunningHasNoError
  <2> QED BY <2>2, <2>4, <2>5, <2>6, <2>7, <2>8
<1> QED BY <1>1, <1>2

LEMMA OperateIInv ==
    ASSUME NEW pops \in Nat, NEW pushes \in Nat, NEW t \in Nat \ {0}
    PROVE  IInv /\ Operate(pops, pushes, t) => IInv'
<1> SUFFICES ASSUME IInv, Operate(pops, pushes, t) PROVE IInv'
  OBVIOUS
<1> USE DEF IInv
<1> DEFINE new == sp + pops - pushes
<1>1. /\ Running /\ state = "RUN" /\ Depth >= pops /\ sp + pops >= pushes
      /\ stack' = [k \in Slots |->
                      IF new <= k /\ k < sp + pops THEN Plain ELSE stack[k]]
      /\ Continue(new, callers, fn, t)
      /\ UNCHANGED <<fn, argp, locals>>
  BY DEF Operate, Running
<1>2. Top \in 0..StackSize /\ LocalsCount[fn] \in Nat /\ sp \in Nat
      /\ StackSize \in Nat
  BY <1>1, Geometry, FramesAssumption
<1>3. new \in Nat /\ sp + pops <= Top - LocalsCount[fn] /\ sp + pops \in Nat
      /\ new <= Top - LocalsCount[fn]
  BY <1>1, <1>2 DEF Depth
<1>4. stack' \in [Slots -> ReturnInfo \cup {Plain}]
  BY <1>1 DEF TypeOK
<1>5. \A k \in Slots : k >= Top => stack'[k] = stack[k]
  BY <1>1, <1>2, <1>3 DEF Slots
<1>6. \A k \in Slots : new <= k /\ k < Top - LocalsCount[fn] => stack'[k] = Plain
  <2> SUFFICES ASSUME NEW k \in Slots, new <= k, k < Top - LocalsCount[fn]
               PROVE  stack'[k] = Plain
    OBVIOUS
  <2>1. CASE k < sp + pops
    BY <1>1, <2>1
  <2>2. CASE ~(k < sp + pops)
    <3>1. sp <= k /\ stack'[k] = stack[k]
      BY <1>1, <1>2, <1>3, <2>2 DEF Slots
    <3> QED BY <3>1, <1>1 DEF OwnOperandsArePlain
  <2> QED BY <2>1, <2>2
<1>7. \A k \in Slots : stack'[k] \in {stack[k], Plain}
  BY <1>1
<1> QED BY <1>1, <1>3, <1>4, <1>5, <1>6, <1>7, WithinFrame

\* Both copying instructions write the first free slot of the own frame.
LEMMA LoadIInv ==
    ASSUME NEW k \in Slots, stack[k] = Plain PROVE IInv /\ Load(k) => IInv'
<1> SUFFICES ASSUME IInv, Load(k) PROVE IInv'
  OBVIOUS
<1> USE DEF IInv
<1>1. /\ Running /\ state = "RUN" /\ sp > 0 /\ stack[k] = Plain
      /\ stack' = [stack EXCEPT ![sp - 1] = Plain]
      /\ Continue(sp - 1, callers, fn, ip + 1)
      /\ UNCHANGED <<fn, argp, locals>> /\ ip + 1 \in Nat \ {0}
  BY DEF Load, Running, TypeOK
<1>2. Top \in 0..StackSize /\ LocalsCount[fn] \in Nat /\ sp \in 0..Top
      /\ StackSize \in Nat
  BY <1>1, Geometry, FramesAssumption
<1>3. sp - 1 \in Slots /\ sp - 1 \in Nat /\ sp - 1 < Top
      /\ sp <= Top - LocalsCount[fn] /\ sp - 1 <= Top - LocalsCount[fn]
  BY <1>1, <1>2 DEF Slots, RegistersDescribeFrame, Depth, Running
<1>4. stack' \in [Slots -> ReturnInfo \cup {Plain}]
  BY <1>1 DEF TypeOK
<1>5. \A j \in Slots : j >= Top => stack'[j] = stack[j]
  BY <1>1, <1>2, <1>3 DEF Slots, TypeOK
<1>6. \A j \in Slots : sp - 1 <= j /\ j < Top - LocalsCount[fn]
                          => stack'[j] = Plain
  <2> SUFFICES ASSUME NEW j \in Slots, sp - 1 <= j, j < Top - LocalsCount[fn]
               PROVE  stack'[j] = Plain
    OBVIOUS
  <2>1. CASE j = sp - 1
    BY <1>1, <1>3, <2>1 DEF TypeOK
  <2>2. CASE j # sp - 1
    <3>1. sp <= j /\ stack'[j] = stack[j]
      BY <1>1, <1>2, <2>2 DEF Slots, TypeOK
    <3> QED BY <3>1, <1>1 DEF OwnOperandsArePlain
  <2> QED BY <2>1, <2>2
<1>7. \A j \in Slots : stack'[j] \in {stack[j], Plain}
  BY <1>1 DEF TypeOK
<1> QED BY <1>1, <1>3, <1>4, <1>5, <1>6, <1>7, WithinFrame

LEMMA StoreLocalIInv == IInv /\ StoreLocal => IInv'
<1> SUFFICES ASSUME IInv, StoreLocal PROVE IInv'
  OBVIOUS
<1> USE DEF IInv
<1>1. PICK k \in LocalSlots : stack' = [stack EXCEPT ![k] = stack[sp]]
  BY DEF StoreLocal, StoreInto
<1>2. /\ Running /\ state = "RUN" /\ Depth >= 1 /\ ip > 0
      /\ Continue(sp + 1, callers, fn, ip + 1)
      /\ UNCHANGED <<fn, argp, locals>> /\ ip + 1 \in Nat \ {0}
  BY DEF StoreLocal, StoreInto, Running, TypeOK
<1>3. Top \in 0..StackSize /\ LocalsCount[fn] \in Nat /\ sp \in 0..Top
      /\ StackSize \in Nat
  BY <1>2, Geometry, FramesAssumption
<1>4. /\ sp \in Slots /\ sp + 1 \in Nat
      /\ sp < Top - LocalsCount[fn] /\ sp + 1 <= Top - LocalsCount[fn]
  BY <1>2, <1>3 DEF Slots, Depth
<1>5. stack[sp] = Plain
  BY <1>2, <1>3, <1>4 DEF OwnOperandsArePlain
<1>6. k \in Slots /\ Top - LocalsCount[fn] <= k /\ k < Top
  <2>1. k \in Slots /\ locals <= k /\ k < locals + LocalsCount[fn]
    BY DEF LocalSlots
  <2>2. LocalsCount[fn] # 0
    BY <2>1, <1>3 DEF TypeOK, Slots
  <2>3. locals = Top - LocalsCount[fn]
    BY <2>2, <1>2 DEF RegistersDescribeFrame
  <2> QED BY <2>1, <2>3, <1>3 DEF Slots
<1>7. stack' \in [Slots -> ReturnInfo \cup {Plain}]
  BY <1>1, <1>5 DEF TypeOK
<1>8. \A j \in Slots : j >= Top => stack'[j] = stack[j]
  BY <1>1, <1>3, <1>6 DEF Slots, TypeOK
<1>9. \A j \in Slots : sp + 1 <= j /\ j < Top - LocalsCount[fn]
                          => stack'[j] = Plain
  <2> SUFFICES ASSUME NEW j \in Slots, sp + 1 <= j, j < Top - LocalsCount[fn]
               PROVE  stack'[j] = Plain
    OBVIOUS
  <2>1. j # k /\ sp <= j
    BY <1>3, <1>6 DEF Slots
  <2>2. stack'[j] = stack[j]
    BY <2>1, <1>1 DEF TypeOK
  <2> QED BY <2>1, <2>2, <1>2 DEF OwnOperandsArePlain
<1>10. \A j \in Slots : stack'[j] \in {stack[j], Plain}
  BY <1>1, <1>5 DEF TypeOK
<1> QED BY <1>2, <1>4, <1>7, <1>8, <1>9, <1>10, WithinFrame

\* The types of a pending call, and the bounds of the frame that made it.
LEMMA PendingFacts ==
    ASSUME TypeOK, NEW i \in 1..Len(callers)
    PROVE  /\ callers[i] \in PendingCall
           /\ callers[i].at \in Slots
           /\ callers[i].info \in ReturnInfo
           /\ callers[i].info.fn \in Functions
           /\ LocalsCount[callers[i].info.fn] \in Nat
           /\ TopOf(i) \in 0..StackSize
<1>1. callers[i] \in PendingCall
  BY ElementOfSeq DEF TypeOK
<1>2. /\ callers[i].at \in Slots /\ callers[i].info \in ReturnInfo
  BY <1>1 DEF PendingCall
<1>3. callers[i].info.fn \in Functions
  BY <1>2 DEF ReturnInfo
<1>4. TopOf(i) \in 0..StackSize
  <2>1. CASE i = 1
    BY <2>1, FramesAssumption DEF TopOf
  <2>2. CASE i # 1
    <3>1. i - 1 \in 1..Len(callers) /\ TopOf(i) = callers[i - 1].at
      BY <2>2 DEF TopOf, TypeOK
    <3>2. callers[i - 1] \in PendingCall
      BY <3>1, ElementOfSeq DEF TypeOK
    <3> QED BY <3>1, <3>2, FramesAssumption DEF PendingCall, Slots
  <2> QED BY <2>1, <2>2
<1> QED BY <1>1, <1>2, <1>3, <1>4, FramesAssumption

LEMMA InitIInv == Init => IInv
<1> SUFFICES ASSUME Init PROVE IInv
  OBVIOUS
<1>1. callers = <<>> /\ Len(callers) = 0 /\ state = "IDLE" /\ callers \in Seq(PendingCall)
  BY DEF Init
<1>2. TypeOK
  BY <1>1, FramesAssumption DEF Init, TypeOK, NoLocals
<1>3. FramesOnStack /\ CallerOperandsArePlain
  BY <1>1 DEF FramesOnStack, CallerOperandsArePlain
<1>4. ReturnInfosArePending
  BY DEF Init, ReturnInfosArePending
<1>5. /\ RegistersDescribeFrame /\ OwnOperandsArePlain /\ StoppedIsEmpty
      /\ RunningHasNoError
  BY <1>1 DEF Init, RegistersDescribeFrame, OwnOperandsArePlain, StoppedIsEmpty,
              RunningHasNoError
<1> QED BY <1>2, <1>3, <1>4, <1>5 DEF IInv

LEMMA StartIInv == ASSUME NEW f \in Functions PROVE IInv /\ Start(f) => IInv'
<1> SUFFICES ASSUME IInv, Start(f) PROVE IInv'
  OBVIOUS
<1> USE DEF IInv
<1>1. /\ callers = <<>> /\ callers' = <<>> /\ Len(callers) = 0 /\ Len(callers') = 0
      /\ sp = StackSize /\ sp' = sp /\ stack' = stack
      /\ state' = "RUN" /\ ip' = 0 /\ fn' = f /\ error' = "NONE"
      /\ argp' = argp /\ locals' = locals
  BY DEF Start, StoppedIsEmpty
<1>2. Top' = StackSize /\ StackSize \in Nat /\ LocalsCount[f] \in Nat
  BY <1>1, FramesAssumption DEF Top, TopOf
<1>3. TypeOK'
  BY <1>1, FramesAssumption DEF TypeOK
<1>4. RegistersDescribeFrame'
  BY <1>1, <1>2 DEF RegistersDescribeFrame
<1>5. FramesOnStack' /\ CallerOperandsArePlain'
  BY <1>1 DEF FramesOnStack, CallerOperandsArePlain
<1>6. OwnOperandsArePlain'
  BY <1>1, <1>2 DEF OwnOperandsArePlain, Slots
<1>7. ReturnInfosArePending'
  BY <1>1 DEF ReturnInfosArePending, Start
<1>8. StoppedIsEmpty' /\ RunningHasNoError'
  BY <1>1 DEF StoppedIsEmpty, RunningHasNoError
<1> QED BY <1>3, <1>4, <1>5, <1>6, <1>7, <1>8

LEMMA EnterIInv == IInv /\ Enter => IInv'
<1> SUFFICES ASSUME IInv, Enter PROVE IInv'
  OBVIOUS
<1> USE DEF IInv
<1> DEFINE n == LocalsCount[fn]
<1>1. /\ state = "RUN" /\ ip = 0 /\ sp >= n /\ argp' = sp + 1
      /\ locals' = (IF n = 0 THEN NoLocals ELSE sp - n)
      /\ stack' = stack /\ fn' = fn
      /\ Continue(sp - n, callers, fn, 1)
  BY DEF Enter
<1>2. /\ n \in Nat /\ sp = Top /\ Top \in 0..StackSize /\ StackSize \in Nat
      /\ sp - n \in 0..StackSize
  <2>1. n \in Nat /\ sp = Top /\ Top \in 0..StackSize /\ StackSize \in Nat
    BY <1>1, Geometry, FramesAssumption DEF RegistersDescribeFrame
  <2> QED BY <2>1, <1>1
<1>3. argp' \in Nat /\ locals' \in Int
  <2>1. argp' \in Nat
    BY <1>1, <1>2
  <2>2. sp - n \in Int
    BY <1>2
  <2> QED BY <1>1, <2>1, <2>2 DEF NoLocals
<1>4. CASE Stop("END", "NONE")
  <2>1. fn' \in Functions /\ ip' \in Nat
        /\ stack' \in [Slots -> ReturnInfo \cup {Plain}]
    BY <1>1 DEF Continue, TypeOK
  <2> QED BY <1>3, <1>4, <2>1, StopIInv
<1>5. CASE ~Stop("END", "NONE")
  <2>1. /\ ip' = 1 /\ sp' = sp - n /\ callers' = callers
        /\ state' = state /\ error' = error
    BY <1>1, <1>5 DEF Continue
  <2>2. FramesOnStack' /\ CallerOperandsArePlain' /\ Top' = Top
    BY <1>1, <2>1, FrameRule
  <2>3. TypeOK'
    BY <1>1, <1>2, <1>3, <2>1 DEF TypeOK
  <2>4. Depth' = 0
    BY <1>1, <1>2, <2>1, <2>2 DEF Depth
  <2>5. RegistersDescribeFrame'
    BY <1>1, <1>2, <2>1, <2>2, <2>4 DEF RegistersDescribeFrame
  <2>6. OwnOperandsArePlain'
    <3>1. Top' - LocalsCount[fn]' = sp'
      BY <1>1, <1>2, <2>1, <2>2
    <3> QED BY <3>1, <1>2, <2>1 DEF OwnOperandsArePlain, Slots
  <2>7. ReturnInfosArePending' /\ StoppedIsEmpty' /\ RunningHasNoError'
    BY <1>1, <2>1 DEF ReturnInfosArePending, StoppedIsEmpty, RunningHasNoError
  <2> QED BY <2>2, <2>3, <2>5, <2>6, <2>7
<1> QED BY <1>4, <1>5

LEMMA CallIInv == ASSUME NEW g \in Functions PROVE IInv /\ Call(g) => IInv'
<1> SUFFICES ASSUME IInv, Call(g) PROVE IInv'
  OBVIOUS
<1> USE DEF IInv
<1> DEFINE n == Len(callers)
           info == [fn |-> fn, ip |-> ip, argp |-> argp, locals |-> locals]
           new == [at |-> sp, info |-> info]
<1>1. /\ state = "RUN" /\ ip > 0 /\ Depth >= 1 /\ fn' = g /\ ip' = 0
      /\ stack' = [stack EXCEPT ![sp] = info]
      /\ callers' = Append(callers, new)
      /\ UNCHANGED <<sp, argp, locals, state, error>>
  BY DEF Call, Running
<1>2. /\ n \in Nat /\ Top \in 0..StackSize /\ sp \in 0..Top
      /\ LocalsCount[fn] \in Nat /\ StackSize \in Nat
      /\ \A i \in 1..n : Top <= callers[i].at
      /\ callers # <<>> => Top = callers[n].at
      /\ callers = <<>> => Top = StackSize
  BY <1>1, Geometry, FramesAssumption
<1>3. sp \in Slots /\ sp < Top - LocalsCount[fn] /\ sp < Top
  BY <1>1, <1>2 DEF Depth, Slots
<1>4. info \in ReturnInfo /\ new \in PendingCall
  BY <1>1, <1>3 DEF ReturnInfo, PendingCall, TypeOK
<1>5. /\ callers' \in Seq(PendingCall) /\ Len(callers') = n + 1
      /\ \A i \in 1..n : callers'[i] = callers[i]
      /\ callers'[n + 1] = new
  BY <1>1, <1>4, AppendProperties DEF TypeOK
<1>6. /\ stack' \in [Slots -> ReturnInfo \cup {Plain}]
      /\ stack'[sp] = info
      /\ \A k \in Slots : k # sp => stack'[k] = stack[k]
  BY <1>1, <1>3, <1>4 DEF TypeOK
<1>7. TypeOK'
  BY <1>1, <1>5, <1>6 DEF TypeOK
<1>8. \A i \in 1..(n + 1) : TopOf(i)' = TopOf(i)
  BY <1>2, <1>5 DEF TopOf
<1>9. TopOf(n + 1) = Top
  BY DEF Top
<1>10. \A i \in 1..n : callers[i].at \in Slots /\ callers[i].at > sp
  BY <1>2, <1>3, PendingFacts DEF Slots
<1>11. FramesOnStack'
  <2> SUFFICES ASSUME NEW i \in 1..(n + 1)
      PROVE  LET c == callers'[i]
                 f == c.info.fn
             IN  /\ stack'[c.at] = c.info
                 /\ c.at < TopOf(i) - LocalsCount[f]
                 /\ \A j \in 1..(i - 1) : c.at < callers'[j].at
                 /\ c.info.ip > 0
                 /\ c.info.argp = TopOf(i) + 1
                 /\ c.info.locals = (IF LocalsCount[f] = 0 THEN NoLocals
                                     ELSE TopOf(i) - LocalsCount[f])
    BY <1>5, <1>8 DEF FramesOnStack
  <2>1. CASE i \in 1..n
    <3>1. callers'[i] = callers[i] /\ \A j \in 1..(i - 1) : callers'[j] = callers[j]
      BY <1>2, <1>5, <2>1
    <3>2. stack'[callers[i].at] = stack[callers[i].at]
      BY <1>6, <1>10, <1>3, <2>1 DEF Slots
    <3> QED BY <2>1, <3>1, <3>2 DEF FramesOnStack
  <2>2. CASE i = n + 1
    <3>1. callers'[i] = new /\ TopOf(i) = Top
      BY <1>5, <1>9, <2>2
    <3>2. \A j \in 1..(i - 1) : callers'[j] = callers[j] /\ sp < callers[j].at
      BY <1>2, <1>5, <1>10, <2>2 DEF Slots
    <3>3. /\ argp = Top + 1
          /\ locals = (IF LocalsCount[fn] = 0 THEN NoLocals
                       ELSE Top - LocalsCount[fn])
      BY <1>1, <1>2 DEF RegistersDescribeFrame
    <3> QED BY <1>1, <1>3, <1>6, <3>1, <3>2, <3>3
  <2> QED BY <1>2, <2>1, <2>2
<1>12. CallerOperandsArePlain'
  <2> SUFFICES ASSUME NEW i \in 1..(n + 1), NEW k \in Slots,
                      callers'[i].at < k,
                      k < TopOf(i) - LocalsCount[callers'[i].info.fn]
               PROVE  stack'[k] = Plain
    BY <1>5, <1>8 DEF CallerOperandsArePlain
  <2>1. CASE i \in 1..n
    <3>1. callers'[i] = callers[i] /\ k # sp
      BY <1>3, <1>5, <1>10, <2>1 DEF Slots
    <3> QED BY <1>6, <2>1, <3>1 DEF CallerOperandsArePlain
  <2>2. CASE i = n + 1
    <3>1. callers'[i].at = sp /\ callers'[i].info.fn = fn /\ TopOf(i) = Top
      BY <1>5, <1>9, <2>2
    <3>2. k # sp /\ sp <= k /\ k < Top - LocalsCount[fn]
      BY <3>1, <1>3 DEF Slots
    <3> QED BY <1>1, <1>6, <3>2 DEF OwnOperandsArePlain
  <2> QED BY <1>2, <2>1, <2>2
<1>13. Top' = sp
  <2>1. Top' = callers'[n + 1].at
    BY <1>2, <1>5 DEF Top, TopOf
  <2> QED BY <2>1, <1>5
<1>14. RegistersDescribeFrame'
  BY <1>1, <1>13 DEF RegistersDescribeFrame
<1>15. OwnOperandsArePlain'
  <2>1. LocalsCount[g] \in Nat
    BY FramesAssumption
  <2> QED BY <1>1, <1>3, <1>13, <2>1 DEF OwnOperandsArePlain, Slots
<1>16. ReturnInfosArePending'
  <2> SUFFICES ASSUME ~Reuse, NEW k \in Slots, stack'[k] # Plain
               PROVE  \E i \in 1..(n + 1) : callers'[i].at = k
    BY <1>5 DEF ReturnInfosArePending
  <2>1. CASE k = sp
    BY <1>2, <1>5, <2>1
  <2>2. CASE k # sp
    <3>1. PICK i \in 1..n : callers[i].at = k
      BY <1>1, <1>6, <2>2 DEF ReturnInfosArePending
    <3> QED BY <1>2, <1>5, <3>1
  <2> QED BY <2>1, <2>2
<1>17. StoppedIsEmpty' /\ RunningHasNoError'
  BY <1>1 DEF StoppedIsEmpty, RunningHasNoError
<1> QED BY <1>7, <1>11, <1>12, <1>14, <1>15, <1>16, <1>17

\* What OP_RET finds on the stack: the return info of the call that is ended,
\* below a frame that is intact.
LEMMA RetFacts ==
    ASSUME IInv, Ret
    PROVE  LET n == Len(callers)
               c == callers[n]
           IN  /\ n \in Nat /\ n \in 1..n
               /\ Returning = Top /\ Top = c.at /\ Top \in Slots
               /\ stack[Top] = c.info
               /\ sp \in Slots /\ stack[sp] = Plain
               /\ Depth = 1
               /\ c \in PendingCall /\ c.info \in ReturnInfo
<1> USE DEF IInv
<1>1. /\ state = "RUN" /\ Depth >= 1 /\ Returning = Top /\ Top < StackSize
  BY DEF Ret, Returns, Running
<1>2. /\ Len(callers) \in Nat /\ Top \in 0..StackSize /\ sp \in 0..Top
      /\ LocalsCount[fn] \in Nat /\ StackSize \in Nat
      /\ callers # <<>> => Top = callers[Len(callers)].at
      /\ callers = <<>> => Top = StackSize
  BY <1>1, Geometry, FramesAssumption
<1>3. callers # <<>> /\ Len(callers) \in 1..Len(callers)
  BY <1>1, <1>2 DEF TypeOK
<1>4. /\ callers[Len(callers)] \in PendingCall
      /\ callers[Len(callers)].info \in ReturnInfo
  BY <1>3, PendingFacts
<1>5. Top \in Slots /\ sp \in Slots /\ sp < Top - LocalsCount[fn]
  BY <1>1, <1>2 DEF Slots, Depth
<1>6. stack[sp] = Plain
  BY <1>1, <1>2, <1>5 DEF OwnOperandsArePlain, Slots
<1>7. stack[Top] = callers[Len(callers)].info
  BY <1>2, <1>3 DEF FramesOnStack
<1>8. Depth = 1
  BY <1>1, <1>2 DEF Depth, Returning
<1> QED BY <1>1, <1>2, <1>3, <1>4, <1>5, <1>6, <1>7, <1>8

LEMMA RetIInv == IInv /\ Ret => IInv'
<1> SUFFICES ASSUME IInv, Ret PROVE IInv'
  OBVIOUS
<1> USE DEF IInv
<1> DEFINE n == Len(callers)
           c == callers[n]
           front == SubSeq(callers, 1, n - 1)
<1>1. /\ n \in Nat /\ n \in 1..n
      /\ Returning = Top /\ Top = c.at /\ Top \in Slots
      /\ stack[Top] = c.info /\ sp \in Slots /\ stack[sp] = Plain
      /\ c \in PendingCall /\ c.info \in ReturnInfo
  BY RetFacts
<1>2. /\ state = "RUN" /\ fn' = c.info.fn /\ argp' = c.info.argp
      /\ locals' = c.info.locals
      /\ stack' = [stack EXCEPT ![Top] = Plain]
      /\ Continue(Top, front, c.info.fn, c.info.ip + 1)
  BY <1>1 DEF Ret, Returns, Running
<1>3. /\ fn' \in Functions /\ argp' \in Nat /\ locals' \in Int /\ c.info.ip \in Nat
      /\ stack' \in [Slots -> ReturnInfo \cup {Plain}]
  BY <1>1, <1>2 DEF ReturnInfo, TypeOK
<1>4. CASE Stop("END", "NONE")
  <2>1. ip' \in Nat
    BY <1>2, <1>3 DEF Continue
  <2> QED BY <1>3, <1>4, <2>1, StopIInv
<1>5. CASE ~Stop("END", "NONE")
  <2>1. /\ ip' = c.info.ip + 1 /\ sp' = Top /\ callers' = front
        /\ state' = "RUN" /\ error' = error
    BY <1>2, <1>5 DEF Continue
  <2>2. /\ front \in Seq(PendingCall) /\ Len(front) = n - 1
        /\ \A i \in 1..(n - 1) : front[i] = callers[i]
    <3>1. callers \in Seq(PendingCall) /\ Len(callers) > 0
      BY <1>1 DEF TypeOK
    <3> QED BY <3>1, FrontFacts
  <2> HIDE DEF front
  <2>3. \A i \in 1..n : TopOf(i)' = TopOf(i)
    BY <1>1, <2>1, <2>2 DEF TopOf
  <2>4. Top' = TopOf(n)
    <3>1. Len(callers') + 1 = n
      BY <1>1, <2>1, <2>2
    <3> QED BY <1>1, <2>3, <3>1 DEF Top
  <2>5. /\ TopOf(n) \in 0..StackSize /\ LocalsCount[c.info.fn] \in Nat
        /\ StackSize \in Nat
    BY <1>1, PendingFacts, FramesAssumption
  <2>6. /\ c.at < TopOf(n) - LocalsCount[c.info.fn]
        /\ \A j \in 1..(n - 1) : c.at < callers[j].at
        /\ c.info.ip > 0 /\ c.info.argp = TopOf(n) + 1
        /\ c.info.locals = (IF LocalsCount[c.info.fn] = 0 THEN NoLocals
                            ELSE TopOf(n) - LocalsCount[c.info.fn])
    BY <1>1 DEF FramesOnStack
  <2>7. stack'[Top] = Plain /\ \A k \in Slots : k # Top => stack'[k] = stack[k]
    BY <1>1, <1>2 DEF TypeOK
  <2>8. TypeOK'
    <3>1. sp' \in 0..StackSize
      BY <1>1, <2>1, <2>5 DEF Slots
    <3>2. ip' \in Nat
      BY <1>3, <2>1
    <3> QED BY <1>3, <2>1, <2>2, <3>1, <3>2 DEF TypeOK
  <2>9. RegistersDescribeFrame'
    <3>1. Depth' >= 0
      BY <1>1, <1>2, <2>1, <2>4, <2>5, <2>6 DEF Depth, Slots
    <3>2. ip' # 0
      BY <1>3, <2>1
    <3> QED BY <1>2, <2>1, <2>4, <2>6, <3>1, <3>2 DEF RegistersDescribeFrame, NoLocals
  <2>10. FramesOnStack'
    <3> SUFFICES ASSUME NEW i \in 1..(n - 1)
        PROVE  LET d == callers[i]
                   f == d.info.fn
               IN  /\ stack'[d.at] = d.info
                   /\ d.at < TopOf(i) - LocalsCount[f]
                   /\ \A j \in 1..(i - 1) : d.at < callers'[j].at
                   /\ d.info.ip > 0
                   /\ d.info.argp = TopOf(i) + 1
                   /\ d.info.locals = (IF LocalsCount[f] = 0 THEN NoLocals
                                       ELSE TopOf(i) - LocalsCount[f])
      <4>1. \A i \in 1..(n - 1) : callers'[i] = callers[i] /\ TopOf(i)' = TopOf(i)
        BY <1>1, <2>1, <2>2, <2>3
      <4>2. Len(callers') = n - 1
        BY <2>1, <2>2
      <4> QED BY <4>1, <4>2 DEF FramesOnStack
    <3>1. i \in 1..n /\ callers[i].at \in Slots /\ callers[i].at # Top
      BY <1>1, <2>6, PendingFacts DEF Slots
    <3>2. stack'[callers[i].at] = stack[callers[i].at]
      BY <3>1, <2>7
    <3>3. \A j \in 1..(i - 1) : callers'[j] = callers[j]
      BY <1>1, <2>1, <2>2
    <3> QED BY <3>1, <3>2, <3>3 DEF FramesOnStack
  <2>11. CallerOperandsArePlain'
    <3> SUFFICES ASSUME NEW i \in 1..(n - 1), NEW k \in Slots,
                        callers[i].at < k,
                        k < TopOf(i) - LocalsCount[callers[i].info.fn]
                 PROVE  stack'[k] = Plain
      <4>1. \A i \in 1..(n - 1) : callers'[i] = callers[i] /\ TopOf(i)' = TopOf(i)
        BY <1>1, <2>1, <2>2, <2>3
      <4>2. Len(callers') = n - 1
        BY <2>1, <2>2
      <4> QED BY <4>1, <4>2 DEF CallerOperandsArePlain
    <3>1. i \in 1..n
      BY <1>1
    <3>2. stack[k] = Plain
      BY <3>1 DEF CallerOperandsArePlain
    <3> QED BY <2>7, <3>2
  <2>12. OwnOperandsArePlain'
    <3> SUFFICES ASSUME NEW k \in Slots, Top <= k,
                        k < TopOf(n) - LocalsCount[c.info.fn]
                 PROVE  stack'[k] = Plain
      BY <1>2, <2>1, <2>4 DEF OwnOperandsArePlain
    <3>1. k # Top => c.at < k
      BY <1>1 DEF Slots
    <3> QED BY <1>1, <2>7, <3>1 DEF CallerOperandsArePlain
  <2>13. ReturnInfosArePending'
    <3> SUFFICES ASSUME ~Reuse, NEW k \in Slots, stack'[k] # Plain
                 PROVE  \E i \in 1..(n - 1) : callers'[i].at = k
      <4>1. Len(callers') = n - 1
        BY <2>1, <2>2
      <4> QED BY <4>1 DEF ReturnInfosArePending
    <3>1. k # Top /\ stack[k] # Plain
      BY <2>7
    <3>2. PICK i \in 1..n : callers[i].at = k
      BY <1>2, <3>1 DEF ReturnInfosArePending
    <3>3. i \in 1..(n - 1)
      BY <1>1, <3>1, <3>2
    <3> QED BY <2>1, <2>2, <3>2, <3>3
  <2>14. StoppedIsEmpty' /\ RunningHasNoError'
    BY <1>2, <2>1 DEF StoppedIsEmpty, RunningHasNoError
  <2> QED BY <2>8, <2>9, <2>10, <2>11, <2>12, <2>13, <2>14
<1> QED BY <1>4, <1>5

\* The caller's operands are below its return info and hold no other.
LEMMA ArgumentsArePlain ==
    ASSUME IInv, Running, NEW k \in Arguments
    PROVE  k \in Slots /\ argp <= k /\ stack[k] = Plain
<1> USE DEF IInv
<1>0. callers # <<>>
  BY DEF Arguments
<1> DEFINE n == Len(callers)
           c == callers[n]
<1>1. state = "RUN" /\ ip > 0
  BY DEF Running
<1>2. n \in 1..n
  BY <1>0 DEF TypeOK
<1>3. TopOf(n) \in 0..StackSize /\ LocalsCount[c.info.fn] \in Nat
      /\ c.at \in Slots /\ StackSize \in Nat
  BY <1>2, PendingFacts, FramesAssumption
<1>4. argp = c.at + 1
  <2>1. Top = c.at
    BY <1>0, <1>1, Geometry
  <2> QED BY <1>1, <2>1 DEF RegistersDescribeFrame
<1>5. k \in Slots \cap
        (argp..(argp + (TopOf(n) - LocalsCount[c.info.fn] - c.at - 1) - 1))
  BY <1>0 DEF Arguments
<1>6. k \in Slots /\ argp <= k /\ c.at < k
      /\ k < TopOf(n) - LocalsCount[c.info.fn]
  <2> HIDE DEF n, c, IInv
  <2> QED BY <1>3, <1>4, <1>5 DEF Slots
<1> QED BY <1>2, <1>6 DEF CallerOperandsArePlain

\* What LDLOC and LDARG copy and go on with is never a return info.
LEMMA LoadsArePlain ==
    ASSUME IInv
    PROVE  (LoadLocal \/ LoadArgument) => \E k \in Slots : stack[k] = Plain /\ Load(k)
<1>1. LoadLocal => \E k \in Slots : stack[k] = Plain /\ Load(k)
  BY DEF LoadLocal, LocalSlots, Stale
<1>2. LoadArgument => \E k \in Slots : stack[k] = Plain /\ Load(k)
  BY DEF LoadArgument, Indexed, Arguments, Stale
<1> QED BY <1>1, <1>2

\* No argument within the rule is a return info.
LEMMA NoReturnInfoInRange ==
    ASSUME IInv, ArgumentsInRange PROVE ~LoadReturnInfo
<1> SUFFICES ASSUME LoadReturnInfo PROVE FALSE
  OBVIOUS
<1>1. PICK k \in Arguments : stack[k] # Plain
  BY DEF LoadReturnInfo, Indexed, Stale
<1>2. Running
  BY DEF LoadReturnInfo
<1> QED BY <1>1, <1>2, ArgumentsArePlain

\* The copy of a return info lies among the running function's operands.
LEMMA LoadReturnInfoIInv == IInv /\ LoadReturnInfo => IInv'
<1> SUFFICES ASSUME IInv, LoadReturnInfo PROVE IInv'
  OBVIOUS
<1> USE DEF IInv
<1>1. /\ state = "RUN" /\ state' = "WILD" /\ sp > 0 /\ sp' = sp - 1
      /\ ~ArgumentsInRange
      /\ UNCHANGED <<fn, ip, argp, locals, error, callers>>
  BY NoReturnInfoInRange DEF LoadReturnInfo, Running
<1>2. PICK k \in Slots : stack' = [stack EXCEPT ![sp - 1] = stack[k]]
  BY DEF LoadReturnInfo, Indexed, Arguments
<1>3. sp \in 0..StackSize /\ StackSize \in Nat /\ Top \in Nat /\ sp <= Top
  BY <1>1, Geometry, FramesAssumption DEF TypeOK
<1>4. TypeOK'
  BY <1>1, <1>2, <1>3 DEF TypeOK, Slots
<1>5. \A j \in Slots : j >= Top => stack'[j] = stack[j]
  BY <1>1, <1>2, <1>3 DEF TypeOK, Slots
<1>6. FramesOnStack' /\ CallerOperandsArePlain'
  BY <1>1, <1>5, FrameRule
<1> QED BY <1>1, <1>4, <1>6 DEF RegistersDescribeFrame, OwnOperandsArePlain,
           ReturnInfosArePending, StoppedIsEmpty, RunningHasNoError

\* Every way a run stops without moving another register.
LEMMA HaltIInv ==
    IInv /\ (RetFromMain \/ RetCorrupt \/ UseStale \/ Overflow \/ Underflow \/ Fail)
        => IInv'
<1> SUFFICES ASSUME IInv,
                    RetFromMain \/ RetCorrupt \/ UseStale
                        \/ Overflow \/ Underflow \/ Fail
             PROVE  IInv'
  OBVIOUS
<1> USE DEF IInv
<1>1. UNCHANGED <<stack, fn, ip, argp, locals>>
  BY DEF RetFromMain, RetCorrupt, UseStale, Overflow, Underflow, Fail
<1>2. /\ stack' \in [Slots -> ReturnInfo \cup {Plain}] /\ fn' \in Functions
      /\ ip' \in Nat /\ argp' \in Nat /\ locals' \in Int
  BY <1>1 DEF TypeOK
<1>3. PICK s \in {"END", "WILD"},
           e \in {"NONE", "SCRIPT_END", "STACK_CORRUPTION", "STACK_OVERFLOW",
                  "STACK_UNDERFLOW", "OTHER"} : Stop(s, e)
  BY DEF RetFromMain, RetCorrupt, UseStale, Overflow, Underflow, Fail, TypeOK
<1> QED BY <1>2, <1>3, StopIInv

LEMMA EffectsAreNumbers ==
    \A e \in Effects : e[1] \in Nat /\ e[2] \in Nat
BY DEF Effects

LEMMA StepIInv == IInv /\ [Next]_vars => IInv'
<1> SUFFICES ASSUME IInv, [Next]_vars PROVE IInv'
  OBVIOUS
<1>1. ASSUME NEW f \in Functions, Start(f) PROVE IInv'
  BY <1>1, StartIInv
<1>2. ASSUME NEW f \in Functions, Call(f) PROVE IInv'
  BY <1>2, CallIInv
<1>3. CASE Enter
  BY <1>3, EnterIInv
<1>4. CASE Step
  <2>1. PICK e \in Effects : Operate(e[1], e[2], ip + 1)
    BY <1>4 DEF Step
  <2>2. ip + 1 \in Nat \ {0} /\ e[1] \in Nat /\ e[2] \in Nat
    BY EffectsAreNumbers DEF IInv, TypeOK
  <2> QED BY <2>1, <2>2, OperateIInv
<1>5. CASE Jump
  <2>1. PICK pops \in {0, 1}, t \in 1..BytecodeSize[fn] : Operate(pops, 0, t)
    BY <1>5 DEF Jump
  <2>2. pops \in Nat /\ 0 \in Nat /\ t \in Nat \ {0}
    BY FramesAssumption DEF IInv, TypeOK
  <2> QED BY <2>1, <2>2, OperateIInv
<1>6. CASE LoadLocal \/ LoadArgument
  BY <1>6, LoadsArePlain, LoadIInv
<1>7. CASE StoreLocal \/ LoadReturnInfo
  BY <1>7, StoreLocalIInv, LoadReturnInfoIInv
<1>8. CASE Ret
  BY <1>8, RetIInv
<1>9. CASE RetFromMain \/ RetCorrupt \/ UseStale \/ Overflow \/ Underflow \/ Fail
  BY <1>9, HaltIInv
<1>10. CASE UNCHANGED vars
  BY <1>10 DEF vars, IInv, TypeOK, RegistersDescribeFrame, FramesOnStack,
               CallerOperandsArePlain, OwnOperandsArePlain, Depth, Top, TopOf,
               ReturnInfosArePending, StoppedIsEmpty, RunningHasNoError
<1> QED BY <1>1, <1>2, <1>3, <1>4, <1>5, <1>6, <1>7, <1>8, <1>9, <1>10 DEF Next

LEMMA FramesInvariant == Spec => []IInv
<1> QED BY InitIInv, StepIInv, PTL DEF Spec

\* The registers, the stack and the call state keep their types: no instruction
\* leaves a slot outside the stack or a frame without a function.
THEOREM FramesTyped == Spec => []TypeOK
<1> QED BY FramesInvariant, PTL DEF IInv

\* On every run, whatever the functions and the size of the stack, the return
\* info of every pending call is intact and describes its caller's frame (CALL
\* and ENTER of AdrenoVM_Run).
THEOREM FramesIntact == Spec => []FramesOnStack
<1> QED BY FramesInvariant, PTL DEF IInv

\* The registers of the context locate the running function's frame.
THEOREM RegistersRight == Spec => []RegistersDescribeFrame
<1> QED BY FramesInvariant, PTL DEF IInv

\* No instruction takes a return info for an operand, up to the LDARG that
\* copies one in a script that breaks the rule of ArgumentsInRange.
THEOREM OperandsRight == Spec => []OperandsArePlain
<1>1. IInv => OperandsArePlain
  BY DEF IInv, OperandsArePlain
<1> QED BY <1>1, FramesInvariant, PTL

LEMMA LocalsBelowTop ==
    ASSUME IInv, Running, NEW k \in LocalSlots
    PROVE  k \in Slots /\ Top \in Nat /\ Top - LocalsCount[fn] <= k /\ k < Top
<1> USE DEF IInv
<1>1. Top \in 0..StackSize /\ LocalsCount[fn] \in Nat /\ StackSize \in Nat
  BY Geometry, FramesAssumption DEF Running
<1>2. k \in Slots /\ locals <= k /\ k < locals + LocalsCount[fn]
  BY DEF LocalSlots
<1>3. LocalsCount[fn] # 0
  BY <1>1, <1>2 DEF TypeOK, Slots
<1>4. locals = Top - LocalsCount[fn]
  BY <1>3 DEF RegistersDescribeFrame, Running
<1> QED BY <1>1, <1>2, <1>4 DEF Slots

\* Without expansion and in a context that is run once, no stale return info is
\* ever within reach: RET overwrites each one, and a run that ends with calls
\* pending is the last.  Nor does LDARG find the return info of a pending call,
\* as long as its index counts the caller's operands.
THEOREM NeverUndefined == Spec => []NeverWild
<1>1. Init => NeverWild
  BY DEF Init, NeverWild
<1>2. IInv /\ NeverWild /\ [Next]_vars => NeverWild'
  <2> SUFFICES ASSUME IInv, NeverWild, [Next]_vars, ~CanExpand, ~Reuse,
                      ArgumentsInRange, state' = "WILD"
               PROVE  FALSE
    BY DEF NeverWild
  <2>1. state # "WILD"
    BY DEF NeverWild
  <2>2. UseStale
    BY <2>1, NoReturnInfoInRange DEF Next, vars, Start, Call, Enter, Step, Jump, Operate, LoadLocal,
                LoadArgument, Load, StoreLocal, StoreInto, Ret, RetFromMain, RetCorrupt,
                Overflow, Underflow, Fail, Continue, Stop
  <2>3. PICK k \in LocalSlots : stack[k] # Plain
    BY <2>2 DEF UseStale, Stale
  <2>4. Running
    BY <2>2 DEF UseStale
  <2>5. k \in Slots /\ Top \in Nat /\ k < Top
    BY <2>4, LocalsBelowTop
  <2>6. PICK i \in 1..Len(callers) : callers[i].at = k
    BY <2>3, <2>4, <2>5 DEF IInv, ReturnInfosArePending, Running
  <2>7. Top <= k
    BY <2>4, <2>6, Geometry DEF IInv, Running
  <2> QED BY <2>5, <2>7 DEF Slots
<1> QED BY <1>1, <1>2, FramesInvariant, PTL DEF Spec

\* Only OP_RET takes a pending call off the stack and lets the script go on.
LEMMA OnlyRetReturns ==
    ASSUME IInv, [Next]_vars, Len(callers') < Len(callers), state' = "RUN"
    PROVE  Ret
<1>1. Len(callers) \in Nat
  BY DEF IInv, TypeOK
<1>2. callers' # callers
  BY <1>1
<1>3. ~ \E f \in Functions : Call(f)
  <2> SUFFICES ASSUME NEW f \in Functions, Call(f) PROVE FALSE
    OBVIOUS
  <2>1. Len(callers') = Len(callers) + 1
    <3>1. sp \in Slots
      <4>1. Top \in 0..StackSize /\ LocalsCount[fn] \in Nat /\ sp \in 0..Top
            /\ StackSize \in Nat
        BY Geometry, FramesAssumption DEF IInv, Call, Running
      <4>2. Depth >= 1
        BY DEF Call
      <4> QED BY <4>1, <4>2 DEF Depth, Slots
    <3> DEFINE new == [at |-> sp, info |-> [fn |-> fn, ip |-> ip, argp |-> argp,
                                            locals |-> locals]]
    <3>2. new \in PendingCall
      BY <3>1 DEF PendingCall, ReturnInfo, IInv, TypeOK
    <3>3. callers' = Append(callers, new)
      BY DEF Call
    <3> QED BY <3>2, <3>3, AppendProperties DEF IInv, TypeOK
  <2> QED BY <1>1, <2>1
<1> QED BY <1>2, <1>3 DEF Next, vars, Start, Enter, Step, Jump, Operate, LoadLocal,
           LoadArgument, LoadReturnInfo, Load, StoreLocal, StoreInto, RetFromMain,
           RetCorrupt, UseStale, Overflow, Underflow, Fail, Continue, Stop

\* A caller finds its registers and its operands as it left them (RET).
THEOREM CallerRestored == Spec => ReturnRestoresCaller
<1> DEFINE A == Len(callers') < Len(callers) /\ state' = "RUN" =>
                  LET c == callers[Len(callers)]
                  IN  /\ callers' = SubSeq(callers, 1, Len(callers) - 1)
                      /\ fn' = c.info.fn
                      /\ ip' = c.info.ip + 1
                      /\ argp' = c.info.argp
                      /\ locals' = c.info.locals
                      /\ sp' = c.at
                      /\ \A k \in Slots : k > c.at => stack'[k] = stack[k]
<1>1. IInv /\ [Next]_vars => [A]_vars
  <2> SUFFICES ASSUME IInv, [Next]_vars,
                      Len(callers') < Len(callers), state' = "RUN"
               PROVE  A
    OBVIOUS
  <2>1. Ret
    BY OnlyRetReturns
  <2> DEFINE n == Len(callers)
             c == callers[n]
  <2>2. /\ Returning = Top /\ Top = c.at /\ Top \in Slots
        /\ stack[Top] = c.info
    BY <2>1, RetFacts
  <2>3. /\ fn' = c.info.fn /\ argp' = c.info.argp /\ locals' = c.info.locals
        /\ stack' = [stack EXCEPT ![Top] = stack[sp]]
        /\ Continue(Top, SubSeq(callers, 1, n - 1), c.info.fn, c.info.ip + 1)
    BY <2>1, <2>2 DEF Ret
  <2>4. ip' = c.info.ip + 1 /\ sp' = Top /\ callers' = SubSeq(callers, 1, n - 1)
    BY <2>3 DEF Continue, Stop
  <2>5. \A k \in Slots : k > c.at => stack'[k] = stack[k]
    BY <2>2, <2>3 DEF IInv, TypeOK, Slots
  <2> QED BY <2>2, <2>3, <2>4, <2>5
<1> QED BY <1>1, FramesInvariant, PTL DEF Spec, ReturnRestoresCaller

\* A normal return leaves no operand behind, and a stack corruption is reported
\* only to a function that left some (RET).
THEOREM ReturnsBalanced == Spec => ReturnsAreBalanced
<1> DEFINE A == state = "RUN" =>
                  /\ Len(callers') < Len(callers) /\ state' = "RUN" => Depth = 1
                  /\ error' = "SCRIPT_END" => Depth = 1 /\ callers = <<>>
                  /\ error' = "STACK_CORRUPTION" => Depth > 1
<1>1. IInv /\ [Next]_vars => [A]_vars
  <2> SUFFICES ASSUME IInv, [Next]_vars, state = "RUN" PROVE A
    OBVIOUS
  <2>1. /\ Top \in 0..StackSize /\ LocalsCount[fn] \in Nat /\ sp \in 0..Top
        /\ StackSize \in Nat
        /\ callers # <<>> => Top = callers[Len(callers)].at
        /\ callers = <<>> => Top = StackSize
    BY Geometry, FramesAssumption DEF IInv
  <2>2. callers # <<>> => Len(callers) \in 1..Len(callers)
    BY DEF IInv, TypeOK
  <2>3. callers # <<>> => Top \in Slots /\ stack[Top] # Plain
    BY <2>1, <2>2, PendingFacts, FramesAssumption DEF IInv, FramesOnStack
  <2>4. Len(callers') < Len(callers) /\ state' = "RUN" => Depth = 1
    BY OnlyRetReturns, RetFacts
  <2>5. ASSUME error' = "SCRIPT_END" PROVE Depth = 1 /\ callers = <<>>
    <3>1. RetFromMain
      BY <2>5 DEF IInv, RunningHasNoError, Next, vars, Start, Call, Enter, Step,
                  Jump, Operate, LoadLocal, LoadArgument, LoadReturnInfo, Load,
                  StoreLocal, StoreInto, Ret, RetCorrupt, UseStale, Overflow, Underflow, Fail, Continue, Stop
    <3>2. Depth >= 1 /\ Returning = StackSize
      BY <3>1 DEF RetFromMain, Returns
    <3>3. Top = StackSize /\ Depth = 1
      BY <2>1, <3>2 DEF Depth, Returning
    <3> QED BY <2>1, <2>3, <3>3 DEF Slots
  <2>6. ASSUME error' = "STACK_CORRUPTION" PROVE Depth > 1
    <3>1. RetCorrupt
      BY <2>6 DEF IInv, RunningHasNoError, Next, vars, Start, Call, Enter, Step,
                  Jump, Operate, LoadLocal, LoadArgument, LoadReturnInfo, Load,
                  StoreLocal, StoreInto, Ret, RetFromMain, UseStale, Overflow, Underflow, Fail, Continue, Stop
    <3>2. Depth >= 1 /\ Returning < StackSize /\ stack[Returning] = Plain
      BY <3>1 DEF RetCorrupt, Returns
    <3>3. Returning # Top
      BY <2>1, <2>3, <3>2
    <3> QED BY <2>1, <3>2, <3>3 DEF Depth, Returning
  <2> QED BY <2>4, <2>5, <2>6
<1> QED BY <1>1, FramesInvariant, PTL DEF Spec, ReturnsAreBalanced

-----------------------------------------------------------------------------

LEMMA SlotsFinite == IsFiniteSet(Slots) /\ Cardinality(Slots) = StackSize
BY FS_Interval, FramesAssumption DEF Slots

LEMMA SlotSets ==
    ASSUME NEW S \in SUBSET Slots, NEW r, NEW o
    PROVE  /\ IsFiniteSet({k \in S : r[k] = o})
           /\ Refs(r, S, o) \in Nat
           /\ Refs(r, S, o) <= StackSize
<1>1. {k \in S : r[k] = o} \in SUBSET Slots
  OBVIOUS
<1>2. /\ IsFiniteSet({k \in S : r[k] = o})
      /\ Cardinality({k \in S : r[k] = o}) <= Cardinality(Slots)
  BY <1>1, SlotsFinite, FS_Subset
<1> QED BY <1>2, SlotsFinite, FS_CardinalityType DEF Refs

\* References in two disjoint sets of slots add up.
LEMMA RefsSplit ==
    ASSUME NEW S \in SUBSET Slots, NEW T \in SUBSET Slots, S \cap T = {},
           NEW r, NEW o
    PROVE  Refs(r, S \cup T, o) = Refs(r, S, o) + Refs(r, T, o)
<1> DEFINE A == {k \in S : r[k] = o}
           B == {k \in T : r[k] = o}
<1>1. A \in SUBSET Slots /\ B \in SUBSET Slots
  OBVIOUS
<1>2. A \cap B = {}
  OBVIOUS
<1>3. {k \in S \cup T : r[k] = o} = A \cup B
  OBVIOUS
<1>4. /\ Refs(r, S, o) = Cardinality(A) /\ Refs(r, T, o) = Cardinality(B)
      /\ Refs(r, S \cup T, o) = Cardinality(A \cup B)
  BY <1>3 DEF Refs
<1> HIDE DEF A, B
<1>5. IsFiniteSet(A) /\ IsFiniteSet(B)
  BY <1>1, SlotsFinite, FS_Subset
<1>6. Cardinality(A \cup B) = Cardinality(A) + Cardinality(B) - Cardinality({})
  BY <1>2, <1>5, FS_Union
<1>7. Cardinality(A) \in Nat /\ Cardinality(B) \in Nat /\ Cardinality({}) = 0
  BY <1>5, FS_CardinalityType, FS_EmptySet
<1> QED BY <1>4, <1>6, <1>7

LEMMA RefsAgree ==
    ASSUME NEW S, NEW r, NEW q, NEW o, \A k \in S : r[k] = q[k]
    PROVE  Refs(r, S, o) = Refs(q, S, o)
<1>1. {k \in S : r[k] = o} = {k \in S : q[k] = o}
  OBVIOUS
<1> QED BY <1>1 DEF Refs

LEMMA RefsNone ==
    ASSUME NEW S, NEW r, NEW o, \A k \in S : r[k] # o
    PROVE  Refs(r, S, o) = 0
<1>1. {k \in S : r[k] = o} = {}
  OBVIOUS
<1> QED BY <1>1, FS_EmptySet DEF Refs

LEMMA RefsOne ==
    ASSUME NEW k, NEW r, NEW o
    PROVE  Refs(r, {k}, o) = IF r[k] = o THEN 1 ELSE 0
<1>1. CASE r[k] = o
  <2>1. {j \in {k} : r[j] = o} = {k}
    BY <1>1
  <2> QED BY <1>1, <2>1, FS_Singleton DEF Refs
<1>2. CASE r[k] # o
  BY <1>2, RefsNone
<1> QED BY <1>1, <1>2

\* A slot that refers to o is counted.
LEMMA RefsSome ==
    ASSUME NEW S \in SUBSET Slots, NEW r, NEW o, NEW k \in S, r[k] = o
    PROVE  Refs(r, S, o) > 0
<1>1. Refs(r, S, o) \in Nat /\ IsFiniteSet({j \in S : r[j] = o})
  BY SlotSets
<1>2. Refs(r, S, o) # 0
  BY <1>1, FS_EmptySet DEF Refs
<1> QED BY <1>1, <1>2

\* The slots in use are those popped and those that stay.
LEMMA LiveSplit ==
    ASSUME NEW s \in Nat, NEW t \in Nat, s <= t, t <= StackSize
    PROVE  /\ Live(s) \in SUBSET Slots
           /\ s..(t - 1) \in SUBSET Slots
           /\ Live(s) = (s..(t - 1)) \cup Live(t)
           /\ (s..(t - 1)) \cap Live(t) = {}
           /\ Slots \cap (s..(t - 1)) = s..(t - 1)
BY FramesAssumption DEF Live, Slots

LEMMA LiveRefs ==
    ASSUME NEW s \in Nat, NEW t \in Nat, s <= t, t <= StackSize, NEW r, NEW o
    PROVE  /\ Refs(r, Live(s), o) = Refs(r, s..(t - 1), o) + Refs(r, Live(t), o)
           /\ Refs(r, s..(t - 1), o) \in Nat
           /\ Refs(r, Live(t), o) \in Nat
<1>1. /\ Live(s) \in SUBSET Slots /\ s..(t - 1) \in SUBSET Slots
      /\ Live(s) = (s..(t - 1)) \cup Live(t)
      /\ (s..(t - 1)) \cap Live(t) = {}
  BY LiveSplit
<1>2. Live(t) \in SUBSET Slots
  BY <1>1
<1>3. Refs(r, (s..(t - 1)) \cup Live(t), o)
        = Refs(r, s..(t - 1), o) + Refs(r, Live(t), o)
  BY <1>1, <1>2, RefsSplit
<1> QED BY <1>1, <1>2, <1>3, SlotSets
-----------------------------------------------------------------------------
\* Every step is a step of the call protocol.
LEMMA VMStep == [VMNext]_vmVars => [Next]_vars
<1> SUFFICES ASSUME VMNext PROVE Next
  BY DEF vmVars
<1>1. ASSUME NEW f \in Functions, StartRun(f) \/ CallFunction(f) PROVE Next
  BY <1>1 DEF StartRun, CallFunction, Next
<1>2. CASE EnterFunction
  BY <1>2 DEF EnterFunction, Next
<1>3. CASE LoadConstant
  BY <1>3 DEF LoadConstant, Step, Effects, Next
<1>4. CASE CopyLocal
  BY <1>4 DEF CopyLocal, Copy, LoadLocal, Stale, Next
<1>5. CASE CopyArgument
  BY <1>5 DEF CopyArgument, Copy, LoadArgument, Stale, Next
<1>6. ASSUME NEW k \in LocalSlots, Store(k) PROVE Next
  BY <1>6 DEF Store, StoreLocal, Next
<1>7. CASE Discard
  <2>1. PICK n \in 0..2 : Operate(n, 0, ip + 1)
    BY <1>7 DEF Discard, Consume
  <2>2. <<n, 0>> \in Effects
    BY DEF Effects
  <2> QED BY <2>1, <2>2 DEF Step, Next
<1>8. CASE Branch
  BY <1>8 DEF Branch, Consume, Jump, Next
<1>9. CASE Compute
  BY <1>9 DEF Compute, Consume, Step, Effects, Next
<1>10. ASSUME NEW c \in Cells, Concat(c) PROVE Next
  BY <1>10 DEF Concat, Step, Effects, Next
<1>11. ASSUME NEW r \in Cells \cup {None}, CallApi(r) PROVE Next
  BY <1>11 DEF CallApi, Step, Effects, Next
<1>12. CASE Return \/ ReturnFromMain \/ ReturnCorrupt
  BY <1>12 DEF Return, ReturnFromMain, ReturnCorrupt, Next
<1>13. CASE PushOverflow \/ PopUnderflow
  BY <1>13 DEF PushOverflow, PopUnderflow, Next
<1>14. ASSUME NEW n \in 0..2, FailInstruction(n) PROVE Next
  BY <1>14 DEF FailInstruction, Next
<1> QED BY <1>1, <1>2, <1>3, <1>4, <1>5, <1>6, <1>7, <1>8, <1>9, <1>10, <1>11,
           <1>12, <1>13, <1>14 DEF VMNext

\* AdrenoVM implements AdrenoFrames: no value a script computes can disturb
\* the call protocol.
THEOREM VMImplementsFrames == VMSpec => Spec
<1>1. VMInit => Init
  BY DEF VMInit
<1> QED BY <1>1, VMStep, PTL DEF VMSpec, Spec

\* The stack an instruction leaves: cleared when it is the last one.
Leaves(top) == sp' = IF state' = "RUN" THEN top ELSE StackSize

\* One instruction's balance.  Of the references counted once it has made its
\* own, some are dropped and the others are in the slots it leaves in use, or
\* lost; then its releases leave every counter exact.
LEMMA SettleKeeps ==
    ASSUME NEW counts, NEW cells, NEW dropped \in SUBSET Slots,
           NEW top \in 0..StackSize,
           Settle(counts, cells, dropped, top),
           Leaves(top),
           ref' \in [Slots -> Objects \cup {None}],
           lost' \in [Objects -> Nat],
           \A o \in Objects :
              /\ counts[o] \in Nat /\ counts[o] < RcMod
              /\ counts[o] = Hold(o) + Refs(ref, dropped, o)
                               + Refs(ref', Live(top), o) + lost'[o],
           cells = {c \in Cells : counts[c] > 0}
    PROVE  VMTypeOK' /\ CountsAreExact' /\ NoDanglingReference' /\ UsedIsCounted'
<1> DEFINE drops == [o \in Objects |->
                       Refs(ref, dropped, o)
                         + IF state' = "RUN" THEN 0 ELSE Refs(ref', Live(top), o)]
<1> USE DEF Leaves
<1>1. /\ rc' = [o \in Objects |-> (counts[o] - drops[o]) % RcMod]
      /\ used' = cells \ {o \in Cells : counts[o] > 0 /\ drops[o] >= counts[o]}
  BY DEF Settle
<1>2. Live(top) \in SUBSET Slots /\ Live(sp') \in SUBSET Slots
      /\ (state' # "RUN" => Live(sp') = {}) /\ StackSize \in Nat
  BY FramesAssumption DEF Live, Slots
<1>3. ASSUME NEW o \in Objects
      PROVE  /\ drops[o] \in Nat
             /\ counts[o] - drops[o] = Hold(o) + Refs(ref', Live(sp'), o) + lost'[o]
             /\ Hold(o) \in Nat /\ Refs(ref', Live(sp'), o) \in Nat
  <2>1. /\ Refs(ref, dropped, o) \in Nat /\ Refs(ref', Live(top), o) \in Nat
        /\ Refs(ref', Live(sp'), o) \in Nat
    BY <1>2, SlotSets
  <2>2. state' # "RUN" => Refs(ref', Live(sp'), o) = 0
    BY <1>2, RefsNone
  <2>3. Hold(o) \in Nat /\ lost'[o] \in Nat
    BY VMAssumption DEF Hold
  <2>4. drops[o] = Refs(ref, dropped, o)
                     + IF state' = "RUN" THEN 0 ELSE Refs(ref', Live(top), o)
    OBVIOUS
  <2> HIDE DEF drops
  <2> QED BY <2>1, <2>2, <2>3, <2>4
<1> HIDE DEF drops
<1>4. ASSUME NEW o \in Objects
      PROVE  /\ rc'[o] = counts[o] - drops[o]
             /\ rc'[o] \in 0..(RcMod - 1)
             /\ rc'[o] = Hold(o) + Refs(ref', Live(sp'), o) + lost'[o]
  <2>1. /\ counts[o] - drops[o] \in 0..(RcMod - 1) /\ RcMod \in Nat \ {0}
    <3>1. lost'[o] \in Nat /\ counts[o] \in Nat /\ counts[o] < RcMod
      OBVIOUS
    <3> QED BY <1>3, <3>1, VMAssumption
  <2>2. \A x \in 0..(RcMod - 1) : x % RcMod = x
    BY <2>1
  <2>3. rc'[o] = (counts[o] - drops[o]) % RcMod
    BY <1>1
  <2> QED BY <1>3, <2>1, <2>2, <2>3
<1>5. used' = {c \in Cells : rc'[c] > 0}
  <2>1. ASSUME NEW c \in Cells
        PROVE  c \in used' <=> rc'[c] > 0
    <3>1. c \in Objects
      BY DEF Objects
    <3>2. c \in used' <=> counts[c] > 0 /\ ~(drops[c] >= counts[c])
      BY <1>1
    <3>3. counts[c] \in Nat /\ drops[c] \in Nat /\ rc'[c] = counts[c] - drops[c]
      BY <3>1, <1>3, <1>4
    <3> QED BY <3>2, <3>3
  <2> QED BY <2>1, <1>1
<1>6. VMTypeOK'
  <2>1. rc' \in [Objects -> 0..(RcMod - 1)]
    BY <1>1, <1>4
  <2> QED BY <2>1, <1>5 DEF VMTypeOK
<1>7. CountsAreExact'
  <2>1. \A o \in Objects : rc'[o] = Hold(o) + Refs(ref', Live(sp'), o) + lost'[o]
    BY <1>4
  <2> QED BY <2>1 DEF CountsAreExact, Hold, Refs, Live
<1>8. NoDanglingReference'
  <2> SUFFICES ASSUME NEW k \in Live(sp'), ref'[k] \notin Consts \cup {None}
               PROVE  ref'[k] \in used'
    BY DEF NoDanglingReference, Live
  <2> DEFINE o == ref'[k]
  <2>1. k \in Slots /\ o \in Cells /\ o \in Objects
    BY <1>2 DEF Objects
  <2>2. Refs(ref', Live(sp'), o) > 0
    BY <1>2, RefsSome
  <2>3. rc'[o] = Hold(o) + Refs(ref', Live(sp'), o) + lost'[o]
        /\ Hold(o) \in Nat /\ Refs(ref', Live(sp'), o) \in Nat /\ lost'[o] \in Nat
    BY <1>3, <1>4, <2>1
  <2> HIDE DEF o
  <2>4. rc'[o] > 0
    BY <2>2, <2>3
  <2> QED BY <2>1, <2>4, <1>5 DEF o
<1>9. UsedIsCounted'
  BY <1>5 DEF UsedIsCounted
<1> QED BY <1>6, <1>7, <1>8, <1>9
-----------------------------------------------------------------------------
LEMMA FrameBounds ==
    ASSUME IInv, state = "RUN"
    PROVE  /\ sp \in Nat /\ Top \in Nat /\ StackSize \in Nat
           /\ sp <= Top /\ Top <= StackSize /\ LocalsCount[fn] \in Nat
BY Geometry, FramesAssumption DEF IInv

LEMMA CountFacts ==
    ASSUME IInv, CountInv, state = "RUN", NEW o \in Objects
    PROVE  /\ rc[o] = Hold(o) + Refs(ref, Live(sp), o) + lost[o]
           /\ Refs(ref, Live(sp), o) \in Nat /\ Hold(o) \in {0, 1}
           /\ lost[o] \in 0..MaxLost
           /\ rc[o] \in Nat /\ rc[o] + 1 < RcMod
<1>1. Live(sp) \in SUBSET Slots /\ StackSize \in Nat
  BY FrameBounds DEF Live, Slots
<1>2. Refs(ref, Live(sp), o) \in Nat /\ Refs(ref, Live(sp), o) <= StackSize
  BY <1>1, SlotSets
<1>3. lost[o] \in 0..MaxLost
  BY VMAssumption DEF CountInv, LostIsBounded, VMTypeOK
<1>4. rc[o] = Hold(o) + Refs(ref, Live(sp), o) + lost[o]
  BY DEF CountInv, CountsAreExact
<1>5. Hold(o) \in {0, 1}
  BY VMAssumption DEF Hold
<1> QED BY <1>1, <1>2, <1>3, <1>4, <1>5, VMAssumption

\* An instruction that makes no reference: what was held by the slots in use
\* or lost is dropped, or held by the slots in use, or lost.
LEMMA MoveKeeps ==
    ASSUME IInv, CountInv, state = "RUN",
           NEW dropped \in SUBSET Slots, NEW top \in 0..StackSize,
           Settle(rc, used, dropped, top),
           Leaves(top),
           ref' \in [Slots -> Objects \cup {None}],
           lost' \in [Objects -> Nat],
           \A o \in Objects :
              Refs(ref, Live(sp), o) + lost[o]
                = Refs(ref, dropped, o) + Refs(ref', Live(top), o) + lost'[o]
    PROVE  VMTypeOK' /\ CountsAreExact' /\ NoDanglingReference' /\ UsedIsCounted'
<1>1. ASSUME NEW o \in Objects
      PROVE  /\ rc[o] \in Nat /\ rc[o] < RcMod
             /\ rc[o] = Hold(o) + Refs(ref, dropped, o)
                          + Refs(ref', Live(top), o) + lost'[o]
  <2>1. /\ Refs(ref, dropped, o) \in Nat /\ Refs(ref', Live(top), o) \in Nat
        /\ lost'[o] \in Nat
    <3>1. Live(top) \in SUBSET Slots
      BY FramesAssumption DEF Live, Slots
    <3> QED BY <3>1, SlotSets
  <2>2. Refs(ref, Live(sp), o) + lost[o]
          = Refs(ref, dropped, o) + Refs(ref', Live(top), o) + lost'[o]
    OBVIOUS
  <2> QED BY <2>1, <2>2, CountFacts, VMAssumption
<1>2. used = {c \in Cells : rc[c] > 0}
  BY DEF CountInv, UsedIsCounted
<1> QED BY <1>1, <1>2, SettleKeeps

Same(o, p) == IF o = p THEN 1 ELSE 0

\* An instruction that makes one reference, to new.
LEMMA MakeKeeps ==
    ASSUME IInv, CountInv, state = "RUN", NEW new \in Objects,
           NEW counts,
           \A o \in Objects : counts[o] = rc[o] + Same(o, new),
           NEW cells \in SUBSET Cells,
           \A c \in Cells : c \in cells <=> c \in used \/ c = new,
           NEW dropped \in SUBSET Slots, NEW top \in 0..StackSize,
           Settle(counts, cells, dropped, top),
           Leaves(top),
           ref' \in [Slots -> Objects \cup {None}],
           lost' \in [Objects -> Nat],
           \A o \in Objects :
              Refs(ref, Live(sp), o) + lost[o] + Same(o, new)
                = Refs(ref, dropped, o) + Refs(ref', Live(top), o) + lost'[o]
    PROVE  VMTypeOK' /\ CountsAreExact' /\ NoDanglingReference' /\ UsedIsCounted'
<1>1. \A o \in Objects : counts[o] = rc[o] + Same(o, new)
  OBVIOUS
<1>2. ASSUME NEW o \in Objects
      PROVE  /\ counts[o] \in Nat /\ counts[o] < RcMod
             /\ counts[o] = Hold(o) + Refs(ref, dropped, o)
                              + Refs(ref', Live(top), o) + lost'[o]
  <2>1. /\ Refs(ref, dropped, o) \in Nat /\ Refs(ref', Live(top), o) \in Nat
        /\ lost'[o] \in Nat
    <3>1. Live(top) \in SUBSET Slots
      BY FramesAssumption DEF Live, Slots
    <3> QED BY <3>1, SlotSets
  <2>2. Refs(ref, Live(sp), o) + lost[o] + Same(o, new)
          = Refs(ref, dropped, o) + Refs(ref', Live(top), o) + lost'[o]
    OBVIOUS
  <2>3. Same(o, new) \in {0, 1}
    BY DEF Same
  <2>4. /\ rc[o] = Hold(o) + Refs(ref, Live(sp), o) + lost[o]
        /\ Refs(ref, Live(sp), o) \in Nat /\ Hold(o) \in {0, 1}
        /\ lost[o] \in Nat /\ rc[o] \in Nat /\ rc[o] + 1 < RcMod
        /\ RcMod \in Nat
    BY CountFacts, VMAssumption
  <2>5. counts[o] = rc[o] + Same(o, new)
    BY <1>1
  <2> QED BY <2>1, <2>2, <2>3, <2>4, <2>5
<1>3. cells = {c \in Cells : counts[c] > 0}
  <2>1. used = {c \in Cells : rc[c] > 0}
    BY DEF CountInv, UsedIsCounted
  <2>2. \A c \in Cells : c \in Objects /\ rc[c] \in Nat
    BY CountFacts DEF Objects
  <2> QED BY <1>1, <2>1, <2>2 DEF Same
<1> QED BY <1>2, <1>3, SettleKeeps
-----------------------------------------------------------------------------
LEMMA LiveTop ==
    ASSUME NEW s \in Nat, s < StackSize, NEW r, NEW o
    PROVE  /\ Refs(r, Live(s), o) = (IF r[s] = o THEN 1 ELSE 0)
                                      + Refs(r, Live(s + 1), o)
           /\ Refs(r, Live(s + 1), o) \in Nat
<1> DEFINE t == s + 1
<1>1. t \in Nat /\ s <= t /\ t <= StackSize /\ s..(t - 1) = {s}
  BY FramesAssumption
<1> HIDE DEF t
<1>2. /\ Refs(r, Live(s), o) = Refs(r, s..(t - 1), o) + Refs(r, Live(t), o)
      /\ Refs(r, Live(t), o) \in Nat
  BY <1>1, LiveRefs
<1>3. Refs(r, {s}, o) = IF r[s] = o THEN 1 ELSE 0
  BY RefsOne
<1>4. Refs(r, s..(t - 1), o) = Refs(r, {s}, o)
  BY <1>1, Zenon
<1> QED BY <1>2, <1>3, <1>4 DEF t

LEMMA RefsEmpty == \A r, o : Refs(r, {}, o) = 0
BY RefsNone

\* No reference is lost unless Lose or an overflow says so.
LEMMA NothingLost ==
    ASSUME IInv, CountInv, state = "RUN", lost' = lost
    PROVE  LostIsBounded' /\ lost' \in [Objects -> Nat]
<1>1. \A o \in Objects : lost[o] \in 0..MaxLost
  BY CountFacts
<1>2. MaxLost \in Nat
  BY VMAssumption
<1> QED BY <1>1, <1>2 DEF LostIsBounded, CountInv, VMTypeOK

LEMMA EnterKeeps ==
    ASSUME IInv, CountInv, CleanLocals, EnterFunction PROVE CountInv'
<1> DEFINE n == LocalsCount[fn]
           top == sp - n
<1>1. /\ Enter /\ state = "RUN" /\ sp >= n /\ UNCHANGED <<ref, lost>>
      /\ Settle(rc, used, {}, top)
      /\ \A k \in Slots : top <= k /\ k < sp => ref[k] = None
  BY DEF EnterFunction, Enter
<1>2. sp \in Nat /\ StackSize \in Nat /\ sp <= StackSize /\ n \in Nat
  BY <1>1, FrameBounds
<1>3. top \in Nat /\ top \in 0..StackSize /\ top <= sp
  BY <1>1, <1>2
<1>4. Leaves(top)
  BY <1>1 DEF Enter, Continue, Stop, Leaves
<1>5. ASSUME NEW o \in Objects
      PROVE  Refs(ref, Live(sp), o) + lost[o]
               = Refs(ref, {}, o) + Refs(ref', Live(top), o) + lost'[o]
  <2>1. o # None
    BY VMAssumption
  <2>2. Refs(ref, top..(sp - 1), o) = 0
    <3>1. \A k \in top..(sp - 1) : ref[k] # o
      BY <1>1, <1>2, <1>3, <2>1 DEF Slots
    <3> QED BY <3>1, RefsNone
  <2>3. /\ Refs(ref, Live(top), o) = Refs(ref, top..(sp - 1), o) + Refs(ref, Live(sp), o)
        /\ Refs(ref, Live(sp), o) \in Nat
    BY <1>2, <1>3, LiveRefs
  <2>4. Refs(ref', Live(top), o) = Refs(ref, Live(top), o) /\ lost'[o] = lost[o]
    BY <1>1
  <2>5. Refs(ref, {}, o) = 0 /\ lost[o] \in Nat
    BY RefsEmpty DEF CountInv, VMTypeOK
  <2> HIDE DEF top
  <2> QED BY <2>2, <2>3, <2>4, <2>5
<1>6. LostIsBounded' /\ lost' \in [Objects -> Nat]
  BY <1>1, NothingLost
<1>7. ref' \in [Slots -> Objects \cup {None}]
  BY <1>1 DEF CountInv, VMTypeOK
<1> HIDE DEF top
<1> QED BY <1>1, <1>3, <1>4, <1>5, <1>6, <1>7, MoveKeeps DEF CountInv

LEMMA PushKeeps ==
    ASSUME IInv, CountInv, state = "RUN", sp > 0,
           NEW new \in Consts \cup used \cup {None}, Pushed(new),
           Leaves(sp - 1)
    PROVE  CountInv'
<1> DEFINE top == sp - 1
<1>1. sp \in Nat /\ StackSize \in Nat /\ sp <= StackSize
  BY FrameBounds
<1>2. top \in Nat /\ top \in 0..StackSize /\ top < StackSize /\ top + 1 = sp
      /\ top \in Slots
  BY <1>1 DEF Slots
<1>3. /\ ref' = [ref EXCEPT ![top] = new] /\ lost' = lost
      /\ Settle(Referenced(new), used, {}, top)
      /\ Leaves(top)
  BY DEF Pushed
<1>4. new \in Objects \cup {None} /\ ref \in [Slots -> Objects \cup {None}]
  BY DEF CountInv, VMTypeOK, Objects
<1> HIDE DEF top
<1>5. ref' \in [Slots -> Objects \cup {None}] /\ ref'[top] = new
      /\ \A k \in Live(sp) : ref'[k] = ref[k]
  BY <1>1, <1>2, <1>3, <1>4 DEF Live, Slots
<1>6. LostIsBounded' /\ lost' \in [Objects -> Nat]
  BY <1>3, NothingLost
<1>7. ASSUME NEW o \in Objects
      PROVE  /\ Refs(ref', Live(top), o) = (IF new = o THEN 1 ELSE 0)
                                              + Refs(ref, Live(sp), o)
             /\ Refs(ref, Live(sp), o) \in Nat /\ Refs(ref, {}, o) = 0
             /\ lost'[o] = lost[o] /\ lost[o] \in Nat
  <2>1. Refs(ref', Live(sp), o) = Refs(ref, Live(sp), o)
    BY <1>5, RefsAgree
  <2>2. /\ Refs(ref', Live(top), o) = (IF ref'[top] = o THEN 1 ELSE 0)
                                        + Refs(ref', Live(top + 1), o)
        /\ Refs(ref', Live(top + 1), o) \in Nat
    BY <1>2, LiveTop
  <2> QED BY <1>2, <1>3, <1>5, <2>1, <2>2, RefsEmpty DEF CountInv, VMTypeOK
<1>8. CASE new = None
  <2>1. Settle(rc, used, {}, top)
    BY <1>3, <1>8 DEF Referenced
  <2>2. ASSUME NEW o \in Objects
        PROVE  Refs(ref, Live(sp), o) + lost[o]
                 = Refs(ref, {}, o) + Refs(ref', Live(top), o) + lost'[o]
    BY <1>7, <1>8, VMAssumption
  <2>3. VMTypeOK' /\ CountsAreExact' /\ NoDanglingReference' /\ UsedIsCounted'
    BY <1>2, <1>3, <1>5, <1>6, <2>1, <2>2, MoveKeeps
  <2> QED BY <1>6, <2>3 DEF CountInv
<1>9. CASE new # None
  <2>1. new \in Objects
    BY <1>4, <1>9
  <2> DEFINE counts == Referenced(new)
  <2>2. \A o \in Objects : counts[o] = rc[o] + Same(o, new)
    <3>1. counts = [rc EXCEPT ![new] = @ + 1]
      BY <1>9 DEF Referenced
    <3> QED BY <2>1, <3>1, CountFacts DEF Same, CountInv, VMTypeOK
  <2>3. used \in SUBSET Cells /\ \A c \in Cells : c \in used <=> c \in used \/ c = new
    BY <1>9, VMAssumption DEF CountInv, VMTypeOK
  <2>4. Settle(counts, used, {}, top)
    BY <1>3
  <2>5. ASSUME NEW o \in Objects
        PROVE  Refs(ref, Live(sp), o) + lost[o] + Same(o, new)
                 = Refs(ref, {}, o) + Refs(ref', Live(top), o) + lost'[o]
    BY <1>7 DEF Same
  <2> HIDE DEF counts
  <2>6. /\ {} \in SUBSET Slots /\ top \in 0..StackSize /\ Leaves(top)
        /\ lost' \in [Objects -> Nat] /\ ref' \in [Slots -> Objects \cup {None}]
    BY <1>2, <1>3, <1>5, <1>6
  <2>7. VMTypeOK' /\ CountsAreExact' /\ NoDanglingReference' /\ UsedIsCounted'
    BY <2>1, <2>2, <2>3, <2>4, <2>5, <2>6, MakeKeeps
  <2> QED BY <1>6, <2>7 DEF CountInv
<1> QED BY <1>8, <1>9

\* What every instruction but CALL starts from.
LEMMA Opening ==
    ASSUME IInv, CountInv, Running, NEW n \in Nat, Depth >= n
    PROVE  /\ state = "RUN" /\ sp \in Nat /\ StackSize \in Nat
           /\ sp + n \in Nat /\ sp + n <= Top - LocalsCount[fn]
           /\ Top \in Nat /\ Top <= StackSize /\ LocalsCount[fn] \in Nat
           /\ sp + n <= StackSize
           /\ ref \in [Slots -> Objects \cup {None}]
           /\ lost \in [Objects -> Nat]
<1>1. state = "RUN"
  BY DEF Running
<1> QED BY <1>1, FrameBounds DEF Depth, CountInv, VMTypeOK

LEMMA OperateFacts ==
    ASSUME NEW pops, NEW pushes, NEW t, Operate(pops, pushes, t)
    PROVE  Running /\ Depth >= pops /\ sp + pops >= pushes
           /\ Leaves(sp + pops - pushes)
<1>1. Running /\ Depth >= pops /\ sp + pops >= pushes
      /\ Continue(sp + pops - pushes, callers, fn, t)
  BY DEF Operate
<1> HIDE DEF Operate
<1> QED BY <1>1 DEF Continue, Stop, Leaves, Running

LEMMA StoreKeeps ==
    ASSUME IInv, CountInv, NEW k \in LocalSlots, Store(k) PROVE CountInv'
<1> DEFINE top == sp + 1
<1>1. /\ Running /\ Depth >= 1 /\ ref' = [ref EXCEPT ![k] = ref[sp]]
      /\ lost' = lost /\ Settle(rc, used, {k}, top)
  BY DEF Store, StoreInto
<1>2. Leaves(top)
  BY <1>1 DEF Store, StoreInto, Continue, Stop, Leaves, Running
<1>3. /\ state = "RUN" /\ sp \in Nat /\ StackSize \in Nat /\ top \in Nat
      /\ sp < StackSize /\ top <= StackSize /\ sp \in Slots
      /\ top <= Top - LocalsCount[fn] /\ Top \in Nat /\ LocalsCount[fn] \in Nat
      /\ ref \in [Slots -> Objects \cup {None}]
  BY <1>1, Opening DEF Slots
<1>4. k \in Slots /\ k \in Live(top) /\ {k} \in SUBSET Slots
  <2>1. Top - LocalsCount[fn] <= k /\ k < Top
    BY <1>1, LocalsBelowTop
  <2>2. k \in Slots
    BY DEF LocalSlots
  <2>3. k \in 0..(StackSize - 1) /\ top <= k
    BY <1>3, <2>1, <2>2 DEF Slots
  <2> QED BY <1>3, <2>2, <2>3 DEF Live
<1>5. ref' \in [Slots -> Objects \cup {None}]
  BY <1>1, <1>3
<1>6. LostIsBounded' /\ lost' \in [Objects -> Nat]
  BY <1>1, <1>3, NothingLost
<1>7. ASSUME NEW o \in Objects
      PROVE  Refs(ref, Live(sp), o) + lost[o]
               = Refs(ref, {k}, o) + Refs(ref', Live(top), o) + lost'[o]
  <2> DEFINE rest == Live(top) \ {k}
  <2>1. /\ rest \in SUBSET Slots /\ {k} \cup rest = Live(top) /\ {k} \cap rest = {}
    BY <1>3, <1>4 DEF Live, Slots
  <2>2. \A j \in rest : ref'[j] = ref[j]
    BY <1>1, <1>3, <2>1
  <2> HIDE DEF rest
  <2>3. /\ Refs(ref, Live(top), o) = Refs(ref, {k}, o) + Refs(ref, rest, o)
        /\ Refs(ref', Live(top), o) = Refs(ref', {k}, o) + Refs(ref', rest, o)
    BY <1>4, <2>1, RefsSplit
  <2>4. Refs(ref', rest, o) = Refs(ref, rest, o)
    BY <2>2, RefsAgree
  <2>5. ref'[k] = ref[sp]
    BY <1>1, <1>3, <1>4
  <2>6. Refs(ref', {k}, o) = IF ref[sp] = o THEN 1 ELSE 0
    BY <2>5, RefsOne
  <2>7. /\ Refs(ref, Live(sp), o) = (IF ref[sp] = o THEN 1 ELSE 0)
                                     + Refs(ref, Live(top), o)
        /\ Refs(ref, Live(top), o) \in Nat
    BY <1>3, LiveTop
  <2>8. Refs(ref, {k}, o) \in Nat /\ Refs(ref, rest, o) \in Nat
    BY <1>4, <2>1, SlotSets
  <2>9. lost'[o] = lost[o] /\ lost[o] \in Nat
    BY <1>1 DEF CountInv, VMTypeOK
  <2> HIDE DEF top
  <2> QED BY <2>3, <2>4, <2>6, <2>7, <2>8, <2>9
<1>8. top \in 0..StackSize
  BY <1>3
<1> HIDE DEF top
<1>9. VMTypeOK' /\ CountsAreExact' /\ NoDanglingReference' /\ UsedIsCounted'
  BY <1>1, <1>2, <1>3, <1>4, <1>5, <1>6, <1>7, <1>8, MoveKeeps
<1> QED BY <1>6, <1>9 DEF CountInv

LEMMA ConsumeKeeps ==
    ASSUME IInv, CountInv, NEW pops \in Nat, NEW pushes \in {0, 1}, pushes <= pops,
           NEW t, Consume(pops, pushes, t)
    PROVE  CountInv'
<1>0. /\ Operate(pops, pushes, t)
      /\ ref' = IF pushes = 0 THEN ref ELSE [ref EXCEPT ![sp + pops - 1] = None]
      /\ lost' = lost
      /\ Settle(rc, used, Slots \cap (sp..(sp + pops - 1)), sp + pops - pushes)
  BY DEF Consume
<1>1. Running /\ Depth >= pops /\ Leaves(sp + pops - pushes)
  BY <1>0, OperateFacts
<1>2. /\ state = "RUN" /\ sp \in Nat /\ StackSize \in Nat /\ sp + pops \in Nat
      /\ sp + pops <= StackSize /\ ref \in [Slots -> Objects \cup {None}]
  BY <1>1, Opening
<1> DEFINE past == sp + pops
           top == past - pushes
           popped == sp..(past - 1)
<1>3. /\ past \in Nat /\ sp <= past /\ past <= StackSize
      /\ top \in 0..StackSize /\ top \in Nat
      /\ (pushes = 1 => top = past - 1 /\ top < StackSize /\ top + 1 = past)
      /\ (pushes = 0 => top = past)
  BY <1>2
<1>4. /\ ref' = (IF pushes = 0 THEN ref ELSE [ref EXCEPT ![past - 1] = None])
      /\ Settle(rc, used, Slots \cap popped, top) /\ Leaves(top)
  <2>1. past = sp + pops /\ top = past - pushes /\ popped = sp..(past - 1)
    OBVIOUS
  <2> HIDE DEF past, top, popped
  <2>2. past - 1 = sp + pops - 1 /\ top = sp + pops - pushes
    BY <1>2, <2>1
  <2>3. ref' = (IF pushes = 0 THEN ref ELSE [ref EXCEPT ![past - 1] = None])
    BY <1>0, <2>2, Zenon
  <2>4. Settle(rc, used, Slots \cap popped, top)
    BY <1>0, <2>1, <2>2, Zenon
  <2>5. Leaves(top)
    BY <1>1, <2>2, Zenon
  <2> QED BY <2>3, <2>4, <2>5
<1>5. Slots \cap popped = popped /\ popped \in SUBSET Slots
  BY <1>2, <1>3, LiveSplit
<1>6. ref' \in [Slots -> Objects \cup {None}]
  BY <1>2, <1>4
<1>7. LostIsBounded' /\ lost' \in [Objects -> Nat]
  BY <1>0, <1>2, NothingLost
<1> HIDE DEF past, top
<1>8. ASSUME NEW o \in Objects
      PROVE  Refs(ref, Live(sp), o) + lost[o]
               = Refs(ref, popped, o) + Refs(ref', Live(top), o) + lost'[o]
  <2>1. /\ Refs(ref, Live(sp), o) = Refs(ref, popped, o) + Refs(ref, Live(past), o)
        /\ Refs(ref, popped, o) \in Nat /\ Refs(ref, Live(past), o) \in Nat
    BY <1>2, <1>3, LiveRefs
  <2>2. Refs(ref', Live(top), o) = Refs(ref, Live(past), o)
    <3>1. CASE pushes = 0
      BY <1>3, <1>4, <3>1
    <3>2. CASE pushes = 1
      <4>1. ref' = [ref EXCEPT ![top] = None] /\ top \in Slots
        <5>1. top \in Slots /\ past - 1 = top
          BY <1>2, <1>3, <3>2 DEF Slots
        <5>2. ref' = [ref EXCEPT ![past - 1] = None]
          BY <1>4, <3>2
        <5> QED BY <5>1, <5>2
      <4>2. ref'[top] # o /\ \A j \in Live(past) : ref'[j] = ref[j]
        BY <1>2, <1>3, <3>2, <4>1, VMAssumption DEF Live, Slots
      <4>3. Refs(ref', Live(past), o) = Refs(ref, Live(past), o)
        BY <4>2, RefsAgree
      <4>4. /\ Refs(ref', Live(top), o) = (IF ref'[top] = o THEN 1 ELSE 0)
                                            + Refs(ref', Live(top + 1), o)
            /\ Refs(ref', Live(top + 1), o) \in Nat
        BY <1>3, <3>2, LiveTop
      <4> QED BY <1>3, <3>2, <4>2, <4>3, <4>4
    <3> QED BY <3>1, <3>2
  <2>3. lost'[o] = lost[o] /\ lost[o] \in Nat
    BY <1>0 DEF CountInv, VMTypeOK
  <2> HIDE DEF popped
  <2> QED BY <2>1, <2>2, <2>3
<1> HIDE DEF popped
<1>9. Settle(rc, used, popped, top)
  BY <1>4, <1>5
<1>10. VMTypeOK' /\ CountsAreExact' /\ NoDanglingReference' /\ UsedIsCounted'
  BY <1>2, <1>3, <1>4, <1>5, <1>6, <1>7, <1>8, <1>9, MoveKeeps
<1> QED BY <1>7, <1>10 DEF CountInv
-----------------------------------------------------------------------------
\* Lose drops the references in S from the slots in use without releasing them.
LEMMA LoseFacts ==
    ASSUME CountInv, NEW S \in SUBSET Slots, Lose(S)
    PROVE  /\ lost' \in [Objects -> Nat]
           /\ \A o \in Objects : /\ lost'[o] = lost[o] + Refs(ref, S, o)
                                 /\ lost[o] \in Nat /\ Refs(ref, S, o) \in Nat
<1>1. \A o \in Objects : lost[o] \in Nat /\ Refs(ref, S, o) \in Nat
  BY SlotSets DEF CountInv, VMTypeOK
<1>2. lost' = [o \in Objects |-> lost[o] + Refs(ref, S, o)]
  BY DEF Lose
<1>3. \A o \in Objects : lost[o] + Refs(ref, S, o) \in Nat
  BY <1>1
<1> QED BY <1>1, <1>2, <1>3

LEMMA ConcatKeeps ==
    ASSUME IInv, CountInv, NEW c \in Cells, Concat(c) PROVE CountInv'
<1> DEFINE s == sp + 1
           t == sp + 2
           counts == [rc EXCEPT ![c] = 1]
           cells == used \cup {c}
<1>1. /\ Operate(2, 1, ip + 1) /\ c \notin used /\ lost' = lost
      /\ ref' = [ref EXCEPT ![s] = c]
      /\ Settle(counts, cells, {sp, s}, s)
  BY DEF Concat
<1>2. Running /\ Depth >= 2 /\ Leaves(sp + 2 - 1)
  BY <1>1, OperateFacts
<1>3. /\ state = "RUN" /\ sp \in Nat /\ StackSize \in Nat
      /\ sp + 2 <= StackSize /\ ref \in [Slots -> Objects \cup {None}]
  BY <1>2, Opening
<1>4. /\ s \in Nat /\ t \in Nat /\ t = s + 1 /\ sp + 2 - 1 = s
      /\ sp < StackSize /\ s < StackSize /\ t <= StackSize /\ sp <= t
      /\ s \in Slots /\ sp \in Slots /\ s \in 0..StackSize
      /\ {sp, s} \in SUBSET Slots
      /\ {sp, s} = sp..(t - 1)
  BY <1>3 DEF Slots
<1>5. Leaves(s)
  BY <1>2, <1>4
<1>6. LostIsBounded' /\ lost' \in [Objects -> Nat]
  BY <1>1, <1>3, NothingLost
<1>7. c \in Objects /\ rc[c] = 0
  <2>1. c \in Objects
    BY DEF Objects
  <2> QED BY <1>1, <1>3, <2>1, CountFacts DEF CountInv, UsedIsCounted
<1>8. \A o \in Objects : counts[o] = rc[o] + Same(o, c)
  BY <1>3, <1>7, CountFacts DEF Same, CountInv, VMTypeOK
<1>9. cells \in SUBSET Cells /\ \A d \in Cells : d \in cells <=> d \in used \/ d = c
  BY DEF CountInv, VMTypeOK
<1> HIDE DEF s, t, counts, cells
<1>10. ref' \in [Slots -> Objects \cup {None}]
  BY <1>1, <1>3, <1>4, <1>7
<1>11. ASSUME NEW o \in Objects
       PROVE  Refs(ref, Live(sp), o) + lost[o] + Same(o, c)
                = Refs(ref, {sp, s}, o) + Refs(ref', Live(s), o) + lost'[o]
  <2>1. /\ Refs(ref, Live(sp), o) = Refs(ref, {sp, s}, o) + Refs(ref, Live(t), o)
        /\ Refs(ref, {sp, s}, o) \in Nat /\ Refs(ref, Live(t), o) \in Nat
    <3>1. /\ Refs(ref, Live(sp), o) = Refs(ref, sp..(t - 1), o) + Refs(ref, Live(t), o)
          /\ Refs(ref, sp..(t - 1), o) \in Nat /\ Refs(ref, Live(t), o) \in Nat
      BY <1>3, <1>4, LiveRefs
    <3> QED BY <1>4, <3>1, Zenon
  <2>2. ref'[s] = c /\ \A k \in Live(t) : ref'[k] = ref[k]
    BY <1>1, <1>3, <1>4 DEF Live, Slots
  <2>3. Refs(ref', Live(t), o) = Refs(ref, Live(t), o)
    BY <2>2, RefsAgree
  <2>4. Refs(ref', Live(s), o) = (IF ref'[s] = o THEN 1 ELSE 0) + Refs(ref', Live(t), o)
    BY <1>4, LiveTop
  <2>5. lost'[o] = lost[o] /\ lost[o] \in Nat
    BY <1>1 DEF CountInv, VMTypeOK
  <2>6. Same(o, c) = IF ref'[s] = o THEN 1 ELSE 0
    BY <2>2 DEF Same
  <2> QED BY <2>1, <2>3, <2>4, <2>5, <2>6
<1>12. /\ state = "RUN" /\ c \in Objects /\ cells \in SUBSET Cells
       /\ {sp, s} \in SUBSET Slots /\ s \in 0..StackSize
       /\ Settle(counts, cells, {sp, s}, s)
  BY <1>1, <1>3, <1>4, <1>7, <1>9
<1>13. VMTypeOK' /\ CountsAreExact' /\ NoDanglingReference' /\ UsedIsCounted'
  BY <1>5, <1>6, <1>8, <1>9, <1>10, <1>11, <1>12, MakeKeeps
<1> QED BY <1>6, <1>13 DEF CountInv

\* A reference lost from the slot on top, while the script runs.
LEMMA LoseTop ==
    ASSUME IInv, CountInv, state = "RUN", sp \in Slots, Lose({sp}),
           ref[sp] # None => lost[ref[sp]] < MaxLost
    PROVE  LostIsBounded'
<1>1. ASSUME NEW o \in Objects PROVE lost'[o] \in 0..MaxLost
  <2>1. /\ lost'[o] = lost[o] + Refs(ref, {sp}, o)
    BY LoseFacts
  <2>2. Refs(ref, {sp}, o) = IF ref[sp] = o THEN 1 ELSE 0
    BY RefsOne
  <2>3. lost[o] \in 0..MaxLost /\ MaxLost \in Nat /\ o # None
    BY CountFacts, VMAssumption
  <2> QED BY <2>1, <2>2, <2>3
<1> QED BY <1>1, VMAssumption DEF LostIsBounded

\* The slot on top gives way to new, its reference lost.
LEMMA Replaced ==
    ASSUME IInv, CountInv, state = "RUN", sp \in Slots, Lose({sp}),
           NEW new, ref'[sp] = new, \A k \in Slots \ {sp} : ref'[k] = ref[k],
           NEW o \in Objects
    PROVE  Refs(ref, Live(sp), o) + lost[o] + Same(o, new)
             = Refs(ref', Live(sp), o) + lost'[o]
<1>1. sp \in Nat /\ sp < StackSize /\ ref \in [Slots -> Objects \cup {None}]
      /\ StackSize \in Nat /\ {sp} \in SUBSET Slots
  BY FrameBounds DEF CountInv, VMTypeOK, Slots
<1> DEFINE t == sp + 1
<1>2. t \in Nat /\ t <= StackSize /\ t > sp
  BY <1>1
<1>3. /\ Refs(ref, Live(sp), o) = (IF ref[sp] = o THEN 1 ELSE 0) + Refs(ref, Live(t), o)
      /\ Refs(ref, Live(t), o) \in Nat
  BY <1>1, LiveTop
<1>9. Refs(ref', Live(sp), o) = (IF ref'[sp] = o THEN 1 ELSE 0) + Refs(ref', Live(t), o)
  BY <1>1, LiveTop
<1> HIDE DEF t
<1>4. ref'[sp] = new
  OBVIOUS
<1>10. \A k \in Live(t) : ref'[k] = ref[k]
  BY <1>1, <1>2 DEF Live, Slots
<1>5. Refs(ref', Live(t), o) = Refs(ref, Live(t), o)
  BY <1>10, RefsAgree
<1>6. Refs(ref, {sp}, o) = IF ref[sp] = o THEN 1 ELSE 0
  BY RefsOne
<1>7. lost'[o] = lost[o] + Refs(ref, {sp}, o) /\ lost[o] \in Nat
  BY <1>1, LoseFacts
<1>8. Same(o, new) = IF ref'[sp] = o THEN 1 ELSE 0
  BY <1>4 DEF Same
<1> QED BY <1>3, <1>5, <1>6, <1>7, <1>8, <1>9

\* What the slot on top holds after it has been written over.
LEMMA TopWritten ==
    ASSUME sp \in Slots, ref \in [Slots -> Objects \cup {None}],
           NEW new \in Objects \cup {None}, ref' = [ref EXCEPT ![sp] = new]
    PROVE  /\ ref' \in [Slots -> Objects \cup {None}]
           /\ ref'[sp] = new
           /\ \A k \in Slots \ {sp} : ref'[k] = ref[k]
OBVIOUS

LEMMA ApiKeeps ==
    ASSUME IInv, CountInv, ApiOnIntegers, NEW result \in Cells \cup {None},
           CallApi(result)
    PROVE  CountInv'
<1> DEFINE s == sp + 1
           counts == [rc EXCEPT ![result] = 1]
           cells == used \cup {result}
<1>1. /\ Depth >= 2 /\ Operate(1, 1, ip + 1) /\ Lose({sp})
      /\ ref[sp] # None => lost[ref[sp]] < MaxLost
      /\ ref[s] = None
      /\ ref' = [ref EXCEPT ![sp] = result]
      /\ result = None => Settle(rc, used, {s}, sp)
      /\ result # None => result \notin used /\ Settle(counts, cells, {}, sp)
  BY DEF CallApi
<1>2. Running /\ Leaves(sp + 1 - 1)
  BY <1>1, OperateFacts
<1>3. /\ state = "RUN" /\ sp \in Nat /\ StackSize \in Nat
      /\ sp + 2 <= StackSize /\ ref \in [Slots -> Objects \cup {None}]
  BY <1>1, <1>2, Opening
<1>4. /\ sp \in Slots /\ s \in Slots /\ sp \in 0..StackSize /\ sp + 1 - 1 = sp
      /\ {sp} \in SUBSET Slots /\ {s} \in SUBSET Slots
  BY <1>3 DEF Slots
<1>5. Leaves(sp)
  BY <1>2, <1>4
<1>6. result \in Objects \cup {None}
  BY DEF Objects
<1>7. LostIsBounded'
  BY <1>1, <1>3, <1>4, LoseTop
<1>8. lost' \in [Objects -> Nat]
  BY <1>1, <1>4, LoseFacts
<1>9. /\ ref' \in [Slots -> Objects \cup {None}] /\ ref'[sp] = result
      /\ \A k \in Slots \ {sp} : ref'[k] = ref[k]
  BY <1>1, <1>3, <1>4, <1>6, TopWritten
<1>10. ASSUME NEW o \in Objects
       PROVE  Refs(ref, Live(sp), o) + lost[o] + Same(o, result)
                = Refs(ref', Live(sp), o) + lost'[o]
  BY <1>1, <1>3, <1>4, <1>9, Replaced
<1>11. ASSUME NEW o \in Objects
       PROVE  /\ Refs(ref', Live(sp), o) + lost'[o] \in Nat
              /\ Refs(ref', Live(sp), o) \in Nat /\ lost'[o] \in Nat
              /\ Refs(ref, Live(sp), o) \in Nat /\ lost[o] \in Nat
  <2>1. Live(sp) \in SUBSET Slots
    BY <1>3 DEF Live, Slots
  <2>2. lost'[o] \in Nat /\ lost[o] \in Nat
    BY <1>8 DEF CountInv, VMTypeOK
  <2>3. Refs(ref', Live(sp), o) \in Nat /\ Refs(ref, Live(sp), o) \in Nat
    BY <2>1, SlotSets
  <2> QED BY <2>2, <2>3
<1> HIDE DEF s, counts, cells
<1>12. CASE result = None
  <2>1. ASSUME NEW o \in Objects
        PROVE  Refs(ref, Live(sp), o) + lost[o]
                 = Refs(ref, {s}, o) + Refs(ref', Live(sp), o) + lost'[o]
    <3>1. Refs(ref, {s}, o) = 0
      <4>1. ref[s] # o
        BY <1>1, VMAssumption
      <4> QED BY <4>1, RefsNone
    <3>2. Same(o, result) = 0
      BY <1>12, VMAssumption DEF Same
    <3> QED BY <3>1, <3>2, <1>10, <1>11
  <2>2. Settle(rc, used, {s}, sp)
    BY <1>1, <1>12
  <2>3. VMTypeOK' /\ CountsAreExact' /\ NoDanglingReference' /\ UsedIsCounted'
    BY <1>3, <1>4, <1>5, <1>8, <1>9, <2>1, <2>2, MoveKeeps
  <2> QED BY <1>7, <2>3 DEF CountInv
<1>13. CASE result # None
  <2>1. result \in Objects /\ result \in Cells /\ result \notin used
        /\ Settle(counts, cells, {}, sp)
    BY <1>1, <1>6, <1>13
  <2>2. rc[result] = 0
    BY <1>3, <2>1, CountFacts DEF CountInv, UsedIsCounted
  <2>3. \A o \in Objects : counts[o] = rc[o] + Same(o, result)
    BY <1>3, <2>1, <2>2, CountFacts DEF Same, CountInv, VMTypeOK, counts
  <2>4. cells \in SUBSET Cells
        /\ \A d \in Cells : d \in cells <=> d \in used \/ d = result
    BY <2>1 DEF CountInv, VMTypeOK, cells
  <2>5. ASSUME NEW o \in Objects
        PROVE  Refs(ref, Live(sp), o) + lost[o] + Same(o, result)
                 = Refs(ref, {}, o) + Refs(ref', Live(sp), o) + lost'[o]
    <3>1. Refs(ref, {}, o) = 0
      BY RefsEmpty
    <3> QED BY <3>1, <1>10, <1>11
  <2>6. {} \in SUBSET Slots
    OBVIOUS
  <2>7. VMTypeOK' /\ CountsAreExact' /\ NoDanglingReference' /\ UsedIsCounted'
    BY <1>3, <1>4, <1>5, <1>8, <1>9, <2>1, <2>3, <2>4, <2>5, <2>6, MakeKeeps
  <2> QED BY <1>7, <2>7 DEF CountInv
<1> QED BY <1>12, <1>13

\* An instruction that drops and makes no reference leaves counters and pool.
LEMMA NothingSettled ==
    ASSUME IInv, CountInv, state = "RUN", state' = "RUN", UNCHANGED <<rc, used>>,
           NEW top
    PROVE  Settle(rc, used, {}, top)
<1> DEFINE drops == [o \in Objects |-> Refs(ref, {}, o)
                       + IF state' = "RUN" THEN 0 ELSE Refs(ref', Live(top), o)]
<1>1. ASSUME NEW o \in Objects PROVE drops[o] = 0
  BY RefsEmpty
<1> HIDE DEF drops
<1>2. ASSUME NEW o \in Objects
      PROVE  /\ rc[o] = (rc[o] - drops[o]) % RcMod
             /\ ~(rc[o] > 0 /\ drops[o] >= rc[o])
  <2>1. rc[o] \in Nat /\ rc[o] < RcMod /\ RcMod \in Nat \ {0}
    BY CountFacts, VMAssumption
  <2>2. \A x \in 0..(RcMod - 1) : x % RcMod = x
    BY <2>1
  <2> QED BY <1>1, <2>1, <2>2
<1>3. rc' = [o \in Objects |-> (rc[o] - drops[o]) % RcMod]
  BY <1>2 DEF CountInv, VMTypeOK
<1>4. \A c \in Cells : ~(rc[c] > 0 /\ drops[c] >= rc[c])
  BY <1>2 DEF Objects
<1>5. used' = used \ {o \in Cells : rc[o] > 0 /\ drops[o] >= rc[o]}
  BY <1>4
<1> QED BY <1>3, <1>5 DEF Settle, drops

LEMMA CallKeeps ==
    ASSUME IInv, CountInv, NEW g \in Functions, CallFunction(g) PROVE CountInv'
<1>1. /\ Running /\ Depth >= 1 /\ Lose({sp}) /\ UNCHANGED <<rc, used, sp, state>>
      /\ ref[sp] # None => lost[ref[sp]] < MaxLost
      /\ ref' = [ref EXCEPT ![sp] = None]
  BY DEF CallFunction, Call
<1>2. /\ state = "RUN" /\ sp \in Nat /\ StackSize \in Nat /\ sp < StackSize
      /\ ref \in [Slots -> Objects \cup {None}]
  BY <1>1, Opening
<1>3. /\ sp \in Slots /\ sp \in 0..StackSize /\ {sp} \in SUBSET Slots
      /\ Live(sp) \in SUBSET Slots
  BY <1>2 DEF Slots, Live
<1>4. state' = "RUN" /\ Leaves(sp)
  BY <1>1, <1>2 DEF Leaves
<1>5. LostIsBounded'
  BY <1>1, <1>2, <1>3, LoseTop
<1>6. lost' \in [Objects -> Nat]
  BY <1>1, <1>3, LoseFacts
<1>7. /\ ref' \in [Slots -> Objects \cup {None}] /\ ref'[sp] = None
      /\ \A k \in Slots \ {sp} : ref'[k] = ref[k]
  BY <1>1, <1>2, <1>3, TopWritten
<1>8. ASSUME NEW o \in Objects
      PROVE  Refs(ref, Live(sp), o) + lost[o]
               = Refs(ref, {}, o) + Refs(ref', Live(sp), o) + lost'[o]
  <2>1. Refs(ref, Live(sp), o) + lost[o] + Same(o, None)
          = Refs(ref', Live(sp), o) + lost'[o]
    BY <1>1, <1>2, <1>3, <1>7, Replaced
  <2>2. Same(o, None) = 0
    BY VMAssumption DEF Same
  <2>3. lost'[o] \in Nat /\ lost[o] \in Nat
    BY <1>6 DEF CountInv, VMTypeOK
  <2>4. Refs(ref', Live(sp), o) \in Nat /\ Refs(ref, Live(sp), o) \in Nat
    BY <1>3, SlotSets
  <2>5. Refs(ref, {}, o) = 0
    BY RefsEmpty
  <2> QED BY <2>1, <2>2, <2>3, <2>4, <2>5
<1>9. Settle(rc, used, {}, sp) /\ {} \in SUBSET Slots
  BY <1>1, <1>2, <1>4, NothingSettled
<1>10. VMTypeOK' /\ CountsAreExact' /\ NoDanglingReference' /\ UsedIsCounted'
  BY <1>2, <1>3, <1>4, <1>6, <1>7, <1>8, <1>9, MoveKeeps
<1> QED BY <1>5, <1>10 DEF CountInv

\* The frame OP_RET leaves: the result, the locals it releases, the rest.
LEMMA ReturnSplit ==
    ASSUME IInv, CountInv, Returns, Returning <= StackSize
    PROVE  /\ state = "RUN" /\ sp \in Slots /\ sp \in Nat /\ StackSize \in Nat
           /\ Returning \in Nat /\ sp < Returning
           /\ Released \in SUBSET Slots
           /\ Released = (sp + 1)..(Returning - 1)
           /\ \A o \in Objects :
                 /\ Refs(ref, Live(sp), o) = Refs(ref, {sp}, o)
                      + Refs(ref, Released, o) + Refs(ref, Live(Returning), o)
                 /\ Refs(ref, {sp}, o) \in Nat /\ Refs(ref, Released, o) \in Nat
                 /\ Refs(ref, Live(Returning), o) \in Nat
<1> DEFINE s == sp + 1
           t == Returning
<1>1. Running /\ Depth >= 1
  BY DEF Returns
<1>2. /\ state = "RUN" /\ sp \in Nat /\ StackSize \in Nat /\ sp < StackSize
      /\ LocalsCount[fn] \in Nat /\ sp \in Slots
  BY <1>1, Opening DEF Slots
<1>3. s \in Nat /\ t \in Nat /\ s <= t /\ t <= StackSize /\ sp < t
      /\ {sp} \in SUBSET Slots
  BY <1>2 DEF Returning
<1>4. Released = s..(t - 1)
  BY <1>2, <1>3 DEF Released, Slots
<1> HIDE DEF s, t
<1>5. Released \in SUBSET Slots
  BY DEF Released
<1>6. ASSUME NEW o \in Objects
      PROVE  /\ Refs(ref, Live(sp), o) = Refs(ref, {sp}, o)
                      + Refs(ref, Released, o) + Refs(ref, Live(t), o)
             /\ Refs(ref, {sp}, o) \in Nat /\ Refs(ref, Released, o) \in Nat
             /\ Refs(ref, Live(t), o) \in Nat
  <2>1. /\ Refs(ref, Live(s), o) = Refs(ref, s..(t - 1), o) + Refs(ref, Live(t), o)
        /\ Refs(ref, s..(t - 1), o) \in Nat /\ Refs(ref, Live(t), o) \in Nat
    BY <1>3, LiveRefs
  <2>2. Refs(ref, Live(sp), o) = (IF ref[sp] = o THEN 1 ELSE 0) + Refs(ref, Live(s), o)
    BY <1>2, LiveTop DEF s
  <2>3. Refs(ref, {sp}, o) = IF ref[sp] = o THEN 1 ELSE 0
    BY RefsOne
  <2> QED BY <1>4, <2>1, <2>2, <2>3
<1> QED BY <1>2, <1>3, <1>4, <1>5, <1>6 DEF s, t

\* The step that ends the script leaves the stack empty.
LEMMA Emptied ==
    ASSUME NEW e, Stop("END", e), NEW r, NEW o
    PROVE  state' = "END" /\ Leaves(StackSize) /\ Refs(r, Live(StackSize), o) = 0
<1>1. state' = "END" /\ Leaves(StackSize)
  BY DEF Stop, Leaves
<1>2. Live(StackSize) = {}
  BY FramesAssumption DEF Live
<1> QED BY <1>1, <1>2, RefsEmpty

LEMMA ReturnKeeps ==
    ASSUME IInv, CountInv, ReturnInfosHoldNothing, Return PROVE CountInv'
<1> DEFINE t == Returning
<1>1. /\ Ret /\ Returns /\ lost' = lost /\ t = Top /\ t < StackSize
      /\ stack[t] # Plain
      /\ ref' = [ref EXCEPT ![t] = ref[sp]] /\ Settle(rc, used, Released, t)
  BY DEF Return, Ret
<1>2. /\ state = "RUN" /\ sp \in Slots /\ sp \in Nat /\ StackSize \in Nat
      /\ t \in Nat /\ sp < t /\ Released \in SUBSET Slots
  BY <1>1, FrameBounds, ReturnSplit DEF Returns, Running
<1>3. t \in Slots /\ t \in 0..StackSize /\ t + 1 \in Nat
  BY <1>1, <1>2 DEF Slots
<1>4. ref[t] = None
  BY <1>1, <1>3 DEF ReturnInfosHoldNothing
<1>5. Leaves(t)
  BY <1>1, <1>2 DEF Ret, Continue, Stop, Leaves
<1>6. ref \in [Slots -> Objects \cup {None}]
  BY DEF CountInv, VMTypeOK
<1>7. /\ ref' \in [Slots -> Objects \cup {None}] /\ ref'[t] = ref[sp]
      /\ \A k \in Slots \ {t} : ref'[k] = ref[k]
  BY <1>1, <1>2, <1>3, <1>6
<1>8. LostIsBounded' /\ lost' \in [Objects -> Nat]
  BY <1>1, <1>2, NothingLost
<1>9. ASSUME NEW o \in Objects
      PROVE  Refs(ref, Live(sp), o) + lost[o]
               = Refs(ref, Released, o) + Refs(ref', Live(t), o) + lost'[o]
  <2>1. /\ Refs(ref, Live(sp), o) = Refs(ref, {sp}, o)
                 + Refs(ref, Released, o) + Refs(ref, Live(t), o)
        /\ Refs(ref, Released, o) \in Nat
    <3>1. Returns /\ Returning <= StackSize
      BY <1>1, <1>2
    <3> QED BY <3>1, ReturnSplit
  <2>2. Refs(ref, {sp}, o) = IF ref[sp] = o THEN 1 ELSE 0
    BY RefsOne
  <2> HIDE DEF t
  <2>3. /\ Refs(ref, Live(t), o) = (IF ref[t] = o THEN 1 ELSE 0)
                                      + Refs(ref, Live(t + 1), o)
        /\ Refs(ref, Live(t + 1), o) \in Nat
    BY <1>1, <1>2, LiveTop
  <2>4. Refs(ref', Live(t), o) = (IF ref'[t] = o THEN 1 ELSE 0)
                                    + Refs(ref', Live(t + 1), o)
    <3>1. t \in Nat /\ t < StackSize
      BY <1>1, <1>2
    <3> QED BY <3>1, LiveTop
  <2>5. \A k \in Live(t + 1) : ref'[k] = ref[k]
    BY <1>2, <1>3, <1>7 DEF Live, Slots
  <2>6. Refs(ref', Live(t + 1), o) = Refs(ref, Live(t + 1), o)
    BY <2>5, RefsAgree
  <2>7. ref[t] # o
    BY <1>4, VMAssumption
  <2>8. lost'[o] = lost[o] /\ lost[o] \in Nat
    BY <1>1 DEF CountInv, VMTypeOK
  <2>9. ref'[t] = ref[sp]
    BY <1>7
  <2> QED BY <2>1, <2>2, <2>3, <2>4, <2>6, <2>7, <2>8, <2>9
<1> HIDE DEF t
<1>10. VMTypeOK' /\ CountsAreExact' /\ NoDanglingReference' /\ UsedIsCounted'
  BY <1>1, <1>2, <1>3, <1>5, <1>7, <1>8, <1>9, MoveKeeps
<1> QED BY <1>8, <1>10 DEF CountInv

\* References lost by the instruction that ends the script.
LEMMA LostAtTheEnd ==
    ASSUME IInv, CountInv, state = "RUN", state' = "END",
           NEW lose, \A o \in Objects : lose[o] \in 0..2,
           lost' = [o \in Objects |-> lost[o] + lose[o]]
    PROVE  LostIsBounded' /\ lost' \in [Objects -> Nat]
<1>1. ASSUME NEW o \in Objects
      PROVE  lost'[o] \in Nat /\ lost'[o] <= MaxLost + 2
             /\ lost[o] + lose[o] \in Nat
  <2>1. lost[o] \in 0..MaxLost /\ MaxLost \in Nat
    BY CountFacts, VMAssumption
  <2> QED BY <2>1
<1> QED BY <1>1 DEF LostIsBounded

LEMMA ReturnFromMainKeeps ==
    ASSUME IInv, CountInv, ReturnFromMain PROVE CountInv'
<1>1. /\ Returns /\ Returning = StackSize /\ Stop("END", "SCRIPT_END")
      /\ ref' = ref /\ Lose({sp}) /\ Settle(rc, used, Released, StackSize)
  BY DEF ReturnFromMain, RetFromMain
<1>2. /\ state = "RUN" /\ sp \in Slots /\ sp \in Nat /\ StackSize \in Nat
      /\ Released \in SUBSET Slots /\ StackSize \in 0..StackSize
      /\ {sp} \in SUBSET Slots
  BY <1>1, FramesAssumption, ReturnSplit
<1>3. state' = "END" /\ Leaves(StackSize)
  BY <1>1, Emptied
<1>4. ref' \in [Slots -> Objects \cup {None}]
  BY <1>1 DEF CountInv, VMTypeOK
<1>5. ASSUME NEW o \in Objects
      PROVE  Refs(ref, {sp}, o) \in 0..2
  BY RefsOne
<1>6. LostIsBounded' /\ lost' \in [Objects -> Nat]
  <2> DEFINE lose == [o \in Objects |-> Refs(ref, {sp}, o)]
  <2>1. \A o \in Objects : lose[o] \in 0..2
    BY <1>5
  <2>2. lost' = [o \in Objects |-> lost[o] + lose[o]]
    BY <1>1 DEF Lose
  <2> HIDE DEF lose
  <2> QED BY <1>2, <1>3, <2>1, <2>2, LostAtTheEnd
<1>7. ASSUME NEW o \in Objects
      PROVE  Refs(ref, Live(sp), o) + lost[o]
               = Refs(ref, Released, o) + Refs(ref', Live(StackSize), o) + lost'[o]
  <2>1. /\ Refs(ref, Live(sp), o) = Refs(ref, {sp}, o)
                 + Refs(ref, Released, o) + Refs(ref, Live(StackSize), o)
        /\ Refs(ref, {sp}, o) \in Nat /\ Refs(ref, Released, o) \in Nat
    <3>1. Returns /\ Returning <= StackSize
      BY <1>1, <1>2
    <3>2. /\ Refs(ref, Live(sp), o) = Refs(ref, {sp}, o)
                 + Refs(ref, Released, o) + Refs(ref, Live(Returning), o)
          /\ Refs(ref, {sp}, o) \in Nat /\ Refs(ref, Released, o) \in Nat
      BY <3>1, ReturnSplit
    <3> QED BY <1>1, <3>2, Zenon
  <2>2. Refs(ref, Live(StackSize), o) = 0 /\ Refs(ref', Live(StackSize), o) = 0
    BY <1>1, Emptied
  <2>3. lost'[o] = lost[o] + Refs(ref, {sp}, o) /\ lost[o] \in Nat
    BY <1>1, <1>2, LoseFacts
  <2> QED BY <2>1, <2>2, <2>3
<1>8. VMTypeOK' /\ CountsAreExact' /\ NoDanglingReference' /\ UsedIsCounted'
  BY <1>1, <1>2, <1>3, <1>4, <1>6, <1>7, MoveKeeps
<1> QED BY <1>6, <1>8 DEF CountInv

LEMMA ReturnCorruptKeeps ==
    ASSUME IInv, CountInv, ReturnCorrupt PROVE CountInv'
<1> DEFINE t == Returning
           u == t + 1
<1>1. /\ Returns /\ t < StackSize /\ Stop("END", "STACK_CORRUPTION")
      /\ ref' = ref /\ Lose({sp, t}) /\ Settle(rc, used, Released, u)
  BY DEF ReturnCorrupt, RetCorrupt
<1>2. Running /\ state = "RUN"
  BY <1>1 DEF Returns, Running
<1>3. t \in Nat /\ StackSize \in Nat
  BY <1>2, FrameBounds DEF Returning
<1>4. t <= StackSize
  BY <1>1, <1>3
<1>5. /\ sp \in Slots /\ sp \in Nat /\ sp < t /\ Released \in SUBSET Slots
      /\ \A o \in Objects :
            /\ Refs(ref, Live(sp), o) = Refs(ref, {sp}, o)
                 + Refs(ref, Released, o) + Refs(ref, Live(t), o)
            /\ Refs(ref, {sp}, o) \in Nat /\ Refs(ref, Released, o) \in Nat
  BY <1>1, <1>4, ReturnSplit
<1>6. /\ t \in Slots /\ u \in 0..StackSize /\ u \in Nat
      /\ {sp} \in SUBSET Slots /\ {t} \in SUBSET Slots
      /\ {sp} \cap {t} = {} /\ {sp, t} = {sp} \cup {t}
      /\ {sp, t} \in SUBSET Slots
  BY <1>1, <1>3, <1>5 DEF Slots
<1>7. state' = "END" /\ sp' = StackSize
  BY <1>1 DEF Stop
<1>8. Leaves(u)
  BY <1>7 DEF Leaves
<1>9. ref' \in [Slots -> Objects \cup {None}]
  BY <1>1 DEF CountInv, VMTypeOK
<1> HIDE DEF u, t
<1>10. ASSUME NEW o \in Objects
       PROVE  /\ Refs(ref, {sp, t}, o) = Refs(ref, {sp}, o)
                                           + (IF ref[t] = o THEN 1 ELSE 0)
              /\ Refs(ref, {sp}, o) \in {0, 1}
  <2>1. Refs(ref, {sp} \cup {t}, o) = Refs(ref, {sp}, o) + Refs(ref, {t}, o)
    <3>1. {sp} \in SUBSET Slots /\ {t} \in SUBSET Slots /\ {sp} \cap {t} = {}
      BY <1>6
    <3>2. \A S, T \in SUBSET Slots : S \cap T = {} =>
            Refs(ref, S \cup T, o) = Refs(ref, S, o) + Refs(ref, T, o)
      BY RefsSplit
    <3> QED BY <3>1, <3>2
  <2>2. Refs(ref, {t}, o) = IF ref[t] = o THEN 1 ELSE 0
    BY RefsOne
  <2>3. Refs(ref, {sp}, o) \in {0, 1}
    BY RefsOne
  <2> QED BY <1>6, <2>1, <2>2, <2>3
<1>11. LostIsBounded' /\ lost' \in [Objects -> Nat]
  <2> DEFINE lose == [o \in Objects |-> Refs(ref, {sp, t}, o)]
  <2>1. \A o \in Objects : lose[o] \in 0..2
    BY <1>10
  <2>2. lost' = [o \in Objects |-> lost[o] + lose[o]]
    BY <1>1 DEF Lose
  <2> HIDE DEF lose
  <2> QED BY <1>2, <1>7, <2>1, <2>2, LostAtTheEnd
<1>12. ASSUME NEW o \in Objects
       PROVE  Refs(ref, Live(sp), o) + lost[o]
                = Refs(ref, Released, o) + Refs(ref', Live(u), o) + lost'[o]
  <2>1. /\ Refs(ref, Live(t), o) = (IF ref[t] = o THEN 1 ELSE 0) + Refs(ref, Live(u), o)
        /\ Refs(ref, Live(u), o) \in Nat
    BY <1>1, <1>3, LiveTop DEF u
  <2>2. Refs(ref', Live(u), o) = Refs(ref, Live(u), o)
    BY <1>1
  <2>3. lost'[o] = lost[o] + Refs(ref, {sp, t}, o) /\ lost[o] \in Nat
    BY <1>1, <1>6, LoseFacts
  <2>4. /\ Refs(ref, Live(sp), o) = Refs(ref, {sp}, o)
             + Refs(ref, Released, o) + Refs(ref, Live(t), o)
        /\ Refs(ref, Released, o) \in Nat
    BY <1>5
  <2> QED BY <1>10, <2>1, <2>2, <2>3, <2>4
<1>13. VMTypeOK' /\ CountsAreExact' /\ NoDanglingReference' /\ UsedIsCounted'
  BY <1>1, <1>2, <1>5, <1>6, <1>8, <1>9, <1>11, <1>12, MoveKeeps
<1> QED BY <1>11, <1>13 DEF CountInv

\* The instructions that end the script without moving a value.
LEMMA UnderflowKeeps ==
    ASSUME IInv, CountInv, PopUnderflow PROVE CountInv'
<1>1. /\ Running /\ state = "RUN" /\ Stop("END", "STACK_UNDERFLOW")
      /\ ref' = ref /\ lost' = lost /\ Settle(rc, used, {}, sp)
  BY DEF PopUnderflow, Underflow, Running
<1>2. sp \in 0..StackSize /\ state' = "END" /\ Leaves(sp)
  BY <1>1, FrameBounds DEF Stop, Leaves
<1>3. ref' \in [Slots -> Objects \cup {None}] /\ {} \in SUBSET Slots
  BY <1>1 DEF CountInv, VMTypeOK
<1>4. LostIsBounded' /\ lost' \in [Objects -> Nat]
  BY <1>1, NothingLost
<1>5. ASSUME NEW o \in Objects
      PROVE  Refs(ref, Live(sp), o) + lost[o]
               = Refs(ref, {}, o) + Refs(ref', Live(sp), o) + lost'[o]
  <2>1. Refs(ref, {}, o) = 0 /\ lost'[o] = lost[o] /\ lost[o] \in Nat
        /\ Refs(ref', Live(sp), o) = Refs(ref, Live(sp), o)
    BY <1>1, RefsEmpty DEF CountInv, VMTypeOK
  <2>2. Refs(ref, Live(sp), o) \in Nat
    BY <1>1, CountFacts
  <2> QED BY <2>1, <2>2
<1>6. VMTypeOK' /\ CountsAreExact' /\ NoDanglingReference' /\ UsedIsCounted'
  BY <1>1, <1>2, <1>3, <1>4, <1>5, MoveKeeps
<1> QED BY <1>4, <1>6 DEF CountInv

LEMMA FailKeeps ==
    ASSUME IInv, CountInv, NEW n \in 0..2, FailInstruction(n) PROVE CountInv'
<1> DEFINE t == sp + n
           popped == sp..(t - 1)
<1>1. /\ Running /\ Depth >= n /\ n \in Nat
      /\ \E e \in {"OTHER", "NONE"} : Stop("END", e)
      /\ ref' = ref
      /\ Lose(Slots \cap (sp..(sp + n - 1))) /\ Settle(rc, used, {}, t)
  BY DEF FailInstruction, Fail
<1>2. /\ state = "RUN" /\ sp \in Nat /\ StackSize \in Nat /\ sp + n <= StackSize
      /\ ref \in [Slots -> Objects \cup {None}]
  BY <1>1, Opening
<1>3. t \in Nat /\ sp <= t /\ t \in 0..StackSize /\ t <= StackSize
      /\ sp + n - 1 = t - 1
  BY <1>2
<1>4. Slots \cap popped = popped /\ popped \in SUBSET Slots
  BY <1>2, <1>3, LiveSplit
<1>5. Lose(popped)
  BY <1>1, <1>3, <1>4
<1>6. state' = "END" /\ Leaves(t)
  BY <1>1 DEF Stop, Leaves
<1>7. ref' \in [Slots -> Objects \cup {None}] /\ {} \in SUBSET Slots
  BY <1>1, <1>2
<1>8. IsFiniteSet(popped) /\ Cardinality(popped) = n
  <2>1. sp \in Int /\ t - 1 \in Int
    BY <1>2, <1>3
  <2>2. /\ IsFiniteSet(popped)
        /\ Cardinality(popped) = (IF sp > t - 1 THEN 0 ELSE (t - 1) - sp + 1)
    BY <2>1, FS_Interval, Zenon
  <2> HIDE DEF popped
  <2> QED BY <1>2, <1>3, <2>2
<1> HIDE DEF t, popped
<1>9. ASSUME NEW o \in Objects PROVE Refs(ref, popped, o) \in 0..2
  <2> DEFINE held == {k \in popped : ref[k] = o}
  <2>1. held \in SUBSET popped /\ Refs(ref, popped, o) = Cardinality(held)
    BY DEF Refs
  <2> HIDE DEF held
  <2>2. IsFiniteSet(held) /\ Cardinality(held) <= n
    BY <1>8, <2>1, FS_Subset
  <2>3. Cardinality(held) \in Nat
    BY <2>2, FS_CardinalityType
  <2> QED BY <2>1, <2>2, <2>3
<1>10. LostIsBounded' /\ lost' \in [Objects -> Nat]
  <2> DEFINE lose == [o \in Objects |-> Refs(ref, popped, o)]
  <2>1. \A o \in Objects : lose[o] \in 0..2
    BY <1>9
  <2>2. lost' = [o \in Objects |-> lost[o] + lose[o]]
    BY <1>5 DEF Lose
  <2> HIDE DEF lose
  <2> QED BY <1>2, <1>6, <2>1, <2>2, LostAtTheEnd
<1>11. ASSUME NEW o \in Objects
       PROVE  Refs(ref, Live(sp), o) + lost[o]
                = Refs(ref, {}, o) + Refs(ref', Live(t), o) + lost'[o]
  <2>1. /\ Refs(ref, Live(sp), o) = Refs(ref, popped, o) + Refs(ref, Live(t), o)
        /\ Refs(ref, popped, o) \in Nat /\ Refs(ref, Live(t), o) \in Nat
    BY <1>2, <1>3, LiveRefs DEF popped
  <2>2. lost'[o] = lost[o] + Refs(ref, popped, o) /\ lost[o] \in Nat
    BY <1>4, <1>5, LoseFacts
  <2>3. Refs(ref, {}, o) = 0 /\ Refs(ref', Live(t), o) = Refs(ref, Live(t), o)
    BY <1>1, RefsEmpty
  <2> QED BY <2>1, <2>2, <2>3
<1>12. VMTypeOK' /\ CountsAreExact' /\ NoDanglingReference' /\ UsedIsCounted'
  BY <1>1, <1>2, <1>3, <1>6, <1>7, <1>10, <1>11, MoveKeeps
<1> QED BY <1>10, <1>12 DEF CountInv

\* What OP_LDLOC and OP_LDARG copy is in use.
LEMMA CopiedIsLive ==
    ASSUME ArgumentsInRange, IInv, Running, NEW k \in LocalSlots \cup Indexed
    PROVE  k \in Live(sp)
<1>1. state = "RUN" /\ ip > 0
  BY DEF Running
<1>2. /\ sp \in Nat /\ Top \in Nat /\ StackSize \in Nat /\ sp <= Top
      /\ LocalsCount[fn] \in Nat
  BY <1>1, FrameBounds
<1>3. sp <= Top - LocalsCount[fn] /\ argp = Top + 1
  BY <1>1, <1>2 DEF IInv, RegistersDescribeFrame, Depth
<1>4. CASE k \in LocalSlots
  <2>1. k \in Slots /\ Top - LocalsCount[fn] <= k
    BY <1>4, LocalsBelowTop
  <2> QED BY <1>2, <1>3, <2>1 DEF Live, Slots
<1>5. CASE k \in Indexed
  <2>1. k \in Slots /\ argp <= k
    BY <1>5, ArgumentsArePlain DEF Indexed
  <2> QED BY <1>2, <1>3, <2>1 DEF Live, Slots
<1> QED BY <1>4, <1>5

\* A push that does not fit: the reference it was to make is lost.
LEMMA OverflowKeeps ==
    ASSUME ArgumentsInRange, IInv, CountInv, PushOverflow PROVE CountInv'
<1>1. /\ state = "RUN" /\ Stop("END", "STACK_OVERFLOW") /\ ref' = ref
  BY VMAssumption DEF PushOverflow, Overflow
<1>2. PICK new \in {None} \cup IF ip = 0 THEN {}
                               ELSE Consts \cup {ref[k] : k \in LocalSlots \cup Indexed} :
         /\ lost' = IF new = None THEN lost ELSE [lost EXCEPT ![new] = @ + 1]
         /\ Settle(Referenced(new), used, {}, sp)
  BY DEF PushOverflow
<1>3. sp \in 0..StackSize /\ sp \in Nat /\ state' = "END" /\ Leaves(sp)
  BY <1>1, FrameBounds DEF Stop, Leaves
<1>4. ref' \in [Slots -> Objects \cup {None}] /\ {} \in SUBSET Slots
  BY <1>1 DEF CountInv, VMTypeOK
<1>5. ASSUME NEW o \in Objects
      PROVE  /\ Refs(ref', Live(sp), o) = Refs(ref, Live(sp), o)
             /\ Refs(ref, Live(sp), o) \in Nat
             /\ Refs(ref, {}, o) = 0 /\ lost[o] \in Nat
  BY <1>1, CountFacts, RefsEmpty
<1>6. CASE new = None
  <2>1. lost' = lost /\ Settle(rc, used, {}, sp)
    BY <1>2, <1>6 DEF Referenced
  <2>2. LostIsBounded' /\ lost' \in [Objects -> Nat]
    BY <1>1, <2>1, NothingLost
  <2>3. ASSUME NEW o \in Objects
        PROVE  Refs(ref, Live(sp), o) + lost[o]
                 = Refs(ref, {}, o) + Refs(ref', Live(sp), o) + lost'[o]
    BY <1>5, <2>1
  <2>4. VMTypeOK' /\ CountsAreExact' /\ NoDanglingReference' /\ UsedIsCounted'
    BY <1>1, <1>3, <1>4, <2>1, <2>2, <2>3, MoveKeeps
  <2> QED BY <2>2, <2>4 DEF CountInv
<1>7. CASE new # None
  <2>1. new \in Consts \cup used
    <3>1. CASE new \in Consts
      BY <3>1
    <3>2. CASE ip # 0 /\ new \in {ref[k] : k \in LocalSlots \cup Indexed}
      <4>1. PICK k \in LocalSlots \cup Indexed : new = ref[k]
        BY <3>2
      <4>2. Running
        BY <1>1, <3>2 DEF IInv, TypeOK, Running
      <4>3. k \in Live(sp)
        BY <4>2, CopiedIsLive
      <4> QED BY <1>7, <4>1, <4>3 DEF CountInv, NoDanglingReference
    <3> QED BY <1>2, <1>7, <3>1, <3>2
  <2>2. new \in Objects /\ used \in SUBSET Cells
    BY <2>1 DEF Objects, CountInv, VMTypeOK
  <2> DEFINE counts == Referenced(new)
  <2>3. \A o \in Objects : counts[o] = rc[o] + Same(o, new)
    <3>1. counts = [rc EXCEPT ![new] = @ + 1]
      BY <1>7 DEF Referenced
    <3> QED BY <1>1, <2>2, <3>1, CountFacts DEF Same, CountInv, VMTypeOK
  <2>4. \A c \in Cells : c \in used <=> c \in used \/ c = new
    BY <2>1, VMAssumption
  <2>5. Settle(counts, used, {}, sp)
    BY <1>2
  <2> HIDE DEF counts
  <2>6. lost' = [lost EXCEPT ![new] = @ + 1]
    BY <1>2, <1>7
  <2>7. lost' = [o \in Objects |-> lost[o] + Same(o, new)]
    <3>1. lost \in [Objects -> Nat]
      BY DEF CountInv, VMTypeOK
    <3>2. lost' = [o \in Objects |-> IF o = new THEN lost[new] + 1 ELSE lost[o]]
      BY <2>2, <2>6, <3>1
    <3>3. ASSUME NEW o \in Objects
          PROVE  (IF o = new THEN lost[new] + 1 ELSE lost[o]) = lost[o] + Same(o, new)
      BY <3>1 DEF Same
    <3> QED BY <3>2, <3>3
  <2>8. LostIsBounded' /\ lost' \in [Objects -> Nat]
    <3> DEFINE lose == [o \in Objects |-> Same(o, new)]
    <3>1. \A o \in Objects : lose[o] \in 0..2
      BY DEF Same
    <3>2. lost' = [o \in Objects |-> lost[o] + lose[o]]
      BY <2>7
    <3> HIDE DEF lose
    <3> QED BY <1>1, <1>3, <3>1, <3>2, LostAtTheEnd
  <2>9. ASSUME NEW o \in Objects
        PROVE  Refs(ref, Live(sp), o) + lost[o] + Same(o, new)
                 = Refs(ref, {}, o) + Refs(ref', Live(sp), o) + lost'[o]
    <3>1. lost'[o] = lost[o] + Same(o, new) /\ Same(o, new) \in Nat
      BY <2>7 DEF Same
    <3> QED BY <1>5, <3>1
  <2>10. VMTypeOK' /\ CountsAreExact' /\ NoDanglingReference' /\ UsedIsCounted'
    BY <1>1, <1>3, <1>4, <2>2, <2>3, <2>4, <2>5, <2>8, <2>9, MakeKeeps
  <2> QED BY <2>8, <2>10 DEF CountInv
<1> QED BY <1>6, <1>7
-----------------------------------------------------------------------------
\* The three ways to push: a constant, a local, an argument.
LEMMA LoadConstantKeeps ==
    ASSUME IInv, CountInv, LoadConstant PROVE CountInv'
<1>1. PICK o \in Consts \cup {None} : Operate(0, 1, ip + 1) /\ Pushed(o)
  BY DEF LoadConstant
<1>2. Running /\ Depth >= 0 /\ sp + 0 >= 1 /\ Leaves(sp + 0 - 1)
  BY <1>1, OperateFacts
<1>3. state = "RUN" /\ sp \in Nat
  BY <1>2, Opening
<1>4. sp > 0 /\ Leaves(sp - 1)
  <2>1. sp + 0 - 1 = sp - 1 /\ sp > 0
    BY <1>2, <1>3
  <2> QED BY <1>2, <2>1
<1>5. o \in Consts \cup used \cup {None}
  OBVIOUS
<1> QED BY <1>1, <1>3, <1>4, <1>5, PushKeeps

LEMMA CopyKeeps ==
    ASSUME IInv, CountInv, NEW k \in Live(sp), Copy(k) PROVE CountInv'
<1>1. Load(k) /\ Pushed(ref[k])
  BY DEF Copy
<1>2. state = "RUN" /\ sp > 0 /\ Leaves(sp - 1)
  BY <1>1 DEF Load, Continue, Stop, Leaves, Running
<1>3. ref[k] \in Consts \cup used \cup {None}
  BY DEF CountInv, NoDanglingReference
<1> QED BY <1>1, <1>2, <1>3, PushKeeps

LEMMA VMInitInv == VMInit => VMIInv
<1> SUFFICES ASSUME VMInit PROVE VMIInv
  OBVIOUS
<1>1. /\ Init /\ ref = [k \in Slots |-> None]
      /\ rc = [o \in Objects |-> IF o \in Consts THEN ScriptHold ELSE 0]
      /\ used = {} /\ lost = [o \in Objects |-> 0]
  BY DEF VMInit
<1>2. sp = StackSize /\ StackSize \in Nat
  BY <1>1, FramesAssumption DEF Init
<1>3. Live(sp) = {}
  BY <1>2 DEF Live
<1>4. VMTypeOK
  <2>1. rc \in [Objects -> 0..(RcMod - 1)]
    <3>1. 0 \in 0..(RcMod - 1) /\ ScriptHold \in 0..(RcMod - 1)
      BY VMAssumption, FramesAssumption
    <3> QED BY <1>1, <3>1
  <2>2. ref \in [Slots -> Objects \cup {None}]
    BY <1>1
  <2>3. lost \in [Objects -> Nat]
    BY <1>1
  <2> QED BY <1>1, <2>1, <2>2, <2>3 DEF VMTypeOK
<1>5. CountsAreExact
  <2>1. ASSUME NEW o \in Objects
        PROVE  rc[o] = Hold(o) /\ lost[o] = 0 /\ Hold(o) \in Nat
               /\ Refs(ref, Live(sp), o) = 0
    BY <1>1, <1>3, RefsEmpty, VMAssumption DEF Hold
  <2>2. ASSUME NEW o \in Objects
        PROVE  rc[o] = Hold(o) + Refs(ref, Live(sp), o) + lost[o]
    BY <2>1
  <2> QED BY <2>2 DEF CountsAreExact
<1>6. NoDanglingReference
  BY <1>3 DEF NoDanglingReference
<1>7. UsedIsCounted
  <2>1. ASSUME NEW c \in Cells PROVE rc[c] = 0
    BY <1>1, VMAssumption DEF Objects
  <2> QED BY <1>1, <2>1 DEF UsedIsCounted
<1>8. LostIsBounded
  BY <1>1, VMAssumption DEF LostIsBounded
<1>9. ReturnInfosHoldNothing
  BY <1>1 DEF ReturnInfosHoldNothing
<1> QED BY <1>4, <1>5, <1>6, <1>7, <1>8, <1>9 DEF VMIInv, CountInv

LEMMA StartKeeps ==
    ASSUME IInv, CountInv, NEW f \in Functions, StartRun(f) PROVE CountInv'
<1>1. /\ UNCHANGED <<ref, rc, used, lost, sp>> /\ state' = "RUN"
      /\ \A o \in Objects : lost[o] <= MaxLost
  BY DEF StartRun, Start, values
<1>2. VMTypeOK' /\ UsedIsCounted'
  BY <1>1 DEF CountInv, VMTypeOK, UsedIsCounted
<1>3. CountsAreExact' /\ NoDanglingReference'
  BY <1>1 DEF CountInv, CountsAreExact, NoDanglingReference, Live, Refs, Hold
<1>4. LostIsBounded'
  BY <1>1, VMAssumption DEF LostIsBounded, CountInv, VMTypeOK
<1> QED BY <1>2, <1>3, <1>4 DEF CountInv

\* CALL writes a return info over a slot whose reference it has lost; every
\* other instruction copies or overwrites slot and reference together.
LEMMA ReturnInfosStep ==
    ASSUME IInv, VMTypeOK, ReturnInfosHoldNothing, VMNext
    PROVE  ReturnInfosHoldNothing'
<1> USE DEF ReturnInfosHoldNothing
<1>1. /\ stack \in [Slots -> ReturnInfo \cup {Plain}] /\ sp \in Nat
      /\ ref \in [Slots -> Objects \cup {None}]
  BY FramesAssumption DEF IInv, TypeOK, VMTypeOK
<1>2. ASSUME UNCHANGED <<stack, ref>> PROVE ReturnInfosHoldNothing'
  BY <1>2
<1>3. ASSUME NEW pops \in Nat, NEW pushes \in {0, 1}, NEW t, NEW new,
             Operate(pops, pushes, t),
             ref' = IF pushes = 0 THEN ref ELSE [ref EXCEPT ![sp + pops - 1] = new]
      PROVE  ReturnInfosHoldNothing'
  <2>1. \A k \in Slots : stack'[k] # Plain =>
          stack[k] # Plain
            /\ ~(sp + pops - pushes <= k /\ k < sp + pops)
    BY <1>1, <1>3 DEF Operate
  <2>2. ASSUME NEW k \in Slots, stack'[k] # Plain PROVE ref'[k] = None
    <3>1. k \in Nat /\ (pushes = 1 => k # sp + pops - 1)
      BY <1>1, <2>1, <2>2, FramesAssumption DEF Slots
    <3> QED BY <1>1, <1>3, <2>1, <2>2, <3>1
  <2> QED BY <2>2
<1>4. ASSUME NEW k, NEW j, ref' = [ref EXCEPT ![j] = ref[k]],
             stack' = [stack EXCEPT ![j] = stack[k]], k \in Slots
      PROVE  ReturnInfosHoldNothing'
  BY <1>1, <1>4
<1>5. ASSUME NEW f \in Functions, StartRun(f) PROVE ReturnInfosHoldNothing'
  BY <1>2, <1>5 DEF StartRun, Start, values
<1>6. ASSUME NEW f \in Functions, CallFunction(f) PROVE ReturnInfosHoldNothing'
  <2> DEFINE info == [fn |-> fn, ip |-> ip, argp |-> argp, locals |-> locals]
  <2>1. ref' = [ref EXCEPT ![sp] = None] /\ stack' = [stack EXCEPT ![sp] = info]
    BY <1>6 DEF CallFunction, Call
  <2> HIDE DEF info
  <2> QED BY <1>1, <2>1
<1>7. CASE EnterFunction \/ ReturnFromMain \/ ReturnCorrupt \/ PushOverflow
             \/ PopUnderflow \/ \E n \in 0..2 : FailInstruction(n)
  BY <1>2, <1>7 DEF EnterFunction, ReturnFromMain, ReturnCorrupt, PushOverflow,
       PopUnderflow, FailInstruction, Enter, RetFromMain, RetCorrupt, Overflow,
       Underflow, Fail
<1>8. CASE LoadConstant
  <2>1. PICK o : Operate(0, 1, ip + 1) /\ ref' = [ref EXCEPT ![sp - 1] = o]
    BY <1>8 DEF LoadConstant, Pushed
  <2>2. sp + 0 - 1 = sp - 1
    BY <1>1
  <2>3. ref' = IF 1 = 0 THEN ref ELSE [ref EXCEPT ![sp + 0 - 1] = o]
    BY <1>1, <2>1, <2>2
  <2>4. 0 \in Nat /\ 1 \in {0, 1}
    OBVIOUS
  <2> QED BY <1>3, <2>1, <2>3, <2>4, Zenon
<1>9. CASE CopyLocal \/ CopyArgument
  <2>1. PICK k \in LocalSlots \cup Indexed : Copy(k)
    BY <1>9 DEF CopyLocal, CopyArgument
  <2>2. Running /\ ref' = [ref EXCEPT ![sp - 1] = ref[k]]
        /\ stack' = [stack EXCEPT ![sp - 1] = stack[k]]
    BY <2>1 DEF Copy, Load, Pushed
  <2>3. k \in Slots
    BY DEF LocalSlots, Indexed, Arguments
  <2> QED BY <1>4, <2>2, <2>3
<1>10. ASSUME NEW k \in LocalSlots, Store(k) PROVE ReturnInfosHoldNothing'
  <2>1. /\ Running /\ Depth >= 1
        /\ ref' = [ref EXCEPT ![k] = ref[sp]] /\ stack' = [stack EXCEPT ![k] = stack[sp]]
    BY <1>10 DEF Store, StoreInto
  <2>2. sp \in Slots
    BY <2>1, FrameBounds, FramesAssumption DEF Depth, Running, Slots
  <2> QED BY <1>4, <2>1, <2>2
<1>11. CASE Discard \/ Branch \/ Compute
  <2>1. PICK pops \in 0..2, pushes \in {0, 1} : \E t : Consume(pops, pushes, t)
    BY <1>11 DEF Discard, Branch, Compute
  <2>2. PICK t : Consume(pops, pushes, t)
    BY <2>1
  <2> QED BY <1>3, <2>2 DEF Consume
<1>12. ASSUME NEW c \in Cells, Concat(c) PROVE ReturnInfosHoldNothing'
  <2>1. Operate(2, 1, ip + 1) /\ ref' = [ref EXCEPT ![sp + 1] = c]
    BY <1>12 DEF Concat
  <2>2. sp + 2 - 1 = sp + 1
    BY <1>1
  <2>3. ref' = IF 1 = 0 THEN ref ELSE [ref EXCEPT ![sp + 2 - 1] = c]
    BY <2>1, <2>2
  <2>4. 2 \in Nat /\ 1 \in {0, 1}
    OBVIOUS
  <2> QED BY <1>3, <2>1, <2>3, <2>4, Zenon
<1>13. ASSUME NEW r \in Cells \cup {None}, CallApi(r) PROVE ReturnInfosHoldNothing'
  <2>1. Operate(1, 1, ip + 1) /\ ref' = [ref EXCEPT ![sp] = r]
    BY <1>13 DEF CallApi
  <2>2. sp + 1 - 1 = sp
    BY <1>1
  <2>3. ref' = IF 1 = 0 THEN ref ELSE [ref EXCEPT ![sp + 1 - 1] = r]
    BY <1>1, <2>1, <2>2
  <2>4. 1 \in Nat /\ 1 \in {0, 1}
    OBVIOUS
  <2> QED BY <1>3, <2>1, <2>3, <2>4, Zenon
<1>14. CASE Return
  <2>1. Ret /\ ref' = [ref EXCEPT ![Returning] = ref[sp]]
        /\ stack' = [stack EXCEPT ![Returning] = stack[sp]]
    BY <1>14 DEF Return, Ret
  <2>2. sp \in Slots
    BY <2>1, RetFacts
  <2> QED BY <1>4, <2>1, <2>2
<1> QED BY <1>5, <1>6, <1>7, <1>8, <1>9, <1>10, <1>11, <1>12, <1>13, <1>14 DEF VMNext

LEMMA VMStepInv ==
    ASSUME ArgumentsInRange, CleanLocals, ApiOnIntegers,
           IInv, VMIInv, [VMNext]_vmVars
    PROVE  VMIInv'
<1> USE DEF VMIInv
<1>1. CASE UNCHANGED vmVars
  <2>1. VMTypeOK' /\ LostIsBounded' /\ UsedIsCounted' /\ ReturnInfosHoldNothing'
    BY <1>1 DEF vmVars, vars, CountInv, VMTypeOK, LostIsBounded, UsedIsCounted,
                ReturnInfosHoldNothing
  <2>2. CountsAreExact' /\ NoDanglingReference'
    BY <1>1 DEF vmVars, vars, CountInv, CountsAreExact, NoDanglingReference,
                Live, Refs, Hold
  <2> QED BY <2>1, <2>2 DEF CountInv
<1>2. CASE VMNext
  <2>1. ReturnInfosHoldNothing'
    BY <1>2, ReturnInfosStep DEF CountInv
  <2> SUFFICES CountInv'
    BY <2>1
  <2>2. ASSUME NEW f \in Functions, StartRun(f) \/ CallFunction(f) PROVE CountInv'
    BY <2>2, StartKeeps, CallKeeps
  <2>3. CASE EnterFunction
    BY <2>3, EnterKeeps
  <2>4. CASE LoadConstant
    BY <2>4, LoadConstantKeeps
  <2>5. CASE CopyLocal \/ CopyArgument
    <3>1. PICK k \in LocalSlots \cup Indexed : Copy(k)
      BY <2>5 DEF CopyLocal, CopyArgument
    <3>2. Running
      BY <3>1 DEF Copy, Load
    <3>3. k \in Live(sp)
      BY <3>1, <3>2, CopiedIsLive
    <3> QED BY <3>1, <3>3, CopyKeeps
  <2>6. ASSUME NEW k \in LocalSlots, Store(k) PROVE CountInv'
    BY <2>6, StoreKeeps
  <2>7. CASE Discard \/ Branch \/ Compute
    <3>1. PICK pops \in 0..2, pushes \in {0, 1} :
             pushes <= pops /\ \E t : Consume(pops, pushes, t)
      BY <2>7 DEF Discard, Branch, Compute
    <3>2. PICK t : Consume(pops, pushes, t)
      BY <3>1
    <3> QED BY <3>1, <3>2, ConsumeKeeps
  <2>8. ASSUME NEW c \in Cells, Concat(c) PROVE CountInv'
    BY <2>8, ConcatKeeps
  <2>9. ASSUME NEW r \in Cells \cup {None}, CallApi(r) PROVE CountInv'
    BY <2>9, ApiKeeps
  <2>10. CASE Return
    BY <2>10, ReturnKeeps
  <2>11. CASE ReturnFromMain \/ ReturnCorrupt
    BY <2>11, ReturnFromMainKeeps, ReturnCorruptKeeps
  <2>12. CASE PushOverflow \/ PopUnderflow
    BY <2>12, OverflowKeeps, UnderflowKeeps
  <2>13. ASSUME NEW n \in 0..2, FailInstruction(n) PROVE CountInv'
    BY <2>13, FailKeeps
  <2> QED BY <1>2, <2>2, <2>3, <2>4, <2>5, <2>6, <2>7, <2>8, <2>9, <2>10, <2>11,
             <2>12, <2>13 DEF VMNext
<1> QED BY <1>1, <1>2

\* In a machine whose scripts keep the three rules, the values' invariant always
\* holds: OP_* of vm/vm.c, AdrenoValue_CreateReference and _Dereference.
THEOREM ValuesInvariant ==
    ASSUME ArgumentsInRange, CleanLocals, ApiOnIntegers
    PROVE  VMSpec => []VMIInv
<1>1. VMInit => VMIInv
  BY VMInitInv
<1>2. IInv /\ IInv' /\ VMIInv /\ [VMNext]_vmVars => VMIInv'
  BY VMStepInv
<1>3. VMSpec => []IInv
  BY VMImplementsFrames, FramesInvariant
<1> QED BY <1>1, <1>2, <1>3, PTL DEF VMSpec

\* Every ReferenceCounter is exact: no instruction makes, moves or drops a
\* reference without counting it.
THEOREM ReferencesAreCounted ==
    ASSUME ArgumentsInRange, CleanLocals, ApiOnIntegers
    PROVE  VMSpec => []CountsAreExact
<1>1. VMIInv => CountsAreExact
  BY DEF VMIInv, CountInv
<1> QED BY <1>1, ValuesInvariant, PTL

\* No slot in use ever refers to a cell that AdrenoValue_Free gave back.
THEOREM ReferencesAreLive ==
    ASSUME ArgumentsInRange, CleanLocals, ApiOnIntegers
    PROVE  VMSpec => []NoDanglingReference
<1>1. VMIInv => NoDanglingReference
  BY DEF VMIInv, CountInv
<1> QED BY <1>1, ValuesInvariant, PTL

\* A script that has stopped leaves no string in the pool but those that an
\* instruction lost a reference to.
THEOREM StoppedScriptsReleaseAll ==
    ASSUME ArgumentsInRange, CleanLocals, ApiOnIntegers
    PROVE  VMSpec => []StopReleasesAll
<1>1. IInv /\ VMIInv => StopReleasesAll
  <2> SUFFICES ASSUME IInv, VMIInv, state = "END"
               PROVE  used = {c \in Cells : lost[c] > 0}
    BY DEF StopReleasesAll
  <2>1. sp = StackSize /\ StackSize \in Nat
    BY FramesAssumption DEF IInv, StoppedIsEmpty
  <2>2. Live(sp) = {}
    BY <2>1 DEF Live
  <2>3. ASSUME NEW c \in Cells PROVE rc[c] = lost[c]
    <3>1. c \in Objects /\ Hold(c) = 0
      BY VMAssumption DEF Objects, Hold
    <3>2. Refs(ref, Live(sp), c) = 0
      BY <2>2, RefsEmpty
    <3>3. rc[c] = Hold(c) + Refs(ref, Live(sp), c) + lost[c] /\ lost[c] \in Nat
      BY <3>1 DEF VMIInv, CountInv, CountsAreExact, VMTypeOK
    <3> QED BY <3>1, <3>2, <3>3
  <2> QED BY <2>3 DEF VMIInv, CountInv, UsedIsCounted
<1>2. VMSpec => []IInv
  BY VMImplementsFrames, FramesInvariant
<1> QED BY <1>1, <1>2, ValuesInvariant, PTL
-----------------------------------------------------------------------------
(* The operators, for words of any width.                                    *)

\* Quotient and remainder of words, by any divisor that is not zero.
LEMMA Division ==
    ASSUME NEW x \in Nat, NEW y \in Nat, y # 0
    PROVE  /\ x \div y \in 0..x
           /\ x % y \in 0..(y - 1)
           /\ x % y <= x
           /\ x = y * (x \div y) + (x % y)
  BY Z3T(60)

\* What the machine computes of two words is below the modulus.
LEMMA Reduced ==
    ASSUME NEW n \in Int
    PROVE  n % Modulus \in Words
  BY OperatorsAssumption DEF Words

LEMMA IntegersOnly ==
    ASSUME NEW x, NEW y, NEW op
    PROVE  DualResults(op, Word(x), Word(y)) = IntegerResults(op, x, y)
  BY DEF DualResults, Word

\* An arithmetic operator or a comparison of two words gives exactly one
\* result, a word; division by zero excepted, which gives the error.
THEOREM ResultsAreWords ==
    ASSUME NEW x \in Words, NEW y \in Words, NEW op \in ArithmeticOps \cup ComparisonOps
    PROVE  \/ \E z \in Words : DualResults(op, Word(x), Word(y)) = {Word(z)}
           \/ /\ op \in {"div", "rem"} /\ y = 0
              /\ DualResults(op, Word(x), Word(y)) = {Error("DIVISON_BY_0")}
<1>1. x \in Nat /\ y \in Nat /\ x < Modulus /\ y < Modulus /\ Modulus \in Nat /\ Modulus > 1
  BY OperatorsAssumption DEF Words
<1>2. CASE op \in ComparisonOps
  <2>1. IntegerResults(op, x, y) = {Word(Truth(Comparison(op, x, y)))}
    BY <1>2 DEF IntegerResults, ComparisonOps, ShiftOps, BitwiseOps
  <2>2. Truth(Comparison(op, x, y)) \in Words
    BY <1>1 DEF Truth, Words
  <2> QED
    BY <2>1, <2>2, IntegersOnly
<1>3. CASE op \in ArithmeticOps /\ ~(op \in {"div", "rem"} /\ y = 0)
  <2>1. IntegerResults(op, x, y) = {Word(Arithmetic(op, x, y))}
    BY <1>3 DEF IntegerResults, ArithmeticOps, ComparisonOps, ShiftOps, BitwiseOps
  <2>0. /\ Arithmetic("add", x, y) = (x + y) % Modulus
        /\ Arithmetic("sub", x, y) = (x - y) % Modulus
        /\ Arithmetic("mul", x, y) = (x * y) % Modulus
        /\ Arithmetic("div", x, y) = x \div y
        /\ Arithmetic("rem", x, y) = x % y
    BY DEF Arithmetic
  <2>2. ASSUME op = "add" PROVE Arithmetic(op, x, y) \in Words
    <3>1. x + y \in Int
      BY <1>1
    <3> QED
      BY <2>2, <2>0, <3>1, Reduced
  <2>3. ASSUME op = "sub" PROVE Arithmetic(op, x, y) \in Words
    <3>1. x - y \in Int
      BY <1>1
    <3> QED
      BY <2>3, <2>0, <3>1, Reduced
  <2>4. ASSUME op = "mul" PROVE Arithmetic(op, x, y) \in Words
    <3>1. x * y \in Int
      BY <1>1
    <3> QED
      BY <2>4, <2>0, <3>1, Reduced
  <2>5. ASSUME op = "div" PROVE Arithmetic(op, x, y) \in Words
    <3>1. x \div y \in 0..x
      BY <2>5, <1>1, <1>3, Division
    <3>2. x \div y \in Words
      BY <3>1, <1>1 DEF Words
    <3> QED
      BY <2>5, <2>0, <3>2
  <2>6. ASSUME op = "rem" PROVE Arithmetic(op, x, y) \in Words
    <3>1. x % y \in Nat /\ x % y <= x
      BY <2>6, <1>1, <1>3, Division
    <3>2. x % y \in Words
      BY <3>1, <1>1 DEF Words
    <3> QED
      BY <2>6, <2>0, <3>2
  <2>7. Arithmetic(op, x, y) \in Words
    BY <1>3, <2>2, <2>3, <2>4, <2>5, <2>6 DEF ArithmeticOps
  <2> QED
    BY <2>1, <2>7, IntegersOnly
<1>4. CASE op \in {"div", "rem"} /\ y = 0
  <2>1. IntegerResults(op, x, y) = {Error("DIVISON_BY_0")}
    BY <1>4 DEF IntegerResults, ComparisonOps, ShiftOps, BitwiseOps
  <2> QED
    BY <1>4, <2>1, IntegersOnly
<1> QED
  BY <1>2, <1>3, <1>4

\* Scripts compute a remainder as the code does: OP_DIV, OP_MUL and OP_ADD
\* undo OP_REM, without a wrap on the way.
THEOREM DivisionRestores ==
    ASSUME NEW x \in Words, NEW y \in Words, y # 0
    PROVE  LET q == Arithmetic("div", x, y)
               r == Arithmetic("rem", x, y)
           IN  r < y /\ Arithmetic("add", Arithmetic("mul", q, y), r) = x
<1> DEFINE q == x \div y
           r == x % y
<1>1. x \in Nat /\ y \in Nat /\ x < Modulus /\ y < Modulus /\ Modulus \in Nat /\ Modulus > 1
  BY OperatorsAssumption DEF Words
<1>2. q \in Nat /\ r \in Nat /\ r < y /\ x = y * q + r
  BY <1>1, Division
<1>3. q * y \in Nat /\ q * y = x - r /\ q * y < Modulus
  <2> HIDE DEF q, r
  <2> QED
    BY <1>1, <1>2
<1>4. (q * y) % Modulus = q * y
  <2> DEFINE p == q * y
  <2>1. p \in Nat /\ p < Modulus
    BY <1>3
  <2> HIDE DEF p
  <2>2. p % Modulus = p
    BY <2>1, <1>1
  <2> QED
    BY <2>2 DEF p
<1>5. (q * y + r) % Modulus = x
  <2>1. q * y + r = x
    <3> HIDE DEF q, r
    <3> QED
      BY <1>1, <1>2
  <2>2. x % Modulus = x
    BY <1>1
  <2> QED
    BY <2>1, <2>2
<1>6. /\ Arithmetic("div", x, y) = q
      /\ Arithmetic("rem", x, y) = r
      /\ Arithmetic("mul", q, y) = (q * y) % Modulus
      /\ Arithmetic("add", q * y, r) = (q * y + r) % Modulus
  BY DEF Arithmetic
<1> QED
  BY <1>2, <1>4, <1>5, <1>6

\* OP_SUB undoes OP_ADD and OP_NEG is OP_SUB from zero, whatever wraps.
THEOREM WrapIsUndone ==
    ASSUME NEW x \in Words, NEW y \in Words
    PROVE  /\ Arithmetic("sub", Arithmetic("add", x, y), y) = x
           /\ SingleResult("neg", Word(x)) = Word(Arithmetic("sub", 0, x))
<1>1. x \in Nat /\ y \in Nat /\ x < Modulus /\ y < Modulus /\ Modulus \in Nat /\ Modulus > 1
  BY OperatorsAssumption DEF Words
<1>2. (x + y) % Modulus = IF x + y < Modulus THEN x + y ELSE x + y - Modulus
  BY <1>1
<1>3. (((x + y) % Modulus) - y) % Modulus = x
  <2>1. CASE x + y < Modulus
    <3>1. ((x + y) % Modulus) - y = x
      BY <1>1, <1>2, <2>1
    <3>2. x % Modulus = x
      BY <1>1
    <3> QED
      BY <3>1, <3>2
  <2>2. CASE x + y >= Modulus
    <3>1. ((x + y) % Modulus) - y = x - Modulus
      BY <1>1, <1>2, <2>2
    <3>2. (x - Modulus) % Modulus = x
      BY <1>1
    <3> QED
      BY <3>1, <3>2
  <2> QED
    BY <2>1, <2>2, <1>1
<1>4. SingleResult("neg", Word(x)) = Word(Arithmetic("sub", 0, x))
  BY DEF SingleResult, Word, Arithmetic
<1> QED
  BY <1>3, <1>4 DEF Arithmetic

\* The comparisons agree: exactly one of LT, EQ and GT answers 1, LE and GE
\* are their negations, and NE answers what EQ does not.
THEOREM ComparisonsAgree ==
    ASSUME NEW x \in Words, NEW y \in Words
    PROVE  LET is(op) == Truth(Comparison(op, x, y))
           IN  /\ is("lt") + is("eq") + is("gt") = 1
               /\ is("le") = 1 - is("gt") /\ is("ge") = 1 - is("lt")
               /\ is("ne") = 1 - is("eq")
<1>1. x \in Nat /\ y \in Nat
  BY OperatorsAssumption DEF Words
<1>2. \/ x < y /\ x # y /\ ~(x > y) /\ x <= y /\ ~(x >= y)
      \/ x > y /\ x # y /\ ~(x < y) /\ x >= y /\ ~(x <= y)
      \/ x = y /\ ~(x > y) /\ ~(x < y) /\ x >= y /\ x <= y
  BY <1>1
<1>3. /\ Comparison("lt", x, y) = (x < y) /\ Comparison("le", x, y) = (x <= y)
      /\ Comparison("gt", x, y) = (x > y) /\ Comparison("ge", x, y) = (x >= y)
      /\ Comparison("eq", x, y) = (x = y) /\ Comparison("ne", x, y) = (x # y)
  BY DEF Comparison
<1>4. /\ Truth(x < y) + Truth(x = y) + Truth(x > y) = 1
      /\ Truth(x <= y) = 1 - Truth(x > y) /\ Truth(x >= y) = 1 - Truth(x < y)
      /\ Truth(x # y) = 1 - Truth(x = y)
  BY <1>2 DEF Truth
<1> QED
  BY <1>3, <1>4

\* OP_NE is the negation of OP_EQ for strings of one size only: of two strings
\* that differ in size, both say 0.
THEOREM NotEqualOfStrings ==
    ASSUME NEW s, NEW t
    PROVE  (StringResult("ne", s, t).it = 1 - StringResult("eq", s, t).it) <=> Len(s) = Len(t)
<1>1. StringResult("eq", s, t).it = Truth(Len(s) = Len(t) /\ s = t)
  BY DEF StringResult, Word
<1>2. StringResult("ne", s, t).it = Truth(Len(s) = Len(t) /\ s # t)
  BY DEF StringResult, Word
<1> QED
  BY <1>1, <1>2 DEF Truth
=============================================================================
