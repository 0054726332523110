--------------------------- MODULE CompilerProofs ---------------------------
(* What the compiler keeps count of, what a saved script is when it is       *)
(* loaded, and that the bytecode is the program, for all programs, names and *)
(* sizes that fit an operand.                                                *)
EXTENDS Compiler, FiniteSetTheorems, WellFoundedInduction, TLAPS

Phases == {"compile", "compiled", "saved", "freed", "loaded", "refused", "end", "CRASH", "WILD"}
ParserStates == {"functions", "name", "open", "statement", "colon"}

\* Of a statement.
ItemT == [op : Opcodes \cup {"label", "locals"}, ref : BOOLEAN,
          word : Names \cup Labels \cup Strings \cup {None}, num : Nat]

\* The labels and references of a function tell what its statements say.
Refers(f, items) ==
    /\ f = [nameIndex |-> f.nameIndex, index |-> f.index, locals |-> f.locals,
            code |-> f.code, stream |-> f.stream, labels |-> f.labels, refs |-> f.refs]
    /\ f.labels \in [Labels -> Nat \cup {None}]
    /\ f.refs \in Seq([offset : Nat, label : Labels])
    /\ f.stream.position \in Nat
    /\ \A l \in Labels : f.labels[l] = None <=> Places(items, l) = {}
    /\ \A i \in DOMAIN f.refs : \E j \in DOMAIN items :
          Form(items[j]) = "label" /\ items[j].word = f.refs[i].label
    /\ \A j \in DOMAIN items : Form(items[j]) = "label" =>
          \E i \in DOMAIN f.refs : f.refs[i].label = items[j].word

InFunction == phase = "compile" /\ at \in {"statement", "colon"}

ParserInv ==
    /\ phase \in Phases /\ at \in ParserStates
    /\ phase \in Phases \ {"compile", "CRASH", "WILD"} => at = "functions"
    /\ tables \in Int
    /\ source \in Seq([name : Names, items : Seq(ItemT)])
    /\ phase = "compile" /\ at = "open" => taken \in Names
    /\ phase = "compile" /\ at = "colon" => taken \in Labels

ScriptInv ==
    /\ script = [strings |-> script.strings, functions |-> script.functions]
    /\ script.functions = [n \in Defined(script) |-> script.functions[n]]
    /\ Defined(script) \subseteq Names /\ IsFiniteSet(Defined(script))

FunctionInv ==
    InFunction =>
        /\ source # <<>>
        /\ current = source[Len(source)].name
        /\ current \in Defined(script)
        /\ Refers(This, source[Len(source)].items)

CInv == ParserInv /\ ScriptInv /\ FunctionInv /\ TablesBalance
-----------------------------------------------------------------------------
LEMMA NoLabelOpcode == "label" \notin Opcodes /\ "locals" \notin Opcodes
<1>1. "label" \notin DOMAIN Grammar /\ "locals" \notin DOMAIN Grammar
  BY DEF Grammar, StackOps, ConstantOps, OperatorOps, FlowOps, FunctionOps
<1> QED BY <1>1, CompilerAssumption

LEMMA InitCInv == Init => CInv
<1> SUFFICES ASSUME Init PROVE CInv
  OBVIOUS
<1>1. Defined(script) = {} /\ script = [strings |-> <<>>, functions |-> <<>>]
  BY DEF Init, EmptyScript, Defined
<1>2. ScriptInv
  BY <1>1, FS_EmptySet DEF ScriptInv, Defined
<1>3. ParserInv
  BY DEF ParserInv, Init, Phases, ParserStates
<1>4. FunctionInv
  BY DEF FunctionInv, InFunction, Init
<1>5. TablesBalance
  <2>1. Unresolved = {}
    BY DEF Unresolved, Init
  <2> QED BY <2>1, FS_EmptySet DEF TablesBalance, Init
<1> QED BY <1>2, <1>3, <1>4, <1>5 DEF CInv

LEMMA LeastNatural ==
    ASSUME NEW S \in SUBSET Nat, S # {}
    PROVE  \E n \in S : \A m \in S : n <= m
<1>1. PICK n \in S : \A m \in S : <<m, n>> \notin OpToRel(<, Nat)
  <2>1. IsWellFoundedOn(OpToRel(<, Nat), Nat)
    BY NatLessThanWellFounded
  <2> QED BY <2>1, WFMin
<1>2. \A m \in S : ~(m < n)
  BY <1>1 DEF OpToRel
<1> QED BY <1>2

LEMMA Members ==
    ASSUME NEW S, NEW s \in Seq(S)
    PROVE  /\ DOMAIN s = 1..Len(s) /\ Len(s) \in Nat
           /\ \A i \in DOMAIN s : s[i] \in S
OBVIOUS

LEMMA MinIsMember ==
    ASSUME NEW S \in SUBSET Nat, S # {}
    PROVE  Min(S) \in S /\ \A m \in S : Min(S) <= m
BY LeastNatural DEF Min

\* What is patched is all exactly if every label is known.
LEMMA PatchedOrLost ==
    ASSUME NEW f, f.refs \in Seq([offset : Nat, label : Labels])
    PROVE  Finalizes(f) <=> \A i \in DOMAIN f.refs : f.labels[f.refs[i].label] # None
<1> DEFINE I == {i \in 1..Len(f.refs) : f.labels[f.refs[i].label] = None}
           u == IF I # {} THEN Min(I) ELSE 0
<1>1. Known(f) = IF u = 0 THEN f.refs ELSE SubSeq(f.refs, 1, u - 1)
  BY DEF Known, SelectInSeq
<1>2. CASE I = {}
  <2>1. u = 0
    BY <1>2
  <2> QED BY <1>1, <1>2, <2>1 DEF Finalizes
<1>3. CASE I # {}
  <2>1. u \in I
    <3>1. I \in SUBSET Nat
      OBVIOUS
    <3> HIDE DEF I
    <3> QED BY <1>3, <3>1, MinIsMember
  <2>2. u \in 1..Len(f.refs) /\ u # 0
    BY <2>1
  <2> HIDE DEF u, I
  <2>3. Len(SubSeq(f.refs, 1, u - 1)) = u - 1
    BY <2>2
  <2>4. Known(f) # f.refs
    BY <1>1, <2>2, <2>3
  <2> QED BY <2>1, <2>4 DEF Finalizes, I
<1> QED BY <1>2, <1>3

LEMMA LostOrFinal ==
    ASSUME NEW f, NEW items \in Seq(ItemT), Refers(f, items)
    PROVE  Finalizes(f) <=> ~Lost(items, Len(items))
<1>1. f.refs \in Seq([offset : Nat, label : Labels])
  BY DEF Refers
<1>2. \A i \in DOMAIN f.refs : f.refs[i].label \in Labels
  <2> DEFINE R == [offset : Nat, label : Labels]
             refs == f.refs
  <2>1. refs \in Seq(R)
    BY <1>1
  <2>2. \A r \in R : r.label \in Labels
    OBVIOUS
  <2> HIDE DEF refs, R
  <2>3. \A i \in DOMAIN refs : refs[i] \in R
    BY <2>1, Members
  <2>4. \A i \in DOMAIN refs : refs[i].label \in Labels
    BY <2>2, <2>3
  <2> QED BY <2>4 DEF refs
<1>3. \A l \in Labels : f.labels[l] = None <=> Places(items, l) = {}
  BY DEF Refers
<1>4. \A i \in DOMAIN f.refs : \E j \in DOMAIN items :
          Form(items[j]) = "label" /\ items[j].word = f.refs[i].label
  BY DEF Refers
<1>5. \A j \in DOMAIN items : Form(items[j]) = "label" =>
          \E i \in DOMAIN f.refs : f.refs[i].label = items[j].word
  BY DEF Refers
<1>6. DOMAIN items = 1..Len(items)
  OBVIOUS
<1>7. Lost(items, Len(items)) <=> \E i \in DOMAIN f.refs : f.labels[f.refs[i].label] = None
  <2>1. ASSUME NEW j \in DOMAIN items, Form(items[j]) = "label", Places(items, items[j].word) = {}
        PROVE  \E i \in DOMAIN f.refs : f.labels[f.refs[i].label] = None
    <3>1. PICK i \in DOMAIN f.refs : f.refs[i].label = items[j].word
      BY <1>5, <2>1
    <3> QED BY <1>2, <1>3, <2>1, <3>1
  <2>2. ASSUME NEW i \in DOMAIN f.refs, f.labels[f.refs[i].label] = None
        PROVE  \E j \in DOMAIN items :
                  Form(items[j]) = "label" /\ Places(items, items[j].word) = {}
    <3>1. PICK j \in DOMAIN items : Form(items[j]) = "label" /\ items[j].word = f.refs[i].label
      BY <1>4
    <3> QED BY <1>2, <1>3, <2>2, <3>1
  <2> QED BY <1>6, <2>1, <2>2 DEF Lost
<1> QED BY <1>1, <1>7, PatchedOrLost

-----------------------------------------------------------------------------
(* A statement more.                                                         *)

LEMMA OneMore ==
    ASSUME NEW S, NEW s \in Seq(S), NEW x \in S
    PROVE  /\ Append(s, x) \in Seq(S) /\ Len(Append(s, x)) = Len(s) + 1
           /\ DOMAIN Append(s, x) = DOMAIN s \cup {Len(s) + 1} /\ Len(s) + 1 \notin DOMAIN s
           /\ Append(s, x)[Len(s) + 1] = x
           /\ \A i \in DOMAIN s : Append(s, x)[i] = s[i]
OBVIOUS

LEMMA MorePlaces ==
    ASSUME NEW items \in Seq(ItemT), NEW item \in ItemT, NEW l
    PROVE  Places(Append(items, item), l) =
              Places(items, l)
              \cup (IF item.op = "label" /\ item.word = l THEN {Len(items) + 1} ELSE {})
<1> DEFINE more == Append(items, item)
<1>1. /\ DOMAIN more = DOMAIN items \cup {Len(items) + 1}
      /\ more[Len(items) + 1] = item
      /\ \A i \in DOMAIN items : more[i] = items[i]
      /\ Len(items) + 1 \notin DOMAIN items
  BY OneMore
<1> HIDE DEF more
<1>2. Places(more, l) = Places(items, l)
              \cup (IF item.op = "label" /\ item.word = l THEN {Len(items) + 1} ELSE {})
  BY <1>1 DEF Places
<1> QED BY <1>2 DEF more

\* A statement that is no label and jumps to none.
LEMMA StatementRefers ==
    ASSUME NEW f, NEW items \in Seq(ItemT), Refers(f, items),
           NEW g, NEW item \in ItemT, item.op # "label", Form(item) # "label",
           g = [nameIndex |-> g.nameIndex, index |-> g.index, locals |-> g.locals,
                code |-> g.code, stream |-> g.stream, labels |-> g.labels, refs |-> g.refs],
           g.labels = f.labels, g.refs = f.refs, g.stream.position \in Nat
    PROVE  Refers(g, Append(items, item))
<1> DEFINE more == Append(items, item)
<1>1. /\ DOMAIN more = DOMAIN items \cup {Len(items) + 1}
      /\ more[Len(items) + 1] = item
      /\ \A i \in DOMAIN items : more[i] = items[i]
      /\ Len(items) + 1 \notin DOMAIN items
  BY OneMore
<1>2. \A l : Places(more, l) = Places(items, l)
  <2> TAKE l
  <2>1. Places(more, l) = Places(items, l)
           \cup (IF item.op = "label" /\ item.word = l THEN {Len(items) + 1} ELSE {})
    BY MorePlaces
  <2> QED BY <2>1
<1> HIDE DEF more
<1>3. \A l \in Labels : g.labels[l] = None <=> Places(more, l) = {}
  BY <1>2 DEF Refers
<1>4. \A i \in DOMAIN g.refs : \E j \in DOMAIN more :
          Form(more[j]) = "label" /\ more[j].word = g.refs[i].label
  <2> TAKE i \in DOMAIN g.refs
  <2>1. PICK j \in DOMAIN items : Form(items[j]) = "label" /\ items[j].word = g.refs[i].label
    BY DEF Refers
  <2> QED BY <1>1, <2>1
<1>5. \A j \in DOMAIN more : Form(more[j]) = "label" =>
          \E i \in DOMAIN g.refs : g.refs[i].label = more[j].word
  <2> TAKE j \in DOMAIN more
  <2> HAVE Form(more[j]) = "label"
  <2>1. j \in DOMAIN items /\ more[j] = items[j]
    BY <1>1
  <2> QED BY <2>1 DEF Refers
<1>6. g.labels \in [Labels -> Nat \cup {None}] /\ g.refs \in Seq([offset : Nat, label : Labels])
  BY DEF Refers
<1> QED BY <1>3, <1>4, <1>5, <1>6 DEF Refers, more

\* A jump.
LEMMA JumpRefers ==
    ASSUME NEW f, NEW items \in Seq(ItemT), Refers(f, items),
           NEW g, NEW item \in ItemT, item.op # "label", Form(item) = "label",
           NEW r \in [offset : Nat, label : Labels], r.label = item.word,
           g = [nameIndex |-> g.nameIndex, index |-> g.index, locals |-> g.locals,
                code |-> g.code, stream |-> g.stream, labels |-> g.labels, refs |-> g.refs],
           g.labels = f.labels, g.refs = Append(f.refs, r), g.stream.position \in Nat
    PROVE  Refers(g, Append(items, item))
<1> DEFINE more == Append(items, item)
<1>1. /\ DOMAIN more = DOMAIN items \cup {Len(items) + 1}
      /\ more[Len(items) + 1] = item
      /\ \A i \in DOMAIN items : more[i] = items[i]
  BY OneMore
<1>2. \A l : Places(more, l) = Places(items, l)
  <2> TAKE l
  <2>1. Places(more, l) = Places(items, l)
           \cup (IF item.op = "label" /\ item.word = l THEN {Len(items) + 1} ELSE {})
    BY MorePlaces
  <2> QED BY <2>1
<1> HIDE DEF more
<1> DEFINE R == [offset : Nat, label : Labels]
<1>3. f.refs \in Seq(R)
  BY DEF Refers
<1> HIDE DEF R
<1>4. /\ g.refs \in Seq(R)
      /\ DOMAIN g.refs = DOMAIN f.refs \cup {Len(f.refs) + 1}
      /\ g.refs[Len(f.refs) + 1] = r
      /\ \A i \in DOMAIN f.refs : g.refs[i] = f.refs[i]
  <2>1. r \in R
    BY DEF R
  <2> QED BY <1>3, <2>1, OneMore
<1>5. \A l \in Labels : g.labels[l] = None <=> Places(more, l) = {}
  BY <1>2 DEF Refers
<1>6. \A i \in DOMAIN g.refs : \E j \in DOMAIN more :
          Form(more[j]) = "label" /\ more[j].word = g.refs[i].label
  <2> TAKE i \in DOMAIN g.refs
  <2>1. CASE i = Len(f.refs) + 1
    BY <1>1, <1>4, <2>1
  <2>2. CASE i \in DOMAIN f.refs
    <3>1. PICK j \in DOMAIN items : Form(items[j]) = "label" /\ items[j].word = f.refs[i].label
      BY <2>2 DEF Refers
    <3> QED BY <1>1, <1>4, <2>2, <3>1
  <2> QED BY <1>4, <2>1, <2>2
<1>7. \A j \in DOMAIN more : Form(more[j]) = "label" =>
          \E i \in DOMAIN g.refs : g.refs[i].label = more[j].word
  <2> TAKE j \in DOMAIN more
  <2> HAVE Form(more[j]) = "label"
  <2>1. CASE j = Len(items) + 1
    BY <1>1, <1>4, <2>1
  <2>2. CASE j \in DOMAIN items
    <3>1. PICK i \in DOMAIN f.refs : f.refs[i].label = items[j].word
      BY <1>1, <2>2 DEF Refers
    <3> QED BY <1>1, <1>4, <2>2, <3>1
  <2> QED BY <1>1, <2>1, <2>2
<1>8. g.labels \in [Labels -> Nat \cup {None}]
  BY DEF Refers
<1> QED BY <1>4, <1>5, <1>6, <1>7, <1>8 DEF Refers, more, R

\* A label, set again perhaps.
LEMMA LabelRefers ==
    ASSUME NEW f, NEW items \in Seq(ItemT), Refers(f, items),
           NEW l \in Labels, NEW item \in ItemT, item.op = "label", item.word = l
    PROVE  Refers(SetLabel(f, l), Append(items, item))
<1> DEFINE more == Append(items, item)
           g == SetLabel(f, l)
<1>1. /\ DOMAIN more = DOMAIN items \cup {Len(items) + 1}
      /\ more[Len(items) + 1] = item
      /\ \A i \in DOMAIN items : more[i] = items[i]
  BY OneMore
<1>2. \A m : Places(more, m) = Places(items, m) \cup (IF m = l THEN {Len(items) + 1} ELSE {})
  <2> TAKE m
  <2>1. Places(more, m) = Places(items, m)
           \cup (IF item.op = "label" /\ item.word = m THEN {Len(items) + 1} ELSE {})
    BY MorePlaces
  <2> QED BY <2>1
<1> HIDE DEF more
<1>3. /\ g = [nameIndex |-> f.nameIndex, index |-> f.index, locals |-> f.locals, code |-> f.code,
              stream |-> f.stream, labels |-> [f.labels EXCEPT ![l] = f.stream.position],
              refs |-> f.refs]
  <2>1. f = [nameIndex |-> f.nameIndex, index |-> f.index, locals |-> f.locals,
            code |-> f.code, stream |-> f.stream, labels |-> f.labels, refs |-> f.refs]
    BY DEF Refers
  <2> QED BY <2>1 DEF SetLabel
<1> HIDE DEF g
<1>4. Form(item) # "label"
  BY NoLabelOpcode DEF Form
<1>5. /\ g = [nameIndex |-> g.nameIndex, index |-> g.index, locals |-> g.locals,
            code |-> g.code, stream |-> g.stream, labels |-> g.labels, refs |-> g.refs]
      /\ g.refs = f.refs /\ g.stream = f.stream
      /\ g.labels = [f.labels EXCEPT ![l] = f.stream.position]
  BY <1>3
<1>6. f.labels \in [Labels -> Nat \cup {None}] /\ f.stream.position \in Nat
  BY DEF Refers
<1>7. g.labels \in [Labels -> Nat \cup {None}]
  BY <1>5, <1>6
<1>8. \A m \in Labels : g.labels[m] = None <=> Places(more, m) = {}
  <2> TAKE m \in Labels
  <2>1. f.labels[m] = None <=> Places(items, m) = {}
    BY DEF Refers
  <2>2. f.stream.position # None
    BY <1>6, EmitterAssumption
  <2> QED BY <1>2, <1>5, <1>6, <2>1, <2>2
<1>9. \A i \in DOMAIN g.refs : \E j \in DOMAIN more :
          Form(more[j]) = "label" /\ more[j].word = g.refs[i].label
  <2> TAKE i \in DOMAIN g.refs
  <2>1. PICK j \in DOMAIN items : Form(items[j]) = "label" /\ items[j].word = f.refs[i].label
    BY <1>5 DEF Refers
  <2> QED BY <1>1, <1>5, <2>1
<1>10. \A j \in DOMAIN more : Form(more[j]) = "label" =>
          \E i \in DOMAIN g.refs : g.refs[i].label = more[j].word
  <2> TAKE j \in DOMAIN more
  <2> HAVE Form(more[j]) = "label"
  <2>1. j \in DOMAIN items /\ more[j] = items[j]
    BY <1>1, <1>4
  <2> QED BY <1>5, <2>1 DEF Refers
<1>11. g.refs \in Seq([offset : Nat, label : Labels]) /\ g.stream.position \in Nat
  BY <1>5 DEF Refers
<1> QED BY <1>5, <1>7, <1>8, <1>9, <1>10, <1>11 DEF Refers, more, g

-----------------------------------------------------------------------------
(* The steps.                                                                *)

FunctionT == [name : Names, items : Seq(ItemT)]

LEMMA UnresolvedFinite ==
    ASSUME ParserInv
    PROVE  IsFiniteSet(Unresolved) /\ Cardinality(Unresolved) \in Nat
<1>1. IsFiniteSet(DOMAIN source)
  <2>1. DOMAIN source = 1..Len(source) /\ Len(source) \in Nat
    BY Members DEF ParserInv
  <2> QED BY <2>1, FS_Interval
<1>2. Unresolved \subseteq DOMAIN source
  BY DEF Unresolved
<1> QED BY <1>1, <1>2, FS_Subset, FS_CardinalityType

LEMMA LastFunction ==
    ASSUME ParserInv, FunctionInv, InFunction
    PROVE  LET n == Len(source)
           IN  /\ n \in Nat \ {0} /\ DOMAIN source = 1..n
               /\ \A k \in 1..n : source[k] = [name |-> source[k].name, items |-> source[k].items]
               /\ \A k \in 1..n : source[k].name \in Names /\ source[k].items \in Seq(ItemT)
               /\ current = source[n].name /\ current \in Defined(script)
               /\ Refers(This, source[n].items)
<1>1. source \in Seq(FunctionT) /\ source # <<>>
  BY DEF ParserInv, FunctionInv, FunctionT
<1>2. \A e \in FunctionT : /\ e = [name |-> e.name, items |-> e.items]
                           /\ e.name \in Names /\ e.items \in Seq(ItemT)
  BY DEF FunctionT
<1>3. /\ Len(source) \in Nat \ {0} /\ DOMAIN source = 1..Len(source)
      /\ \A k \in 1..Len(source) : source[k] \in FunctionT
  BY <1>1
<1>4. \A k \in 1..Len(source) : /\ source[k] = [name |-> source[k].name, items |-> source[k].items]
                                /\ source[k].name \in Names /\ source[k].items \in Seq(ItemT)
  BY <1>2, <1>3
<1> QED BY <1>3, <1>4 DEF FunctionInv

\* A reduction: what it makes of the source and of the script.
LEMMA Reduced ==
    ASSUME CInv, InFunction, NEW s, NEW f, NEW item \in ItemT,
           s = [strings |-> s.strings, functions |-> script.functions],
           Reduce(s, f, item, "statement")
    PROVE  LET n == Len(source)
           IN  /\ source' \in Seq(FunctionT) /\ DOMAIN source' = 1..n /\ Len(source') = n
               /\ source'[n] = [name |-> source[n].name, items |-> Append(source[n].items, item)]
               /\ \A k \in 1..n : k # n => source'[k] = source[k]
               /\ script'.strings = s.strings /\ Defined(script)' = Defined(script)
               /\ \A m \in Defined(script) : script'.functions[m] =
                     IF m = current THEN f ELSE script.functions[m]
               /\ at' = "statement" /\ phase' = phase /\ current' = current
<1> DEFINE n == Len(source)
           items == source[n].items
           more == Append(items, item)
<1>1. /\ n \in Nat \ {0} /\ DOMAIN source = 1..n
      /\ \A k \in 1..n : source[k] = [name |-> source[k].name, items |-> source[k].items]
      /\ \A k \in 1..n : source[k].name \in Names /\ source[k].items \in Seq(ItemT)
      /\ current = source[n].name /\ current \in Defined(script)
  BY LastFunction DEF CInv
<1>2. more \in Seq(ItemT)
  <2>1. items \in Seq(ItemT)
    BY <1>1
  <2> QED BY <2>1, OneMore
<1>3. source' = [source EXCEPT ![n].items = Append(@, item)]
  BY DEF Reduce
<1>4. /\ DOMAIN source' = 1..n /\ Len(source') = n
      /\ source'[n] = [name |-> source[n].name, items |-> more]
      /\ \A k \in 1..n : k # n => source'[k] = source[k]
  <2>1. source' = [source EXCEPT ![n] = [source[n] EXCEPT !.items = Append(@, item)]]
    BY <1>3
  <2>2. [source[n] EXCEPT !.items = Append(@, item)] = [name |-> source[n].name, items |-> more]
    <3> DEFINE r == source[n]
               name == source[n].name
    <3>1. r = [name |-> name, items |-> items]
      <4>1. n \in 1..n
        BY <1>1
      <4> HIDE DEF n
      <4> QED BY <1>1, <4>1
    <3> HIDE DEF r, items, name
    <3>2. \A x : [r EXCEPT !.items = Append(@, x)] = [name |-> name, items |-> Append(items, x)]
      BY <3>1, SMTT(30)
    <3> QED BY <3>2 DEF r, name
  <2>3. source \in Seq(FunctionT)
    BY DEF CInv, ParserInv, FunctionT
  <2> HIDE DEF n, more
  <2>4. source' = [source EXCEPT ![n] = [name |-> source[n].name, items |-> more]]
    BY <2>1, <2>2
  <2>5. Len(source') = Len(source)
    BY <2>3, <2>4, <1>1, DOMAIN source' = DOMAIN source DEF n
  <2> QED BY <1>1, <2>4, <2>5 DEF n
<1> HIDE DEF n, more
<1>5. source' \in Seq(FunctionT)
  <2>1. [name |-> source[n].name, items |-> more] \in FunctionT
    BY <1>1, <1>2 DEF FunctionT
  <2>2. \A k \in 1..n : source[k] \in FunctionT
    BY <1>1 DEF FunctionT
  <2>3. \A k \in 1..n : source'[k] \in FunctionT
    BY <1>4, <2>1, <2>2
  <2>4. source' = [k \in 1..n |-> source'[k]]
    BY <1>3, <1>4
  <2> QED BY <1>1, <2>3, <2>4
<1>6. /\ script' = [strings |-> s.strings, functions |-> [script.functions EXCEPT ![current] = f]]
      /\ at' = "statement" /\ phase' = phase /\ current' = current
  BY DEF Reduce, tool
<1>7. script.functions = [m \in Defined(script) |-> script.functions[m]]
  BY DEF CInv, ScriptInv
<1>8. /\ script'.strings = s.strings /\ Defined(script)' = Defined(script)
      /\ \A m \in Defined(script) : script'.functions[m] =
            IF m = current THEN f ELSE script.functions[m]
  BY <1>6, <1>7 DEF Defined
<1> QED BY <1>4, <1>5, <1>6, <1>8 DEF n, more

LEMMA ReduceCInv ==
    ASSUME CInv, InFunction, NEW s, NEW f, NEW item \in ItemT,
           s = [strings |-> s.strings, functions |-> script.functions],
           Refers(f, Append(source[Len(source)].items, item)),
           Reduce(s, f, item, "statement")
    PROVE  CInv'
<1> DEFINE n == Len(source)
           items == source[n].items
           more == Append(items, item)
<1>1. /\ n \in Nat \ {0} /\ DOMAIN source = 1..n
      /\ current = source[n].name /\ current \in Defined(script)
  BY LastFunction DEF CInv
<1>2. Refers(f, more)
  OBVIOUS
<1>3. /\ source' \in Seq(FunctionT) /\ DOMAIN source' = 1..n /\ Len(source') = n
      /\ source'[n] = [name |-> source[n].name, items |-> more]
      /\ \A k \in 1..n : k # n => source'[k] = source[k]
  BY Reduced
<1>4. /\ script'.strings = s.strings /\ Defined(script)' = Defined(script)
      /\ \A m \in Defined(script) : script'.functions[m] =
            IF m = current THEN f ELSE script.functions[m]
      /\ at' = "statement" /\ phase' = phase /\ current' = current
  BY Reduced
<1> HIDE DEF n, items, more
<1>5. script' = [strings |-> s.strings, functions |-> [script.functions EXCEPT ![current] = f]]
      /\ tables' = tables
  BY DEF Reduce
<1>6. ParserInv'
  BY <1>3, <1>4, <1>5 DEF CInv, ParserInv, FunctionT, InFunction, ParserStates
<1>7. ScriptInv'
  <2>1. script.functions = [m \in Defined(script) |-> script.functions[m]]
    BY DEF CInv, ScriptInv
  <2> QED BY <1>4, <1>5, <2>1 DEF CInv, ScriptInv, Defined
<1>8. FunctionInv'
  <2>1. This' = f
    BY <1>1, <1>4 DEF This
  <2>2. source'[Len(source')].items = more /\ source'[Len(source')].name = source[n].name
    BY <1>1, <1>3
  <2>3. source' # <<>>
    BY <1>1, <1>3
  <2> QED BY <1>1, <1>2, <1>4, <2>1, <2>2, <2>3 DEF FunctionInv
<1>9. TablesBalance'
  <2>1. Unresolved' = Unresolved
    <3>1. \A k \in 1..n : Parsed(k)' <=> k < n
      BY <1>1, <1>3, <1>4 DEF Parsed
    <3>2. \A k \in 1..n : Parsed(k) <=> k < n
      BY <1>1 DEF Parsed, InFunction, n
    <3>3. \A k \in 1..n : k < n => source'[k] = source[k]
      BY <1>1, <1>3
    <3> QED BY <1>1, <1>3, <3>1, <3>2, <3>3 DEF Unresolved
  <2> QED BY <1>4, <1>5, <2>1 DEF TablesBalance, CInv, InFunction
<1> QED BY <1>6, <1>7, <1>8, <1>9 DEF CInv

LEMMA WriteMoves ==
    ASSUME NEW ms, NEW bytes, ms.position \in Nat, Len(bytes) \in Nat
    PROVE  Write(ms, bytes).position = ms.position + Len(bytes)
           /\ Write(ms, bytes).position \in Nat
BY DEF Write

LEMMA EncodedLen == ASSUME NEW v PROVE Len(Encoded(v)) = Width /\ Width \in Nat \ {0}
<1>1. Width \in Nat \ {0}
  BY EmitterAssumption
<1>2. Encoded(v) = [i \in 1..Width |-> Encoded(v)[i]]
  BY DEF Encoded
<1> QED BY <1>1, <1>2

\* What an emitted instruction leaves alone.
LEMMA EmitsOp ==
    ASSUME NEW f, NEW items, Refers(f, items), NEW op, NEW ref
    PROVE  /\ EmitOp(f, op, ref) = [f EXCEPT !.stream = EmitOp(f, op, ref).stream]
           /\ EmitOp(f, op, ref).stream.position \in Nat
<1> DEFINE one == <<Prefixed(op, ref)>>
           a == Write(f.stream, one)
<1>1. f = [nameIndex |-> f.nameIndex, index |-> f.index, locals |-> f.locals,
           code |-> f.code, stream |-> f.stream, labels |-> f.labels, refs |-> f.refs]
      /\ f.stream.position \in Nat
  BY DEF Refers
<1>2. Len(one) \in Nat
  OBVIOUS
<1>3. a.position \in Nat
  <2> HIDE DEF one
  <2> QED BY <1>1, <1>2, WriteMoves
<1> HIDE DEF one, a
<1>4. EmitOp(f, op, ref) = [f EXCEPT !.stream = a]
  BY DEF EmitOp, a, one
<1>5. [f EXCEPT !.stream = a].stream = a
  BY <1>1
<1> QED BY <1>3, <1>4, <1>5

LEMMA EmitsOp2 ==
    ASSUME NEW f, f = [nameIndex |-> f.nameIndex, index |-> f.index, locals |-> f.locals,
                       code |-> f.code, stream |-> f.stream, labels |-> f.labels, refs |-> f.refs],
           f.stream.position \in Nat, NEW op, NEW ref, NEW v
    PROVE  /\ EmitOp2(f, op, ref, v) = [f EXCEPT !.stream = EmitOp2(f, op, ref, v).stream]
           /\ EmitOp2(f, op, ref, v).stream.position \in Nat
<1> DEFINE one == <<Prefixed(op, ref)>>
           a == Write(f.stream, one)
           b == Write(a, Encoded(v))
<1>1. Len(one) \in Nat
  OBVIOUS
<1>2. a.position \in Nat
  <2> HIDE DEF one
  <2> QED BY <1>1, WriteMoves
<1>3. b.position \in Nat
  <2> HIDE DEF a
  <2> QED BY <1>2, EncodedLen, WriteMoves
<1> HIDE DEF one, a, b
<1>4. EmitOp2(f, op, ref, v) = [f EXCEPT !.stream = b]
  BY DEF EmitOp2, b, a, one
<1>5. [f EXCEPT !.stream = b].stream = b
  OBVIOUS
<1> QED BY <1>3, <1>4, <1>5

LEMMA ItemTypes ==
    ASSUME NEW op \in Opcodes \cup {"label", "locals"}, NEW ref \in BOOLEAN,
           NEW word \in Names \cup Labels \cup Strings \cup {None}, NEW num \in Nat
    PROVE  /\ Item(op, ref, word, num) \in ItemT
           /\ Item(op, ref, word, num).op = op /\ Item(op, ref, word, num).word = word
           /\ Form(Item(op, ref, word, num)) = IF op \in Opcodes THEN Grammar[op] ELSE "none"
BY DEF Item, ItemT, Form

LEMMA InputTypes ==
    ASSUME NEW in \in Inputs
    PROVE  in[1] \in Opcodes /\ in[2] \in BOOLEAN /\ in[1] # "label" /\ in[1] # "locals"
BY NoLabelOpcode, CompilerAssumption

LEMMA OpCInv ==
    ASSUME CInv, NEW o \in Opcodes, NEW ref \in BOOLEAN, Op(o, ref)
    PROVE  CInv'
<1> DEFINE item == Item(o, ref, None, 0)
           items == source[Len(source)].items
           g == EmitOp(This, o, ref)
<1>1. InFunction /\ Grammar[o] = "nothing" /\ Reduce(script, g, item, "statement")
  BY DEF Op, Parsing, InFunction
<1>2. item \in ItemT /\ item.op = o /\ Form(item) = Grammar[o]
  BY ItemTypes
<1>3. items \in Seq(ItemT) /\ Refers(This, items)
  BY <1>1, LastFunction DEF CInv
<1> HIDE DEF item, items
<1>4. g = [This EXCEPT !.stream = g.stream] /\ g.stream.position \in Nat
  BY <1>3, EmitsOp
<1> HIDE DEF g
<1>5. g = [nameIndex |-> g.nameIndex, index |-> g.index, locals |-> g.locals, code |-> g.code,
           stream |-> g.stream, labels |-> g.labels, refs |-> g.refs]
      /\ g.labels = This.labels /\ g.refs = This.refs
  BY <1>3, <1>4 DEF Refers
<1>6. Refers(g, Append(items, item))
  BY <1>1, <1>2, <1>3, <1>4, <1>5, NoLabelOpcode, StatementRefers
<1>7. script = [strings |-> script.strings, functions |-> script.functions]
  BY DEF CInv, ScriptInv
<1> QED BY <1>1, <1>2, <1>6, <1>7, ReduceCInv DEF items

LEMMA MoreRefs ==
    ASSUME NEW f, NEW r,
           f = [nameIndex |-> f.nameIndex, index |-> f.index, locals |-> f.locals,
                code |-> f.code, stream |-> f.stream, labels |-> f.labels, refs |-> f.refs]
    PROVE  [f EXCEPT !.refs = Append(@, r)] =
               [nameIndex |-> f.nameIndex, index |-> f.index, locals |-> f.locals,
                code |-> f.code, stream |-> f.stream, labels |-> f.labels,
                refs |-> Append(f.refs, r)]
OBVIOUS

\* The function emitted, as it is and with another stream.
LEMMA ThisFunction ==
    ASSUME CInv, InFunction, NEW g, NEW op, NEW ref, NEW v, g = EmitOp2(This, op, ref, v)
    PROVE  /\ g = [nameIndex |-> g.nameIndex, index |-> g.index, locals |-> g.locals,
                   code |-> g.code, stream |-> g.stream, labels |-> g.labels, refs |-> g.refs]
           /\ g.labels = This.labels /\ g.refs = This.refs /\ g.stream.position \in Nat
<1>1. Refers(This, source[Len(source)].items)
  BY LastFunction DEF CInv
<1>2. /\ This = [nameIndex |-> This.nameIndex, index |-> This.index, locals |-> This.locals,
                 code |-> This.code, stream |-> This.stream, labels |-> This.labels,
                 refs |-> This.refs]
      /\ This.stream.position \in Nat
  BY <1>1 DEF Refers
<1>3. g = [This EXCEPT !.stream = g.stream] /\ g.stream.position \in Nat
  BY <1>2, EmitsOp2
<1> QED BY <1>2, <1>3

LEMMA OpNumberCInv ==
    ASSUME CInv, NEW o \in Opcodes, NEW ref \in BOOLEAN, NEW num \in Constants,
           OpNumber(o, ref, num)
    PROVE  CInv'
<1> DEFINE item == Item(o, ref, None, num)
           items == source[Len(source)].items
           g == EmitOp2(This, o, ref, num)
<1>1. InFunction /\ Grammar[o] = "number" /\ Reduce(script, g, item, "statement")
  BY DEF OpNumber, Parsing, InFunction
<1>2. item \in ItemT /\ item.op = o /\ Form(item) = Grammar[o]
  <2>1. num \in Nat
    BY CompilerAssumption
  <2> QED BY <2>1, ItemTypes
<1>3. items \in Seq(ItemT) /\ Refers(This, items)
  BY <1>1, LastFunction DEF CInv
<1> HIDE DEF item, items
<1>4. /\ g = [nameIndex |-> g.nameIndex, index |-> g.index, locals |-> g.locals, code |-> g.code,
              stream |-> g.stream, labels |-> g.labels, refs |-> g.refs]
      /\ g.labels = This.labels /\ g.refs = This.refs /\ g.stream.position \in Nat
  BY <1>1, ThisFunction
<1> HIDE DEF g
<1>5. Refers(g, Append(items, item))
  BY <1>1, <1>2, <1>3, <1>4, NoLabelOpcode, StatementRefers
<1>6. script = [strings |-> script.strings, functions |-> script.functions]
  BY DEF CInv, ScriptInv
<1> QED BY <1>1, <1>2, <1>5, <1>6, ReduceCInv DEF items

LEMMA AddedString ==
    ASSUME ScriptInv, NEW str
    PROVE  /\ AddString(script, str) = [strings |-> AddString(script, str).strings,
                                        functions |-> script.functions]
           /\ AddString(script, str).strings =
                 IF Contains(script.strings, str) THEN script.strings
                 ELSE Append(script.strings, str)
BY DEF ScriptInv, AddString

LEMMA OpStringCInv ==
    ASSUME CInv, NEW o \in Opcodes, NEW ref \in BOOLEAN, NEW str \in Strings,
           OpString(o, ref, str)
    PROVE  CInv'
<1> DEFINE item == Item(o, ref, str, 0)
           items == source[Len(source)].items
           s == AddString(script, str)
           g == EmitOp2(This, o, ref, StringIndex(s, str))
<1>1. InFunction /\ Grammar[o] = "string" /\ Reduce(s, g, item, "statement")
  BY DEF OpString, Parsing, InFunction
<1>2. item \in ItemT /\ item.op = o /\ Form(item) = Grammar[o]
  BY ItemTypes
<1>3. items \in Seq(ItemT) /\ Refers(This, items)
  BY <1>1, LastFunction DEF CInv
<1>4. s = [strings |-> s.strings, functions |-> script.functions]
  BY AddedString DEF CInv
<1> HIDE DEF item, items, s
<1>5. /\ g = [nameIndex |-> g.nameIndex, index |-> g.index, locals |-> g.locals, code |-> g.code,
              stream |-> g.stream, labels |-> g.labels, refs |-> g.refs]
      /\ g.labels = This.labels /\ g.refs = This.refs /\ g.stream.position \in Nat
  BY <1>1, ThisFunction
<1> HIDE DEF g
<1>6. Refers(g, Append(items, item))
  BY <1>1, <1>2, <1>3, <1>5, NoLabelOpcode, StatementRefers
<1> QED BY <1>1, <1>2, <1>4, <1>6, ReduceCInv DEF items

LEMMA OpLabelCInv ==
    ASSUME CInv, NEW o \in Opcodes, NEW ref \in BOOLEAN, NEW label \in Labels,
           OpLabel(o, ref, label)
    PROVE  CInv'
<1> DEFINE item == Item(o, ref, label, 0)
           items == source[Len(source)].items
           r == [offset |-> This.stream.position + 1, label |-> label]
           f == [This EXCEPT !.refs = Append(@, r)]
           g == EmitJump(This, o, ref, label)
<1>1. InFunction /\ Grammar[o] = "label" /\ Reduce(script, g, item, "statement")
  BY DEF OpLabel, Parsing, InFunction
<1>2. item \in ItemT /\ item.op = o /\ Form(item) = Grammar[o] /\ item.word = label
  BY ItemTypes
<1>3. items \in Seq(ItemT) /\ Refers(This, items)
  BY <1>1, LastFunction DEF CInv
<1> HIDE DEF item, items
<1>4. /\ This = [nameIndex |-> This.nameIndex, index |-> This.index, locals |-> This.locals,
                 code |-> This.code, stream |-> This.stream, labels |-> This.labels,
                 refs |-> This.refs]
      /\ This.stream.position \in Nat
  BY <1>3 DEF Refers
<1>5. r \in [offset : Nat, label : Labels] /\ r.label = label
  BY <1>4
<1>6. g = EmitOp2(f, o, ref, 0)
  BY DEF EmitJump
<1> HIDE DEF r
<1>7. f = [nameIndex |-> This.nameIndex, index |-> This.index, locals |-> This.locals,
           code |-> This.code, stream |-> This.stream, labels |-> This.labels,
           refs |-> Append(This.refs, r)]
  BY <1>4, MoreRefs
<1> HIDE DEF f, g
<1>8. /\ f = [nameIndex |-> f.nameIndex, index |-> f.index, locals |-> f.locals, code |-> f.code,
              stream |-> f.stream, labels |-> f.labels, refs |-> f.refs]
      /\ f.labels = This.labels /\ f.refs = Append(This.refs, r) /\ f.stream.position \in Nat
  BY <1>4, <1>7
<1>9. g = [f EXCEPT !.stream = g.stream] /\ g.stream.position \in Nat
  BY <1>6, <1>8, EmitsOp2
<1>10. /\ g = [nameIndex |-> g.nameIndex, index |-> g.index, locals |-> g.locals, code |-> g.code,
              stream |-> g.stream, labels |-> g.labels, refs |-> g.refs]
       /\ g.labels = This.labels /\ g.refs = Append(This.refs, r)
  BY <1>8, <1>9
<1>11. Refers(g, Append(items, item))
  BY <1>1, <1>2, <1>3, <1>5, <1>9, <1>10, NoLabelOpcode, JumpRefers
<1>12. script = [strings |-> script.strings, functions |-> script.functions]
  BY DEF CInv, ScriptInv
<1> QED BY <1>1, <1>2, <1>11, <1>12, ReduceCInv DEF items, g

LEMMA LabelCInv == ASSUME CInv, Label PROVE CInv'
<1> DEFINE item == Item("label", FALSE, taken, 0)
           items == source[Len(source)].items
           g == SetLabel(This, taken)
<1>1. InFunction /\ at = "colon" /\ phase = "compile" /\ Reduce(script, g, item, "statement")
  BY DEF Label, Parsing, InFunction
<1>2. taken \in Labels
  BY <1>1 DEF CInv, ParserInv
<1>3. item \in ItemT /\ item.op = "label" /\ item.word = taken
  BY <1>2 DEF Item, ItemT
<1>4. items \in Seq(ItemT) /\ Refers(This, items)
  BY <1>1, LastFunction DEF CInv
<1> HIDE DEF item, items
<1>5. Refers(g, Append(items, item))
  BY <1>2, <1>3, <1>4, LabelRefers
<1> HIDE DEF g
<1>6. script = [strings |-> script.strings, functions |-> script.functions]
  BY DEF CInv, ScriptInv
<1> QED BY <1>1, <1>3, <1>5, <1>6, ReduceCInv DEF items

LEMMA InitLocalsCInv ==
    ASSUME CInv, NEW num \in Constants, InitLocals(num)
    PROVE  CInv'
<1> DEFINE item == Item("locals", FALSE, None, num)
           items == source[Len(source)].items
           g == [This EXCEPT !.locals = num]
<1>1. InFunction /\ Reduce(script, g, item, "statement")
  BY DEF InitLocals, Parsing, InFunction
<1>2. item \in ItemT /\ item.op = "locals" /\ Form(item) = "none"
  <2>1. num \in Nat
    BY CompilerAssumption
  <2> QED BY <2>1, NoLabelOpcode DEF Item, ItemT, Form
<1>3. items \in Seq(ItemT) /\ Refers(This, items)
  BY <1>1, LastFunction DEF CInv
<1> HIDE DEF item, items
<1>4. /\ This = [nameIndex |-> This.nameIndex, index |-> This.index, locals |-> This.locals,
                 code |-> This.code, stream |-> This.stream, labels |-> This.labels,
                 refs |-> This.refs]
      /\ This.stream.position \in Nat
  BY <1>3 DEF Refers
<1>5. /\ g = [nameIndex |-> g.nameIndex, index |-> g.index, locals |-> g.locals, code |-> g.code,
              stream |-> g.stream, labels |-> g.labels, refs |-> g.refs]
      /\ g.labels = This.labels /\ g.refs = This.refs /\ g.stream = This.stream
  BY <1>4
<1> HIDE DEF g
<1>6. Refers(g, Append(items, item))
  BY <1>2, <1>3, <1>4, <1>5, StatementRefers
<1>7. script = [strings |-> script.strings, functions |-> script.functions]
  BY DEF CInv, ScriptInv
<1> QED BY <1>1, <1>2, <1>6, <1>7, ReduceCInv DEF items

LEMMA SameBalance ==
    ASSUME CInv, phase' \in Phases, Unresolved' = Unresolved,
           tables' - tables =
              (IF phase' \in {"freed", "end"} THEN 0 ELSE 1)
              - (IF phase \in {"freed", "end"} THEN 0 ELSE 1)
              + (IF InFunction' THEN 1 ELSE 0) - (IF InFunction THEN 1 ELSE 0),
           tables' \in Int, phase \notin {"CRASH", "WILD"}
    PROVE  TablesBalance'
<1>1. Cardinality(Unresolved) \in Nat /\ tables \in Int
  BY UnresolvedFinite DEF CInv, ParserInv
<1> QED BY <1>1 DEF CInv, TablesBalance, InFunction

\* Between two functions all of them are parsed.
LEMMA StartCInv == ASSUME CInv, StartFunction PROVE CInv'
<1> DEFINE n == Len(source)
           new == [name |-> taken, items |-> <<>>]
           s == AddString(script, taken)
           f == [nameIndex |-> StringIndex(s, taken), index |-> NodeCount(s), locals |-> 0,
                 code |-> <<>>, stream |-> Open, labels |-> [l \in Labels |-> None], refs |-> <<>>]
<1>1. /\ phase = "compile" /\ at = "open" /\ taken \in Names
      /\ script' = CreateFunction(script, taken) /\ current' = taken
      /\ source' = Append(source, new) /\ tables' = tables + 1
      /\ at' = "statement" /\ phase' = phase
  BY DEF StartFunction, Parsing, CInv, ParserInv, tool
<1>2. s = [strings |-> s.strings, functions |-> script.functions]
  BY AddedString DEF CInv
<1>3. CreateFunction(script, taken) = Enter(s, taken, f)
  BY DEF CreateFunction
<1>4. f = [nameIndex |-> f.nameIndex, index |-> f.index, locals |-> f.locals, code |-> f.code,
           stream |-> f.stream, labels |-> f.labels, refs |-> f.refs]
      /\ f.labels = [l \in Labels |-> None] /\ f.refs = <<>> /\ f.stream.position = 0
  BY DEF Open
<1> HIDE DEF f, s
<1>5. Refers(f, <<>>)
  BY <1>4 DEF Refers, Places
<1>6. script' = [strings |-> s.strings,
                 functions |-> [m \in Defined(script) \cup {taken} |->
                                   IF m = taken THEN f ELSE script.functions[m]]]
  BY <1>1, <1>2, <1>3 DEF Enter, Defined
<1>7. Defined(script)' = Defined(script) \cup {taken} /\ This' = f
  BY <1>1, <1>6 DEF Defined, This
<1>8. ScriptInv'
  <2>1. IsFiniteSet(Defined(script) \cup {taken})
    BY FS_AddElement DEF CInv, ScriptInv
  <2>2. Defined(script) \subseteq Names
    BY DEF CInv, ScriptInv
  <2>3. /\ script'.functions = [m \in Defined(script)' |-> script'.functions[m]]
        /\ script' = [strings |-> script'.strings, functions |-> script'.functions]
    BY <1>6, <1>7
  <2> QED BY <1>1, <1>7, <2>1, <2>2, <2>3 DEF ScriptInv
<1>9. /\ source \in Seq(FunctionT) /\ new \in FunctionT
  BY <1>1 DEF CInv, ParserInv, FunctionT
<1> HIDE DEF new
<1>10. /\ source' \in Seq(FunctionT) /\ Len(source') = n + 1 /\ n \in Nat
       /\ DOMAIN source = 1..n /\ DOMAIN source' = 1..(n + 1)
       /\ source'[n + 1] = new /\ \A k \in 1..n : source'[k] = source[k]
  BY <1>1, <1>9
<1> HIDE DEF n
<1>11. ParserInv'
  BY <1>1, <1>10 DEF CInv, ParserInv, FunctionT, ParserStates
<1>12. FunctionInv'
  <2>1. source'[Len(source')].items = <<>> /\ source'[Len(source')].name = taken
    BY <1>10 DEF new
  <2>2. source' # <<>>
    BY <1>10
  <2> QED BY <1>1, <1>5, <1>7, <2>1, <2>2 DEF FunctionInv
<1>13. Unresolved' = Unresolved
  <2>1. \A k \in 1..(n + 1) : Parsed(k)' <=> k < n + 1
    BY <1>1, <1>10 DEF Parsed
  <2>2. \A k \in 1..n : Parsed(k)
    BY <1>1, <1>10 DEF Parsed
  <2> QED BY <1>10, <2>1, <2>2 DEF Unresolved
<1>14. TablesBalance'
  <2>1. ~InFunction /\ InFunction' /\ tables \in Int
    BY <1>1 DEF InFunction, CInv, ParserInv
  <2> QED BY <1>1, <1>13, <2>1, SameBalance DEF Phases
<1> QED BY <1>8, <1>11, <1>12, <1>14 DEF CInv

LEMMA EndCInv == ASSUME CInv, EndFunction PROVE CInv'
<1> DEFINE n == Len(source)
           items == source[n].items
           g == Finalized(This)
<1>1. /\ phase = "compile" /\ at = "statement" /\ InFunction
      /\ script' = [script EXCEPT !.functions[current] = g]
      /\ tables' = (IF Finalizes(This) THEN tables - 1 ELSE tables)
      /\ at' = "functions" /\ phase' = phase /\ source' = source /\ current' = current
  BY DEF EndFunction, Parsing, InFunction, tool
<1>2. /\ n \in Nat \ {0} /\ DOMAIN source = 1..n
      /\ items \in Seq(ItemT) /\ Refers(This, items)
  BY <1>1, LastFunction DEF CInv
<1>3. Finalizes(This) <=> ~Lost(items, Len(items))
  BY <1>2, LostOrFinal
<1> HIDE DEF g
<1>4. /\ script = [strings |-> script.strings, functions |-> script.functions]
      /\ script.functions = [m \in Defined(script) |-> script.functions[m]]
      /\ current \in Defined(script)
  BY <1>1, LastFunction DEF CInv, ScriptInv
<1>5. script' = [strings |-> script.strings, functions |-> [script.functions EXCEPT ![current] = g]]
  BY <1>1, <1>4
<1>6. ScriptInv'
  BY <1>4, <1>5 DEF CInv, ScriptInv, Defined
<1>7. ParserInv'
  <2>1. tables' \in Int
    BY <1>1 DEF CInv, ParserInv
  <2> QED BY <1>1, <2>1 DEF CInv, ParserInv, ParserStates
<1>8. FunctionInv'
  BY <1>1 DEF FunctionInv, InFunction
<1>9. TablesBalance'
  <2>1. Unresolved' = Unresolved \cup (IF Lost(items, Len(items)) THEN {n} ELSE {})
    <3>1. \A k \in 1..n : Parsed(k) <=> k < n
      BY <1>1, <1>2 DEF Parsed
    <3>2. \A k \in 1..n : Parsed(k)'
      BY <1>1, <1>2 DEF Parsed
    <3>3. n \in 1..n
      BY <1>2
    <3> HIDE DEF n
    <3>4. \A k \in 1..n : k < n <=> k # n
      BY <1>2
    <3> QED BY <1>1, <1>2, <3>1, <3>2, <3>3, <3>4 DEF Unresolved
  <2>2. n \notin Unresolved
    BY <1>1, <1>2 DEF Unresolved, Parsed
  <2>3. IsFiniteSet(Unresolved) /\ Cardinality(Unresolved) \in Nat
    BY UnresolvedFinite DEF CInv
  <2>4. Cardinality(Unresolved') = Cardinality(Unresolved) + (IF Lost(items, Len(items)) THEN 1 ELSE 0)
    <3>1. Cardinality(Unresolved \cup {n}) = Cardinality(Unresolved) + 1
      BY <2>2, <2>3, FS_AddElement
    <3>2. Unresolved \cup {} = Unresolved
      OBVIOUS
    <3>3. CASE Lost(items, Len(items))
      BY <2>1, <3>1, <3>3
    <3>4. CASE ~Lost(items, Len(items))
      BY <2>1, <2>3, <3>2, <3>4
    <3> QED BY <3>3, <3>4
  <2>5. tables = Cardinality(Unresolved) + 1 + 1
    BY <1>1 DEF CInv, TablesBalance
  <2> QED BY <1>1, <1>3, <2>3, <2>4, <2>5 DEF TablesBalance
<1> QED BY <1>6, <1>7, <1>8, <1>9 DEF CInv

\* Where nothing but the phase and the count of tables changes.
LEMMA SameParser ==
    ASSUME CInv, UNCHANGED <<script, current, source, at, taken>>, phase' \in Phases,
           tables' \in Int, phase = "compile" => at = "functions" \/ phase' \in {"compile", "CRASH", "WILD"},
           phase' = "compile" => phase = "compile",
           phase \in {"CRASH", "WILD"} => phase' = phase
    PROVE  ParserInv' /\ ScriptInv' /\ FunctionInv' /\ Unresolved' = Unresolved
<1>1. ParserInv'
  BY DEF CInv, ParserInv, Phases
<1>2. ScriptInv'
  BY DEF CInv, ScriptInv, Defined
<1>3. FunctionInv'
  BY DEF CInv, FunctionInv, This, Defined, InFunction
<1>4. Unresolved' = Unresolved
  BY DEF Unresolved, Parsed
<1> QED BY <1>1, <1>2, <1>3, <1>4

LEMMA ShiftsCInv == ASSUME CInv, Shifts PROVE CInv'
<1>1. CASE Shift("functions", "name", None)
  <2>1. /\ phase = "compile" /\ at = "functions" /\ at' = "name"
        /\ UNCHANGED <<script, current, source, tables>> /\ phase' = phase
    BY <1>1 DEF Shift, Parsing, tool
  <2>2. ParserInv'
    BY <2>1 DEF CInv, ParserInv, ParserStates
  <2>3. ScriptInv' /\ FunctionInv'
    BY <2>1 DEF CInv, ScriptInv, FunctionInv, InFunction, Defined
  <2>4. Unresolved' = Unresolved
    BY <2>1 DEF Unresolved, Parsed
  <2>5. TablesBalance'
    BY <2>1, <2>4 DEF CInv, TablesBalance
  <2> QED BY <2>2, <2>3, <2>5 DEF CInv
<1>2. ASSUME NEW m \in Names, Shift("name", "open", m) PROVE CInv'
  <2>1. /\ phase = "compile" /\ at = "name" /\ at' = "open" /\ taken' = m
        /\ UNCHANGED <<script, current, source, tables>> /\ phase' = phase
    BY <1>2 DEF Shift, Parsing, tool
  <2>2. ParserInv'
    BY <2>1 DEF CInv, ParserInv, ParserStates
  <2>3. ScriptInv' /\ FunctionInv'
    BY <2>1 DEF CInv, ScriptInv, FunctionInv, InFunction, Defined
  <2>4. Unresolved' = Unresolved
    BY <2>1 DEF Unresolved, Parsed
  <2>5. TablesBalance'
    BY <2>1, <2>4 DEF CInv, TablesBalance
  <2> QED BY <2>2, <2>3, <2>5 DEF CInv
<1>3. ASSUME NEW l \in Labels, Shift("statement", "colon", l) PROVE CInv'
  <2>1. /\ phase = "compile" /\ at = "statement" /\ at' = "colon" /\ taken' = l
        /\ UNCHANGED <<script, current, source, tables>> /\ phase' = phase
    BY <1>3 DEF Shift, Parsing, tool
  <2>2. ParserInv'
    BY <2>1 DEF CInv, ParserInv, ParserStates
  <2>3. ScriptInv' /\ FunctionInv'
    BY <2>1 DEF CInv, ScriptInv, FunctionInv, InFunction, Defined, This
  <2>4. Unresolved' = Unresolved
    BY <2>1 DEF Unresolved, Parsed
  <2>5. TablesBalance'
    BY <2>1, <2>4 DEF CInv, TablesBalance
  <2> QED BY <2>2, <2>3, <2>5 DEF CInv
<1> QED BY <1>1, <1>2, <1>3 DEF Shifts

LEMMA CommentsCInv ==
    ASSUME CInv, (\E t \in Comments : BeginComment(t)) \/ Skipping \/ LeaveComment
    PROVE  CInv'
<1>1. UNCHANGED parsing /\ (phase' = phase \/ phase' = "CRASH")
  BY DEF BeginComment, Skipping, SkipChar, AfterStar, ReadNoFile, LeaveComment
<1>2. CASE phase' = phase
  <2>1. ParserInv'
    BY <1>1, <1>2 DEF CInv, ParserInv, parsing
  <2>2. ScriptInv' /\ FunctionInv'
    BY <1>1, <1>2 DEF CInv, ScriptInv, FunctionInv, InFunction, Defined, This, parsing
  <2>3. Unresolved' = Unresolved
    BY <1>1 DEF Unresolved, Parsed, parsing
  <2>4. TablesBalance'
    BY <1>1, <1>2, <2>3 DEF CInv, TablesBalance, parsing
  <2> QED BY <2>1, <2>2, <2>4 DEF CInv
<1>3. CASE phase' = "CRASH"
  <2>1. ParserInv'
    BY <1>1, <1>3 DEF CInv, ParserInv, Phases, parsing
  <2>2. ScriptInv' /\ FunctionInv'
    BY <1>1, <1>3 DEF CInv, ScriptInv, FunctionInv, InFunction, Defined, parsing
  <2>3. TablesBalance'
    BY <1>3 DEF TablesBalance
  <2> QED BY <2>1, <2>2, <2>3 DEF CInv
<1> QED BY <1>1, <1>2, <1>3

LEMMA SyntaxErrorCInv == ASSUME CInv, SyntaxError PROVE CInv'
<1>1. /\ phase' \in {"CRASH", "WILD"} /\ script' = [strings |-> <<>>, functions |-> <<>>]
      /\ source' = <<>> /\ at' = at /\ tables' = tables
  BY DEF SyntaxError, EmptyScript
<1>2. ParserInv'
  BY <1>1 DEF CInv, ParserInv, Phases
<1>3. Defined(script)' = {}
  BY <1>1 DEF Defined
<1>4. ScriptInv'
  BY <1>1, <1>3, FS_EmptySet DEF ScriptInv
<1>5. FunctionInv' /\ TablesBalance'
  BY <1>1 DEF FunctionInv, InFunction, TablesBalance
<1> QED BY <1>2, <1>4, <1>5 DEF CInv

LEMMA ToolCInv ==
    ASSUME CInv, Accept \/ Save \/ FreeSaved \/ Load \/ LoadBad \/ FreeLoaded
    PROVE  CInv'
<1>1. /\ UNCHANGED <<script, current, source, at, taken>> /\ tables \in Int
      /\ \/ phase = "compile" /\ at = "functions" /\ phase' = "compiled" /\ tables' = tables
         \/ phase = "compiled" /\ phase' \in {"saved", "CRASH"} /\ tables' = tables
         \/ phase = "saved" /\ phase' = "freed" /\ tables' = tables - 1
         \/ phase = "freed" /\ phase' \in {"loaded", "refused"} /\ tables' = tables + 1
         \/ phase = "loaded" /\ phase' = "CRASH" /\ tables' = tables
         \/ phase = "loaded" /\ phase' = "end" /\ tables' = tables - 1
  BY DEF Accept, Save, FreeSaved, Load, LoadBad, FreeLoaded, Parsing, parsing, CInv, ParserInv
<1>2. ParserInv' /\ ScriptInv' /\ FunctionInv' /\ Unresolved' = Unresolved
  <2>1. /\ phase' \in Phases /\ tables' \in Int
        /\ phase = "compile" => at = "functions" \/ phase' \in {"compile", "CRASH", "WILD"}
        /\ phase' = "compile" => phase = "compile"
        /\ phase \in {"CRASH", "WILD"} => phase' = phase
    BY <1>1 DEF Phases
  <2> QED BY <1>1, <2>1, SameParser
<1>3. TablesBalance'
  <2>1. Cardinality(Unresolved) \in Nat
    BY UnresolvedFinite DEF CInv
  <2>2. TablesBalance
    BY DEF CInv
  <2> QED BY <1>1, <1>2, <2>1, <2>2 DEF TablesBalance
<1> QED BY <1>2, <1>3 DEF CInv

LEMMA StepCInv == CInv /\ [Next]_vars => CInv'
<1> SUFFICES ASSUME CInv, [Next]_vars PROVE CInv'
  OBVIOUS
<1>1. CASE (\E t \in Comments : BeginComment(t)) \/ Skipping \/ LeaveComment
  BY <1>1, CommentsCInv
<1>2. CASE Shifts
  BY <1>2, ShiftsCInv
<1>3. CASE StartFunction
  BY <1>3, StartCInv
<1>4. CASE EndFunction
  BY <1>4, EndCInv
<1>5. CASE Label
  BY <1>5, LabelCInv
<1>6. CASE \E num \in Constants : InitLocals(num)
  BY <1>6, InitLocalsCInv
<1>7. ASSUME NEW in \in Inputs,
             \/ Op(in[1], in[2])
             \/ \E num \in Constants : OpNumber(in[1], in[2], num)
             \/ \E s \in Strings : OpString(in[1], in[2], s)
             \/ \E l \in Labels : OpLabel(in[1], in[2], l)
      PROVE  CInv'
  <2>1. in[1] \in Opcodes /\ in[2] \in BOOLEAN
    BY InputTypes
  <2> QED BY <1>7, <2>1, OpCInv, OpNumberCInv, OpStringCInv, OpLabelCInv
<1>8. CASE SyntaxError
  BY <1>8, SyntaxErrorCInv
<1>9. CASE Accept \/ Save \/ FreeSaved \/ Load \/ LoadBad \/ FreeLoaded
  BY <1>9, ToolCInv
<1>10. CASE UNCHANGED vars
  <2>1. ParserInv' /\ ScriptInv' /\ FunctionInv'
    BY <1>10 DEF CInv, ParserInv, ScriptInv, FunctionInv, InFunction, Defined, This, vars
  <2>2. Unresolved' = Unresolved
    BY <1>10 DEF Unresolved, Parsed, vars
  <2>3. TablesBalance'
    BY <1>10, <2>2 DEF CInv, TablesBalance, vars
  <2> QED BY <2>1, <2>3 DEF CInv
<1> QED BY <1>1, <1>2, <1>3, <1>4, <1>5, <1>6, <1>7, <1>8, <1>9, <1>10 DEF Next

LEMMA CompilerInvariant == Spec => []CInv
BY InitCInv, StepCInv, PTL DEF Spec

\* HT_UseCount is what is left to be destroyed: however a program is parsed,
\* only jumps without a label and bad files make a table stay for ever.
THEOREM CompilerBalancesTables == Spec => []TablesBalance
<1>1. CInv => TablesBalance
  BY DEF CInv
<1> QED BY <1>1, CompilerInvariant, PTL

-----------------------------------------------------------------------------
(* Names and strings.                                                        *)

\* Every function's name is in the string table, where the function says.
NamesInv ==
    /\ script.strings \in Seq(Names \cup Strings)
    /\ \A m \in Defined(script) :
          LET i == script.functions[m].nameIndex
          IN  i \in Nat /\ i + 1 \in DOMAIN script.strings /\ script.strings[i + 1] = m

Keeps(strings, more) ==
    /\ more \in Seq(Names \cup Strings)
    /\ \A i \in DOMAIN strings : i \in DOMAIN more /\ more[i] = strings[i]

LEMMA StringAdded ==
    ASSUME ScriptInv, script.strings \in Seq(Names \cup Strings), NEW str \in Names \cup Strings
    PROVE  LET s == AddString(script, str)
               i == StringIndex(s, str)
           IN  /\ Keeps(script.strings, s.strings)
               /\ i \in Nat /\ i + 1 \in DOMAIN s.strings /\ s.strings[i + 1] = str
<1> DEFINE T == Names \cup Strings
           old == script.strings
           s == AddString(script, str)
           new == s.strings
           I == {k \in 1..Len(new) : new[k] = str}
           i == StringIndex(s, str)
<1>1. new = IF Contains(old, str) THEN old ELSE Append(old, str)
  BY AddedString
<1>2. i = (IF I # {} THEN Min(I) ELSE 0) - 1
  BY DEF StringIndex, SelectInSeq
<1> HIDE DEF T, old, s, new, i
<1>3. old \in Seq(T) /\ str \in T
  BY DEF old, T
<1>4. /\ new \in Seq(T) /\ \A k \in DOMAIN old : k \in DOMAIN new /\ new[k] = old[k]
      /\ \E k \in 1..Len(new) : new[k] = str
  <2>1. CASE Contains(old, str)
    BY <1>1, <1>3, <2>1 DEF Contains
  <2>2. CASE ~Contains(old, str)
    <3>1. new = Append(old, str)
      BY <1>1, <2>2
    <3>2. /\ new \in Seq(T) /\ Len(new) = Len(old) + 1
          /\ new[Len(old) + 1] = str /\ \A k \in DOMAIN old : k \in DOMAIN new /\ new[k] = old[k]
      BY <1>3, <3>1, OneMore
    <3>3. Len(old) + 1 \in 1..Len(new)
      BY <1>3, <3>2
    <3> QED BY <3>2, <3>3
  <2> QED BY <2>1, <2>2
<1>5. I \in SUBSET Nat /\ I # {}
  BY <1>4
<1>6. Min(I) \in I
  <2> HIDE DEF I
  <2> QED BY <1>5, MinIsMember
<1>7. Min(I) \in 1..Len(new) /\ new[Min(I)] = str /\ i = Min(I) - 1
  BY <1>2, <1>5, <1>6
<1>8. DOMAIN new = 1..Len(new) /\ Len(new) \in Nat
  BY <1>4
<1> HIDE DEF I
<1>9. i \in Nat /\ i + 1 = Min(I)
  BY <1>7, <1>8
<1> QED BY <1>4, <1>7, <1>8, <1>9 DEF Keeps, T, old, new, s, i

LEMMA ReduceNames ==
    ASSUME CInv, NamesInv, InFunction, NEW s, NEW f, NEW item,
           s = [strings |-> s.strings, functions |-> script.functions],
           Keeps(script.strings, s.strings), f.nameIndex = This.nameIndex,
           Reduce(s, f, item, "statement")
    PROVE  NamesInv'
<1>1. /\ script.functions = [m \in Defined(script) |-> script.functions[m]]
      /\ current \in Defined(script)
  BY LastFunction DEF CInv, ScriptInv
<1>2. script' = [strings |-> s.strings, functions |-> [script.functions EXCEPT ![current] = f]]
  BY DEF Reduce
<1>3. script'.strings = s.strings /\ script'.functions = [script.functions EXCEPT ![current] = f]
  BY <1>2
<1>4. /\ Defined(script)' = Defined(script)
      /\ \A m \in Defined(script) : script'.functions[m] =
            IF m = current THEN f ELSE script.functions[m]
  BY <1>1, <1>3 DEF Defined
<1>5. \A m \in Defined(script) : script'.functions[m].nameIndex = script.functions[m].nameIndex
  BY <1>4 DEF This
<1> QED BY <1>3, <1>4, <1>5 DEF NamesInv, Keeps

Reductions ==
    \/ Label \/ \E num \in Constants : InitLocals(num)
    \/ \E in \in Inputs :
          \/ Op(in[1], in[2])
          \/ \E num \in Constants : OpNumber(in[1], in[2], num)
          \/ \E s \in Strings : OpString(in[1], in[2], s)
          \/ \E l \in Labels : OpLabel(in[1], in[2], l)

LEMMA ReductionsKeepNames == ASSUME CInv, NamesInv, Reductions PROVE NamesInv'
<1> DEFINE Same(f) == f.nameIndex = This.nameIndex
<1>1. InFunction
  BY DEF Reductions, Label, InitLocals, Op, OpNumber, OpString, OpLabel, InFunction, Parsing
<1>2. /\ This = [nameIndex |-> This.nameIndex, index |-> This.index, locals |-> This.locals,
                 code |-> This.code, stream |-> This.stream, labels |-> This.labels,
                 refs |-> This.refs]
  BY <1>1, LastFunction DEF CInv, Refers
<1>3. script = [strings |-> script.strings, functions |-> script.functions]
      /\ Keeps(script.strings, script.strings)
  BY DEF CInv, ScriptInv, NamesInv, Keeps
<1>4. CASE Label
  <2>1. SetLabel(This, taken).nameIndex = This.nameIndex
    BY <1>2 DEF SetLabel
  <2> QED BY <1>1, <1>3, <1>4, <2>1, ReduceNames DEF Label
<1>5. ASSUME NEW num \in Constants, InitLocals(num) PROVE NamesInv'
  <2>1. [This EXCEPT !.locals = num].nameIndex = This.nameIndex
    BY <1>2
  <2> QED BY <1>1, <1>3, <1>5, <2>1, ReduceNames DEF InitLocals
<1>6. \A op, ref : EmitOp(This, op, ref).nameIndex = This.nameIndex
  BY <1>2 DEF EmitOp
<1>7. \A op, ref, v : EmitOp2(This, op, ref, v).nameIndex = This.nameIndex
  BY <1>2 DEF EmitOp2
<1>8. \A op, ref, l : EmitJump(This, op, ref, l).nameIndex = This.nameIndex
  <2> SUFFICES ASSUME NEW op, NEW ref, NEW l PROVE EmitJump(This, op, ref, l).nameIndex = This.nameIndex
    OBVIOUS
  <2> DEFINE r == [offset |-> This.stream.position + 1, label |-> l]
             f == [This EXCEPT !.refs = Append(@, r)]
  <2>1. f = [nameIndex |-> This.nameIndex, index |-> This.index, locals |-> This.locals,
             code |-> This.code, stream |-> This.stream, labels |-> This.labels,
             refs |-> Append(This.refs, r)]
    <3> HIDE DEF r
    <3> QED BY <1>2, MoreRefs
  <2>2. EmitJump(This, op, ref, l) = EmitOp2(f, op, ref, 0)
    BY DEF EmitJump
  <2> HIDE DEF f, r
  <2>3. EmitOp2(f, op, ref, 0).nameIndex = f.nameIndex
    BY <2>1 DEF EmitOp2
  <2> QED BY <2>1, <2>2, <2>3
<1>9. ASSUME NEW o, NEW ref, Op(o, ref) PROVE NamesInv'
  BY <1>1, <1>3, <1>6, <1>9, ReduceNames DEF Op
<1>10. ASSUME NEW o, NEW ref, NEW num, OpNumber(o, ref, num) PROVE NamesInv'
  BY <1>1, <1>3, <1>7, <1>10, ReduceNames DEF OpNumber
<1>11. ASSUME NEW o, NEW ref, NEW l, OpLabel(o, ref, l) PROVE NamesInv'
  BY <1>1, <1>3, <1>8, <1>11, ReduceNames DEF OpLabel
<1>12. ASSUME NEW o, NEW ref, NEW str \in Strings, OpString(o, ref, str) PROVE NamesInv'
  <2> DEFINE s == AddString(script, str)
             g == EmitOp2(This, o, ref, StringIndex(s, str))
             item == Item(o, ref, str, 0)
  <2>1. Reduce(s, g, item, "statement")
    BY <1>12 DEF OpString
  <2>2. s = [strings |-> s.strings, functions |-> script.functions]
    BY AddedString DEF CInv
  <2>3. Keeps(script.strings, s.strings)
    BY StringAdded DEF CInv, NamesInv
  <2>4. g.nameIndex = This.nameIndex
    BY <1>7
  <2> HIDE DEF s, g, item
  <2> QED BY <1>1, <2>1, <2>2, <2>3, <2>4, ReduceNames
<1> QED BY <1>4, <1>5, <1>9, <1>10, <1>11, <1>12 DEF Reductions

LEMMA StartNames == ASSUME CInv, NamesInv, StartFunction PROVE NamesInv'
<1> DEFINE s == AddString(script, taken)
           f == [nameIndex |-> StringIndex(s, taken), index |-> NodeCount(s), locals |-> 0,
                 code |-> <<>>, stream |-> Open, labels |-> [l \in Labels |-> None], refs |-> <<>>]
<1>1. script' = Enter(s, taken, f) /\ taken \in Names
  BY DEF StartFunction, Parsing, CInv, ParserInv, CreateFunction
<1>2. s = [strings |-> s.strings, functions |-> script.functions]
  BY AddedString DEF CInv
<1>3. /\ Keeps(script.strings, s.strings)
      /\ f.nameIndex \in Nat /\ f.nameIndex + 1 \in DOMAIN s.strings
      /\ s.strings[f.nameIndex + 1] = taken
  BY <1>1, StringAdded DEF CInv, NamesInv
<1> HIDE DEF f, s
<1>4. /\ script'.strings = s.strings
      /\ Defined(script)' = Defined(script) \cup {taken}
      /\ \A m \in Defined(script) \cup {taken} : script'.functions[m] =
            IF m = taken THEN f ELSE script.functions[m]
  BY <1>1, <1>2 DEF Enter, Defined
<1>5. \A m \in Defined(script) :
          LET i == script.functions[m].nameIndex
          IN  i \in Nat /\ i + 1 \in DOMAIN s.strings /\ s.strings[i + 1] = m
  BY <1>3 DEF NamesInv, Keeps
<1> QED BY <1>3, <1>4, <1>5 DEF NamesInv, Keeps

LEMMA EndNames == ASSUME CInv, NamesInv, EndFunction PROVE NamesInv'
<1> DEFINE g == Finalized(This)
<1>1. InFunction /\ script' = [script EXCEPT !.functions[current] = g]
  BY DEF EndFunction, Parsing, InFunction
<1>2. /\ script = [strings |-> script.strings, functions |-> script.functions]
      /\ script.functions = [m \in Defined(script) |-> script.functions[m]]
      /\ current \in Defined(script) /\ Refers(This, source[Len(source)].items)
  BY <1>1, LastFunction DEF CInv, ScriptInv
<1>3. g.nameIndex = This.nameIndex
  <2>1. This = [nameIndex |-> This.nameIndex, index |-> This.index, locals |-> This.locals,
                code |-> This.code, stream |-> This.stream, labels |-> This.labels,
                refs |-> This.refs]
    BY <1>2 DEF Refers
  <2> QED BY <2>1 DEF Finalized
<1> HIDE DEF g
<1>4. /\ script'.strings = script.strings
      /\ Defined(script)' = Defined(script)
      /\ \A m \in Defined(script) : script'.functions[m] =
            IF m = current THEN g ELSE script.functions[m]
  BY <1>1, <1>2 DEF Defined
<1>5. \A m \in Defined(script) : script'.functions[m].nameIndex = script.functions[m].nameIndex
  BY <1>3, <1>4 DEF This
<1> QED BY <1>4, <1>5 DEF NamesInv

LEMMA OtherSteps ==
    ASSUME [Next]_vars
    PROVE  \/ Reductions \/ StartFunction \/ EndFunction \/ SyntaxError
           \/ UNCHANGED script
BY DEF Next, Reductions, BeginComment, Skipping, SkipChar, AfterStar, ReadNoFile, LeaveComment,
   Shifts, Shift, Accept, Save, FreeSaved, Load, LoadBad, FreeLoaded, parsing, vars

LEMMA StepNames == CInv /\ NamesInv /\ [Next]_vars => NamesInv'
<1> SUFFICES ASSUME CInv, NamesInv, [Next]_vars PROVE NamesInv'
  OBVIOUS
<1>1. CASE SyntaxError
  <2>1. script' = [strings |-> <<>>, functions |-> <<>>]
    BY <1>1 DEF SyntaxError, EmptyScript
  <2> QED BY <2>1 DEF NamesInv, Defined
<1>2. CASE UNCHANGED script
  BY <1>2 DEF NamesInv, Defined
<1> QED BY <1>1, <1>2, OtherSteps, ReductionsKeepNames, StartNames, EndNames

\* The file is the script's, and what was loaded the file's.
FileInv ==
    /\ phase \in {"saved", "freed", "loaded", "refused", "end"} =>
          file = Saved(script) /\ Defined(script) # {}
    /\ phase = "loaded" => loaded = Loaded(file)

LEMMA StepFile == CInv /\ FileInv /\ [Next]_vars => FileInv'
<1> SUFFICES ASSUME CInv, FileInv, [Next]_vars PROVE FileInv'
  OBVIOUS
<1>1. CASE UNCHANGED vars
  BY <1>1 DEF FileInv, vars
<1>2. CASE Reductions \/ StartFunction \/ EndFunction \/ Shifts \/ Skipping
           \/ (\E t \in Comments : BeginComment(t)) \/ Accept
  <2>1. \/ phase = "compile" /\ phase' \in {"compile", "compiled", "CRASH"}
        \/ UNCHANGED <<phase, parsing, file, loaded>>
        \/ phase' = "CRASH"
    BY <1>2 DEF Reductions, Label, InitLocals, Op, OpNumber, OpString, OpLabel, Reduce, Parsing, StartFunction,
       EndFunction, Shifts, Shift, Skipping, SkipChar, AfterStar, ReadNoFile, BeginComment, Accept, tool
  <2> QED BY <2>1 DEF FileInv, parsing
<1>3. CASE LeaveComment
  BY <1>3 DEF LeaveComment, FileInv, parsing
<1>4. CASE SyntaxError
  BY <1>4 DEF SyntaxError, FileInv
<1>5. CASE Save
  BY <1>5 DEF Save, FileInv, parsing
<1>6. CASE FreeSaved \/ Load \/ LoadBad \/ FreeLoaded
  <2>1. /\ UNCHANGED <<script, file>> /\ phase \in {"saved", "freed", "loaded"}
        /\ phase' = "loaded" => loaded' = Loaded(file)
    BY <1>6 DEF FreeSaved, Load, LoadBad, FreeLoaded
  <2> QED BY <2>1 DEF FileInv
<1> QED BY <1>1, <1>2, <1>3, <1>4, <1>5, <1>6 DEF Next, Reductions

-----------------------------------------------------------------------------
(* The order of the functions.                                               *)

LEMMA Sortable ==
    ASSUME NEW D \in SUBSET Names, IsFiniteSet(D)
    PROVE  \E s \in [1..Cardinality(D) -> D] : Ascending(s)
<1> DEFINE Sorted(E, n) == \E s \in [1..n -> E] : Ascending(s)
           Bad == {n \in Nat : \E E \in SUBSET Names :
                      IsFiniteSet(E) /\ Cardinality(E) = n /\ ~Sorted(E, n)}
<1>1. Bad = {}
  <2> SUFFICES ASSUME Bad # {} PROVE FALSE
    OBVIOUS
  <2>1. PICK n \in Bad : \A k \in Bad : n <= k
    <3>1. Bad \in SUBSET Nat
      OBVIOUS
    <3> HIDE DEF Bad
    <3> QED BY <3>1, LeastNatural
  <2>2. PICK E \in SUBSET Names : IsFiniteSet(E) /\ Cardinality(E) = n /\ ~Sorted(E, n)
    OBVIOUS
  <2>3. n \in Nat
    OBVIOUS
  <2>4. E # {}
    <3> SUFFICES ASSUME E = {} PROVE FALSE
      OBVIOUS
    <3>1. n = 0
      BY <2>2, FS_EmptySet
    <3>2. <<>> \in [1..n -> E] /\ Ascending(<<>>)
      BY <3>1 DEF Ascending
    <3> QED BY <2>2, <3>2
  <2>5. PICK m \in E : \A x \in E : Hash[m] <= Hash[x]
    <3> DEFINE H == {Hash[x] : x \in E}
    <3>1. H \in SUBSET Nat /\ H # {}
      BY <2>4, ScriptFileAssumption
    <3>2. PICK h \in H : \A k \in H : h <= k
      <4> HIDE DEF H
      <4> QED BY <3>1, LeastNatural
    <3> QED BY <3>2
  <2> DEFINE F == E \ {m}
  <2>6. /\ F \in SUBSET Names /\ IsFiniteSet(F) /\ Cardinality(F) = n - 1 /\ n - 1 \in Nat
    <3>1. IsFiniteSet(F) /\ Cardinality(F) = n - 1
      BY <2>2, FS_RemoveElement
    <3> QED BY <3>1, FS_CardinalityType
  <2>7. Sorted(F, n - 1)
    <3>1. n - 1 \notin Bad
      <4> HIDE DEF Bad
      <4> QED BY <2>1, <2>3
    <3> QED BY <2>6, <3>1
  <2>8. PICK s \in [1..(n - 1) -> F] : Ascending(s)
    BY <2>7
  <2> DEFINE t == [i \in 1..n |-> IF i = 1 THEN m ELSE s[i - 1]]
  <2>9. \A i \in 1..n : i # 1 => i - 1 \in 1..(n - 1) /\ s[i - 1] \in F
    BY <2>3, <2>8
  <2>10. t \in [1..n -> E]
    BY <2>9
  <2>11. Ascending(t)
    <3> SUFFICES ASSUME NEW i \in 1..n, NEW j \in 1..n, i < j
                 PROVE  Hash[t[i]] < Hash[t[j]]
      BY DEF Ascending
    <3>1. j # 1 /\ t[j] = s[j - 1] /\ t[j] \in F
      BY <2>9
    <3>2. CASE i = 1
      <4>1. t[i] = m /\ t[j] # m /\ t[j] \in Names /\ m \in Names
        BY <3>1, <3>2
      <4>2. Hash[m] # Hash[t[j]] /\ Hash[m] \in Nat /\ Hash[t[j]] \in Nat
        <5> HIDE DEF t
        <5> QED BY <4>1, ScriptFileAssumption
      <4>3. Hash[m] <= Hash[t[j]]
        BY <2>5, <3>1
      <4> HIDE DEF t
      <4> QED BY <4>1, <4>2, <4>3
    <3>3. CASE i # 1
      <4>1. t[i] = s[i - 1] /\ i - 1 \in 1..(n - 1) /\ j - 1 \in 1..(n - 1) /\ i - 1 < j - 1
        BY <2>9, <3>1, <3>3
      <4>2. DOMAIN s = 1..(n - 1)
        BY <2>8
      <4> HIDE DEF t
      <4> QED BY <2>8, <3>1, <4>1, <4>2 DEF Ascending
    <3> QED BY <3>2, <3>3
  <2> HIDE DEF t
  <2> QED BY <2>2, <2>10, <2>11
<1>2. Cardinality(D) \in Nat
  BY FS_CardinalityType
<1> QED BY <1>1, <1>2

LEMMA OrderFacts ==
    ASSUME ScriptInv
    PROVE  LET n == Cardinality(Defined(script))
               o == Order(script)
           IN  /\ n \in Nat /\ o \in [1..n -> Defined(script)]
               /\ \A i, j \in 1..n : i < j => Hash[o[i]] < Hash[o[j]]
               /\ \A i, j \in 1..n : o[i] = o[j] => i = j
               /\ \A m \in Defined(script) : \E i \in 1..n : o[i] = m
<1> DEFINE D == Defined(script)
           n == Cardinality(D)
           o == Order(script)
<1>1. D \in SUBSET Names /\ IsFiniteSet(D) /\ n \in Nat
  BY FS_CardinalityType DEF ScriptInv
<1>2. o \in [1..n -> D] /\ Ascending(o)
  <2>1. \E s \in [1..n -> D] : Ascending(s)
    BY <1>1, Sortable
  <2> QED BY <2>1 DEF Order
<1> HIDE DEF D, o
<1>3. \A i, j \in 1..n : i < j => Hash[o[i]] < Hash[o[j]]
  BY <1>2 DEF Ascending
<1> HIDE DEF n
<1>4. \A i \in 1..n : o[i] \in D /\ Hash[o[i]] \in Nat
  BY <1>1, <1>2, ScriptFileAssumption
<1>5. \A i, j \in 1..n : o[i] = o[j] => i = j
  <2> SUFFICES ASSUME NEW i \in 1..n, NEW j \in 1..n, o[i] = o[j] PROVE i = j
    OBVIOUS
  <2>1. ~(i < j) /\ ~(j < i)
    BY <1>3, <1>4
  <2> QED BY <1>1, <2>1
<1>6. \A m \in D : \E i \in 1..n : o[i] = m
  <2> SUFFICES ASSUME NEW m \in D, \A i \in 1..n : o[i] # m PROVE FALSE
    OBVIOUS
  <2> DEFINE S == 1..n
             T == D \ {m}
  <2>1. IsFiniteSet(T) /\ Cardinality(T) = n - 1
    BY <1>1, FS_RemoveElement DEF n
  <2>2. IsFiniteSet(S) /\ Cardinality(S) = n
    <3>1. 1 \in Int /\ n \in Int
      BY <1>1
    <3>2. IsFiniteSet(1..n) /\ Cardinality(1..n) = IF 1 > n THEN 0 ELSE n - 1 + 1
      BY <3>1, FS_Interval
    <3>3. (IF 1 > n THEN 0 ELSE n - 1 + 1) = n
      BY <1>1
    <3> QED BY <3>2, <3>3
  <2>3. o \in [S -> T]
    BY <1>2, <2>1
  <2>4. Cardinality(T) < Cardinality(S)
    BY <1>1, <2>1, <2>2
  <2> HIDE DEF S, T
  <2>5. PICK x \in S, y \in S : x # y /\ o[x] = o[y]
    BY <2>1, <2>2, <2>3, <2>4, FS_PigeonHole
  <2> QED BY <1>5, <2>5 DEF S
<1> QED BY <1>1, <1>2, <1>3, <1>5, <1>6 DEF D, n, o

-----------------------------------------------------------------------------
(* Folds over a sequence: one function of the sets of its places, whose      *)
(* values for 1..k are those of the loop after k turns.                      *)

Recurs(g, n, base, step, pick) ==
    \A s \in SUBSET (1..n) :
        g[s] = IF s = {} THEN base ELSE step[<<pick[s], g[s \ {pick[s]}]>>]

Picks(pick, n) == \A s \in SUBSET (1..n) : s # {} => pick[s] \in s

LEMMA OneLess ==
    ASSUME NEW n \in Nat, NEW s \in SUBSET (1..n), NEW x \in s
    PROVE  /\ Cardinality(s \ {x}) = Cardinality(s) - 1 /\ Cardinality(s) \in Nat \ {0}
           /\ s \ {x} \in SUBSET (1..n)
<1>1. IsFiniteSet(1..n)
  <2>1. 1 \in Int /\ n \in Int
    OBVIOUS
  <2> QED BY <2>1, FS_Interval
<1>2. IsFiniteSet(s) /\ Cardinality(s) \in Nat
  BY <1>1, FS_Subset, FS_CardinalityType
<1>3. Cardinality(s \ {x}) = Cardinality(s) - 1
  BY <1>2, FS_RemoveElement
<1>4. Cardinality(s) # 0
  BY <1>2, FS_EmptySet
<1> QED BY <1>2, <1>3, <1>4

LEMMA FoldExists ==
    ASSUME NEW n \in Nat, NEW V, NEW base \in V, NEW step \in [(1..n) \X V -> V],
           NEW pick, Picks(pick, n)
    PROVE  \E g \in [SUBSET (1..n) -> V] : Recurs(g, n, base, step, pick)
<1> DEFINE D == SUBSET (1..n)
           Next1(g, s) == IF s = {} THEN base ELSE step[<<pick[s], g[s \ {pick[s]}]>>]
           Upto(g, k) == \A s \in D : Cardinality(s) <= k => g[s] = Next1(g, s)
           Bad == {k \in Nat : ~\E g \in [D -> V] : Upto(g, k)}
<1>1. Bad = {}
  <2> SUFFICES ASSUME Bad # {} PROVE FALSE
    OBVIOUS
  <2>1. PICK k \in Bad : \A j \in Bad : k <= j
    <3>1. Bad \in SUBSET Nat
      OBVIOUS
    <3> HIDE DEF Bad
    <3> QED BY <3>1, LeastNatural
  <2>2. k \in Nat /\ ~\E g \in [D -> V] : Upto(g, k)
    OBVIOUS
  <2>3. PICK g \in [D -> V] : k = 0 \/ Upto(g, k - 1)
    <3>1. CASE k = 0
      <4>1. [s \in D |-> base] \in [D -> V]
        OBVIOUS
      <4> QED BY <3>1, <4>1
    <3>2. CASE k # 0
      <4>1. k - 1 \in Nat /\ k - 1 \notin Bad
        <5>1. k - 1 \in Nat /\ ~(k <= k - 1)
          BY <2>2, <3>2
        <5> HIDE DEF Bad
        <5> QED BY <2>1, <5>1
      <4> QED BY <4>1
    <3> QED BY <3>1, <3>2
  <2> DEFINE h == [s \in D |-> Next1(g, s)]
  <2>4. \A s \in D : s # {} => pick[s] \in 1..n /\ s \ {pick[s]} \in D
    BY DEF Picks
  <2>5. h \in [D -> V]
    <3> SUFFICES ASSUME NEW s \in D PROVE Next1(g, s) \in V
      OBVIOUS
    <3>1. CASE s = {}
      BY <3>1
    <3>2. CASE s # {}
      <4>1. <<pick[s], g[s \ {pick[s]}]>> \in (1..n) \X V
        BY <2>4, <3>2
      <4> QED BY <3>2, <4>1
    <3> QED BY <3>1, <3>2
  <2>6. ASSUME NEW s \in D, Cardinality(s) <= k PROVE h[s] = Next1(h, s)
    <3>1. CASE s = {}
      BY <3>1
    <3>2. CASE s # {}
      <4> DEFINE t == s \ {pick[s]}
      <4>1. t \in D /\ Cardinality(t) = Cardinality(s) - 1 /\ Cardinality(s) \in Nat \ {0}
        <5>1. pick[s] \in s
          BY <3>2 DEF Picks
        <5> QED BY <5>1, OneLess
      <4>2. Cardinality(t) <= k - 1 /\ k # 0
        BY <2>2, <2>6, <4>1
      <4>3. g[t] = Next1(g, t)
        <5> HIDE DEF t, Next1, D
        <5> QED BY <2>3, <4>1, <4>2
      <4>4. h[t] = Next1(g, t)
        <5> HIDE DEF t, Next1
        <5> QED BY <4>1
      <4>5. h[s] = step[<<pick[s], g[t]>>] /\ Next1(h, s) = step[<<pick[s], h[t]>>]
        BY <3>2
      <4> HIDE DEF t, h, Next1
      <4> QED BY <4>3, <4>4, <4>5
    <3> QED BY <3>1, <3>2
  <2>7. Upto(h, k)
    <3> HIDE DEF h, Next1
    <3> QED BY <2>6
  <2> HIDE DEF h
  <2> QED BY <2>2, <2>5, <2>7
<1>2. PICK g \in [D -> V] : Upto(g, n)
  <2> HIDE DEF Upto
  <2> QED BY <1>1
<1>3. \A s \in D : Cardinality(s) <= n
  <2>1. IsFiniteSet(1..n) /\ Cardinality(1..n) = n
    <3>1. 1 \in Int /\ n \in Int
      OBVIOUS
    <3>2. IsFiniteSet(1..n) /\ Cardinality(1..n) = IF 1 > n THEN 0 ELSE n - 1 + 1
      BY <3>1, FS_Interval
    <3>3. (IF 1 > n THEN 0 ELSE n - 1 + 1) = n
      OBVIOUS
    <3> QED BY <3>2, <3>3
  <2> TAKE s \in D
  <2>2. Cardinality(s) <= Cardinality(1..n)
    BY <2>1, FS_Subset
  <2> QED BY <2>1, <2>2
<1>4. \A s \in D : g[s] = Next1(g, s)
  <2> HIDE DEF Next1, D
  <2> QED BY <1>2, <1>3
<1> QED BY <1>4 DEF Recurs

MaxPick(n) == [s \in SUBSET (1..n) |-> Max(s)]

LEMMA Greatest ==
    ASSUME NEW n \in Nat, NEW s \in SUBSET (1..n), s # {}
    PROVE  /\ \E x \in s : \A y \in s : y <= x
           /\ Max(s) \in s /\ \A y \in s : y <= Max(s)
<1> DEFINE C == {n - x : x \in s}
<1>1. C \in SUBSET Nat /\ C # {}
  <2>1. \A x \in s : n - x \in Nat
    <3> TAKE x \in s
    <3>1. x \in 1..n
      OBVIOUS
    <3> QED BY <3>1
  <2>2. PICK x \in s : TRUE
    OBVIOUS
  <2>3. n - x \in C
    OBVIOUS
  <2> QED BY <2>1, <2>3
<1>2. PICK c \in C : \A d \in C : c <= d
  <2> HIDE DEF C
  <2> QED BY <1>1, LeastNatural
<1>3. PICK x \in s : c = n - x
  BY <1>2
<1>4. \A y \in s : y <= x
  <2> TAKE y \in s
  <2>1. n - x <= n - y /\ x \in Nat /\ y \in Nat
    BY <1>2, <1>3
  <2> QED BY <2>1
<1>5. Max(s) \in s /\ \A y \in s : Max(s) >= y
  <2>1. \A y \in s : x >= y
    <3> TAKE y \in s
    <3>1. y <= x /\ x \in Nat /\ y \in Nat
      BY <1>4
    <3> QED BY <3>1
  <2> QED BY <2>1 DEF Max
<1>6. \A y \in s : y <= Max(s)
  <2> DEFINE m == Max(s)
  <2>1. m \in s /\ \A y \in s : m >= y
    BY <1>5
  <2> HIDE DEF m
  <2>2. m \in 1..n /\ \A y \in s : y \in 1..n
    BY <2>1
  <2>3. \A y \in s : y <= m
    BY <2>1, <2>2
  <2> QED BY <2>3 DEF m
<1> QED BY <1>4, <1>5, <1>6

LEMMA MaxPicks ==
    ASSUME NEW n \in Nat
    PROVE  /\ Picks(MaxPick(n), n)
           /\ \A k \in 1..n : Max(1..k) = k /\ 1..k \in SUBSET (1..n) /\ (1..k) \ {k} = 1..(k - 1)
           /\ \A s \in SUBSET (1..n) : MaxPick(n)[s] = Max(s)
<1>1. ASSUME NEW s \in SUBSET (1..n), s # {} PROVE Max(s) \in s
  BY <1>1, Greatest
<1>2. ASSUME NEW k \in 1..n PROVE Max(1..k) = k /\ 1..k \in SUBSET (1..n) /\ (1..k) \ {k} = 1..(k - 1)
  <2>1. 1..k \in SUBSET (1..n) /\ 1..k # {} /\ k \in 1..k
    OBVIOUS
  <2>2. k \in 1..k /\ \A y \in 1..k : k >= y
    OBVIOUS
  <2>3. Max(1..k) \in 1..k /\ \A y \in 1..k : Max(1..k) >= y
    BY <2>2 DEF Max
  <2>4. Max(1..k) >= k /\ Max(1..k) \in Nat /\ Max(1..k) <= k
    BY <2>1, <2>3
  <2> QED BY <2>1, <2>4
<1> QED BY <1>1, <1>2 DEF MaxPick, Picks

-----------------------------------------------------------------------------
(* Loading what was saved.                                                   *)

LoadStep(f, s, i) ==
    Enter(s, LoadedName(f, i),
          [nameIndex |-> f.functions[i].nameIndex, index |-> i - 1,
           locals |-> f.functions[i].locals, code |-> f.functions[i].code])

LoadBase(f) == [EmptyScript EXCEPT !.strings = f.strings]

LEMMA LoadedRuns ==
    ASSUME NEW f, NEW n \in Nat, n = f.functionCount, NEW V, LoadBase(f) \in V,
           \A i \in 1..n, v \in V : LoadStep(f, v, i) \in V
    PROVE  \E h : /\ h[0] = LoadBase(f)
                  /\ \A k \in 1..n : h[k] = LoadStep(f, h[k - 1], k)
                  /\ Loaded(f) = h[n]
<1> DEFINE seq == [i \in 1..n |-> i]
           base == LoadBase(f)
           step == [p \in (1..n) \X V |-> LoadStep(f, p[2], p[1])]
           iter[s \in SUBSET (DOMAIN seq)] ==
               IF s = {} THEN base ELSE LoadStep(f, iter[s \ {Max(s)}], seq[Max(s)])
<1>1. Loaded(f) = iter[DOMAIN seq]
  BY DEF Loaded, FoldLeft, MapThenFoldSet, LoadStep, LoadBase
<1>2. iter = [s \in SUBSET (DOMAIN seq) |->
                 IF s = {} THEN base ELSE LoadStep(f, iter[s \ {Max(s)}], seq[Max(s)])]
  <2>1. step \in [(1..n) \X V -> V]
    OBVIOUS
  <2>2. PICK g \in [SUBSET (1..n) -> V] : Recurs(g, n, base, step, MaxPick(n))
    <3> HIDE DEF step
    <3> QED BY <2>1, MaxPicks, FoldExists
  <2>3. ASSUME NEW s \in SUBSET (1..n)
        PROVE  g[s] = IF s = {} THEN base ELSE LoadStep(f, g[s \ {Max(s)}], seq[Max(s)])
    <3>1. CASE s = {}
      BY <2>2, <3>1 DEF Recurs
    <3>2. CASE s # {}
      <4>1. Max(s) \in s /\ MaxPick(n)[s] = Max(s)
        <5>1. Picks(MaxPick(n), n) /\ MaxPick(n)[s] = Max(s)
          BY MaxPicks
        <5> QED BY <3>2, <5>1 DEF Picks
      <4>2. Max(s) \in 1..n /\ s \ {Max(s)} \in SUBSET (1..n)
        BY <4>1
      <4>3. g[s] = step[<<Max(s), g[s \ {Max(s)}]>>]
        BY <2>2, <3>2, <4>1 DEF Recurs
      <4>4. <<Max(s), g[s \ {Max(s)}]>> \in (1..n) \X V
        BY <4>2
      <4>5. step[<<Max(s), g[s \ {Max(s)}]>>] = LoadStep(f, g[s \ {Max(s)}], Max(s))
        BY <4>4
      <4>6. seq[Max(s)] = Max(s)
        BY <4>2
      <4> HIDE DEF step, seq
      <4> QED BY <3>2, <4>3, <4>5, <4>6
    <3> QED BY <3>1, <3>2
  <2>4. DOMAIN seq = 1..n
    OBVIOUS
  <2> HIDE DEF seq, base
  <2>5. g = [s \in SUBSET (DOMAIN seq) |->
                 IF s = {} THEN base ELSE LoadStep(f, g[s \ {Max(s)}], seq[Max(s)])]
    BY <2>3, <2>4
  <2> QED BY <2>5
<1> HIDE DEF iter
<1> DEFINE h == [k \in 0..n |-> iter[1..k]]
<1>3. h[0] = base
  BY <1>2
<1>4. \A k \in 1..n : h[k] = LoadStep(f, h[k - 1], k)
  <2> TAKE k \in 1..n
  <2>1. Max(1..k) = k /\ 1..k \in SUBSET (1..n) /\ (1..k) \ {k} = 1..(k - 1) /\ k - 1 \in 0..n
        /\ 1..k # {}
    BY MaxPicks
  <2>2. iter[1..k] = LoadStep(f, iter[1..(k - 1)], k)
    BY <1>2, <2>1
  <2>3. h[k] = iter[1..k] /\ h[k - 1] = iter[1..(k - 1)]
    BY <2>1
  <2> QED BY <2>2, <2>3
<1>5. Loaded(f) = h[n]
  BY <1>1
<1> HIDE DEF h
<1> QED BY <1>3, <1>4, <1>5

Entry(f, i) ==
    [nameIndex |-> f.functions[i].nameIndex, index |-> i - 1,
     locals |-> f.functions[i].locals, code |-> f.functions[i].code]

Entered(F, name, e) == [m \in DOMAIN F \cup {name} |-> IF m = name THEN e ELSE F[m]]

\* A turn of the loop, of a script whose strings are all there.
LEMMA Turn ==
    ASSUME NEW f, NEW i, NEW s, NEW strings, NEW F, s = [strings |-> strings, functions |-> F]
    PROVE  LoadStep(f, s, i) =
               [strings |-> strings, functions |-> Entered(F, LoadedName(f, i), Entry(f, i))]
BY DEF LoadStep, Enter, Entry, Entered

\* The file of a script.
LEMMA SavedFile ==
    ASSUME ScriptInv, NamesInv, Defined(script) # {}
    PROVE  LET n == Cardinality(Defined(script))
               o == Order(script)
               f == Saved(script)
           IN  /\ n \in Nat \ {0} /\ f.functionCount = n - 1 /\ f.strings = script.strings
               /\ \A i \in 1..n :
                     /\ LoadedName(f, i) = o[i]
                     /\ Entry(f, i).nameIndex = script.functions[o[i]].nameIndex
                     /\ Entry(f, i).locals = script.functions[o[i]].locals
                     /\ Entry(f, i).code = script.functions[o[i]].code
<1> DEFINE D == Defined(script)
           n == Cardinality(D)
           o == Order(script)
           f == Saved(script)
<1>1. n \in Nat /\ o \in [1..n -> D] /\ IsFiniteSet(D)
  BY OrderFacts DEF ScriptInv
<1>2. n # 0
  BY <1>1, FS_EmptySet
<1>3. f.functionCount = n - 1 /\ f.strings = script.strings
  BY DEF Saved, NodeCount
<1>4. f.functions = [i \in DOMAIN o |->
                        [nameIndex |-> script.functions[o[i]].nameIndex,
                         locals |-> script.functions[o[i]].locals,
                         code |-> script.functions[o[i]].code]]
  BY DEF Saved
<1>5. DOMAIN o = 1..n
  BY <1>1
<1> HIDE DEF f, o, n
<1>6. ASSUME NEW i \in 1..n
      PROVE  /\ LoadedName(f, i) = o[i]
             /\ Entry(f, i).nameIndex = script.functions[o[i]].nameIndex
             /\ Entry(f, i).locals = script.functions[o[i]].locals
             /\ Entry(f, i).code = script.functions[o[i]].code
  <2>1. f.functions[i] = [nameIndex |-> script.functions[o[i]].nameIndex,
                          locals |-> script.functions[o[i]].locals,
                          code |-> script.functions[o[i]].code]
    BY <1>4, <1>5
  <2>2. o[i] \in D
    BY <1>1
  <2>3. script.strings[script.functions[o[i]].nameIndex + 1] = o[i]
    BY <2>2 DEF NamesInv
  <2>4. LoadedName(f, i) = o[i]
    BY <1>3, <2>1, <2>3 DEF LoadedName
  <2> QED BY <2>1, <2>4 DEF Entry
<1> QED BY <1>1, <1>2, <1>3, <1>6 DEF D, n, o, f

\* After k turns the first k functions are there.
Reached(s, f, o, k) ==
    /\ s = [strings |-> f.strings, functions |-> s.functions]
    /\ DOMAIN s.functions = {o[i] : i \in 1..k}
    /\ \A i \in 1..k : s.functions[o[i]] = Entry(f, i)

LEMMA LoadedReached ==
    ASSUME ScriptInv, NamesInv, Defined(script) # {}
    PROVE  Reached(Loaded(Saved(script)), Saved(script), Order(script),
                   Cardinality(Defined(script)) - 1)
<1> DEFINE n == Cardinality(Defined(script))
           o == Order(script)
           f == Saved(script)
           R == {Entry(f, i) : i \in 1..n}
           Fs == UNION {[A -> R] : A \in SUBSET Names}
           V == {[strings |-> f.strings, functions |-> F] : F \in Fs}
<1>1. /\ n \in Nat \ {0} /\ f.functionCount = n - 1
      /\ \A i \in 1..n : LoadedName(f, i) = o[i]
  BY SavedFile
<1>2. /\ o \in [1..n -> Defined(script)] /\ \A i, j \in 1..n : o[i] = o[j] => i = j
      /\ Defined(script) \subseteq Names
  BY OrderFacts DEF ScriptInv
<1> HIDE DEF n, o, f
<1>3. LoadBase(f) = [strings |-> f.strings, functions |-> <<>>]
  BY DEF LoadBase, EmptyScript
<1>4. <<>> \in Fs
  <2>1. <<>> \in [{} -> R]
    OBVIOUS
  <2> QED BY <2>1
<1>5. LoadBase(f) \in V
  BY <1>3, <1>4
<1>6. ASSUME NEW i \in 1..(n - 1), NEW v \in V PROVE LoadStep(f, v, i) \in V
  <2>1. PICK F \in Fs : v = [strings |-> f.strings, functions |-> F]
    OBVIOUS
  <2>2. PICK A \in SUBSET Names : F \in [A -> R]
    OBVIOUS
  <2> DEFINE x == o[i]
             G == [m \in A \cup {x} |-> IF m = x THEN Entry(f, i) ELSE F[m]]
  <2>3. LoadedName(f, i) = x /\ x \in Names /\ Entry(f, i) \in R
    BY <1>1, <1>2
  <2>4. LoadStep(f, v, i) = [strings |-> f.strings, functions |-> G]
    <3>1. DOMAIN F = A
      BY <2>2
    <3>2. LoadStep(f, v, i) =
             [strings |-> f.strings, functions |-> Entered(F, LoadedName(f, i), Entry(f, i))]
      BY <2>1, Turn
    <3> HIDE DEF x, R
    <3> QED BY <2>3, <3>1, <3>2 DEF Entered
  <2> HIDE DEF x
  <2>5. G \in [A \cup {x} -> R]
    <3> HIDE DEF R
    <3> QED BY <2>2, <2>3
  <2>6. A \cup {x} \in SUBSET Names
    BY <2>2, <2>3
  <2>7. G \in Fs
    <3> HIDE DEF G, R
    <3> QED BY <2>5, <2>6
  <2> HIDE DEF G, Fs
  <2> QED BY <2>4, <2>7
<1>7. PICK h : /\ h[0] = LoadBase(f)
               /\ \A k \in 1..(n - 1) : h[k] = LoadStep(f, h[k - 1], k)
               /\ Loaded(f) = h[n - 1]
  <2>1. n - 1 \in Nat
    BY <1>1
  <2> HIDE DEF V
  <2> QED BY <1>1, <1>5, <1>6, <2>1, LoadedRuns
<1> HIDE DEF V
<1> DEFINE Bad == {k \in 0..(n - 1) : ~Reached(h[k], f, o, k)}
<1>8. Bad = {}
  <2> SUFFICES ASSUME Bad # {} PROVE FALSE
    OBVIOUS
  <2>1. PICK k \in Bad : \A j \in Bad : k <= j
    <3>1. Bad \in SUBSET Nat
      OBVIOUS
    <3> HIDE DEF Bad
    <3> QED BY <3>1, LeastNatural
  <2>2. k \in 0..(n - 1) /\ ~Reached(h[k], f, o, k)
    OBVIOUS
  <2>3. k # 0
    <3>1. h[0].functions = <<>> /\ h[0] = [strings |-> f.strings, functions |-> h[0].functions]
      BY <1>3, <1>7
    <3>2. Reached(h[0], f, o, 0)
      BY <3>1 DEF Reached
    <3> QED BY <2>2, <3>2
  <2>4. k \in 1..(n - 1) /\ k - 1 \in 0..(n - 1) /\ k \in 1..n /\ \A i \in 1..(k - 1) : i \in 1..n
    BY <1>1, <2>2, <2>3
  <2>5. Reached(h[k - 1], f, o, k - 1)
    <3>1. ~(k <= k - 1)
      BY <2>4
    <3>2. k - 1 \notin Bad
      <4> HIDE DEF Bad
      <4> QED BY <2>1, <3>1
    <3> QED BY <2>4, <3>2
  <2> DEFINE F == h[k - 1].functions
             G == [m \in DOMAIN F \cup {o[k]} |-> IF m = o[k] THEN Entry(f, k) ELSE F[m]]
  <2>6. h[k] = [strings |-> f.strings, functions |-> G]
    <3>1. h[k - 1] = [strings |-> f.strings, functions |-> F]
      BY <2>5 DEF Reached
    <3>2. h[k] = LoadStep(f, h[k - 1], k) /\ LoadedName(f, k) = o[k]
      BY <1>1, <1>7, <2>4
    <3> HIDE DEF F
    <3>3. LoadStep(f, h[k - 1], k) =
             [strings |-> f.strings, functions |-> Entered(F, LoadedName(f, k), Entry(f, k))]
      BY <3>1, Turn
    <3> QED BY <3>2, <3>3 DEF Entered
  <2>7. DOMAIN F = {o[i] : i \in 1..(k - 1)} /\ \A i \in 1..(k - 1) : F[o[i]] = Entry(f, i)
    BY <2>5 DEF Reached
  <2> HIDE DEF F
  <2>8. DOMAIN G = {o[i] : i \in 1..k}
    <3>1. 1..k = (1..(k - 1)) \cup {k}
      BY <2>4
    <3>2. DOMAIN G = {o[i] : i \in 1..(k - 1)} \cup {o[k]}
      BY <2>7
    <3> QED BY <3>1, <3>2
  <2>9. ASSUME NEW i \in 1..k PROVE G[o[i]] = Entry(f, i)
    <3>1. CASE i = k
      BY <3>1
    <3>2. CASE i # k
      <4>1. i \in 1..(k - 1) /\ i \in 1..n
        BY <2>4, <3>2
      <4>2. o[i] # o[k] /\ o[i] \in DOMAIN F
        BY <1>2, <2>4, <2>7, <3>2, <4>1
      <4> QED BY <2>7, <4>1, <4>2
    <3> QED BY <3>1, <3>2
  <2> HIDE DEF G
  <2>10. h[k].functions = G
    BY <2>6
  <2>11. Reached(h[k], f, o, k)
    BY <2>6, <2>8, <2>9, <2>10 DEF Reached
  <2> QED BY <2>2, <2>11
<1>9. Reached(h[n - 1], f, o, n - 1)
  <2>1. n - 1 \in 0..(n - 1)
    BY <1>1
  <2> QED BY <1>8, <2>1
<1> QED BY <1>7, <1>9 DEF n, o, f

LEMMA LoadedLosesLast ==
    ASSUME ScriptInv, NamesInv, FileInv PROVE LoadDropsLast
<1> SUFFICES ASSUME phase = "loaded" PROVE LoadDropsLast
  BY DEF LoadDropsLast
<1> DEFINE D == Defined(script)
           n == Cardinality(D)
           o == Order(script)
           f == Saved(script)
           last == CHOOSE x \in D : \A m \in D : Hash[m] <= Hash[x]
<1>1. loaded = Loaded(f) /\ D # {}
  BY DEF FileInv
<1>2. Reached(loaded, f, o, n - 1)
  BY <1>1, LoadedReached
<1>3. /\ n \in Nat \ {0} /\ f.strings = script.strings
      /\ \A i \in 1..n : /\ Entry(f, i).nameIndex = script.functions[o[i]].nameIndex
                         /\ Entry(f, i).locals = script.functions[o[i]].locals
                         /\ Entry(f, i).code = script.functions[o[i]].code
  BY <1>1, SavedFile
<1>4. /\ o \in [1..n -> D] /\ D \subseteq Names
      /\ \A i, j \in 1..n : i < j => Hash[o[i]] < Hash[o[j]]
      /\ \A i, j \in 1..n : o[i] = o[j] => i = j
      /\ \A m \in D : \E i \in 1..n : o[i] = m
  BY OrderFacts DEF ScriptInv
<1> HIDE DEF n, o, f
<1>5. n \in 1..n
  BY <1>3
<1>6. last = o[n]
  <2>1. \A m \in D : Hash[m] \in Nat
    BY <1>4, ScriptFileAssumption
  <2>2. \A m \in D : Hash[m] <= Hash[o[n]]
    <3> TAKE m \in D
    <3>1. PICK i \in 1..n : o[i] = m
      BY <1>4
    <3>2. i < n \/ i = n
      BY <1>3
    <3> HIDE DEF D
    <3>3. Hash[o[i]] < Hash[o[n]] \/ o[i] = o[n]
      BY <1>4, <1>5, <3>2
    <3>4. o[n] \in D
      BY <1>4, <1>5
    <3> QED BY <2>1, <3>1, <3>3, <3>4
  <2>3. o[n] \in D
    BY <1>4, <1>5
  <2> HIDE DEF D
  <2>4. last \in D /\ \A m \in D : Hash[m] <= Hash[last]
    BY <2>2, <2>3
  <2>5. Hash[last] = Hash[o[n]]
    BY <2>1, <2>2, <2>3, <2>4
  <2> QED BY <1>4, <2>3, <2>4, <2>5, ScriptFileAssumption
<1> HIDE DEF last
<1>7. loaded.strings = script.strings
  BY <1>2, <1>3 DEF Reached
<1>8. \A i \in 1..n : i \in 1..(n - 1) <=> i # n
  BY <1>3
<1>9. \A i \in 1..(n - 1) : i \in 1..n
  BY <1>3
<1>10. Defined(loaded) = {o[i] : i \in 1..(n - 1)}
  BY <1>2 DEF Reached, Defined
<1>11. Defined(loaded) = D \ {last}
  <2> HIDE DEF D
  <2>1. ASSUME NEW m \in Defined(loaded) PROVE m \in D \ {last}
    <3>1. PICK i \in 1..(n - 1) : m = o[i]
      BY <1>10
    <3>2. i \in 1..n /\ i # n
      BY <1>8, <1>9
    <3> QED BY <1>4, <1>5, <1>6, <3>1, <3>2
  <2>2. ASSUME NEW m \in D, m # last PROVE m \in Defined(loaded)
    <3>1. PICK i \in 1..n : m = o[i]
      BY <1>4
    <3> QED BY <1>6, <1>8, <1>10, <2>2, <3>1
  <2> QED BY <2>1, <2>2
<1>12. ASSUME NEW m \in Defined(loaded)
       PROVE  /\ loaded.functions[m].code = script.functions[m].code
              /\ loaded.functions[m].locals = script.functions[m].locals
              /\ loaded.strings[loaded.functions[m].nameIndex + 1] = m
  <2>1. PICK i \in 1..(n - 1) : m = o[i]
    BY <1>10
  <2>2. loaded.functions[m] = Entry(f, i)
    BY <1>2, <2>1 DEF Reached
  <2>3. i \in 1..n
    BY <1>9
  <2>4. m \in D /\ script.strings[script.functions[m].nameIndex + 1] = m
    BY <1>11 DEF NamesInv
  <2> QED BY <1>3, <1>7, <2>1, <2>2, <2>3, <2>4
<1> QED BY <1>7, <1>11, <1>12 DEF LoadDropsLast, last, D

\* Saving and loading a script loses one function and nothing else: the last
\* in the order of the hashes, which the count in the header leaves out.
THEOREM LoadLosesOne == Spec => []LoadDropsLast
<1>1. Init => NamesInv /\ FileInv
  BY DEF Init, EmptyScript, NamesInv, Defined, FileInv
<1>2. CInv /\ NamesInv /\ FileInv => LoadDropsLast
  BY LoadedLosesLast DEF CInv
<1> QED BY <1>1, <1>2, CompilerInvariant, StepNames, StepFile, PTL DEF Spec

-----------------------------------------------------------------------------
(* Numbers.                                                                  *)

LEMMA PowerExists == \E f : f = [k \in Nat |-> IF k = 0 THEN 1 ELSE Byte * f[k - 1]]
<1> DEFINE Upto(g, n) == \A k \in 0..n : g[k] = IF k = 0 THEN 1 ELSE Byte * g[k - 1]
           Bad == {n \in Nat : ~\E g : Upto(g, n)}
<1>1. Bad = {}
  <2> SUFFICES ASSUME Bad # {} PROVE FALSE
    OBVIOUS
  <2>1. PICK n \in Bad : \A j \in Bad : n <= j
    <3>1. Bad \in SUBSET Nat
      OBVIOUS
    <3> HIDE DEF Bad
    <3> QED BY <3>1, LeastNatural
  <2>2. n \in Nat /\ ~\E g : Upto(g, n)
    OBVIOUS
  <2>3. PICK g : n = 0 \/ Upto(g, n - 1)
    <3>1. CASE n = 0
      BY <3>1
    <3>2. CASE n # 0
      <4>1. n - 1 \in Nat /\ n - 1 \notin Bad
        <5>1. n - 1 \in Nat /\ ~(n <= n - 1)
          BY <2>2, <3>2
        <5> HIDE DEF Bad
        <5> QED BY <2>1, <5>1
      <4> QED BY <4>1
    <3> QED BY <3>1, <3>2
  <2> DEFINE h == [k \in 0..n |-> IF k = 0 THEN 1 ELSE Byte * g[k - 1]]
  <2>4. ASSUME NEW k \in 0..n PROVE h[k] = IF k = 0 THEN 1 ELSE Byte * h[k - 1]
    <3>1. CASE k = 0
      BY <3>1
    <3>2. CASE k # 0
      <4>1. k - 1 \in 0..(n - 1) /\ k - 1 \in 0..n /\ n # 0
        BY <2>2, <3>2
      <4>2. g[k - 1] = IF k - 1 = 0 THEN 1 ELSE Byte * g[(k - 1) - 1]
        BY <2>3, <4>1
      <4>3. h[k - 1] = g[k - 1]
        BY <4>1, <4>2
      <4>4. h[k] = Byte * g[k - 1]
        BY <3>2
      <4> HIDE DEF h
      <4> QED BY <3>2, <4>3, <4>4
    <3> QED BY <3>1, <3>2
  <2>5. Upto(h, n)
    <3> HIDE DEF h
    <3> QED BY <2>4
  <2> HIDE DEF h
  <2> QED BY <2>2, <2>5
<1>2. ASSUME NEW m \in Nat, NEW n \in Nat, m <= n, NEW g, NEW h, Upto(g, m), Upto(h, n)
      PROVE  g[m] = h[m]
  <2> DEFINE Off == {k \in 0..m : g[k] # h[k]}
  <2> SUFFICES ASSUME Off # {} PROVE FALSE
    OBVIOUS
  <2>1. PICK k \in Off : \A j \in Off : k <= j
    <3>1. Off \in SUBSET Nat
      OBVIOUS
    <3> HIDE DEF Off
    <3> QED BY <3>1, LeastNatural
  <2>2. k \in 0..m /\ k \in 0..n /\ g[k] # h[k]
    BY <1>2
  <2>3. k # 0
    BY <1>2, <2>2
  <2>4. k - 1 \in 0..m /\ ~(k <= k - 1)
    BY <2>2, <2>3
  <2>5. k - 1 \notin Off
    <3> HIDE DEF Off
    <3> QED BY <2>1, <2>4
  <2>6. g[k - 1] = h[k - 1]
    BY <2>4, <2>5
  <2> QED BY <1>2, <2>2, <2>3, <2>6
<1> DEFINE G(n) == CHOOSE g : Upto(g, n)
           f == [k \in Nat |-> G(k)[k]]
<1>3. \A n \in Nat : Upto(G(n), n)
  <2> HIDE DEF Upto
  <2> QED BY <1>1
<1>4. ASSUME NEW k \in Nat PROVE f[k] = IF k = 0 THEN 1 ELSE Byte * f[k - 1]
  <2>1. k \in 0..k
    OBVIOUS
  <2>2. G(k)[k] = IF k = 0 THEN 1 ELSE Byte * G(k)[k - 1]
    <3> HIDE DEF G
    <3> QED BY <1>3, <2>1
  <2>3. CASE k = 0
    BY <2>2, <2>3
  <2>4. CASE k # 0
    <3>1. k - 1 \in Nat /\ k - 1 <= k
      BY <2>4
    <3>2. G(k - 1)[k - 1] = G(k)[k - 1]
      <4> HIDE DEF G, Upto
      <4> QED BY <1>2, <1>3, <3>1
    <3>3. f[k] = G(k)[k] /\ f[k - 1] = G(k - 1)[k - 1]
      BY <3>1
    <3> HIDE DEF f, G
    <3> QED BY <2>2, <2>4, <3>2, <3>3
  <2> QED BY <2>3, <2>4
<1>5. f = [k \in Nat |-> f[k]]
  OBVIOUS
<1> HIDE DEF f
<1>6. f = [k \in Nat |-> IF k = 0 THEN 1 ELSE Byte * f[k - 1]]
  BY <1>4, <1>5
<1> QED BY <1>6

LEMMA PowerFacts ==
    /\ Power[0] = 1
    /\ \A k \in Nat : Power[k + 1] = Byte * Power[k]
    /\ \A k \in Nat : Power[k] \in Nat \ {0}
<1>1. Power = [k \in Nat |-> IF k = 0 THEN 1 ELSE Byte * Power[k - 1]]
  <2> DEFINE f == CHOOSE f : f = [k \in Nat |-> IF k = 0 THEN 1 ELSE Byte * f[k - 1]]
  <2>1. f = [k \in Nat |-> IF k = 0 THEN 1 ELSE Byte * f[k - 1]]
    BY PowerExists
  <2>2. Power = f
    BY DEF Power
  <2> HIDE DEF f
  <2> QED BY <2>1, <2>2
<1>2. Power[0] = 1
  BY <1>1
<1>3. \A k \in Nat : Power[k + 1] = Byte * Power[k]
  <2> TAKE k \in Nat
  <2>1. k + 1 \in Nat /\ k + 1 # 0 /\ (k + 1) - 1 = k
    OBVIOUS
  <2> QED BY <1>1, <2>1
<1> DEFINE Bad == {k \in Nat : Power[k] \notin Nat \ {0}}
<1>4. Bad = {}
  <2> SUFFICES ASSUME Bad # {} PROVE FALSE
    OBVIOUS
  <2>1. PICK k \in Bad : \A j \in Bad : k <= j
    <3>1. Bad \in SUBSET Nat
      OBVIOUS
    <3> HIDE DEF Bad
    <3> QED BY <3>1, LeastNatural
  <2>2. k \in Nat /\ Power[k] \notin Nat \ {0}
    OBVIOUS
  <2>3. k # 0
    BY <1>2, <2>2
  <2>4. k - 1 \in Nat /\ ~(k <= k - 1) /\ (k - 1) + 1 = k
    BY <2>2, <2>3
  <2>5. k - 1 \notin Bad
    <3> HIDE DEF Bad
    <3> QED BY <2>1, <2>4
  <2>6. Power[k - 1] \in Nat \ {0}
    BY <2>4, <2>5
  <2>7. Power[k] = Byte * Power[k - 1]
    BY <1>3, <2>4
  <2>8. Byte \in Nat \ {0}
    BY EmitterAssumption
  <2> QED BY <2>2, <2>6, <2>7, <2>8
<1> QED BY <1>2, <1>3, <1>4

LEMMA Quotient ==
    ASSUME NEW M \in Nat \ {0}, NEW x \in Int
    PROVE  x \div M \in Int /\ x = M * (x \div M) + (x % M) /\ x % M \in 0..(M - 1)
<1>1. x \div M \in Int
  OBVIOUS
<1>2. x % M \in 0..(M - 1)
  OBVIOUS
<1>3. x = M * (x \div M) + (x % M)
  BY Z3T(60)
<1> QED BY <1>1, <1>2, <1>3

LEMMA Small ==
    ASSUME NEW M \in Nat \ {0}, NEW d \in Int, NEW p \in Int, p = M * d, p < M, p > 0 - M
    PROVE  d = 0
<1>1. CASE d >= 1
  <2>1. M * d >= M
    BY <1>1
  <2> QED BY <2>1
<1>2. CASE d <= -1
  <2>1. M * d <= 0 - M
    BY <1>2
  <2> QED BY <2>1
<1> QED BY <1>1, <1>2

\* There is one quotient and one remainder.
LEMMA Divided ==
    ASSUME NEW M \in Nat \ {0}, NEW x \in Int, NEW q \in Int, NEW r \in 0..(M - 1), x = M * q + r
    PROVE  x \div M = q /\ x % M = r
<1> DEFINE p == x \div M
           s == x % M
           d == p - q
<1>1. p \in Int /\ s \in 0..(M - 1) /\ x = M * p + s
  BY Quotient
<1> HIDE DEF p, s
<1>2. d \in Int /\ M * d = M * p - M * q
  BY <1>1
<1>3. M * d = r - s
  <2> DEFINE a == M * p
             b == M * q
             e == M * d
  <2>1. a \in Int /\ b \in Int /\ e = a - b /\ x = a + s /\ x = b + r /\ s \in Int /\ r \in Int
    BY <1>1, <1>2
  <2> HIDE DEF a, b, e
  <2>2. e = r - s
    BY <2>1
  <2> QED BY <2>2 DEF e
<1> HIDE DEF d
<1>4. r - s \in Int /\ r - s < M /\ r - s > 0 - M
  BY <1>1
<1>5. d = 0
  BY <1>2, <1>3, <1>4, Small
<1>6. p = q
  BY <1>1, <1>5 DEF d
<1>7. r = s
  <2>1. M * d = 0
    BY <1>5
  <2> QED BY <1>1, <1>3, <2>1
<1> QED BY <1>6, <1>7 DEF p, s

LEMMA DividedTwice ==
    ASSUME NEW a \in Nat \ {0}, NEW b \in Nat \ {0}, NEW x \in Nat
    PROVE  (x \div a) \div b = x \div (b * a)
<1> DEFINE q == x \div a
           r == x % a
           p == q \div b
           s == q % b
           t == a * s + r
<1>1. q \in Int /\ r \in 0..(a - 1) /\ x = a * q + r
  BY Quotient
<1> HIDE DEF q, r
<1>2. p \in Int /\ s \in 0..(b - 1) /\ q = b * p + s
  BY <1>1, Quotient
<1> HIDE DEF p, s
<1>3. b * a \in Nat \ {0}
  OBVIOUS
<1>4. t \in 0..(b * a - 1)
  <2>1. s \in Nat /\ s <= b - 1 /\ r \in Nat /\ r <= a - 1
    BY <1>1, <1>2
  <2>2. a * s \in Nat /\ a * s <= a * (b - 1)
    BY <2>1
  <2>3. a * (b - 1) = b * a - a
    OBVIOUS
  <2> QED BY <2>1, <2>2, <2>3
<1>5. x = (b * a) * p + t
  <2>1. a * q = a * (b * p) + a * s
    BY <1>2
  <2>2. a * (b * p) = (b * a) * p
    BY <1>2
  <2> DEFINE u == a * q
             v == a * (b * p)
             w == a * s
             y == (b * a) * p
  <2>3. u = v + w /\ v = y /\ x = u + r /\ w \in Int /\ v \in Int /\ r \in Int
    BY <1>1, <1>2, <2>1, <2>2
  <2>4. t = w + r
    OBVIOUS
  <2> HIDE DEF u, v, w, t, y
  <2>5. x = y + t
    BY <2>3, <2>4
  <2> QED BY <2>5 DEF y
<1> HIDE DEF t
<1>6. x \div (b * a) = p
  <2> DEFINE m == b * a
  <2>1. m \in Nat \ {0} /\ t \in 0..(m - 1) /\ x = m * p + t
    BY <1>3, <1>4, <1>5
  <2> HIDE DEF m
  <2>2. x \div m = p
    BY <1>2, <2>1, Divided
  <2> QED BY <2>2 DEF m
<1> QED BY <1>6 DEF p, q

-----------------------------------------------------------------------------
(* Sums over a sequence.                                                     *)

SumsTo(g, n, w) ==
    g = [s \in SUBSET (1..n) |-> IF s = {} THEN 0 ELSE g[s \ {Max(s)}] + w[Max(s)]]

RunsUp(h, n, w) == h[0] = 0 /\ \A k \in 1..n : h[k] = h[k - 1] + w[k]

LEMMA SumExists ==
    ASSUME NEW n \in Nat, NEW w \in [1..n -> Nat]
    PROVE  \E g : SumsTo(g, n, w)
<1> DEFINE step == [p \in (1..n) \X Nat |-> p[2] + w[p[1]]]
<1>1. step \in [(1..n) \X Nat -> Nat] /\ 0 \in Nat
  OBVIOUS
<1>2. PICK g \in [SUBSET (1..n) -> Nat] : Recurs(g, n, 0, step, MaxPick(n))
  <2> HIDE DEF step
  <2> QED BY <1>1, MaxPicks, FoldExists
<1>3. ASSUME NEW s \in SUBSET (1..n)
      PROVE  g[s] = IF s = {} THEN 0 ELSE g[s \ {Max(s)}] + w[Max(s)]
  <2>1. CASE s = {}
    BY <1>2, <2>1 DEF Recurs
  <2>2. CASE s # {}
    <3>1. Max(s) \in s /\ MaxPick(n)[s] = Max(s)
      <4>1. Picks(MaxPick(n), n) /\ MaxPick(n)[s] = Max(s)
        BY MaxPicks
      <4> QED BY <2>2, <4>1 DEF Picks
    <3>2. Max(s) \in 1..n /\ s \ {Max(s)} \in SUBSET (1..n)
      BY <3>1
    <3>3. g[s] = step[<<Max(s), g[s \ {Max(s)}]>>]
      BY <1>2, <2>2, <3>1 DEF Recurs
    <3>4. <<Max(s), g[s \ {Max(s)}]>> \in (1..n) \X Nat
      BY <3>2
    <3>5. step[<<Max(s), g[s \ {Max(s)}]>>] = g[s \ {Max(s)}] + w[Max(s)]
      BY <3>4
    <3> HIDE DEF step
    <3> QED BY <2>2, <3>3, <3>5
  <2> QED BY <2>1, <2>2
<1>4. g = [s \in SUBSET (1..n) |-> IF s = {} THEN 0 ELSE g[s \ {Max(s)}] + w[Max(s)]]
  BY <1>3
<1> QED BY <1>4 DEF SumsTo

LEMMA SumRuns ==
    ASSUME NEW n \in Nat, NEW w, NEW g, SumsTo(g, n, w)
    PROVE  \E h : RunsUp(h, n, w) /\ h[n] = g[1..n]
<1> DEFINE h == [k \in 0..n |-> g[1..k]]
<1>1. g = [s \in SUBSET (1..n) |-> IF s = {} THEN 0 ELSE g[s \ {Max(s)}] + w[Max(s)]]
  BY DEF SumsTo
<1>2. h[0] = 0
  BY <1>1
<1>3. ASSUME NEW k \in 1..n PROVE h[k] = h[k - 1] + w[k]
  <2>1. Max(1..k) = k /\ 1..k \in SUBSET (1..n) /\ (1..k) \ {k} = 1..(k - 1)
    BY MaxPicks
  <2>2. k - 1 \in 0..n /\ 1..k # {}
    OBVIOUS
  <2>3. g[1..k] = g[1..(k - 1)] + w[k]
    BY <1>1, <2>1, <2>2
  <2>4. h[k] = g[1..k] /\ h[k - 1] = g[1..(k - 1)]
    BY <2>2
  <2> QED BY <2>3, <2>4
<1>4. h[n] = g[1..n]
  OBVIOUS
<1> HIDE DEF h
<1> QED BY <1>2, <1>3, <1>4 DEF RunsUp

LEMMA RunsAgree ==
    ASSUME NEW n \in Nat, NEW v, NEW w, NEW g, NEW h, RunsUp(g, n, v), RunsUp(h, n, w),
           \A k \in 1..n : v[k] = w[k] /\ w[k] \in Nat
    PROVE  \A k \in 0..n : g[k] = h[k] /\ h[k] \in Nat
<1> DEFINE Off == {k \in 0..n : ~(g[k] = h[k] /\ h[k] \in Nat)}
<1> SUFFICES ASSUME Off # {} PROVE FALSE
  OBVIOUS
<1>1. PICK k \in Off : \A j \in Off : k <= j
  <2>1. Off \in SUBSET Nat
    OBVIOUS
  <2> HIDE DEF Off
  <2> QED BY <2>1, LeastNatural
<1>2. k \in 0..n /\ ~(g[k] = h[k] /\ h[k] \in Nat)
  OBVIOUS
<1>3. k # 0
  BY <1>2 DEF RunsUp
<1>4. k \in 1..n /\ k - 1 \in 0..n /\ ~(k <= k - 1)
  BY <1>2, <1>3
<1>5. k - 1 \notin Off
  <2> HIDE DEF Off
  <2> QED BY <1>1, <1>4
<1>6. g[k - 1] = h[k - 1] /\ h[k - 1] \in Nat
  BY <1>4, <1>5
<1>7. g[k] = g[k - 1] + v[k] /\ h[k] = h[k - 1] + w[k] /\ v[k] = w[k] /\ w[k] \in Nat
  BY <1>4 DEF RunsUp
<1> QED BY <1>2, <1>6, <1>7

\* The bytes of some statements, and the statements of some functions.
Size(items) == FoldLeft(LAMBDA n, it : n + Bytes(it), 0, items)
Weights(items) == [k \in DOMAIN items |-> Bytes(items[k])]

Count(functions) == FoldLeft(LAMBDA n, fn : n + Len(fn.items), 0, functions)
Counts(functions) == [k \in DOMAIN functions |-> Len(functions[k].items)]

LEMMA ByteCounts == \A item : Bytes(item) \in Nat /\ Bytes(item) <= 1 + Width
<1>1. Width \in Nat
  BY EmitterAssumption
<1>2. \A item : Bytes(item) \in {0, 1, 1 + Width}
  BY DEF Bytes
<1> QED BY <1>1, <1>2

LEMMA SizeRuns ==
    ASSUME NEW items \in Seq(ItemT)
    PROVE  \E h : RunsUp(h, Len(items), Weights(items)) /\ Size(items) = h[Len(items)]
<1> DEFINE n == Len(items)
           w == Weights(items)
           iter[s \in SUBSET (DOMAIN items)] ==
               IF s = {} THEN 0 ELSE iter[s \ {Max(s)}] + Bytes(items[Max(s)])
<1>1. Size(items) = iter[DOMAIN items]
  BY DEF Size, FoldLeft, MapThenFoldSet
<1>2. n \in Nat /\ DOMAIN items = 1..n /\ w \in [1..n -> Nat]
      /\ \A k \in 1..n : w[k] = Bytes(items[k])
  <2>1. n \in Nat /\ DOMAIN items = 1..n
    OBVIOUS
  <2> QED BY <2>1, ByteCounts DEF Weights
<1>3. iter = [s \in SUBSET (DOMAIN items) |->
                 IF s = {} THEN 0 ELSE iter[s \ {Max(s)}] + Bytes(items[Max(s)])]
  <2>1. PICK g : SumsTo(g, n, w)
    <3> HIDE DEF n, w
    <3> QED BY <1>2, SumExists
  <2>2. g = [s \in SUBSET (1..n) |-> IF s = {} THEN 0 ELSE g[s \ {Max(s)}] + w[Max(s)]]
    BY <2>1 DEF SumsTo
  <2>3. \A s \in SUBSET (1..n) : s # {} => w[Max(s)] = Bytes(items[Max(s)])
    <3> TAKE s \in SUBSET (1..n)
    <3> HAVE s # {}
    <3>1. Picks(MaxPick(n), n) /\ MaxPick(n)[s] = Max(s)
      BY <1>2, MaxPicks
    <3>2. Max(s) \in 1..n
      BY <3>1 DEF Picks
    <3> HIDE DEF n, w
    <3> QED BY <1>2, <3>2
  <2> HIDE DEF n, w
  <2>4. g = [s \in SUBSET (DOMAIN items) |->
                 IF s = {} THEN 0 ELSE g[s \ {Max(s)}] + Bytes(items[Max(s)])]
    BY <1>2, <2>2, <2>3
  <2> QED BY <2>4
<1> HIDE DEF iter
<1>4. SumsTo(iter, n, w)
  <2>1. \A s \in SUBSET (1..n) : s # {} => w[Max(s)] = Bytes(items[Max(s)])
    <3> TAKE s \in SUBSET (1..n)
    <3> HAVE s # {}
    <3>1. Picks(MaxPick(n), n) /\ MaxPick(n)[s] = Max(s)
      BY <1>2, MaxPicks
    <3>2. Max(s) \in 1..n
      BY <3>1 DEF Picks
    <3> HIDE DEF n, w
    <3> QED BY <1>2, <3>2
  <2> HIDE DEF n, w
  <2> QED BY <1>2, <1>3, <2>1 DEF SumsTo
<1> HIDE DEF n, w
<1>5. PICK h : RunsUp(h, n, w) /\ h[n] = iter[1..n]
  BY <1>2, <1>4, SumRuns
<1> QED BY <1>1, <1>2, <1>5 DEF n, w

-----------------------------------------------------------------------------
(* What the emitter has written.                                             *)

Instruction(item) == item.op \notin {"label", "locals"}

Jumps(items) == {j \in DOMAIN items : Form(items[j]) = "label"}

LocalsOf(items) ==
    LET counts == {i \in DOMAIN items : items[i].op = "locals"}
    IN  IF counts = {} THEN 0 ELSE items[Max(counts)].num

\* A stream that is only written to.
StreamInv(ms) ==
    /\ ms = [buffer |-> ms.buffer, position |-> ms.size, size |-> ms.size, max |-> ms.max]
    /\ ms.size \in Nat /\ ms.max \in Nat /\ ms.size <= ms.max
    /\ ms.buffer \in [1..ms.size -> Nat]

\* The operand of the instruction at ip.
Carries(bytes, ip, v) == \A k \in 1..Width : bytes[ip + 1 + k] = Encoded(v)[k]

\* An instruction in the stream.
Emitted(bytes, items, i, strings) ==
    LET item == items[i]
        ip == Address(items, i)
    IN  /\ bytes[ip + 1] = Prefixed(item.op, item.ref)
        /\ Form(item) = "number" => item.num < Modulus /\ Carries(bytes, ip, item.num)
        /\ Form(item) = "string" =>
              \E v \in DOMAIN strings : strings[v] = item.word /\ Carries(bytes, ip, v - 1)
        /\ Form(item) = "label" => Carries(bytes, ip, 0)

Reference(items, j) == [offset |-> Address(items, j) + 1, label |-> items[j].word]

ReferenceInv(refs, items) ==
    /\ \A r \in DOMAIN refs : \E j \in Jumps(items) : refs[r] = Reference(items, j)
    /\ \A j \in Jumps(items) : \E r \in DOMAIN refs : refs[r] = Reference(items, j)
    /\ \A r, s \in DOMAIN refs : r < s => refs[r].offset + Width < refs[s].offset

\* A function under construction.
Building(f, items, strings) ==
    /\ StreamInv(f.stream)
    /\ f.stream.size = Address(items, Len(items) + 1)
    /\ f.locals = LocalsOf(items)
    /\ \A l \in Labels : f.labels[l] # None => f.labels[l] = LabelAddress(items, l)
    /\ ReferenceInv(f.refs, items)
    /\ \A i \in DOMAIN items : Instruction(items[i]) => Emitted(f.stream.buffer, items, i, strings)

\* An instruction as the interpreter reads it.
Executes(code, items, i, strings) ==
    LET item == items[i]
        ip == Address(items, i)
        val == Operand(code, ip + 1)
    IN  /\ code[ip + 1] = Prefixed(item.op, item.ref)
        /\ Form(item) = "number" => val = item.num
        /\ Form(item) = "string" => val + 1 \in DOMAIN strings /\ strings[val + 1] = item.word
        /\ Form(item) = "label" =>
              Follow(code, ip) = IF Lost(items, i) THEN ip + 1 + Width
                                 ELSE LabelAddress(items, item.word)

\* A function finished.
Written(f, items, strings) ==
    /\ f.locals = LocalsOf(items)
    /\ Len(f.code) = Address(items, Len(items) + 1)
    /\ \A i \in DOMAIN items : Instruction(items[i]) => Executes(f.code, items, i, strings)

CodeInv ==
    /\ Items <= MaxItems /\ Len(source) <= MaxFunctions
    /\ Len(script.strings) <= Len(source) + Items
    /\ \A k \in DOMAIN source : source[k].name \in Defined(script)
    /\ InFunction => Building(This, source[Len(source)].items, script.strings)
    /\ \A k \in DOMAIN source : Final(k) =>
          Written(script.functions[source[k].name], source[k].items, script.strings)

-----------------------------------------------------------------------------
(* Addresses.                                                                *)

LEMMA Beginning ==
    ASSUME NEW S, NEW s \in Seq(S), NEW k \in 0..Len(s)
    PROVE  /\ SubSeq(s, 1, k) \in Seq(S) /\ Len(SubSeq(s, 1, k)) = k
           /\ \A j \in 1..k : SubSeq(s, 1, k)[j] = s[j]
<1>1. k \in Nat /\ \A j \in 1..k : s[j] \in S
  OBVIOUS
<1> QED BY <1>1

LEMMA AddressRuns ==
    ASSUME NEW items \in Seq(ItemT)
    PROVE  \E h : /\ RunsUp(h, Len(items), Weights(items))
                  /\ \A i \in 1..(Len(items) + 1) : Address(items, i) = h[i - 1] /\ h[i - 1] \in Nat
<1> DEFINE n == Len(items)
           w == Weights(items)
<1>1. n \in Nat /\ DOMAIN items = 1..n
  OBVIOUS
<1>2. PICK h : RunsUp(h, n, w)
  BY SizeRuns
<1>3. ASSUME NEW i \in 1..(n + 1) PROVE Address(items, i) = h[i - 1] /\ h[i - 1] \in Nat
  <2> DEFINE s == SubSeq(items, 1, i - 1)
             v == Weights(s)
             m == i - 1
  <2>1. m \in 0..n /\ m \in Nat /\ m \in 0..m
    BY <1>1
  <2>2. s \in Seq(ItemT) /\ Len(s) = m /\ \A j \in 1..m : s[j] = items[j]
    BY <2>1, Beginning
  <2>3. Address(items, i) = Size(s)
    BY DEF Address, Size
  <2> HIDE DEF s, v, m, n, w
  <2>4. PICK g : RunsUp(g, m, v) /\ Size(s) = g[m]
    BY <2>2, SizeRuns DEF v
  <2>5. RunsUp(h, m, w)
    <3>1. 1..m \subseteq 1..n
      BY <1>1, <2>1
    <3> QED BY <1>2, <3>1 DEF RunsUp
  <2>6. \A j \in 1..m : v[j] = w[j] /\ w[j] \in Nat
    <3> TAKE j \in 1..m
    <3>1. j \in DOMAIN s /\ j \in DOMAIN items
      BY <1>1, <2>1, <2>2
    <3>2. v[j] = Bytes(s[j]) /\ w[j] = Bytes(items[j])
      BY <3>1 DEF v, w, Weights
    <3> QED BY <2>2, <3>2, ByteCounts
  <2>7. \A j \in 0..m : g[j] = h[j] /\ h[j] \in Nat
    BY <2>1, <2>4, <2>5, <2>6, RunsAgree
  <2> QED BY <2>1, <2>3, <2>4, <2>7 DEF m
<1> HIDE DEF n, w
<1> QED BY <1>2, <1>3 DEF n, w

LEMMA Addresses ==
    ASSUME NEW items \in Seq(ItemT)
    PROVE  /\ Address(items, 1) = 0
           /\ \A i \in 1..(Len(items) + 1) : Address(items, i) \in Nat
           /\ \A i \in DOMAIN items : Address(items, i + 1) = Address(items, i) + Bytes(items[i])
<1> DEFINE n == Len(items)
           w == Weights(items)
<1>1. n \in Nat /\ DOMAIN items = 1..n
  OBVIOUS
<1>2. PICK h : RunsUp(h, n, w)
               /\ \A i \in 1..(n + 1) : Address(items, i) = h[i - 1] /\ h[i - 1] \in Nat
  BY AddressRuns
<1> HIDE DEF n
<1>3. Address(items, 1) = 0
  <2>1. 1 \in 1..(n + 1) /\ 1 - 1 = 0
    BY <1>1
  <2>2. Address(items, 1) = h[0]
    BY <1>2, <2>1
  <2> QED BY <1>2, <2>2 DEF RunsUp
<1>4. ASSUME NEW i \in 1..n PROVE Address(items, i + 1) = Address(items, i) + Bytes(items[i])
  <2>1. i \in 1..(n + 1) /\ i + 1 \in 1..(n + 1) /\ (i + 1) - 1 = i
    BY <1>1
  <2>2. Address(items, i) = h[i - 1] /\ Address(items, i + 1) = h[i]
    BY <1>2, <2>1
  <2>3. h[i] = h[i - 1] + w[i]
    BY <1>2 DEF RunsUp
  <2>4. w[i] = Bytes(items[i])
    BY <1>1 DEF Weights
  <2> QED BY <2>2, <2>3, <2>4
<1> QED BY <1>1, <1>2, <1>3, <1>4 DEF n

\* Later statements lie behind earlier ones, within what MaxItems allows.
LEMMA AddressOrder ==
    ASSUME NEW items \in Seq(ItemT)
    PROVE  /\ \A i \in DOMAIN items, j \in 1..(Len(items) + 1) :
                  i < j => Address(items, i) + Bytes(items[i]) <= Address(items, j)
           /\ \A j \in 1..(Len(items) + 1) :
                  Address(items, j) <= (1 + Width) * (j - 1)
                  /\ Address(items, j) <= Address(items, Len(items) + 1)
<1> DEFINE n == Len(items)
           A(i) == Address(items, i)
           B(i) == Bytes(items[i])
<1>1. n \in Nat /\ DOMAIN items = 1..n
  OBVIOUS
<1>2. /\ A(1) = 0 /\ \A i \in 1..(n + 1) : A(i) \in Nat
      /\ \A i \in 1..n : A(i + 1) = A(i) + B(i) /\ B(i) \in Nat /\ B(i) <= 1 + Width
  BY <1>1, Addresses, ByteCounts
<1> HIDE DEF n, A, B
<1>6. ASSUME NEW k \in 1..(n + 1), k - 1 \in 1..n
      PROVE  /\ A(k) = A(k - 1) + B(k - 1) /\ B(k - 1) \in Nat /\ A(k - 1) \in Nat
             /\ B(k - 1) <= 1 + Width
  <2> DEFINE l == k - 1
  <2>1. l \in 1..n /\ l \in 1..(n + 1) /\ l + 1 = k
    BY <1>1, <1>6
  <2> HIDE DEF l
  <2>2. A(l + 1) = A(l) + B(l) /\ B(l) \in Nat /\ A(l) \in Nat /\ B(l) <= 1 + Width
    BY <1>2, <2>1
  <2> QED BY <2>1, <2>2 DEF l
<1>3. ASSUME NEW i \in 1..n, NEW j \in 1..(n + 1), i < j PROVE A(i) + B(i) <= A(j)
  <2> DEFINE Bad == {k \in (i + 1)..(n + 1) : ~(A(i) + B(i) <= A(k))}
  <2> SUFFICES Bad = {}
    BY <1>1, <1>3
  <2> SUFFICES ASSUME Bad # {} PROVE FALSE
    OBVIOUS
  <2>1. PICK k \in Bad : \A l \in Bad : k <= l
    <3>1. Bad \in SUBSET Nat
      BY <1>1
    <3> HIDE DEF Bad
    <3> QED BY <3>1, LeastNatural
  <2>2. k \in (i + 1)..(n + 1) /\ ~(A(i) + B(i) <= A(k))
    OBVIOUS
  <2>3. k # i + 1
    BY <1>2, <2>2
  <2>4. k - 1 \in (i + 1)..(n + 1) /\ ~(k <= k - 1) /\ k - 1 \in 1..n /\ (k - 1) + 1 = k
    BY <1>1, <2>2, <2>3
  <2>5. k - 1 \notin Bad
    <3> HIDE DEF Bad
    <3> QED BY <2>1, <2>4
  <2>6. A(i) + B(i) <= A(k - 1)
    BY <2>4, <2>5
  <2>7. A(k) = A(k - 1) + B(k - 1) /\ B(k - 1) \in Nat /\ A(k - 1) \in Nat
    <3>1. k \in 1..(n + 1)
      BY <1>1, <2>2
    <3> QED BY <1>6, <2>4, <3>1
  <2>8. A(i) \in Nat /\ B(i) \in Nat
    BY <1>1, <1>2
  <2> QED BY <2>2, <2>6, <2>7, <2>8
<1>4. ASSUME NEW j \in 1..(n + 1) PROVE A(j) <= A(n + 1)
  <2>1. CASE j = n + 1
    BY <1>1, <1>2, <2>1
  <2>2. CASE j # n + 1
    <3>1. j \in 1..n /\ n + 1 \in 1..(n + 1) /\ j < n + 1
      BY <1>1, <2>2
    <3>2. A(j) + B(j) <= A(n + 1)
      BY <1>3, <3>1
    <3>3. A(j) \in Nat /\ B(j) \in Nat /\ A(n + 1) \in Nat
      BY <1>2, <3>1
    <3> QED BY <3>2, <3>3
  <2> QED BY <2>1, <2>2
<1>5. ASSUME NEW j \in 1..(n + 1) PROVE A(j) <= (1 + Width) * (j - 1)
  <2> DEFINE P(k) == A(k) <= (1 + Width) * (k - 1)
             Bad == {k \in 1..(n + 1) : ~P(k)}
  <2> SUFFICES Bad = {}
    OBVIOUS
  <2> SUFFICES ASSUME Bad # {} PROVE FALSE
    OBVIOUS
  <2>1. PICK k \in Bad : \A l \in Bad : k <= l
    <3>1. Bad \in SUBSET Nat
      BY <1>1
    <3> HIDE DEF Bad
    <3> QED BY <3>1, LeastNatural
  <2>2. k \in 1..(n + 1) /\ ~P(k)
    OBVIOUS
  <2>3. k # 1
    <3>1. Width \in Nat
      BY EmitterAssumption
    <3>2. (1 + Width) * (1 - 1) = 0
      BY <3>1
    <3> QED BY <1>2, <2>2, <3>2
  <2>4. k - 1 \in 1..n /\ k - 1 \in 1..(n + 1) /\ ~(k <= k - 1) /\ (k - 1) + 1 = k
    BY <1>1, <2>2, <2>3
  <2>5. k - 1 \notin Bad
    <3> HIDE DEF Bad
    <3> QED BY <2>1, <2>4
  <2>6. P(k - 1)
    BY <2>4, <2>5
  <2>7. A(k) = A(k - 1) + B(k - 1) /\ B(k - 1) \in Nat /\ A(k - 1) \in Nat /\ B(k - 1) <= 1 + Width
    <3> HIDE DEF P, Bad
    <3> QED BY <1>6, <2>2, <2>4
  <2>8. (1 + Width) * (k - 1) = (1 + Width) * ((k - 1) - 1) + (1 + Width)
        /\ (1 + Width) * (k - 1) \in Int /\ (1 + Width) * ((k - 1) - 1) \in Int /\ Width \in Nat
    BY <2>2, EmitterAssumption
  <2> DEFINE x == (1 + Width) * (k - 1)
             y == (1 + Width) * ((k - 1) - 1)
  <2>9. A(k) <= x
    <3>1. x = y + (1 + Width) /\ x \in Int /\ y \in Int /\ A(k - 1) <= y /\ Width \in Nat
      BY <2>6, <2>8
    <3> HIDE DEF x, y, P, Bad
    <3> QED BY <2>7, <3>1
  <2> QED BY <2>2, <2>9
<1> QED BY <1>1, <1>3, <1>4, <1>5 DEF n, A, B

\* Statements added behind do not move those before.
LEMMA AddressKept ==
    ASSUME NEW items \in Seq(ItemT), NEW x \in ItemT, NEW i \in 1..(Len(items) + 1)
    PROVE  Address(Append(items, x), i) = Address(items, i)
<1> DEFINE more == Append(items, x)
           a == SubSeq(more, 1, i - 1)
           b == SubSeq(items, 1, i - 1)
<1>1. Len(items) \in Nat /\ i - 1 \in 0..Len(items) /\ i - 1 \in 0..Len(more)
      /\ more \in Seq(ItemT) /\ \A j \in 1..Len(items) : more[j] = items[j]
  OBVIOUS
<1>2. /\ a \in Seq(ItemT) /\ Len(a) = i - 1 /\ \A j \in 1..(i - 1) : a[j] = more[j]
  <2> HIDE DEF more
  <2> QED BY <1>1, Beginning
<1>3. /\ b \in Seq(ItemT) /\ Len(b) = i - 1 /\ \A j \in 1..(i - 1) : b[j] = items[j]
  BY <1>1, Beginning
<1>4. a = b
  <2> HIDE DEF a, b, more
  <2>1. \A j \in 1..(i - 1) : j \in 1..Len(items)
    BY <1>1
  <2> QED BY <1>1, <1>2, <1>3, <2>1
<1> QED BY <1>4 DEF Address

-----------------------------------------------------------------------------
(* Labels and locals, as statements are added.                               *)

LEMMA LabelsMove ==
    ASSUME NEW items \in Seq(ItemT), NEW x \in ItemT, NEW l
    PROVE  /\ x.op = "label" /\ x.word = l =>
                  LabelAddress(Append(items, x), l) = Address(items, Len(items) + 1)
           /\ ~(x.op = "label" /\ x.word = l) /\ Places(items, l) # {} =>
                  LabelAddress(Append(items, x), l) = LabelAddress(items, l)
<1> DEFINE more == Append(items, x)
           n == Len(items)
           P == Places(items, l)
           Q == Places(more, l)
           last(S) == CHOOSE i \in S : \A j \in S : j <= i
<1>1. n \in Nat /\ DOMAIN items = 1..n /\ P \in SUBSET (1..n)
  BY DEF Places
<1>2. Q = P \cup (IF x.op = "label" /\ x.word = l THEN {n + 1} ELSE {})
  BY MorePlaces
<1>3. LabelAddress(more, l) = Address(more, last(Q)) /\ LabelAddress(items, l) = Address(items, last(P))
  BY DEF LabelAddress
<1>4. \A i \in 1..(n + 1) : Address(more, i) = Address(items, i)
  BY AddressKept
<1> HIDE DEF more, P, Q, n
<1>5. ASSUME x.op = "label" /\ x.word = l
      PROVE  LabelAddress(more, l) = Address(items, n + 1)
  <2>1. n + 1 \in Q /\ Q \in SUBSET (1..(n + 1)) /\ \A j \in Q : j <= n + 1
    BY <1>1, <1>2, <1>5
  <2>2. last(Q) \in Q /\ \A j \in Q : j <= last(Q)
    BY <2>1
  <2>3. last(Q) = n + 1
    <3>1. n + 1 <= last(Q) /\ last(Q) <= n + 1 /\ last(Q) \in 1..(n + 1)
      BY <2>1, <2>2
    <3> HIDE DEF last
    <3> QED BY <1>1, <3>1
  <2> HIDE DEF last
  <2> QED BY <1>1, <1>3, <1>4, <2>1, <2>3
<1>6. ASSUME ~(x.op = "label" /\ x.word = l), P # {}
      PROVE  LabelAddress(more, l) = LabelAddress(items, l)
  <2>1. Q = P
    BY <1>2, <1>6
  <2>2. \E i \in P : \A j \in P : j <= i
    BY <1>1, <1>6, Greatest
  <2>3. last(P) \in P
    BY <2>2
  <2> HIDE DEF last
  <2>4. last(Q) = last(P)
    BY <2>1
  <2>5. last(P) \in 1..(n + 1)
    <3> DEFINE k == last(P)
    <3>1. k \in P
      BY <2>3
    <3> HIDE DEF k
    <3>2. k \in 1..(n + 1)
      BY <1>1, <3>1
    <3> QED BY <3>2 DEF k
  <2> QED BY <1>3, <1>4, <2>4, <2>5
<1> QED BY <1>5, <1>6 DEF more, P, n

\* The last place of a label is a place.
LEMMA LabelPlaced ==
    ASSUME NEW items \in Seq(ItemT), NEW l, Places(items, l) # {}
    PROVE  \E i \in DOMAIN items : LabelAddress(items, l) = Address(items, i)
<1> DEFINE n == Len(items)
           P == Places(items, l)
           last(S) == CHOOSE i \in S : \A j \in S : j <= i
<1>1. n \in Nat /\ DOMAIN items = 1..n /\ P \in SUBSET (1..n)
  BY DEF Places
<1>2. LabelAddress(items, l) = Address(items, last(P))
  BY DEF LabelAddress
<1> HIDE DEF P, n
<1>3. \E i \in P : \A j \in P : j <= i
  <2>1. P # {}
    BY DEF P
  <2> QED BY <1>1, <2>1, Greatest
<1>4. last(P) \in P
  BY <1>3
<1> HIDE DEF last
<1> QED BY <1>1, <1>2, <1>4

LEMMA LocalsMove ==
    ASSUME NEW items \in Seq(ItemT), NEW x \in ItemT
    PROVE  LocalsOf(Append(items, x)) = IF x.op = "locals" THEN x.num ELSE LocalsOf(items)
<1> DEFINE more == Append(items, x)
           n == Len(items)
           C == {i \in DOMAIN items : items[i].op = "locals"}
           D == {i \in DOMAIN more : more[i].op = "locals"}
<1>1. n \in Nat /\ DOMAIN items = 1..n /\ C \in SUBSET (1..n)
  OBVIOUS
<1>2. /\ DOMAIN more = DOMAIN items \cup {n + 1} /\ n + 1 \notin DOMAIN items
      /\ more[n + 1] = x /\ \A i \in DOMAIN items : more[i] = items[i]
  BY OneMore
<1>3. /\ LocalsOf(more) = IF D = {} THEN 0 ELSE more[Max(D)].num
      /\ LocalsOf(items) = IF C = {} THEN 0 ELSE items[Max(C)].num
  BY DEF LocalsOf
<1> SUFFICES LocalsOf(more) = IF x.op = "locals" THEN x.num ELSE LocalsOf(items)
  OBVIOUS
<1> HIDE DEF more, n
<1>4. D = C \cup (IF x.op = "locals" THEN {n + 1} ELSE {})
  BY <1>2
<1> HIDE DEF C, D
<1>5. CASE x.op = "locals"
  <2>1. n + 1 \in D /\ D \in SUBSET (1..(n + 1)) /\ D # {} /\ n + 1 \in Nat
    BY <1>1, <1>4, <1>5
  <2>2. Max(D) \in D /\ \A y \in D : y <= Max(D)
    BY <2>1, Greatest
  <2>3. n + 1 <= Max(D) /\ Max(D) \in 1..(n + 1)
    BY <2>1, <2>2
  <2>4. Max(D) = n + 1
    BY <1>1, <2>3
  <2> QED BY <1>2, <1>3, <1>5, <2>1, <2>4
<1>6. CASE x.op # "locals"
  <2>1. D = C
    BY <1>4, <1>6
  <2>2. C # {} => Max(C) \in C
    BY <1>1, Greatest
  <2>3. C # {} => Max(C) \in DOMAIN items
    BY <1>1, <2>2
  <2> QED BY <1>2, <1>3, <1>6, <2>1, <2>3
<1> QED BY <1>5, <1>6

-----------------------------------------------------------------------------
(* The statements counted.                                                   *)

LEMMA LengthOfItems == \A fn \in FunctionT : Len(fn.items) \in Nat
BY DEF FunctionT

LEMMA CountRuns ==
    ASSUME NEW fns \in Seq(FunctionT)
    PROVE  \E h : RunsUp(h, Len(fns), Counts(fns)) /\ Count(fns) = h[Len(fns)]
<1> DEFINE n == Len(fns)
           w == Counts(fns)
           iter[s \in SUBSET (DOMAIN fns)] ==
               IF s = {} THEN 0 ELSE iter[s \ {Max(s)}] + Len(fns[Max(s)].items)
<1>1. Count(fns) = iter[DOMAIN fns]
  BY DEF Count, FoldLeft, MapThenFoldSet
<1>2. n \in Nat /\ DOMAIN fns = 1..n /\ w \in [1..n -> Nat]
      /\ \A k \in 1..n : w[k] = Len(fns[k].items)
  <2>1. n \in Nat /\ DOMAIN fns = 1..n /\ \A k \in 1..n : fns[k] \in FunctionT
    OBVIOUS
  <2> QED BY <2>1, LengthOfItems DEF Counts
<1> DEFINE At(s) == w[Max(s)] = Len(fns[Max(s)].items)
<1>3. \A s \in SUBSET (1..n) : s # {} => At(s)
  <2> TAKE s \in SUBSET (1..n)
  <2> HAVE s # {}
  <2>1. Max(s) \in 1..n
    <3> DEFINE k == Max(s)
    <3>1. k \in s
      BY <1>2, Greatest
    <3> HIDE DEF k
    <3>2. k \in 1..n
      BY <3>1
    <3> QED BY <3>2 DEF k
  <2> HIDE DEF n, w
  <2> QED BY <1>2, <2>1
<1>4. iter = [s \in SUBSET (DOMAIN fns) |->
                 IF s = {} THEN 0 ELSE iter[s \ {Max(s)}] + Len(fns[Max(s)].items)]
  <2>1. PICK g : SumsTo(g, n, w)
    <3> HIDE DEF n, w
    <3> QED BY <1>2, SumExists
  <2>2. g = [s \in SUBSET (1..n) |-> IF s = {} THEN 0 ELSE g[s \ {Max(s)}] + w[Max(s)]]
    BY <2>1 DEF SumsTo
  <2> HIDE DEF n, w
  <2>3. g = [s \in SUBSET (DOMAIN fns) |->
                 IF s = {} THEN 0 ELSE g[s \ {Max(s)}] + Len(fns[Max(s)].items)]
    BY <1>2, <1>3, <2>2
  <2> QED BY <2>3
<1> HIDE DEF iter
<1>5. SumsTo(iter, n, w)
  <2> HIDE DEF n, w
  <2> QED BY <1>2, <1>3, <1>4 DEF SumsTo
<1> HIDE DEF n, w
<1>6. PICK h : RunsUp(h, n, w) /\ h[n] = iter[1..n]
  BY <1>2, <1>5, SumRuns
<1> QED BY <1>1, <1>2, <1>6 DEF n, w

LEMMA RunsGrow ==
    ASSUME NEW n \in Nat, NEW w \in [1..n -> Nat], NEW h, RunsUp(h, n, w)
    PROVE  h[n] \in Nat /\ \A k \in 1..n : w[k] <= h[n]
<1>1. \A k \in 0..n : h[k] \in Nat
  <2>1. \A k \in 1..n : w[k] = w[k] /\ w[k] \in Nat
    OBVIOUS
  <2> QED BY <2>1, RunsAgree
<1>2. ASSUME NEW k \in 1..n PROVE w[k] <= h[n]
  <2> DEFINE Bad == {j \in k..n : ~(w[k] <= h[j])}
  <2> SUFFICES Bad = {}
    OBVIOUS
  <2> SUFFICES ASSUME Bad # {} PROVE FALSE
    OBVIOUS
  <2>1. PICK j \in Bad : \A i \in Bad : j <= i
    <3>1. Bad \in SUBSET Nat
      OBVIOUS
    <3> HIDE DEF Bad
    <3> QED BY <3>1, LeastNatural
  <2>2. j \in k..n /\ ~(w[k] <= h[j]) /\ j \in 1..n /\ j - 1 \in 0..n
    OBVIOUS
  <2>3. h[j] = h[j - 1] + w[j] /\ h[j - 1] \in Nat /\ w[j] \in Nat /\ w[k] \in Nat
    BY <1>1, <2>2 DEF RunsUp
  <2>4. j # k
    BY <2>2, <2>3
  <2>5. j - 1 \in k..n /\ ~(j <= j - 1)
    BY <2>2, <2>4
  <2>6. j - 1 \notin Bad
    <3> HIDE DEF Bad
    <3> QED BY <2>1, <2>5
  <2>7. w[k] <= h[j - 1]
    BY <2>5, <2>6
  <2> QED BY <2>2, <2>3, <2>7
<1> QED BY <1>1, <1>2

LEMMA CountsAll ==
    ASSUME NEW fns \in Seq(FunctionT)
    PROVE  Count(fns) \in Nat /\ \A k \in DOMAIN fns : Len(fns[k].items) <= Count(fns)
<1> DEFINE n == Len(fns)
           w == Counts(fns)
<1>1. n \in Nat /\ DOMAIN fns = 1..n /\ \A k \in 1..n : fns[k] \in FunctionT
  OBVIOUS
<1>2. w \in [1..n -> Nat] /\ \A k \in 1..n : w[k] = Len(fns[k].items)
  BY <1>1, LengthOfItems DEF Counts
<1>3. PICK h : RunsUp(h, n, w) /\ Count(fns) = h[n]
  BY CountRuns
<1> HIDE DEF n, w
<1>4. h[n] \in Nat /\ \A k \in 1..n : w[k] <= h[n]
  BY <1>1, <1>2, <1>3, RunsGrow
<1> QED BY <1>1, <1>2, <1>3, <1>4

\* A statement added to the last function, and a function begun.
LEMMA CountMore ==
    ASSUME NEW old \in Seq(FunctionT), NEW new \in Seq(FunctionT), NEW n \in Nat \ {0}, NEW d \in {0, 1},
           Len(new) = n,
           \A k \in 1..(n - 1) : new[k].items = old[k].items,
           \/ d = 1 /\ Len(old) = n /\ Len(new[n].items) = Len(old[n].items) + 1
           \/ d = 0 /\ Len(old) = n - 1 /\ Len(new[n].items) = 0
    PROVE  Count(new) = Count(old) + d
<1> DEFINE m == Len(old)
           v == Counts(new)
           w == Counts(old)
<1>1. /\ m \in Nat /\ n - 1 \in Nat /\ n - 1 <= m
      /\ DOMAIN new = 1..n /\ DOMAIN old = 1..m
      /\ \A k \in 1..n : new[k] \in FunctionT
      /\ \A k \in 1..m : old[k] \in FunctionT
  OBVIOUS
<1>2. /\ \A k \in 1..n : v[k] = Len(new[k].items) /\ v[k] \in Nat
      /\ \A k \in 1..m : w[k] = Len(old[k].items) /\ w[k] \in Nat
  BY <1>1, LengthOfItems DEF Counts
<1>3. PICK g : RunsUp(g, n, v) /\ Count(new) = g[n]
  BY CountRuns
<1>4. PICK h : RunsUp(h, m, w) /\ Count(old) = h[m]
  BY CountRuns
<1>5. m = n \/ m = n - 1
  OBVIOUS
<1>6. \/ d = 1 /\ m = n /\ v[n] = w[n] + 1
      \/ d = 0 /\ m = n - 1 /\ v[n] = 0
  <2>1. n \in 1..n
    OBVIOUS
  <2> QED BY <1>2, <2>1
<1>7. \A k \in 1..(n - 1) : v[k] = w[k] /\ w[k] \in Nat
  <2> TAKE k \in 1..(n - 1)
  <2>1. k \in 1..n
    OBVIOUS
  <2>2. k \in 1..m
    <3>1. m \in Nat /\ n - 1 <= m
      BY <1>1
    <3> HIDE DEF m
    <3> QED BY <3>1
  <2> QED BY <1>2, <2>1, <2>2
<1> HIDE DEF m, v, w
<1>8. g[n - 1] = h[n - 1] /\ h[n - 1] \in Nat
  <2> DEFINE p == n - 1
  <2>5. p \in Nat /\ p <= n /\ p <= m
    <3>1. p \in Nat /\ p <= m
      BY <1>1
    <3>2. p <= n
      OBVIOUS
    <3> QED BY <3>1, <3>2
  <2>1. p \in 0..p /\ 1..p \subseteq 1..n /\ 1..p \subseteq 1..m
    <3> HIDE DEF p
    <3> QED BY <1>1, <2>5
  <2>2. RunsUp(g, p, v) /\ RunsUp(h, p, w)
    <3> HIDE DEF p
    <3> QED BY <1>3, <1>4, <2>1 DEF RunsUp
  <2> HIDE DEF p
  <2>3. \A k \in 1..p : v[k] = w[k] /\ w[k] \in Nat
    BY <1>7 DEF p
  <2>4. \A k \in 0..p : g[k] = h[k] /\ h[k] \in Nat
    BY <2>5, <2>2, <2>3, RunsAgree
  <2> QED BY <2>1, <2>4 DEF p
<1>9. g[n] = g[n - 1] + v[n]
  <2>1. n \in 1..n
    OBVIOUS
  <2> QED BY <1>3, <2>1 DEF RunsUp
<1>10. CASE m = n
  <2>1. n \in 1..m
    BY <1>10
  <2>2. h[n] = h[n - 1] + w[n] /\ w[n] \in Nat
    BY <1>2, <1>4, <2>1 DEF RunsUp
  <2>3. d = 1 /\ v[n] = w[n] + 1
    BY <1>6, <1>10
  <2> QED BY <1>3, <1>4, <1>8, <1>9, <1>10, <2>2, <2>3
<1>11. CASE m = n - 1
  <2>1. d = 0 /\ v[n] = 0
    BY <1>6, <1>11
  <2> QED BY <1>3, <1>4, <1>8, <1>9, <1>11, <2>1
<1> QED BY <1>5, <1>10, <1>11

-----------------------------------------------------------------------------
(* Operands.                                                                 *)

MinPick(n) == [s \in SUBSET (1..n) |-> Min(s)]

LEMMA MinPicks ==
    ASSUME NEW n \in Nat
    PROVE  /\ Picks(MinPick(n), n)
           /\ \A s \in SUBSET (1..n) : MinPick(n)[s] = Min(s)
           /\ \A s \in SUBSET (1..n) : s # {} => Min(s) \in s
<1>1. ASSUME NEW s \in SUBSET (1..n), s # {} PROVE Min(s) \in s
  <2>1. s \in SUBSET Nat
    OBVIOUS
  <2> QED BY <1>1, <2>1, MinIsMember
<1> QED BY <1>1 DEF MinPick, Picks

LEMMA MinOfRest ==
    ASSUME NEW n \in Nat, NEW k \in 1..n
    PROVE  /\ k..n \in SUBSET (1..n) /\ k..n # {} /\ Min(k..n) = k
           /\ (k..n) \ {k} = (k + 1)..n
<1>1. k..n \in SUBSET (1..n) /\ k..n # {} /\ k \in k..n /\ (k..n) \ {k} = (k + 1)..n
      /\ k..n \in SUBSET Nat
  OBVIOUS
<1> DEFINE m == Min(k..n)
<1>2. m \in k..n /\ \A x \in k..n : m <= x
  BY <1>1, MinIsMember
<1> HIDE DEF m
<1>3. m = k
  BY <1>1, <1>2
<1> QED BY <1>1, <1>3 DEF m

LEMMA EncodedBytes ==
    ASSUME NEW v \in Nat
    PROVE  \A k \in 1..Width : /\ Encoded(v)[k] = (v \div Power[k - 1]) % Byte
                               /\ Encoded(v)[k] \in Nat
<1> TAKE k \in 1..Width
<1>1. Encoded(v)[k] = (v \div Power[k - 1]) % Byte
  BY DEF Encoded
<1>2. Width \in Nat /\ k - 1 \in Nat /\ Byte \in Nat \ {0}
  BY EmitterAssumption
<1>3. Power[k - 1] \in Nat \ {0}
  BY <1>2, PowerFacts
<1> DEFINE q == v \div Power[k - 1]
<1>4. q \in Int
  <2> DEFINE p == Power[k - 1]
  <2>1. p \in Nat \ {0}
    BY <1>3
  <2> HIDE DEF p
  <2>2. v \div p \in Int
    BY <2>1
  <2> QED BY <2>2 DEF p
<1> HIDE DEF q
<1>5. q % Byte \in Nat
  BY <1>2, <1>4
<1> QED BY <1>1, <1>5 DEF q

LEMMA OperandRead ==
    ASSUME NEW code \in Seq(Nat), NEW pos \in Nat, pos + Width <= Len(code),
           NEW v \in 0..(Modulus - 1),
           \A k \in 1..Width : code[pos + k] = Encoded(v)[k]
    PROVE  Operand(code, pos) = v
<1> DEFINE W == Width
           seq == SubSeq(code, pos + 1, pos + W)
           step == [p \in (1..W) \X Nat |-> seq[p[1]] + Byte * p[2]]
           iter[s \in SUBSET (DOMAIN seq)] ==
               IF s = {} THEN 0 ELSE seq[Min(s)] + Byte * iter[s \ {Min(s)}]
<1>1. Operand(code, pos) = iter[DOMAIN seq]
  BY DEF Operand, FoldRight, MapThenFoldSet
<1>2. W \in Nat \ {0} /\ Byte \in Nat \ {0} /\ v \in Nat
  <2>1. Modulus \in Nat
    BY PowerFacts, EmitterAssumption DEF Modulus
  <2> QED BY <2>1, EmitterAssumption
<1>3. DOMAIN seq = 1..W /\ \A k \in 1..W : seq[k] = Encoded(v)[k] /\ seq[k] \in Nat
  <2>1. DOMAIN seq = 1..W /\ \A k \in 1..W : seq[k] = code[pos + k]
    <3> DEFINE w == W
    <3>1. w \in Nat \ {0} /\ pos + w <= Len(code)
      BY <1>2
    <3> HIDE DEF w
    <3>2. LET t == SubSeq(code, pos + 1, pos + w)
          IN  DOMAIN t = 1..w /\ \A k \in 1..w : t[k] = code[pos + k]
      BY <3>1
    <3> QED BY <3>2 DEF w
  <2>2. \A k \in 1..W : Encoded(v)[k] \in Nat
    BY <1>2, EncodedBytes
  <2> QED BY <2>1, <2>2
<1>4. iter = [s \in SUBSET (DOMAIN seq) |->
                 IF s = {} THEN 0 ELSE seq[Min(s)] + Byte * iter[s \ {Min(s)}]]
  <2> HIDE DEF seq, W
  <2>1. step \in [(1..W) \X Nat -> Nat] /\ 0 \in Nat
    <3>1. \A x \in Nat : Byte * x \in Nat
      BY <1>2
    <3>2. \A k \in 1..W, x \in Nat : seq[k] + Byte * x \in Nat
      <4> TAKE k \in 1..W, x \in Nat
      <4> DEFINE y == Byte * x
      <4>1. seq[k] \in Nat /\ y \in Nat
        BY <1>3, <3>1
      <4> HIDE DEF y
      <4>2. seq[k] + y \in Nat
        BY <4>1
      <4> QED BY <4>2 DEF y
    <3> QED BY <3>2
  <2>2. PICK g \in [SUBSET (1..W) -> Nat] : Recurs(g, W, 0, step, MinPick(W))
    <3>1. Picks(MinPick(W), W) /\ W \in Nat
      BY <1>2, MinPicks
    <3> HIDE DEF step
    <3> QED BY <2>1, <3>1, FoldExists
  <2>3. ASSUME NEW s \in SUBSET (1..W)
        PROVE  g[s] = IF s = {} THEN 0 ELSE seq[Min(s)] + Byte * g[s \ {Min(s)}]
    <3>1. CASE s = {}
      BY <2>2, <3>1 DEF Recurs
    <3>2. CASE s # {}
      <4>1. Min(s) \in s /\ MinPick(W)[s] = Min(s)
        BY <1>2, <3>2, MinPicks
      <4>2. Min(s) \in 1..W /\ s \ {Min(s)} \in SUBSET (1..W)
        BY <4>1
      <4>3. g[s] = step[<<Min(s), g[s \ {Min(s)}]>>]
        BY <2>2, <3>2, <4>1 DEF Recurs
      <4>4. <<Min(s), g[s \ {Min(s)}]>> \in (1..W) \X Nat
        BY <4>2
      <4>5. step[<<Min(s), g[s \ {Min(s)}]>>] = seq[Min(s)] + Byte * g[s \ {Min(s)}]
        BY <4>4
      <4> HIDE DEF step
      <4> QED BY <3>2, <4>3, <4>5
    <3> QED BY <3>1, <3>2
  <2>4. g = [s \in SUBSET (DOMAIN seq) |->
                 IF s = {} THEN 0 ELSE seq[Min(s)] + Byte * g[s \ {Min(s)}]]
    BY <1>3, <2>3
  <2> QED BY <2>4
<1> HIDE DEF iter, seq
<1> DEFINE h(k) == iter[k..W]
<1>5. h(W + 1) = 0
  <2>1. (W + 1)..W = {}
    BY <1>2
  <2> QED BY <1>3, <1>4, <2>1
<1>6. ASSUME NEW k \in 1..W PROVE h(k) = Encoded(v)[k] + Byte * h(k + 1)
  <2>1. k..W \in SUBSET (1..W) /\ k..W # {} /\ Min(k..W) = k /\ (k..W) \ {k} = (k + 1)..W
    BY <1>2, MinOfRest
  <2>2. iter[k..W] = seq[k] + Byte * iter[(k + 1)..W]
    <3> DEFINE s == k..W
    <3>1. s \in SUBSET (DOMAIN seq) /\ s # {} /\ Min(s) = k /\ s \ {k} = (k + 1)..W
      BY <1>3, <2>1
    <3> HIDE DEF s
    <3>2. iter[s] = seq[k] + Byte * iter[s \ {k}]
      BY <1>4, <3>1
    <3> QED BY <3>1, <3>2 DEF s
  <2> QED BY <1>3, <2>2
<1>7. h(1) = Operand(code, pos)
  BY <1>1, <1>3
<1> HIDE DEF h, W
<1> DEFINE P(j) == h(W + 1 - j) = v \div Power[W - j]
<1>8. P(0)
  <2>1. Modulus \in Nat \ {0} /\ Power[W] = Modulus
    BY PowerFacts, EmitterAssumption DEF Modulus, W
  <2>2. v = Modulus * 0 + v
    BY <1>2, <2>1
  <2>3. v \div Modulus = 0
    <3>1. 0 \in Int /\ v \in Int
      BY <1>2
    <3> QED BY <2>1, <2>2, <3>1, Divided
  <2>4. W + 1 - 0 = W + 1 /\ W - 0 = W
    BY <1>2
  <2> QED BY <1>5, <2>1, <2>3, <2>4
<1>9. ASSUME NEW j \in 1..W, P(j - 1) PROVE P(j)
  <2> DEFINE k == W + 1 - j
             a == Power[k - 1]
             q == v \div a
  <2>1. k \in 1..W /\ k - 1 \in Nat /\ W + 1 - (j - 1) = k + 1 /\ W - (j - 1) = k /\ W - j = k - 1
        /\ (k - 1) + 1 = k
    BY <1>2
  <2>2. a \in Nat \ {0} /\ Power[k] = Byte * a
    <3> HIDE DEF k
    <3>1. Power[(k - 1) + 1] = Byte * Power[k - 1] /\ Power[k - 1] \in Nat \ {0}
      BY <2>1, PowerFacts
    <3> QED BY <2>1, <3>1
  <2>3. h(k + 1) = v \div Power[k]
    BY <1>9, <2>1
  <2>4. h(k) = Encoded(v)[k] + Byte * h(k + 1)
    <3> HIDE DEF k
    <3> QED BY <1>6, <2>1
  <2>5. Encoded(v)[k] = (v \div Power[k - 1]) % Byte
    <3> HIDE DEF k
    <3>1. k \in 1..Width
      BY <2>1 DEF W
    <3> QED BY <1>2, <3>1, EncodedBytes
  <2>6. Encoded(v)[k] = q % Byte
    BY <2>5
  <2> HIDE DEF k, a
  <2>7. v \div (Byte * a) = q \div Byte
    BY <1>2, <2>2, DividedTwice
  <2>8. q \in Int
    BY <2>2
  <2> HIDE DEF q
  <2>9. q = Byte * (q \div Byte) + (q % Byte)
    BY <1>2, <2>8, Quotient
  <2>10. h(k) = (q % Byte) + Byte * (q \div Byte)
    BY <2>2, <2>3, <2>4, <2>6, <2>7
  <2>11. h(k) = q
    <3> DEFINE x == q % Byte
               y == Byte * (q \div Byte)
    <3>1. x \in Int /\ y \in Int
      BY <1>2, <2>8, Quotient
    <3>2. q = y + x /\ h(k) = x + y
      BY <2>9, <2>10
    <3> HIDE DEF x, y
    <3> QED BY <3>1, <3>2
  <2> QED BY <2>1, <2>11 DEF k, q, a
<1>10. P(W)
  <2> DEFINE Bad == {j \in 0..W : ~P(j)}
  <2> SUFFICES Bad = {}
    <3>1. W \in 0..W
      BY <1>2
    <3> HIDE DEF P
    <3> QED BY <3>1
  <2> SUFFICES ASSUME Bad # {} PROVE FALSE
    OBVIOUS
  <2>1. PICK j \in Bad : \A i \in Bad : j <= i
    <3>1. Bad \in SUBSET Nat
      OBVIOUS
    <3> HIDE DEF Bad
    <3> QED BY <3>1, LeastNatural
  <2>2. j \in 0..W /\ ~P(j)
    OBVIOUS
  <2> HIDE DEF P
  <2>3. j # 0
    BY <1>8, <2>2
  <2>4. j \in 1..W /\ j - 1 \in 0..W /\ ~(j <= j - 1)
    BY <1>2, <2>2, <2>3
  <2>5. j - 1 \notin Bad
    <3> HIDE DEF Bad
    <3> QED BY <2>1, <2>4
  <2>6. P(j - 1)
    BY <2>4, <2>5
  <2> QED BY <1>9, <2>2, <2>4, <2>6
<1>11. v \div Power[0] = v
  <2>1. Power[0] = 1
    BY PowerFacts
  <2> QED BY <1>2, <2>1
<1>12. h(1) = v \div Power[0]
  <2>1. W + 1 - W = 1 /\ W - W = 0
    BY <1>2
  <2> QED BY <1>10, <2>1
<1> QED BY <1>7, <1>11, <1>12

-----------------------------------------------------------------------------
(* The stream.                                                               *)

Follows(new, old, bytes) ==
    /\ StreamInv(new) /\ new.size = old.size + Len(bytes)
    /\ \A i \in 1..old.size : new.buffer[i] = old.buffer[i]
    /\ \A i \in 1..Len(bytes) : new.buffer[old.size + i] = bytes[i]

LEMMA RoomSuffices == ASSUME NEW n \in Nat PROVE Room(n) \in Nat /\ n <= Room(n)
<1> DEFINE q == n \div Expansion
           r == n % Expansion
<1>1. Expansion \in Nat \ {0}
  BY MemoryStreamAssumption
<1>2. q \in Int /\ n = Expansion * q + r /\ r \in 0..(Expansion - 1)
  BY <1>1, Quotient
<1>3. Room(n) = (q + 1) * Expansion
  BY DEF Room
<1> HIDE DEF q, r
<1> DEFINE p == Expansion * q
<1>4. p \in Int /\ (q + 1) * Expansion = p + Expansion
  BY <1>1, <1>2
<1> HIDE DEF p
<1>5. n = p + r /\ r \in Int /\ r <= Expansion /\ r >= 0
  BY <1>1, <1>2 DEF p
<1> QED BY <1>1, <1>3, <1>4, <1>5

LEMMA Writes ==
    ASSUME NEW ms, StreamInv(ms), NEW bytes \in Seq(Nat), bytes # <<>>
    PROVE  Follows(Write(ms, bytes), ms, bytes)
<1> DEFINE n == ms.size
           m == Len(bytes)
           end == n + m
           max == IF end > ms.max THEN Room(end) ELSE ms.max
           buffer == [i \in 1..end |-> IF i \in n + 1 .. end THEN bytes[i - n] ELSE ms.buffer[i]]
           new == Write(ms, bytes)
<1>1. /\ ms = [buffer |-> ms.buffer, position |-> n, size |-> n, max |-> ms.max]
      /\ n \in Nat /\ ms.max \in Nat /\ n <= ms.max /\ ms.buffer \in [1..n -> Nat]
  BY DEF StreamInv
<1>2. m \in Nat \ {0} /\ \A i \in 1..m : bytes[i] \in Nat
  OBVIOUS
<1>3. end \in Nat /\ end > n
  BY <1>1, <1>2
<1>4. max \in Nat /\ end <= max
  <2>1. Room(end) \in Nat /\ end <= Room(end)
    BY <1>3, RoomSuffices
  <2> HIDE DEF end
  <2> QED BY <1>1, <1>3, <2>1
<1>5. new = [buffer |-> buffer, position |-> end, size |-> end, max |-> max]
  <2>1. ms.position = n
    BY <1>1
  <2> DEFINE e == ms.position + m
             size == IF e > n THEN e ELSE n
             room == IF size > n /\ size > ms.max THEN Room(size) ELSE ms.max
             kept == IF size <= room THEN size ELSE room
  <2>2. new = [buffer |-> [i \in 1..kept |-> IF i \in ms.position + 1 .. e THEN bytes[i - ms.position]
                                            ELSE ms.buffer[i]],
               position |-> e, size |-> size, max |-> room]
    BY DEF Write
  <2>3. e = end
    BY <2>1
  <2>4. size = end
    BY <1>3, <2>3
  <2> HIDE DEF size, e, end
  <2>5. room = max
    BY <1>3, <2>4
  <2> HIDE DEF room, max
  <2>6. kept = end
    BY <1>4, <2>4, <2>5
  <2> HIDE DEF kept, new
  <2> QED BY <2>1, <2>2, <2>3, <2>4, <2>5, <2>6
<1>6. buffer \in [1..end -> Nat]
  <2> SUFFICES ASSUME NEW i \in 1..end
               PROVE  (IF i \in n + 1 .. end THEN bytes[i - n] ELSE ms.buffer[i]) \in Nat
    OBVIOUS
  <2>1. CASE i \in n + 1 .. end
    <3>1. i - n \in 1..m
      BY <1>1, <1>2, <2>1
    <3> QED BY <1>2, <2>1, <3>1
  <2>2. CASE i \notin n + 1 .. end
    <3>1. i \in 1..n
      BY <1>1, <1>2, <2>2
    <3> QED BY <1>1, <2>2, <3>1
  <2> QED BY <2>1, <2>2
<1>7. \A i \in 1..n : buffer[i] = ms.buffer[i]
  <2> TAKE i \in 1..n
  <2>1. i \in 1..end /\ i \notin n + 1 .. end
    BY <1>1, <1>3
  <2> QED BY <2>1
<1>8. \A i \in 1..m : buffer[n + i] = bytes[i]
  <2> TAKE i \in 1..m
  <2>1. n + i \in 1..end /\ n + i \in n + 1 .. end /\ (n + i) - n = i
    BY <1>1, <1>2
  <2> QED BY <2>1
<1> HIDE DEF buffer, max, new
<1>9. StreamInv(new)
  <2> HIDE DEF end
  <2>1. new.buffer = buffer /\ new.size = end /\ new.max = max
    BY <1>5
  <2> QED BY <1>3, <1>4, <1>5, <1>6, <2>1 DEF StreamInv
<1>10. new.size = n + m /\ new.buffer = buffer
  BY <1>5
<1> QED BY <1>7, <1>8, <1>9, <1>10 DEF Follows, new

LEMMA PrefixedByte ==
    ASSUME NEW op \in Opcodes, NEW ref PROVE Prefixed(op, ref) \in Nat
<1> DEFINE h == Byte \div 2
<1>1. h \in Int
  BY EmitterAssumption
<1> HIDE DEF h
<1>2. OpByte[op] \in 0..(h - 1)
  BY CompilerAssumption DEF h
<1>3. OpByte[op] \in Nat /\ h \in Nat
  BY <1>1, <1>2
<1>4. Prefixed(op, ref) = OpByte[op] + (IF ref THEN h ELSE 0)
  BY DEF Prefixed, h
<1> QED BY <1>3, <1>4

\* The stream after an instruction, and its bytes.
LEMMA StreamOfOp ==
    ASSUME NEW f, StreamInv(f.stream), NEW op \in Opcodes, NEW ref
    PROVE  LET s == Write(f.stream, <<Prefixed(op, ref)>>)
               n == f.stream.size
           IN  /\ StreamInv(s) /\ s.size = n + 1
               /\ \A i \in 1..n : s.buffer[i] = f.stream.buffer[i]
               /\ s.buffer[n + 1] = Prefixed(op, ref)
<1> DEFINE p == Prefixed(op, ref)
           one == <<p>>
           s == Write(f.stream, one)
<1>1. one \in Seq(Nat) /\ one # <<>> /\ Len(one) = 1 /\ one[1] = p
  <2>1. p \in Nat
    BY PrefixedByte
  <2> HIDE DEF p
  <2> QED BY <2>1
<1> HIDE DEF one, p
<1>2. Follows(s, f.stream, one)
  BY <1>1, Writes
<1> HIDE DEF s
<1>3. 1 \in 1..Len(one)
  BY <1>1
<1> QED BY <1>1, <1>2, <1>3 DEF Follows, s, one, p

LEMMA StreamOfOp2 ==
    ASSUME NEW f, StreamInv(f.stream), NEW op \in Opcodes, NEW ref, NEW v \in Nat
    PROVE  LET s == Write(Write(f.stream, <<Prefixed(op, ref)>>), Encoded(v))
               n == f.stream.size
           IN  /\ StreamInv(s) /\ s.size = n + (1 + Width)
               /\ \A i \in 1..n : s.buffer[i] = f.stream.buffer[i]
               /\ s.buffer[n + 1] = Prefixed(op, ref)
               /\ Carries(s.buffer, n, v)
<1> DEFINE n == f.stream.size
           a == Write(f.stream, <<Prefixed(op, ref)>>)
           b == Encoded(v)
           s == Write(a, b)
<1>1. /\ StreamInv(a) /\ a.size = n + 1 /\ \A i \in 1..n : a.buffer[i] = f.stream.buffer[i]
      /\ a.buffer[n + 1] = Prefixed(op, ref)
  BY StreamOfOp
<1>2. n \in Nat
  BY DEF StreamInv
<1>3. b \in Seq(Nat) /\ b # <<>> /\ Len(b) = Width /\ Width \in Nat \ {0}
  <2>1. b = [i \in 1..Width |-> b[i]]
    BY DEF Encoded
  <2>2. \A i \in 1..Width : b[i] \in Nat
    BY EncodedBytes
  <2>3. Len(b) = Width /\ Width \in Nat \ {0}
    BY EncodedLen
  <2> HIDE DEF b
  <2> QED BY <2>1, <2>2, <2>3
<1> HIDE DEF a, b, n
<1>4. Follows(s, a, b)
  BY <1>1, <1>3, Writes
<1> HIDE DEF s
<1>5. s.size = n + (1 + Width) /\ StreamInv(s)
  BY <1>1, <1>2, <1>3, <1>4 DEF Follows
<1>6. \A i \in 1..(n + 1) : s.buffer[i] = a.buffer[i]
  BY <1>1, <1>4 DEF Follows
<1>7. /\ \A i \in 1..n : s.buffer[i] = f.stream.buffer[i]
      /\ s.buffer[n + 1] = Prefixed(op, ref)
  <2>1. n + 1 \in 1..(n + 1) /\ \A i \in 1..n : i \in 1..(n + 1)
    BY <1>2
  <2> QED BY <1>1, <1>6, <2>1
<1>8. Carries(s.buffer, n, v)
  <2>1. \A k \in 1..Width : s.buffer[n + 1 + k] = b[k]
    BY <1>1, <1>3, <1>4 DEF Follows
  <2> QED BY <2>1 DEF Carries, b
<1> QED BY <1>5, <1>7, <1>8 DEF s, a, b, n

-----------------------------------------------------------------------------
(* A function under construction.                                            *)

LEMMA Forms ==
    ASSUME NEW x \in ItemT
    PROVE  /\ Instruction(x) <=> x.op \in Opcodes
           /\ Instruction(x) => Bytes(x) \in {1, 1 + Width}
           /\ Form(x) \in {"number", "string", "label"} => Bytes(x) = 1 + Width /\ Instruction(x)
           /\ Form(x) \notin {"number", "string", "label"} => Bytes(x) \in {0, 1}
           /\ Instruction(x) \/ Bytes(x) = 0
<1>1. x.op \in Opcodes \cup {"label", "locals"}
  BY DEF ItemT
<1>2. Instruction(x) <=> x.op \in Opcodes
  BY <1>1, NoLabelOpcode DEF Instruction
<1>3. x.op \in {"label", "locals"} => Bytes(x) = 0 /\ Form(x) = "none"
  BY NoLabelOpcode DEF Bytes, Form, Fetched
<1>4. ASSUME x.op \in Opcodes
      PROVE  /\ x.op \in Fetched <=> Form(x) \in {"number", "string", "label"}
             /\ x.op \notin {"label", "locals"}
  <2>1. x.op \in DOMAIN Grammar
    BY <1>4, CompilerAssumption
  <2>2. Form(x) = Grammar[x.op]
    BY <1>4 DEF Form
  <2>3. x.op \in Fetched <=> Grammar[x.op] \in {"number", "string", "label"}
    BY <2>1 DEF Grammar, Fetched
  <2> QED BY <1>4, <2>2, <2>3, NoLabelOpcode
<1>5. x.op \in Opcodes => Bytes(x) = IF x.op \in Fetched THEN 1 + Width ELSE 1
  BY <1>4 DEF Bytes
<1> QED BY <1>1, <1>2, <1>3, <1>4, <1>5

LEMMA EmittedKept ==
    ASSUME NEW items \in Seq(ItemT), NEW x \in ItemT, NEW i \in DOMAIN items,
           Instruction(items[i]), NEW old, NEW new, NEW strings, NEW more,
           Emitted(old, items, i, strings),
           \A k \in 1..Address(items, Len(items) + 1) : new[k] = old[k],
           \A k \in DOMAIN strings : k \in DOMAIN more /\ more[k] = strings[k]
    PROVE  Emitted(new, Append(items, x), i, more)
<1> DEFINE item == items[i]
           ip == Address(items, i)
           end == Address(items, Len(items) + 1)
           b == Bytes(item)
           longer == Append(items, x)
<1>1. /\ i \in 1..(Len(items) + 1) /\ Len(items) + 1 \in 1..(Len(items) + 1) /\ i < Len(items) + 1
      /\ longer[i] = item /\ item \in ItemT
  OBVIOUS
<1>2. ip \in Nat /\ end \in Nat /\ ip + b <= end /\ Address(longer, i) = ip
  BY <1>1, Addresses, AddressOrder, AddressKept
<1>3. b \in {1, 1 + Width} /\ (Form(item) \in {"number", "string", "label"} => b = 1 + Width)
      /\ Width \in Nat
  BY <1>1, Forms, EmitterAssumption
<1>4. /\ old[ip + 1] = Prefixed(item.op, item.ref)
      /\ Form(item) = "number" => item.num < Modulus /\ Carries(old, ip, item.num)
      /\ Form(item) = "string" =>
            \E v \in DOMAIN strings : strings[v] = item.word /\ Carries(old, ip, v - 1)
      /\ Form(item) = "label" => Carries(old, ip, 0)
  BY DEF Emitted
<1>5. \A k \in 1..end : new[k] = old[k]
  OBVIOUS
<1> HIDE DEF item, ip, end, b, longer
<1>6. new[ip + 1] = old[ip + 1]
  <2>1. ip + 1 \in 1..end
    BY <1>2, <1>3
  <2> QED BY <1>5, <2>1
<1>7. ASSUME b = 1 + Width, NEW v, Carries(old, ip, v) PROVE Carries(new, ip, v)
  <2> SUFFICES ASSUME NEW k \in 1..Width PROVE new[ip + 1 + k] = Encoded(v)[k]
    BY DEF Carries
  <2>1. ip + 1 + k \in 1..end
    BY <1>2, <1>3, <1>7
  <2> QED BY <1>5, <1>7, <2>1 DEF Carries
<1>8. Form(item) = "string" =>
            \E v \in DOMAIN more : more[v] = item.word /\ Carries(new, ip, v - 1)
  BY <1>3, <1>4, <1>7
<1>9. /\ new[ip + 1] = Prefixed(item.op, item.ref)
      /\ Form(item) = "number" => item.num < Modulus /\ Carries(new, ip, item.num)
      /\ Form(item) = "label" => Carries(new, ip, 0)
  BY <1>3, <1>4, <1>6, <1>7
<1> QED BY <1>1, <1>2, <1>8, <1>9 DEF Emitted, longer

LEMMA ReferenceMore ==
    ASSUME NEW items \in Seq(ItemT), NEW x \in ItemT, NEW refs, NEW R, refs \in Seq(R),
           ReferenceInv(refs, items), NEW new,
           new = IF Form(x) = "label"
                 THEN Append(refs, [offset |-> Address(items, Len(items) + 1) + 1, label |-> x.word])
                 ELSE refs
    PROVE  ReferenceInv(new, Append(items, x))
<1> DEFINE more == Append(items, x)
           n == Len(items)
           m == Len(refs)
           r0 == [offset |-> Address(items, n + 1) + 1, label |-> x.word]
<1>1. /\ n \in Nat /\ DOMAIN items = 1..n
      /\ DOMAIN more = 1..(n + 1) /\ more[n + 1] = x /\ \A i \in 1..n : more[i] = items[i]
  OBVIOUS
<1>2. \A i \in 1..(n + 1) : Address(more, i) = Address(items, i)
  BY AddressKept
<1>3. m \in Nat /\ DOMAIN refs = 1..m
  OBVIOUS
<1>4. /\ \A r \in 1..m : \E j \in Jumps(items) : refs[r] = Reference(items, j)
      /\ \A j \in Jumps(items) : \E r \in 1..m : refs[r] = Reference(items, j)
      /\ \A r, s \in 1..m : r < s => refs[r].offset + Width < refs[s].offset
  BY <1>3 DEF ReferenceInv
<1>5. \A j \in 1..n : Form(items[j]) = "label" =>
           Reference(items, j).offset + Width < r0.offset
  <2> TAKE j \in 1..n
  <2> HAVE Form(items[j]) = "label"
  <2>1. items[j] \in ItemT /\ j \in DOMAIN items /\ n + 1 \in 1..(Len(items) + 1) /\ j < n + 1
        /\ j \in 1..(Len(items) + 1)
    BY <1>1
  <2>2. Bytes(items[j]) = 1 + Width /\ Width \in Nat
    BY <2>1, Forms, EmitterAssumption
  <2>3. Address(items, j) + Bytes(items[j]) <= Address(items, n + 1)
    BY <2>1, AddressOrder
  <2>4. Address(items, j) \in Nat /\ Address(items, n + 1) \in Nat
    BY <2>1, Addresses
  <2>5. Reference(items, j).offset = Address(items, j) + 1 /\ r0.offset = Address(items, n + 1) + 1
    BY DEF Reference
  <2> QED BY <2>2, <2>3, <2>4, <2>5
<1>6. \A j \in 1..n : Reference(more, j) = Reference(items, j)
  BY <1>1, <1>2 DEF Reference
<1>7. Form(x) = "label" => Reference(more, n + 1) = r0
  <2>1. n + 1 \in 1..(n + 1)
    BY <1>1
  <2> QED BY <1>1, <1>2, <2>1 DEF Reference
<1>8. Jumps(more) = Jumps(items) \cup (IF Form(x) = "label" THEN {n + 1} ELSE {})
      /\ Jumps(items) \subseteq 1..n /\ \A j \in Jumps(items) : Form(items[j]) = "label"
  BY <1>1 DEF Jumps
<1> HIDE DEF more, n, r0
<1>9. CASE Form(x) # "label"
  <2>1. new = refs /\ Jumps(more) = Jumps(items)
    BY <1>8, <1>9
  <2>2. \A j \in Jumps(items) : Reference(more, j) = Reference(items, j)
    BY <1>6, <1>8
  <2>3. ReferenceInv(refs, more)
    <3> HIDE DEF m
    <3>1. \A r \in 1..m : \E j \in Jumps(more) : refs[r] = Reference(more, j)
      BY <1>4, <2>1, <2>2
    <3>2. \A j \in Jumps(more) : \E r \in 1..m : refs[r] = Reference(more, j)
      BY <1>4, <2>1, <2>2
    <3>3. \A r, s \in 1..m : r < s => refs[r].offset + Width < refs[s].offset
      BY <1>4
    <3> QED BY <1>3, <3>1, <3>2, <3>3 DEF ReferenceInv
  <2> QED BY <2>1, <2>3 DEF more
<1>10. CASE Form(x) = "label"
  <2>1. new = Append(refs, r0)
    BY <1>10 DEF r0, n
  <2>2. DOMAIN new = 1..(m + 1) /\ new[m + 1] = r0 /\ \A r \in 1..m : new[r] = refs[r]
    BY <2>1
  <2>3. n + 1 \in Jumps(more) /\ \A j \in Jumps(more) : j = n + 1 \/ j \in Jumps(items)
    BY <1>8, <1>10
  <2> HIDE DEF m
  <2>4. ASSUME NEW r \in 1..(m + 1) PROVE \E j \in Jumps(more) : new[r] = Reference(more, j)
    <3>1. CASE r = m + 1
      BY <1>7, <1>10, <2>2, <2>3, <3>1
    <3>2. CASE r \in 1..m
      <4>1. PICK j \in Jumps(items) : refs[r] = Reference(items, j)
        BY <1>4, <3>2
      <4> QED BY <1>6, <1>8, <2>2, <3>2, <4>1
    <3> QED BY <1>3, <3>1, <3>2
  <2>5. ASSUME NEW j \in Jumps(more) PROVE \E r \in 1..(m + 1) : new[r] = Reference(more, j)
    <3>1. CASE j = n + 1
      <4>1. m + 1 \in 1..(m + 1)
        BY <1>3
      <4> QED BY <1>7, <1>10, <2>2, <3>1, <4>1
    <3>2. CASE j \in Jumps(items)
      <4>1. PICK r \in 1..m : refs[r] = Reference(items, j)
        BY <1>4, <3>2
      <4>2. r \in 1..(m + 1)
        BY <1>3
      <4> QED BY <1>6, <1>8, <2>2, <3>2, <4>1, <4>2
    <3> QED BY <2>3, <3>1, <3>2
  <2>6. ASSUME NEW r \in 1..(m + 1), NEW s \in 1..(m + 1), r < s
        PROVE  new[r].offset + Width < new[s].offset
    <3>1. r \in 1..m
      BY <1>3, <2>6
    <3>2. CASE s \in 1..m
      BY <1>4, <2>2, <2>6, <3>1, <3>2
    <3>3. CASE s = m + 1
      <4>1. PICK j \in Jumps(items) : refs[r] = Reference(items, j)
        BY <1>4, <3>1
      <4>2. Reference(items, j).offset + Width < r0.offset
        BY <1>5, <1>8, <4>1
      <4> QED BY <2>2, <3>1, <3>3, <4>1, <4>2
    <3> QED BY <1>3, <3>2, <3>3
  <2> QED BY <2>2, <2>4, <2>5, <2>6 DEF ReferenceInv, more
<1> QED BY <1>9, <1>10

-----------------------------------------------------------------------------
\* What a reduction does to the function.
Grows(g, f, x) ==
    /\ StreamInv(g.stream) /\ g.stream.size = f.stream.size + Bytes(x)
    /\ \A k \in 1..f.stream.size : g.stream.buffer[k] = f.stream.buffer[k]
    /\ g.locals = IF x.op = "locals" THEN x.num ELSE f.locals
    /\ \A l \in Labels :
          g.labels[l] = IF x.op = "label" /\ x.word = l THEN f.stream.size ELSE f.labels[l]
    /\ g.refs = IF Form(x) = "label"
                THEN Append(f.refs, [offset |-> f.stream.size + 1, label |-> x.word])
                ELSE f.refs

LEMMA BuildingMore ==
    ASSUME NEW f, NEW items \in Seq(ItemT), NEW x \in ItemT, NEW strings, NEW more,
           Building(f, items, strings), Refers(f, items), NEW g, Grows(g, f, x),
           Instruction(x) => Emitted(g.stream.buffer, Append(items, x), Len(items) + 1, more),
           \A k \in DOMAIN strings : k \in DOMAIN more /\ more[k] = strings[k]
    PROVE  Building(g, Append(items, x), more)
<1> DEFINE n == Len(items)
           longer == Append(items, x)
           end == Address(items, n + 1)
<1>1. /\ n \in Nat /\ DOMAIN items = 1..n /\ longer \in Seq(ItemT)
      /\ Len(longer) = n + 1 /\ DOMAIN longer = 1..(n + 1)
      /\ longer[n + 1] = x /\ \A i \in 1..n : longer[i] = items[i] /\ items[i] \in ItemT
  OBVIOUS
<1>2. f.stream.size = end /\ end \in Nat
  <2>1. f.stream.size = end
    BY DEF Building
  <2>2. n + 1 \in 1..(Len(items) + 1)
    BY <1>1
  <2>3. end \in Nat
    BY <2>2, Addresses
  <2> QED BY <2>1, <2>3
<1>3. Address(longer, n + 2) = end + Bytes(x)
  <2>1. Address(longer, (n + 1) + 1) = Address(longer, n + 1) + Bytes(longer[n + 1])
    <3>1. n + 1 \in DOMAIN longer
      BY <1>1
    <3> HIDE DEF longer, n, end
    <3> QED BY <1>1, <3>1, Addresses
  <2>2. Address(longer, n + 1) = end
    <3>1. n + 1 \in 1..(Len(items) + 1)
      BY <1>1
    <3> QED BY <3>1, AddressKept
  <2>3. (n + 1) + 1 = n + 2
    BY <1>1
  <2> HIDE DEF longer, n, end
  <2> QED BY <1>1, <2>1, <2>2, <2>3
<1>4. StreamInv(g.stream) /\ g.stream.size = Address(longer, Len(longer) + 1)
  <2>1. Len(longer) + 1 = n + 2
    BY <1>1
  <2> HIDE DEF longer, n, end
  <2> QED BY <1>2, <1>3, <2>1 DEF Grows
<1>5. g.locals = LocalsOf(longer)
  BY LocalsMove DEF Grows, Building
<1>6. ASSUME NEW l \in Labels, g.labels[l] # None PROVE g.labels[l] = LabelAddress(longer, l)
  <2>1. CASE x.op = "label" /\ x.word = l
    <3>1. LabelAddress(longer, l) = end
      BY <2>1, LabelsMove
    <3> QED BY <1>2, <2>1, <3>1 DEF Grows
  <2>2. CASE ~(x.op = "label" /\ x.word = l)
    <3>1. g.labels[l] = f.labels[l]
      BY <2>2 DEF Grows
    <3>2. Places(items, l) # {} /\ f.labels[l] = LabelAddress(items, l)
      BY <1>6, <3>1 DEF Refers, Building
    <3>3. LabelAddress(longer, l) = LabelAddress(items, l)
      BY <2>2, <3>2, LabelsMove
    <3> QED BY <3>1, <3>2, <3>3
  <2> QED BY <2>1, <2>2
<1>7. ReferenceInv(g.refs, longer)
  <2>1. f.refs \in Seq([offset : Nat, label : Labels]) /\ ReferenceInv(f.refs, items)
    BY DEF Refers, Building
  <2>2. g.refs = IF Form(x) = "label"
                 THEN Append(f.refs, [offset |-> Address(items, Len(items) + 1) + 1, label |-> x.word])
                 ELSE f.refs
    BY <1>2 DEF Grows
  <2> QED BY <2>1, <2>2, ReferenceMore
<1>8. ASSUME NEW i \in 1..(n + 1), Instruction(longer[i])
      PROVE  Emitted(g.stream.buffer, longer, i, more)
  <2>1. CASE i = n + 1
    BY <1>1, <1>8, <2>1
  <2>2. CASE i \in 1..n
    <3>1. Instruction(items[i]) /\ i \in DOMAIN items
      BY <1>1, <1>8, <2>2
    <3>2. Emitted(f.stream.buffer, items, i, strings)
      BY <3>1 DEF Building
    <3>3. \A k \in 1..Address(items, Len(items) + 1) : g.stream.buffer[k] = f.stream.buffer[k]
      BY <1>2 DEF Grows
    <3> QED BY <3>1, <3>2, <3>3, EmittedKept
  <2> QED BY <1>1, <2>1, <2>2
<1> QED BY <1>1, <1>4, <1>5, <1>6, <1>7, <1>8 DEF Building

LEMMA BuildingBegins ==
    ASSUME NEW f, f.stream = Open, f.locals = 0, \A l \in Labels : f.labels[l] = None,
           f.refs = <<>>, NEW strings
    PROVE  Building(f, <<>>, strings)
<1>1. <<>> \in Seq(ItemT) /\ Len(<<>>) = 0 /\ DOMAIN <<>> = {}
  OBVIOUS
<1>2. Address(<<>>, 1) = 0
  BY <1>1, Addresses
<1>3. StreamInv(f.stream) /\ f.stream.size = 0
  BY DEF Open, StreamInv
<1>4. LocalsOf(<<>>) = 0
  BY <1>1 DEF LocalsOf
<1>5. ReferenceInv(f.refs, <<>>)
  BY <1>1 DEF ReferenceInv, Jumps
<1> QED BY <1>1, <1>2, <1>3, <1>4, <1>5 DEF Building

-----------------------------------------------------------------------------
(* What Finalize patches.                                                    *)

LEMMA KnownRefs ==
    ASSUME NEW f, NEW R, f.refs \in Seq(R)
    PROVE  LET m == Len(Known(f))
           IN  /\ Known(f) \in Seq(R) /\ m \in 0..Len(f.refs)
               /\ \A r \in 1..m : Known(f)[r] = f.refs[r] /\ f.labels[f.refs[r].label] # None
               /\ m < Len(f.refs) => f.labels[f.refs[m + 1].label] = None
<1> DEFINE refs == f.refs
           n == Len(refs)
           Unknown(r) == f.labels[refs[r].label] = None
           I == {i \in 1..n : Unknown(i)}
           u == IF I # {} THEN Min(I) ELSE 0
           known == Known(f)
<1>1. known = IF u = 0 THEN refs ELSE SubSeq(refs, 1, u - 1)
  BY DEF Known, SelectInSeq
<1>2. n \in Nat /\ refs \in Seq(R) /\ I \in SUBSET (1..n) /\ \A i \in 1..n : i \in I <=> Unknown(i)
  OBVIOUS
<1> SUFFICES LET m == Len(known)
             IN  /\ known \in Seq(R) /\ m \in 0..n
                 /\ \A r \in 1..m : known[r] = refs[r] /\ ~Unknown(r)
                 /\ m < n => Unknown(m + 1)
  OBVIOUS
<1> HIDE DEF refs, Unknown, I, known
<1>3. CASE I = {}
  <2>1. known = refs
    BY <1>1, <1>3
  <2>2. \A r \in 1..n : ~Unknown(r)
    BY <1>2, <1>3
  <2> QED BY <1>2, <2>1, <2>2
<1>4. CASE I # {}
  <2>1. u \in I /\ \A i \in I : u <= i
    <3>1. I \in SUBSET Nat
      BY <1>2
    <3> QED BY <1>4, <3>1, MinIsMember
  <2> HIDE DEF u
  <2>2. u \in 1..n /\ u # 0 /\ Unknown(u)
    <3>1. u \in 1..n
      BY <1>2, <2>1
    <3>2. n \in Nat
      BY <1>2
    <3> HIDE DEF n
    <3> QED BY <1>2, <2>1, <3>1, <3>2
  <2>3. u - 1 \in 0..Len(refs) /\ n = Len(refs) /\ n \in Nat
    BY <1>2, <2>2
  <2> HIDE DEF n
  <2>4. known \in Seq(R) /\ Len(known) = u - 1 /\ \A j \in 1..(u - 1) : known[j] = refs[j]
    <3>1. known = SubSeq(refs, 1, u - 1)
      BY <1>1, <2>2
    <3> QED BY <1>2, <2>3, <3>1, Beginning
  <2>5. \A j \in 1..(u - 1) : ~Unknown(j)
    <3> TAKE j \in 1..(u - 1)
    <3>1. j \in 1..n /\ j < u
      BY <2>2, <2>3
    <3> QED BY <1>2, <2>1, <3>1
  <2>6. (u - 1) + 1 = u /\ u - 1 \in 0..n
    BY <2>2, <2>3
  <2> QED BY <2>2, <2>4, <2>5, <2>6
<1> QED BY <1>3, <1>4

LEMMA FinalizedRuns ==
    ASSUME NEW f, NEW R, Known(f) \in Seq(R), NEW V, f.stream.buffer \in V,
           \A v \in V, r \in 1..Len(Known(f)) : Patched(f, v, Known(f)[r]) \in V,
           f = [nameIndex |-> f.nameIndex, index |-> f.index, locals |-> f.locals,
                code |-> f.code, stream |-> f.stream, labels |-> f.labels, refs |-> f.refs]
    PROVE  \E h : /\ h[0] = f.stream.buffer
                  /\ \A k \in 1..Len(Known(f)) : h[k] = Patched(f, h[k - 1], Known(f)[k])
                  /\ Finalized(f).code = h[Len(Known(f))]
<1> DEFINE seq == Known(f)
           n == Len(seq)
           base == f.stream.buffer
           step == [p \in (1..n) \X V |-> Patched(f, p[2], seq[p[1]])]
           iter[s \in SUBSET (DOMAIN seq)] ==
               IF s = {} THEN base ELSE Patched(f, iter[s \ {Max(s)}], seq[Max(s)])
<1>1. Finalized(f).code = iter[DOMAIN seq]
  <2>1. Finalized(f).code = FoldLeft(LAMBDA code, r : Patched(f, code, r), Clone(f.stream), seq)
    BY DEF Finalized
  <2> QED BY <2>1 DEF FoldLeft, MapThenFoldSet, Clone
<1>2. n \in Nat /\ DOMAIN seq = 1..n /\ base \in V
  OBVIOUS
<1>3. \A v \in V, r \in 1..n : Patched(f, v, seq[r]) \in V
  OBVIOUS
<1>4. step \in [(1..n) \X V -> V]
  <2> HIDE DEF seq, n
  <2> QED BY <1>3
<1> HIDE DEF seq, n, base
<1>5. PICK g \in [SUBSET (1..n) -> V] : Recurs(g, n, base, step, MaxPick(n))
  <2> HIDE DEF step
  <2>1. Picks(MaxPick(n), n)
    BY <1>2, MaxPicks
  <2> QED BY <1>2, <1>4, <2>1, FoldExists
<1>6. ASSUME NEW s \in SUBSET (1..n)
      PROVE  g[s] = IF s = {} THEN base ELSE Patched(f, g[s \ {Max(s)}], seq[Max(s)])
  <2>1. CASE s = {}
    BY <1>5, <2>1 DEF Recurs
  <2>2. CASE s # {}
    <3>1. Max(s) \in s /\ MaxPick(n)[s] = Max(s)
      <4>1. Picks(MaxPick(n), n) /\ MaxPick(n)[s] = Max(s)
        BY <1>2, MaxPicks
      <4> QED BY <2>2, <4>1 DEF Picks
    <3>2. Max(s) \in 1..n /\ s \ {Max(s)} \in SUBSET (1..n)
      BY <3>1
    <3>3. g[s] = step[<<Max(s), g[s \ {Max(s)}]>>]
      BY <1>5, <2>2, <3>1 DEF Recurs
    <3>4. <<Max(s), g[s \ {Max(s)}]>> \in (1..n) \X V
      BY <3>2
    <3>5. step[<<Max(s), g[s \ {Max(s)}]>>] = Patched(f, g[s \ {Max(s)}], seq[Max(s)])
      BY <3>4
    <3> HIDE DEF step
    <3> QED BY <2>2, <3>3, <3>5
  <2> QED BY <2>1, <2>2
<1>7. iter = [s \in SUBSET (DOMAIN seq) |->
                 IF s = {} THEN base ELSE Patched(f, iter[s \ {Max(s)}], seq[Max(s)])]
  <2>1. g = [s \in SUBSET (DOMAIN seq) |->
                 IF s = {} THEN base ELSE Patched(f, g[s \ {Max(s)}], seq[Max(s)])]
    BY <1>2, <1>6
  <2> QED BY <2>1
<1> HIDE DEF iter
<1> DEFINE h == [k \in 0..n |-> iter[1..k]]
<1>8. h[0] = base
  BY <1>2, <1>7
<1>9. \A k \in 1..n : h[k] = Patched(f, h[k - 1], seq[k])
  <2> TAKE k \in 1..n
  <2>1. Max(1..k) = k /\ 1..k \in SUBSET (1..n) /\ (1..k) \ {k} = 1..(k - 1)
    BY <1>2, MaxPicks
  <2>2. 1..k # {} /\ k - 1 \in 0..n /\ k \in 0..n
    BY <1>2
  <2>3. iter[1..k] = Patched(f, iter[1..(k - 1)], seq[k])
    BY <1>2, <1>7, <2>1, <2>2
  <2>4. h[k] = iter[1..k] /\ h[k - 1] = iter[1..(k - 1)]
    BY <2>2
  <2> QED BY <2>3, <2>4
<1>10. Finalized(f).code = h[n]
  BY <1>1, <1>2
<1> HIDE DEF h
<1> QED BY <1>8, <1>9, <1>10 DEF seq, n, base

\* The operand a reference stands for, and what it becomes.
Patch(r) == r.offset + 1 .. r.offset + Width
Distance(f, r) == (f.labels[r.label] - (r.offset + Width)) % Modulus

LEMMA OperandRange == Modulus \in Nat \ {0} /\ Width \in Nat \ {0}
<1>1. Width \in Nat \ {0}
  BY EmitterAssumption
<1>2. Power[Width] \in Nat \ {0}
  BY <1>1, PowerFacts
<1> QED BY <1>1, <1>2 DEF Modulus

LEMMA DistanceType ==
    ASSUME NEW f, NEW r, r.offset \in Nat, f.labels[r.label] \in Nat
    PROVE  Distance(f, r) \in 0..(Modulus - 1)
<1> DEFINE M == Modulus
           x == f.labels[r.label] - (r.offset + Width)
<1>1. M \in Nat \ {0} /\ Width \in Nat
  BY OperandRange
<1>2. x \in Int
  BY <1>1
<1> HIDE DEF x, M
<1>3. x % M \in 0..(M - 1)
  BY <1>1, <1>2
<1> QED BY <1>3 DEF Distance, x, M

Replaces(new, code, f, r, n) ==
    /\ new \in [1..n -> Nat]
    /\ \A p \in 1..n :
          new[p] = IF p \in Patch(r) THEN Encoded(Distance(f, r))[p - r.offset] ELSE code[p]

LEMMA PatchStep ==
    ASSUME NEW f, NEW r, r.offset \in Nat, f.labels[r.label] \in Nat,
           NEW n \in Nat, NEW code \in [1..n -> Nat]
    PROVE  Replaces(Patched(f, code, r), code, f, r, n)
<1> DEFINE v == Encoded(Distance(f, r))
           new == Patched(f, code, r)
<1>1. new = [i \in 1..n |-> IF i \in Patch(r) THEN v[i - r.offset] ELSE code[i]]
  BY DEF Patched, Distance, Patch
<1>2. \A k \in 1..Width : v[k] \in Nat
  <2>1. Distance(f, r) \in Nat
    BY DistanceType, OperandRange
  <2> HIDE DEF v
  <2> QED BY <2>1, EncodedBytes DEF v
<1> HIDE DEF v, new
<1>3. \A i \in Patch(r) : i - r.offset \in 1..Width
  BY OperandRange DEF Patch
<1>4. \A i \in 1..n : (IF i \in Patch(r) THEN v[i - r.offset] ELSE code[i]) \in Nat
  BY <1>2, <1>3
<1> QED BY <1>1, <1>4 DEF v, new, Replaces

\* After some of the references.
Done(f, n, seq, h, k) ==
    /\ h[k] \in [1..n -> Nat]
    /\ \A p \in 1..n : (\A r \in 1..k : p \notin Patch(seq[r])) => h[k][p] = h[0][p]
    /\ \A r \in 1..k, j \in 1..Width : h[k][seq[r].offset + j] = Encoded(Distance(f, seq[r]))[j]

LEMMA PatchRuns ==
    ASSUME NEW f, NEW n \in Nat, NEW m \in Nat, NEW seq, NEW h, h[0] \in [1..n -> Nat],
           \A k \in 1..m : h[k] = Patched(f, h[k - 1], seq[k]),
           \A k \in 1..m : /\ seq[k].offset \in Nat /\ seq[k].offset + Width <= n
                           /\ f.labels[seq[k].label] \in Nat,
           \A r, s \in 1..m : r < s => seq[r].offset + Width < seq[s].offset
    PROVE  Done(f, n, seq, h, m)
<1> DEFINE Bad == {k \in 0..m : ~Done(f, n, seq, h, k)}
<1>1. Done(f, n, seq, h, 0)
  BY DEF Done
<1>2. ASSUME NEW k \in 1..m, Done(f, n, seq, h, k - 1) PROVE Done(f, n, seq, h, k)
  <2> DEFINE o == seq[k].offset
  <2>1. /\ o \in Nat /\ o + Width <= n /\ f.labels[seq[k].label] \in Nat
        /\ h[k - 1] \in [1..n -> Nat] /\ h[k] = Patched(f, h[k - 1], seq[k])
    BY <1>2 DEF Done
  <2>2. /\ h[k] \in [1..n -> Nat]
        /\ \A p \in 1..n : h[k][p] = IF p \in Patch(seq[k])
                                     THEN Encoded(Distance(f, seq[k]))[p - o] ELSE h[k - 1][p]
    <3> DEFINE r == seq[k]
               c == h[k - 1]
    <3>1. r.offset \in Nat /\ f.labels[r.label] \in Nat /\ c \in [1..n -> Nat]
      BY <2>1
    <3>2. h[k] = Patched(f, c, r) /\ o = r.offset
      BY <2>1
    <3> HIDE DEF r, c, o
    <3>3. Replaces(Patched(f, c, r), c, f, r, n)
      BY <3>1, PatchStep
    <3> QED BY <3>2, <3>3 DEF r, c, Replaces
  <2>3. ASSUME NEW p \in 1..n, \A r \in 1..k : p \notin Patch(seq[r]) PROVE h[k][p] = h[0][p]
    <3>1. k \in 1..k /\ \A r \in 1..(k - 1) : r \in 1..k
      OBVIOUS
    <3>2. h[k - 1][p] = h[0][p]
      BY <1>2, <2>3, <3>1 DEF Done
    <3> QED BY <2>2, <2>3, <3>1, <3>2
  <2>4. ASSUME NEW r \in 1..k, NEW j \in 1..Width
        PROVE  h[k][seq[r].offset + j] = Encoded(Distance(f, seq[r]))[j]
    <3>1. CASE r = k
      <4>1. Patch(seq[k]) = o + 1 .. o + Width /\ Width \in Nat
        BY OperandRange DEF Patch
      <4> HIDE DEF o
      <4>2. o + j \in 1..n /\ o + j \in Patch(seq[k]) /\ (o + j) - o = j
        BY <2>1, <4>1
      <4> QED BY <2>2, <3>1, <4>2 DEF o
    <3>2. CASE r # k
      <4> DEFINE q == seq[r].offset
      <4>1. r \in 1..(k - 1) /\ r \in 1..m /\ r < k
        BY <3>2
      <4>2. q \in Nat /\ q + Width <= n /\ q + Width < o
        BY <4>1
      <4>3. h[k - 1][q + j] = Encoded(Distance(f, seq[r]))[j]
        BY <1>2, <4>1 DEF Done
      <4> HIDE DEF q
      <4>4. q + j \in 1..n /\ q + j \notin Patch(seq[k])
        BY <2>1, <4>2, OperandRange DEF Patch
      <4>5. h[k][q + j] = h[k - 1][q + j]
        BY <2>2, <4>4
      <4> QED BY <4>3, <4>5 DEF q
    <3> QED BY <3>1, <3>2
  <2> QED BY <2>2, <2>3, <2>4 DEF Done
<1>3. Bad = {}
  <2> SUFFICES ASSUME Bad # {} PROVE FALSE
    OBVIOUS
  <2>1. Bad \in SUBSET Nat
    OBVIOUS
  <2>2. PICK k \in Bad : \A j \in Bad : k <= j
    <3> HIDE DEF Bad
    <3> QED BY <2>1, LeastNatural
  <2>3. k \in 0..m /\ ~Done(f, n, seq, h, k)
    OBVIOUS
  <2>4. k \in 1..m /\ k - 1 \in 0..m /\ ~(k <= k - 1)
    BY <1>1, <2>3
  <2>5. k - 1 \notin Bad
    <3> HIDE DEF Bad
    <3> QED BY <2>2, <2>4
  <2>6. Done(f, n, seq, h, k - 1)
    BY <2>4, <2>5
  <2> QED BY <1>2, <2>3, <2>4, <2>6
<1>4. m \in 0..m
  OBVIOUS
<1> QED BY <1>3, <1>4

LEMMA ReferenceFits ==
    ASSUME NEW f, NEW items \in Seq(ItemT), NEW strings, Building(f, items, strings),
           NEW r \in DOMAIN f.refs
    PROVE  /\ f.refs[r].offset \in Nat /\ f.refs[r].offset + Width <= f.stream.size
           /\ \E j \in DOMAIN items : Form(items[j]) = "label" /\ f.refs[r] = Reference(items, j)
<1>1. PICK j \in Jumps(items) : f.refs[r] = Reference(items, j)
  BY DEF Building, ReferenceInv
<1>2. j \in DOMAIN items /\ Form(items[j]) = "label" /\ items[j] \in ItemT
      /\ j \in 1..(Len(items) + 1) /\ Len(items) + 1 \in 1..(Len(items) + 1) /\ j < Len(items) + 1
  BY DEF Jumps
<1>3. Address(items, j) \in Nat /\ Address(items, Len(items) + 1) \in Nat
      /\ Address(items, j) + Bytes(items[j]) <= Address(items, Len(items) + 1)
  BY <1>2, Addresses, AddressOrder
<1>4. Bytes(items[j]) = 1 + Width
  BY <1>2, Forms
<1>5. f.refs[r].offset = Address(items, j) + 1 /\ f.stream.size = Address(items, Len(items) + 1)
  BY <1>1 DEF Reference, Building
<1> QED BY <1>1, <1>2, <1>3, <1>4, <1>5, OperandRange

PatchedTo(code, f, m) ==
    /\ code \in [1..f.stream.size -> Nat]
    /\ \A p \in 1..f.stream.size : (\A r \in 1..m : p \notin Patch(f.refs[r])) =>
                                      code[p] = f.stream.buffer[p]
    /\ \A r \in 1..m, j \in 1..Width :
          code[f.refs[r].offset + j] = Encoded(Distance(f, f.refs[r]))[j]

LEMMA RefsTyped ==
    ASSUME NEW refs \in Seq([offset : Nat, label : Labels])
    PROVE  /\ DOMAIN refs = 1..Len(refs) /\ Len(refs) \in Nat
           /\ \A q \in 1..Len(refs) : refs[q].offset \in Nat /\ refs[q].label \in Labels
<1> DEFINE R == [offset : Nat, label : Labels]
<1>1. \A r \in R : r.offset \in Nat /\ r.label \in Labels
  OBVIOUS
<1>2. refs \in Seq(R)
  OBVIOUS
<1> HIDE DEF R
<1>3. DOMAIN refs = 1..Len(refs) /\ Len(refs) \in Nat /\ \A i \in DOMAIN refs : refs[i] \in R
  BY <1>2, Members
<1> QED BY <1>1, <1>3

LEMMA PatchedCode ==
    ASSUME NEW f, NEW items \in Seq(ItemT), NEW strings, Building(f, items, strings),
           Refers(f, items)
    PROVE  PatchedTo(Finalized(f).code, f, Len(Known(f)))
<1> DEFINE n == f.stream.size
           R == [offset : Nat, label : Labels]
           seq == Known(f)
           m == Len(seq)
           V == [1..n -> Nat]
<1>1. n \in Nat /\ f.stream.buffer \in V
  BY DEF Building, StreamInv
<1>2. f.refs \in Seq(R) /\ f.labels \in [Labels -> Nat \cup {None}]
  BY DEF Refers
<1>3. DOMAIN f.refs = 1..Len(f.refs) /\ \A q \in 1..Len(f.refs) : f.refs[q].label \in Labels
  BY <1>2, RefsTyped
<1>4. /\ seq \in Seq(R) /\ m \in 0..Len(f.refs)
      /\ \A r \in 1..m : seq[r] = f.refs[r] /\ f.labels[f.refs[r].label] # None
  <2> HIDE DEF R
  <2> QED BY <1>2, KnownRefs
<1>5. m \in Nat /\ \A r \in 1..m : r \in DOMAIN f.refs
  <2>1. Len(f.refs) \in Nat
    BY <1>2
  <2> HIDE DEF m
  <2> QED BY <1>3, <1>4, <2>1
<1>6. ASSUME NEW r \in 1..m
      PROVE  /\ seq[r].offset \in Nat /\ seq[r].offset + Width <= n
             /\ f.labels[seq[r].label] \in Nat
  <2>1. f.refs[r].offset \in Nat /\ f.refs[r].offset + Width <= n
    BY <1>5, ReferenceFits
  <2>2. f.refs[r].label \in Labels
    BY <1>3, <1>5
  <2>3. f.labels[f.refs[r].label] \in Nat \cup {None}
    BY <1>2, <2>2
  <2> HIDE DEF seq, m, n, R
  <2> QED BY <1>4, <2>1, <2>3
<1>7. \A r, s \in 1..m : r < s => seq[r].offset + Width < seq[s].offset
  <2>1. \A r, s \in DOMAIN f.refs : r < s => f.refs[r].offset + Width < f.refs[s].offset
    BY DEF Building, ReferenceInv
  <2> HIDE DEF seq, m
  <2> QED BY <1>4, <1>5, <2>1
<1>8. f = [nameIndex |-> f.nameIndex, index |-> f.index, locals |-> f.locals,
           code |-> f.code, stream |-> f.stream, labels |-> f.labels, refs |-> f.refs]
  BY DEF Refers
<1>9. \A v \in V, r \in 1..m : Patched(f, v, seq[r]) \in V
  <2> TAKE v \in V, r \in 1..m
  <2> DEFINE e == seq[r]
  <2>1. e.offset \in Nat /\ f.labels[e.label] \in Nat
    BY <1>6
  <2> HIDE DEF e, n, m, seq
  <2>2. Replaces(Patched(f, v, e), v, f, e, n)
    BY <1>1, <2>1, PatchStep
  <2> QED BY <2>2 DEF Replaces, e
<1> HIDE DEF R, n, V
<1>10. PICK h : /\ h[0] = f.stream.buffer
                /\ \A k \in 1..m : h[k] = Patched(f, h[k - 1], seq[k])
                /\ Finalized(f).code = h[m]
  BY <1>1, <1>4, <1>8, <1>9, FinalizedRuns
<1> HIDE DEF seq, m
<1>11. Done(f, n, seq, h, m)
  <2>1. h[0] \in [1..n -> Nat]
    BY <1>1, <1>10 DEF V
  <2> QED BY <1>1, <1>5, <1>6, <1>7, <1>10, <2>1, PatchRuns
<1>12. h[m] \in [1..n -> Nat]
       /\ (\A r \in 1..m, j \in 1..Width : h[m][f.refs[r].offset + j] = Encoded(Distance(f, f.refs[r]))[j])
  BY <1>4, <1>11 DEF Done
<1>13. ASSUME NEW p \in 1..n, \A r \in 1..m : p \notin Patch(f.refs[r])
       PROVE  h[m][p] = f.stream.buffer[p]
  BY <1>4, <1>10, <1>11, <1>13 DEF Done
<1> QED BY <1>10, <1>12, <1>13 DEF PatchedTo, n, m, seq

\* The operand of a jump has bytes of its own.
LEMMA Apart ==
    ASSUME NEW items \in Seq(ItemT), NEW i \in DOMAIN items, NEW j \in Jumps(items),
           NEW p \in Address(items, i) + 1 .. Address(items, i) + Bytes(items[i]),
           p \in Patch(Reference(items, j))
    PROVE  i = j /\ p # Address(items, i) + 1
<1> DEFINE n == Len(items)
           a == Address(items, i)
           b == Address(items, j)
<1>1. n \in Nat /\ DOMAIN items = 1..n /\ j \in 1..n /\ i \in 1..n /\ Form(items[j]) = "label"
      /\ items[i] \in ItemT /\ items[j] \in ItemT
  BY DEF Jumps
<1>2. i \in 1..(n + 1) /\ j \in 1..(n + 1)
  BY <1>1
<1>3. a \in Nat /\ b \in Nat
      /\ (i < j => a + Bytes(items[i]) <= b) /\ (j < i => b + Bytes(items[j]) <= a)
  BY <1>1, <1>2, Addresses, AddressOrder
<1>4. Bytes(items[j]) = 1 + Width /\ Bytes(items[i]) \in Nat
  BY <1>1, Forms, ByteCounts
<1>5. Patch(Reference(items, j)) = b + 2 .. b + 1 + Width
  <2>1. Reference(items, j).offset = b + 1
    BY DEF Reference
  <2> HIDE DEF b
  <2> QED BY <1>3, <2>1, OperandRange DEF Patch
<1>6. p \in a + 1 .. a + Bytes(items[i])
  OBVIOUS
<1>7. p \in b + 2 .. b + 1 + Width
  BY <1>5
<1> HIDE DEF a, b, n
<1>8. i = j
  BY <1>1, <1>3, <1>4, <1>6, <1>7, OperandRange
<1>9. i = j => a = b
  BY DEF a, b
<1>10. p # a + 1
  BY <1>3, <1>7, <1>8, <1>9, OperandRange
<1> QED BY <1>8, <1>10 DEF a

\* Of a jump: its reference is patched, or nothing of it is.
LEMMA PatchedJump ==
    ASSUME NEW f, NEW items \in Seq(ItemT), NEW strings, Building(f, items, strings),
           Refers(f, items), NEW j \in Jumps(items)
    PROVE  LET m == Len(Known(f))
           IN  IF Lost(items, j) THEN \A r \in 1..m : f.refs[r] # Reference(items, j)
               ELSE \E r \in 1..m : f.refs[r] = Reference(items, j)
<1> DEFINE n == Len(f.refs)
           m == Len(Known(f))
           R == [offset : Nat, label : Labels]
<1>1. f.refs \in Seq(R)
  BY DEF Refers
<1>2. /\ n \in Nat /\ DOMAIN f.refs = 1..n
      /\ \A q \in 1..n : f.refs[q].label \in Labels
  BY <1>1, RefsTyped
<1>3. /\ m \in 0..n /\ \A r \in 1..m : f.labels[f.refs[r].label] # None
      /\ m < n => f.labels[f.refs[m + 1].label] = None
  <2> HIDE DEF R
  <2> QED BY <1>1, KnownRefs
<1> HIDE DEF m
<1>4. ReferenceInv(f.refs, items)
  BY DEF Building
<1>5. PICK r \in 1..n : f.refs[r] = Reference(items, j)
  BY <1>2, <1>4 DEF ReferenceInv
<1>6. \A i \in Jumps(items) : /\ i \in 1..Len(items) /\ Form(items[i]) = "label"
                              /\ items[i] \in ItemT /\ Reference(items, i).label = items[i].word
  BY DEF Jumps, Reference
<1>7. \A i \in Jumps(items), k \in Jumps(items) :
          Reference(items, i).offset <= Reference(items, k).offset <=> i <= k
  <2> TAKE i \in Jumps(items), k \in Jumps(items)
  <2>1. i \in 1..Len(items) /\ k \in 1..Len(items) /\ Bytes(items[i]) = 1 + Width
        /\ Bytes(items[k]) = 1 + Width
    BY <1>6, Forms
  <2>2. i \in 1..(Len(items) + 1) /\ k \in 1..(Len(items) + 1)
    BY <2>1
  <2>3. Address(items, i) \in Nat /\ Address(items, k) \in Nat
        /\ (i < k => Address(items, i) + Bytes(items[i]) <= Address(items, k))
        /\ (k < i => Address(items, k) + Bytes(items[k]) <= Address(items, i))
    BY <2>1, <2>2, Addresses, AddressOrder
  <2>4. Reference(items, i).offset = Address(items, i) + 1
        /\ Reference(items, k).offset = Address(items, k) + 1
    BY DEF Reference
  <2> QED BY <2>1, <2>3, <2>4, OperandRange
<1>8. \A q \in 1..n, s \in 1..n : q < s => f.refs[q].offset + Width < f.refs[s].offset
  BY <1>2, <1>4 DEF ReferenceInv
<1>9. \A q \in 1..n : f.refs[q].offset \in Nat
  BY <1>2, ReferenceFits
<1>10. \A l \in Labels : f.labels[l] = None <=> Places(items, l) = {}
  BY DEF Refers
<1> HIDE DEF n, R
<1>11. CASE Lost(items, j)
  <2>1. PICK i \in 1..j : Form(items[i]) = "label" /\ Places(items, items[i].word) = {}
    BY <1>11 DEF Lost
  <2>2. i \in Jumps(items) /\ i <= j
    <3>1. j \in 1..Len(items)
      BY <1>6
    <3>2. i \in DOMAIN items
      BY <3>1
    <3> QED BY <2>1, <3>2 DEF Jumps
  <2>3. PICK q \in 1..n : f.refs[q] = Reference(items, i)
    BY <1>2, <1>4, <2>2 DEF ReferenceInv
  <2>4. f.labels[f.refs[q].label] = None
    BY <1>6, <1>2, <1>10, <2>1, <2>2, <2>3
  <2>5. ASSUME NEW s \in 1..m, f.refs[s] = Reference(items, j) PROVE FALSE
    <3>1. s \in 1..n
      BY <1>2, <1>3
    <3>2. s < q
      <4>1. q \notin 1..m
        BY <1>3, <2>4
      <4> QED BY <1>2, <1>3, <4>1
    <3>3. f.refs[s].offset + Width < f.refs[q].offset
      BY <1>8, <3>1, <3>2
    <3>4. Reference(items, i).offset <= Reference(items, j).offset
      BY <1>7, <2>2
    <3>5. f.refs[q].offset <= f.refs[s].offset
      BY <2>3, <2>5, <3>4
    <3> QED BY <1>9, <3>1, <3>3, <3>5, OperandRange
  <2> QED BY <1>11, <2>5 DEF m
<1>12. CASE ~Lost(items, j)
  <2>1. r \in 1..m
    <3> SUFFICES ASSUME r \notin 1..m PROVE FALSE
      OBVIOUS
    <3>1. m < n /\ m + 1 \in 1..n /\ m + 1 <= r
      BY <1>2, <1>3
    <3>2. PICK i \in Jumps(items) : f.refs[m + 1] = Reference(items, i)
      BY <1>2, <1>4, <3>1 DEF ReferenceInv
    <3>3. Places(items, items[i].word) = {}
      BY <1>3, <1>6, <1>2, <1>10, <3>1, <3>2
    <3>4. f.refs[m + 1].offset <= f.refs[r].offset
      <4>1. CASE m + 1 = r
        BY <1>9, <4>1
      <4>2. CASE m + 1 # r
        <5>1. m + 1 < r
          BY <1>3, <1>2, <3>1, <4>2
        <5>2. f.refs[m + 1].offset + Width < f.refs[r].offset
          BY <1>8, <3>1, <5>1
        <5> QED BY <1>9, <3>1, <5>2, OperandRange
      <4> QED BY <4>1, <4>2
    <3>5. i <= j
      BY <1>5, <1>7, <3>2, <3>4
    <3>6. i \in 1..j /\ Form(items[i]) = "label"
      BY <1>6, <3>5
    <3> QED BY <1>12, <3>3, <3>6 DEF Lost
  <2> QED BY <1>5, <1>12, <2>1 DEF m
<1> QED BY <1>11, <1>12

LEMMA JumpArithmetic ==
    ASSUME NEW M \in Nat \ {0}, NEW a \in Nat, NEW w \in Nat, NEW L \in 0..(M - 1)
    PROVE  (a + ((w + ((L - (a + w)) % M)) % M)) % M = L
<1> DEFINE x == L - (a + w)
           q == x \div M
           t == x % M
           y == w + t
           p == y \div M
           u == y % M
           d == 0 - (p + q)
<1> SUFFICES (a + u) % M = L
  OBVIOUS
<1>1. x \in Int /\ L \in Nat
  OBVIOUS
<1>2. q \in Int /\ x = M * q + t /\ t \in 0..(M - 1)
  <2> HIDE DEF x
  <2> QED BY <1>1, Quotient
<1> HIDE DEF q, t
<1>3. y \in Int
  BY <1>2
<1>4. p \in Int /\ y = M * p + u /\ u \in 0..(M - 1)
  <2> HIDE DEF y
  <2> QED BY <1>3, Quotient
<1> HIDE DEF p, u
<1>5. d \in Int /\ M * d = 0 - (M * p + M * q)
  BY <1>2, <1>4
<1>6. a + u = M * d + L
  <2> DEFINE e == M * p
             f == M * q
             g == M * d
  <2>1. e \in Int /\ f \in Int /\ g = 0 - (e + f) /\ u \in Int /\ t \in Int
    BY <1>2, <1>4, <1>5
  <2>2. L - (a + w) = f + t /\ w + t = e + u
    BY <1>2, <1>4
  <2> HIDE DEF d, e, f, g, x, y
  <2>3. a + u = g + L
    BY <1>1, <2>1, <2>2
  <2> QED BY <2>3 DEF g
<1>7. a + u \in Int
  BY <1>4
<1> DEFINE z == a + u
<1>8. z \in Int /\ z = M * d + L
  BY <1>6, <1>7
<1> HIDE DEF d, z
<1>9. z % M = L
  BY <1>5, <1>8, Divided
<1> QED BY <1>9 DEF z

LEMMA Remains == ASSUME NEW M \in Nat \ {0}, NEW x \in 0..(M - 1) PROVE x % M = x
<1>1. x \in Int /\ 0 \in Int /\ x = M * 0 + x
  OBVIOUS
<1> QED BY <1>1, Divided

\* The bytes that no jump is patched into.
LEMMA ByteKept ==
    ASSUME NEW f, NEW items \in Seq(ItemT), NEW strings, Building(f, items, strings),
           Refers(f, items), NEW i \in DOMAIN items,
           NEW p \in Address(items, i) + 1 .. Address(items, i) + Bytes(items[i]),
           p = Address(items, i) + 1 \/ i \notin Jumps(items) \/ Lost(items, i)
    PROVE  Finalized(f).code[p] = f.stream.buffer[p]
<1> DEFINE n == f.stream.size
           m == Len(Known(f))
           code == Finalized(f).code
<1>1. p \in 1..n
  <2>1. i \in 1..(Len(items) + 1) /\ Len(items) + 1 \in 1..(Len(items) + 1) /\ i < Len(items) + 1
    OBVIOUS
  <2>2. /\ Address(items, i) \in Nat /\ Address(items, Len(items) + 1) \in Nat
        /\ Address(items, i) + Bytes(items[i]) <= Address(items, Len(items) + 1)
    BY <2>1, Addresses, AddressOrder
  <2>3. n = Address(items, Len(items) + 1) /\ Bytes(items[i]) \in Nat
    BY ByteCounts DEF Building
  <2> HIDE DEF n
  <2> QED BY <2>2, <2>3
<1>2. PatchedTo(code, f, m)
  BY PatchedCode
<1>3. m \in 0..Len(f.refs) /\ f.refs \in Seq([offset : Nat, label : Labels])
      /\ DOMAIN f.refs = 1..Len(f.refs) /\ Len(f.refs) \in Nat
  <2>1. f.refs \in Seq([offset : Nat, label : Labels])
    BY DEF Refers
  <2>2. m \in 0..Len(f.refs)
    BY <2>1, KnownRefs
  <2> HIDE DEF m
  <2> QED BY <2>1, <2>2, RefsTyped
<1> HIDE DEF n, m, code
<1>4. ASSUME NEW r \in 1..m, p \in Patch(f.refs[r]) PROVE FALSE
  <2>1. r \in DOMAIN f.refs
    BY <1>3
  <2>2. PICK j \in Jumps(items) : f.refs[r] = Reference(items, j)
    BY <2>1 DEF Building, ReferenceInv
  <2>3. i = j /\ p # Address(items, i) + 1
    <3>1. p \in Patch(Reference(items, j))
      BY <1>4, <2>2
    <3> QED BY <3>1, Apart
  <2>4. i \in Jumps(items) /\ Lost(items, i)
    BY <2>2, <2>3
  <2>5. \A s \in 1..m : f.refs[s] # Reference(items, i)
    BY <2>4, PatchedJump DEF m
  <2> QED BY <2>2, <2>3, <2>5
<1>5. code[p] = f.stream.buffer[p]
  BY <1>1, <1>2, <1>4 DEF PatchedTo, n
<1> QED BY <1>5 DEF code

\* What was emitted is executed.
LEMMA FinishedExecutes ==
    ASSUME NEW f, NEW items \in Seq(ItemT), NEW T, NEW strings \in Seq(T),
           Building(f, items, strings), Refers(f, items),
           (1 + Width) * Len(items) < Modulus, Len(strings) < Modulus,
           NEW i \in DOMAIN items, Instruction(items[i])
    PROVE  Executes(Finalized(f).code, items, i, strings)
<1> DEFINE n == f.stream.size
           m == Len(Known(f))
           M == Modulus
           code == Finalized(f).code
           buffer == f.stream.buffer
           item == items[i]
           ip == Address(items, i)
           end == Address(items, Len(items) + 1)
           b == Bytes(item)
           lost == Lost(items, i)
<1>1. /\ M \in Nat \ {0} /\ Width \in Nat \ {0}
      /\ i \in 1..(Len(items) + 1) /\ Len(items) + 1 \in 1..(Len(items) + 1) /\ i < Len(items) + 1
      /\ item \in ItemT /\ Len(items) \in Nat
  BY OperandRange
<1>2. ip \in Nat /\ end \in Nat /\ ip + b <= end /\ n = end
  <2>1. n = end
    BY DEF Building
  <2>2. ip \in Nat /\ end \in Nat /\ ip + b <= end
    BY <1>1, Addresses, AddressOrder
  <2> QED BY <2>1, <2>2
<1>3. end < M
  <2> DEFINE t == (1 + Width) * Len(items)
  <2>1. t \in Nat /\ t < M
    BY <1>1
  <2>2. end <= (1 + Width) * ((Len(items) + 1) - 1)
    BY <1>1, AddressOrder
  <2>3. (Len(items) + 1) - 1 = Len(items)
    BY <1>1
  <2>4. end <= t
    BY <2>2, <2>3
  <2> HIDE DEF t, end, M
  <2> QED BY <1>1, <1>2, <2>1, <2>4
<1>4. /\ b \in {1, 1 + Width}
      /\ (Form(item) \in {"number", "string", "label"} => b = 1 + Width)
  BY <1>1, Forms
<1>5. /\ buffer[ip + 1] = Prefixed(item.op, item.ref)
      /\ Form(item) = "number" => item.num < M /\ Carries(buffer, ip, item.num)
      /\ Form(item) = "string" =>
            \E v \in DOMAIN strings : strings[v] = item.word /\ Carries(buffer, ip, v - 1)
      /\ Form(item) = "label" => Carries(buffer, ip, 0)
  BY DEF Building, Emitted
<1>6. PatchedTo(code, f, m)
  BY PatchedCode
<1>7. code \in Seq(Nat) /\ Len(code) = end
  <2>1. code \in [1..n -> Nat]
    BY <1>6 DEF PatchedTo
  <2> HIDE DEF n, code, end
  <2> QED BY <1>2, <2>1
<1>8. \A p \in ip + 1 .. ip + b : p = ip + 1 \/ i \notin Jumps(items) \/ lost => code[p] = buffer[p]
  BY ByteKept
<1>9. i \in Jumps(items) <=> Form(item) = "label"
  BY DEF Jumps
<1>10. Form(item) = "label" =>
           IF lost THEN \A r \in 1..m : f.refs[r] # Reference(items, i)
           ELSE \E r \in 1..m : f.refs[r] = Reference(items, i)
  BY <1>9, PatchedJump
<1>11. f.labels \in [Labels -> Nat \cup {None}] /\ \A l \in Labels : f.labels[l] = None <=> Places(items, l) = {}
  BY DEF Refers
<1>12. \A r \in 1..m : f.refs[r].label \in Labels
  <2>1. f.refs \in Seq([offset : Nat, label : Labels])
    BY DEF Refers
  <2>2. m \in 0..Len(f.refs)
    BY <2>1, KnownRefs
  <2>3. Len(f.refs) \in Nat /\ \A q \in 1..Len(f.refs) : f.refs[q].label \in Labels
    BY <2>1, RefsTyped
  <2> HIDE DEF m
  <2>4. \A r \in 1..m : r \in 1..Len(f.refs)
    BY <2>2, <2>3
  <2> QED BY <2>3, <2>4
<1>13. \A l \in Labels : f.labels[l] # None => f.labels[l] = LabelAddress(items, l)
  BY DEF Building
<1>14. lost <=> \E j \in 1..i : Form(items[j]) = "label" /\ Places(items, items[j].word) = {}
  BY DEF Lost
<1>15. Executes(code, items, i, strings) <=>
           /\ code[ip + 1] = Prefixed(item.op, item.ref)
           /\ Form(item) = "number" => Operand(code, ip + 1) = item.num
           /\ Form(item) = "string" => /\ Operand(code, ip + 1) + 1 \in DOMAIN strings
                                       /\ strings[Operand(code, ip + 1) + 1] = item.word
           /\ Form(item) = "label" => Follow(code, ip) = IF lost THEN ip + 1 + Width
                                                         ELSE LabelAddress(items, item.word)
  BY DEF Executes
<1>16. Len(strings) < M
  OBVIOUS
<1>17. \A l \in Labels : Places(items, l) # {} => LabelAddress(items, l) \in 0..(M - 1)
  <2> TAKE l \in Labels
  <2> HAVE Places(items, l) # {}
  <2>1. PICK j \in DOMAIN items : LabelAddress(items, l) = Address(items, j)
    BY LabelPlaced
  <2>2. j \in 1..(Len(items) + 1)
    OBVIOUS
  <2>3. Address(items, j) \in Nat /\ Address(items, j) <= end
    BY <2>2, Addresses, AddressOrder
  <2> HIDE DEF end, M
  <2> QED BY <1>1, <1>2, <1>3, <2>1, <2>3
<1> SUFFICES Executes(code, items, i, strings)
  OBVIOUS
<1> HIDE DEF n, m, M, code, buffer, item, ip, end, b, lost
<1>18. code[ip + 1] = Prefixed(item.op, item.ref)
  <2>1. ip + 1 \in ip + 1 .. ip + b
    BY <1>1, <1>2, <1>4
  <2> QED BY <1>5, <1>8, <2>1
<1>19. ASSUME NEW v, b = 1 + Width, i \notin Jumps(items) \/ lost, Carries(buffer, ip, v)
       PROVE  Carries(code, ip, v)
  <2> SUFFICES ASSUME NEW k \in 1..Width PROVE code[ip + 1 + k] = Encoded(v)[k]
    BY DEF Carries
  <2>1. ip + 1 + k \in ip + 1 .. ip + b
    BY <1>1, <1>2, <1>19
  <2> QED BY <1>8, <1>19, <2>1 DEF Carries
<1>20. ASSUME NEW v \in 0..(M - 1), b = 1 + Width, Carries(code, ip, v)
       PROVE  Operand(code, ip + 1) = v
  <2> DEFINE pos == ip + 1
  <2>1. pos \in Nat /\ pos + Width <= Len(code)
    BY <1>1, <1>2, <1>7, <1>20
  <2>2. \A k \in 1..Width : code[pos + k] = Encoded(v)[k]
    BY <1>20 DEF Carries
  <2>3. v \in 0..(Modulus - 1)
    BY DEF M
  <2> HIDE DEF pos
  <2>4. Operand(code, pos) = v
    BY <1>7, <2>1, <2>2, <2>3, OperandRead
  <2> QED BY <2>4 DEF pos
<1>21. ASSUME Form(item) = "number" PROVE Operand(code, ip + 1) = item.num
  <2>1. item.num \in Nat
    BY <1>1 DEF ItemT
  <2>2. item.num \in 0..(M - 1)
    BY <1>1, <1>5, <1>21, <2>1
  <2>3. Carries(code, ip, item.num) /\ b = 1 + Width
    BY <1>4, <1>5, <1>9, <1>19, <1>21
  <2> QED BY <1>20, <2>2, <2>3
<1>22. ASSUME Form(item) = "string"
       PROVE  Operand(code, ip + 1) + 1 \in DOMAIN strings /\ strings[Operand(code, ip + 1) + 1] = item.word
  <2>1. PICK v \in DOMAIN strings : strings[v] = item.word /\ Carries(buffer, ip, v - 1)
    BY <1>5, <1>22
  <2>2. v \in 1..Len(strings) /\ Len(strings) \in Nat
    OBVIOUS
  <2>3. v - 1 \in 0..(M - 1) /\ (v - 1) + 1 = v
    BY <1>1, <1>16, <2>2
  <2>4. Carries(code, ip, v - 1) /\ b = 1 + Width
    BY <1>4, <1>9, <1>19, <1>22, <2>1
  <2>5. Operand(code, ip + 1) = v - 1
    BY <1>20, <2>3, <2>4
  <2> QED BY <2>1, <2>3, <2>5
<1>23. Follow(code, ip) = (ip + ((1 + Width + Operand(code, ip + 1)) % M)) % M
  BY DEF Follow, M
<1>24. ASSUME Form(item) = "label", lost PROVE Follow(code, ip) = ip + 1 + Width
  <2>1. Carries(code, ip, 0) /\ b = 1 + Width
    BY <1>4, <1>5, <1>19, <1>24
  <2>2. 0 \in 0..(M - 1)
    BY <1>1
  <2>3. Operand(code, ip + 1) = 0
    BY <1>20, <2>1, <2>2
  <2>4. 1 + Width \in 0..(M - 1) /\ ip + (1 + Width) \in 0..(M - 1)
    BY <1>1, <1>2, <1>3, <2>1
  <2>5. (1 + Width) % M = 1 + Width /\ (ip + (1 + Width)) % M = ip + (1 + Width)
    BY <1>1, <2>4, Remains
  <2>6. 1 + Width + 0 = 1 + Width /\ ip + (1 + Width) = ip + 1 + Width
    BY <1>1, <1>2
  <2> QED BY <1>23, <2>3, <2>5, <2>6
<1>25. ASSUME Form(item) = "label", ~lost PROVE Follow(code, ip) = LabelAddress(items, item.word)
  <2> DEFINE L == LabelAddress(items, item.word)
  <2>1. PICK r \in 1..m : f.refs[r] = Reference(items, i)
    BY <1>10, <1>25
  <2>2. f.refs[r].offset = ip + 1 /\ f.refs[r].label = item.word /\ item.word \in Labels
    <3>1. Reference(items, i).offset = ip + 1 /\ Reference(items, i).label = item.word
      BY DEF Reference, ip, item
    <3> QED BY <1>12, <2>1, <3>1
  <2>3. Places(items, item.word) # {}
    <3>1. i \in 1..i
      BY <1>1
    <3> QED BY <1>14, <1>25, <3>1 DEF item
  <2>4. f.labels[item.word] = L /\ L \in 0..(M - 1)
    BY <1>11, <1>13, <1>17, <2>2, <2>3
  <2> HIDE DEF L
  <2> DEFINE v == Distance(f, f.refs[r])
             w == 1 + Width
  <2>5. v = (L - (ip + w)) % M
    <3>1. v = (L - (ip + 1 + Width)) % M
      BY <2>2, <2>4 DEF Distance, M
    <3>2. ip + 1 + Width = ip + w
      BY <1>1, <1>2
    <3> QED BY <3>1, <3>2
  <2>6. Carries(code, ip, v)
    <3>1. \A j \in 1..Width : code[f.refs[r].offset + j] = Encoded(v)[j]
      BY <1>6 DEF PatchedTo
    <3> QED BY <2>2, <3>1 DEF Carries
  <2>7. v \in 0..(M - 1)
    <3>1. f.refs[r].offset \in Nat /\ f.labels[f.refs[r].label] \in Nat
      BY <1>1, <1>2, <2>2, <2>4
    <3> QED BY <3>1, DistanceType DEF M
  <2> HIDE DEF v
  <2>8. Operand(code, ip + 1) = v
    BY <1>4, <1>20, <1>25, <2>6, <2>7
  <2>9. Follow(code, ip) = (ip + ((w + v) % M)) % M
    BY <1>23, <2>8
  <2>10. w \in Nat
    BY <1>1
  <2> HIDE DEF w
  <2>11. (ip + ((w + ((L - (ip + w)) % M)) % M)) % M = L
    BY <1>1, <1>2, <2>4, <2>10, JumpArithmetic
  <2> QED BY <2>5, <2>9, <2>11 DEF L
<1> QED BY <1>15, <1>18, <1>21, <1>22, <1>24, <1>25

LEMMA FinishedWritten ==
    ASSUME NEW f, NEW items \in Seq(ItemT), NEW T, NEW strings \in Seq(T),
           Building(f, items, strings), Refers(f, items),
           (1 + Width) * Len(items) < Modulus, Len(strings) < Modulus
    PROVE  Written(Finalized(f), items, strings)
<1> DEFINE g == Finalized(f)
<1>1. g.locals = f.locals
  <2>1. f = [nameIndex |-> f.nameIndex, index |-> f.index, locals |-> f.locals,
             code |-> f.code, stream |-> f.stream, labels |-> f.labels, refs |-> f.refs]
    BY DEF Refers
  <2> QED BY <2>1 DEF Finalized
<1>2. Len(g.code) = Address(items, Len(items) + 1)
  <2> DEFINE n == f.stream.size
             code == g.code
  <2>1. code \in [1..n -> Nat]
    BY PatchedCode DEF PatchedTo
  <2>2. n \in Nat /\ n = Address(items, Len(items) + 1)
    BY DEF Building, StreamInv
  <2> HIDE DEF n, code
  <2>3. Len(code) = n
    BY <2>1, <2>2
  <2> QED BY <2>2, <2>3 DEF code
<1>3. ASSUME NEW i \in DOMAIN items, Instruction(items[i]) PROVE Executes(g.code, items, i, strings)
  BY <1>3, FinishedExecutes
<1>4. f.locals = LocalsOf(items)
  BY DEF Building
<1> HIDE DEF g
<1> QED BY <1>1, <1>2, <1>3, <1>4 DEF Written, g

LEMMA WrittenKept ==
    ASSUME NEW f, NEW items, NEW strings, NEW more, Written(f, items, strings),
           Keeps(strings, more)
    PROVE  Written(f, items, more)
<1>1. ASSUME NEW i \in DOMAIN items, Executes(f.code, items, i, strings)
      PROVE  Executes(f.code, items, i, more)
  BY <1>1 DEF Executes, Keeps
<1> QED BY <1>1 DEF Written

LEMMA BuildingKept ==
    ASSUME NEW f, NEW items, NEW strings, NEW more, Building(f, items, strings),
           Keeps(strings, more)
    PROVE  Building(f, items, more)
<1>1. ASSUME NEW i \in DOMAIN items, Emitted(f.stream.buffer, items, i, strings)
      PROVE  Emitted(f.stream.buffer, items, i, more)
  BY <1>1 DEF Emitted, Keeps
<1> QED BY <1>1 DEF Building

-----------------------------------------------------------------------------
(* The steps keep what was written.                                          *)

LEMMA NoFunctions == Count(<<>>) = 0
<1>1. <<>> \in Seq(FunctionT) /\ Len(<<>>) = 0
  OBVIOUS
<1>2. PICK h : RunsUp(h, Len(<<>>), Counts(<<>>)) /\ Count(<<>>) = h[Len(<<>>)]
  BY <1>1, CountRuns
<1> QED BY <1>1, <1>2 DEF RunsUp

LEMMA ItemsCounted == Items = Count(source)
BY DEF Items, Count

LEMMA ItemsCountedNext == Items' = Count(source')
<1>1. (Items = Count(source))'
  BY ItemsCounted, PTL
<1> QED BY <1>1

LEMMA InitCode == Init => CodeInv
<1> SUFFICES ASSUME Init PROVE CodeInv
  OBVIOUS
<1>1. source = <<>> /\ script.strings = <<>> /\ at = "functions"
  BY DEF Init, EmptyScript
<1>2. Items = 0
  BY <1>1, NoFunctions DEF Items, Count
<1>3. MaxItems \in Nat /\ MaxFunctions \in Nat
  BY CompilerAssumption
<1>4. ~InFunction
  BY <1>1 DEF InFunction
<1> QED BY <1>1, <1>2, <1>3, <1>4 DEF CodeInv

LEMMA LastIsNotFinal ==
    ASSUME CInv, InFunction, NEW k \in DOMAIN source, Final(k)
    PROVE  k < Len(source) /\ source[k].name # current
<1> DEFINE n == Len(source)
<1>1. n \in Nat \ {0} /\ DOMAIN source = 1..n /\ current = source[n].name
  BY LastFunction DEF CInv
<1>2. k < n
  BY DEF Final, Parsed, InFunction
<1>3. \A j \in 1..n : source[j].name = source[k].name => j <= k
  BY <1>1 DEF Final
<1>4. n \in 1..n /\ ~(n <= k)
  <2> HIDE DEF n
  <2> QED BY <1>1, <1>2
<1> QED BY <1>1, <1>2, <1>3, <1>4

LEMMA ReduceCode ==
    ASSUME CInv, NamesInv, CodeInv, InFunction, NEW s, NEW f, NEW item \in ItemT,
           s = [strings |-> s.strings, functions |-> script.functions],
           Keeps(script.strings, s.strings), Len(s.strings) <= Len(script.strings) + 1,
           Building(f, Append(source[Len(source)].items, item), s.strings),
           Reduce(s, f, item, "statement")
    PROVE  CodeInv'
<1> DEFINE n == Len(source)
           items == source[n].items
           more == Append(items, item)
<1>1. /\ n \in Nat \ {0} /\ DOMAIN source = 1..n
      /\ \A k \in 1..n : source[k].name \in Names /\ source[k].items \in Seq(ItemT)
      /\ current = source[n].name /\ current \in Defined(script)
  BY LastFunction DEF CInv
<1>2. /\ source' \in Seq(FunctionT) /\ DOMAIN source' = 1..n /\ Len(source') = n
      /\ source'[n] = [name |-> source[n].name, items |-> more]
      /\ \A k \in 1..n : k # n => source'[k] = source[k]
  BY Reduced
<1>3. /\ script'.strings = s.strings /\ Defined(script)' = Defined(script)
      /\ \A m \in Defined(script) : script'.functions[m] =
            IF m = current THEN f ELSE script.functions[m]
      /\ at' = "statement" /\ phase' = phase /\ current' = current
  BY Reduced
<1>4. /\ Len(source) <= MaxFunctions /\ Len(script.strings) <= Len(source) + Items
      /\ \A k \in 1..n : source[k].name \in Defined(script)
      /\ \A k \in DOMAIN source : Final(k) =>
            Written(script.functions[source[k].name], source[k].items, script.strings)
  BY <1>1 DEF CodeInv
<1>5. Items' = Items + 1
  <2>1. source \in Seq(FunctionT)
    BY DEF CInv, ParserInv, FunctionT
  <2>2. \A k \in 1..(n - 1) : source'[k].items = source[k].items
    <3> HIDE DEF n
    <3>1. \A k \in 1..(n - 1) : k \in 1..n /\ k # n
      BY <1>1
    <3> QED BY <1>2, <3>1
  <2>3. Len(source'[n].items) = Len(source[n].items) + 1
    <3>1. n \in 1..n
      <4> HIDE DEF n
      <4> QED BY <1>1
    <3>2. items \in Seq(ItemT)
      BY <1>1, <3>1
    <3>3. Len(more) = Len(items) + 1
      <4> HIDE DEF items
      <4> QED BY <3>2
    <3>4. source'[n].items = more
      BY <1>2
    <3> QED BY <3>3, <3>4
  <2> DEFINE new == source'
  <2>4. new \in Seq(FunctionT) /\ Len(new) = n /\ Len(source) = n
    BY <1>2
  <2> HIDE DEF new, n
  <2>5. Count(new) = Count(source) + 1
    BY <1>1, <2>1, <2>2, <2>3, <2>4, CountMore DEF new
  <2> QED BY <2>5, ItemsCounted, ItemsCountedNext DEF new
<1>6. Items < MaxItems /\ Items \in Nat /\ MaxItems \in Nat
  <2>1. source \in Seq(FunctionT)
    BY DEF CInv, ParserInv, FunctionT
  <2>2. Count(source) \in Nat
    BY <2>1, CountsAll
  <2> QED BY <2>2, CompilerAssumption DEF Reduce, Items, Count
<1>7. Len(script.strings) \in Nat /\ Len(s.strings) \in Nat
  BY DEF NamesInv, Keeps
<1> HIDE DEF n, items, more
<1>8. /\ (Items <= MaxItems)' /\ (Len(source) <= MaxFunctions)'
      /\ (Len(script.strings) <= Len(source) + Items)'
  BY <1>1, <1>2, <1>3, <1>4, <1>5, <1>6, <1>7 DEF n
<1>9. \A k \in 1..n : source'[k].name = source[k].name
  BY <1>2
<1>10. InFunction' /\ This' = f /\ source'[Len(source')].items = more
  BY <1>1, <1>2, <1>3 DEF InFunction, This
<1>11. ASSUME NEW k \in 1..n, Final(k)'
       PROVE  Written(script'.functions[source'[k].name], source'[k].items, script'.strings)
  <2>1. k < n
    BY <1>2, <1>3, <1>11 DEF Final, Parsed
  <2>2. Parsed(k)
    BY <1>1, <2>1 DEF Parsed, n
  <2>3. Final(k)
    BY <1>1, <1>2, <1>9, <1>11, <2>2 DEF Final
  <2>4. source[k].name # current /\ source[k].name \in Defined(script)
    BY <1>1, <1>4, <2>3, LastIsNotFinal
  <2>5. Written(script.functions[source[k].name], source[k].items, script.strings)
    BY <1>1, <1>4, <2>3
  <2>6. source'[k] = source[k]
    BY <1>1, <1>2, <2>1
  <2>7. script'.functions[source'[k].name] = script.functions[source[k].name]
    BY <1>3, <2>4, <2>6
  <2> QED BY <1>3, <2>5, <2>6, <2>7, WrittenKept
<1>12. Building(f, more, s.strings)
  BY DEF more, items, n
<1>13. (\A k \in DOMAIN source : source[k].name \in Defined(script))'
  BY <1>2, <1>3, <1>4, <1>9
<1>14. (InFunction => Building(This, source[Len(source)].items, script.strings))'
  BY <1>3, <1>10, <1>12
<1>15. (\A k \in DOMAIN source : Final(k) =>
          Written(script.functions[source[k].name], source[k].items, script.strings))'
  BY <1>2, <1>11
<1> QED BY <1>8, <1>13, <1>14, <1>15 DEF CodeInv

-----------------------------------------------------------------------------
(* The reductions.                                                           *)

LEMMA ThisBuilding ==
    ASSUME CInv, CodeInv, InFunction
    PROVE  LET items == source[Len(source)].items
           IN  /\ items \in Seq(ItemT) /\ Len(items) \in Nat
               /\ Building(This, items, script.strings) /\ Refers(This, items)
               /\ StreamInv(This.stream)
               /\ This.stream.size = Address(items, Len(items) + 1) /\ This.stream.size \in Nat
               /\ This.stream.position = This.stream.size
               /\ This = [nameIndex |-> This.nameIndex, index |-> This.index,
                          locals |-> This.locals, code |-> This.code, stream |-> This.stream,
                          labels |-> This.labels, refs |-> This.refs]
<1> DEFINE n == Len(source)
           items == source[n].items
<1>1. n \in 1..n /\ \A k \in 1..n : source[k].items \in Seq(ItemT)
  <2>1. n \in Nat \ {0} /\ \A k \in 1..n : source[k].items \in Seq(ItemT)
    BY LastFunction DEF CInv
  <2> HIDE DEF n
  <2> QED BY <2>1
<1>2. items \in Seq(ItemT) /\ Refers(This, items)
  <2>1. items \in Seq(ItemT)
    BY <1>1
  <2> QED BY <2>1, LastFunction DEF CInv
<1>3. Building(This, items, script.strings)
  BY DEF CodeInv
<1> HIDE DEF items
<1>4. Len(items) \in Nat
  BY <1>2
<1>5. StreamInv(This.stream) /\ This.stream.size = Address(items, Len(items) + 1)
  BY <1>3 DEF Building
<1>6. This.stream.size \in Nat /\ This.stream.position = This.stream.size
  BY <1>5 DEF StreamInv
<1>7. This = [nameIndex |-> This.nameIndex, index |-> This.index,
                          locals |-> This.locals, code |-> This.code, stream |-> This.stream,
                          labels |-> This.labels, refs |-> This.refs]
  BY <1>2 DEF Refers
<1> QED BY <1>2, <1>3, <1>4, <1>5, <1>6, <1>7 DEF items

LEMMA EmittedLast ==
    ASSUME NEW items \in Seq(ItemT), NEW x \in ItemT, NEW bytes, NEW strings, NEW ip,
           ip = Address(items, Len(items) + 1),
           bytes[ip + 1] = Prefixed(x.op, x.ref),
           Form(x) = "number" => x.num < Modulus /\ Carries(bytes, ip, x.num),
           Form(x) = "string" => \E v \in DOMAIN strings : strings[v] = x.word /\ Carries(bytes, ip, v - 1),
           Form(x) = "label" => Carries(bytes, ip, 0)
    PROVE  Emitted(bytes, Append(items, x), Len(items) + 1, strings)
<1> DEFINE n == Len(items)
           more == Append(items, x)
<1>1. more[n + 1] = x /\ n + 1 \in 1..(Len(items) + 1)
  OBVIOUS
<1>2. Address(more, n + 1) = ip
  BY <1>1, AddressKept
<1> HIDE DEF n, more
<1>3. Emitted(bytes, more, n + 1, strings)
  BY <1>1, <1>2 DEF Emitted
<1> QED BY <1>3 DEF n, more

\* What an emitted instruction does to the function.
LEMMA OpStream ==
    ASSUME NEW f, StreamInv(f.stream), NEW op \in Opcodes, NEW ref, NEW g, g = EmitOp(f, op, ref),
           f = [nameIndex |-> f.nameIndex, index |-> f.index, locals |-> f.locals,
                code |-> f.code, stream |-> f.stream, labels |-> f.labels, refs |-> f.refs]
    PROVE  /\ StreamInv(g.stream) /\ g.stream.size = f.stream.size + 1
           /\ \A k \in 1..f.stream.size : g.stream.buffer[k] = f.stream.buffer[k]
           /\ g.stream.buffer[f.stream.size + 1] = Prefixed(op, ref)
           /\ g.locals = f.locals /\ g.labels = f.labels /\ g.refs = f.refs
<1> DEFINE s == Write(f.stream, <<Prefixed(op, ref)>>)
<1>1. /\ StreamInv(s) /\ s.size = f.stream.size + 1
      /\ \A i \in 1..f.stream.size : s.buffer[i] = f.stream.buffer[i]
      /\ s.buffer[f.stream.size + 1] = Prefixed(op, ref)
  BY StreamOfOp
<1>2. g = [f EXCEPT !.stream = s]
  BY DEF EmitOp
<1> HIDE DEF s
<1>3. g.stream = s /\ g.locals = f.locals /\ g.labels = f.labels /\ g.refs = f.refs
  BY <1>2
<1> QED BY <1>1, <1>3

LEMMA Op2Stream ==
    ASSUME NEW f, StreamInv(f.stream), NEW op \in Opcodes, NEW ref, NEW v \in Nat,
           NEW g, g = EmitOp2(f, op, ref, v),
           f = [nameIndex |-> f.nameIndex, index |-> f.index, locals |-> f.locals,
                code |-> f.code, stream |-> f.stream, labels |-> f.labels, refs |-> f.refs]
    PROVE  /\ StreamInv(g.stream) /\ g.stream.size = f.stream.size + (1 + Width)
           /\ \A k \in 1..f.stream.size : g.stream.buffer[k] = f.stream.buffer[k]
           /\ g.stream.buffer[f.stream.size + 1] = Prefixed(op, ref)
           /\ Carries(g.stream.buffer, f.stream.size, v)
           /\ g.locals = f.locals /\ g.labels = f.labels /\ g.refs = f.refs
<1> DEFINE s == Write(Write(f.stream, <<Prefixed(op, ref)>>), Encoded(v))
<1>1. /\ StreamInv(s) /\ s.size = f.stream.size + (1 + Width)
      /\ \A i \in 1..f.stream.size : s.buffer[i] = f.stream.buffer[i]
      /\ s.buffer[f.stream.size + 1] = Prefixed(op, ref)
      /\ Carries(s.buffer, f.stream.size, v)
  BY StreamOfOp2
<1>2. g = [f EXCEPT !.stream = s]
  BY DEF EmitOp2
<1> HIDE DEF s
<1>3. g.stream = s /\ g.locals = f.locals /\ g.labels = f.labels /\ g.refs = f.refs
  BY <1>2
<1> QED BY <1>1, <1>3

LEMMA ItemFields ==
    ASSUME NEW op, NEW ref, NEW word, NEW num
    PROVE  LET x == Item(op, ref, word, num)
           IN  x.op = op /\ x.ref = ref /\ x.word = word /\ x.num = num
BY DEF Item

\* The string table as it was.
LEMMA SameStrings ==
    ASSUME CInv, NamesInv
    PROVE  /\ script = [strings |-> script.strings, functions |-> script.functions]
           /\ Keeps(script.strings, script.strings)
           /\ Len(script.strings) <= Len(script.strings) + 1
           /\ \A k \in DOMAIN script.strings : k \in DOMAIN script.strings
<1>1. Len(script.strings) \in Nat
  BY DEF NamesInv
<1> QED BY <1>1 DEF CInv, ScriptInv, NamesInv, Keeps

LEMMA OpCode ==
    ASSUME CInv, NamesInv, CodeInv, NEW o \in Opcodes, NEW ref \in BOOLEAN, Op(o, ref)
    PROVE  CodeInv'
<1> DEFINE x == Item(o, ref, None, 0)
           items == source[Len(source)].items
           g == EmitOp(This, o, ref)
<1>1. InFunction /\ Grammar[o] = "nothing" /\ Reduce(script, g, x, "statement")
  BY DEF Op, Parsing, InFunction
<1>2. x \in ItemT /\ x.op = o /\ x.ref = ref /\ Form(x) = "nothing"
  <2>1. x \in ItemT /\ x.op = o /\ Form(x) = Grammar[o]
    BY ItemTypes
  <2> QED BY <1>1, <2>1, ItemFields
<1> HIDE DEF x
<1>3. Bytes(x) = 1 /\ Instruction(x) /\ x.op # "locals" /\ x.op # "label"
  <2>1. /\ Instruction(x) /\ Bytes(x) \in {1, 1 + Width} /\ Bytes(x) \in {0, 1}
    BY <1>2, Forms
  <2> QED BY <2>1, OperandRange DEF Instruction
<1>4. /\ items \in Seq(ItemT)
      /\ Building(This, items, script.strings) /\ Refers(This, items)
      /\ StreamInv(This.stream) /\ This.stream.size = Address(items, Len(items) + 1)
      /\ This = [nameIndex |-> This.nameIndex, index |-> This.index,
                 locals |-> This.locals, code |-> This.code, stream |-> This.stream,
                 labels |-> This.labels, refs |-> This.refs]
  BY <1>1, ThisBuilding
<1> HIDE DEF items
<1>5. /\ StreamInv(g.stream) /\ g.stream.size = This.stream.size + 1
      /\ \A k \in 1..This.stream.size : g.stream.buffer[k] = This.stream.buffer[k]
      /\ g.stream.buffer[This.stream.size + 1] = Prefixed(o, ref)
      /\ g.locals = This.locals /\ g.labels = This.labels /\ g.refs = This.refs
  BY <1>4, OpStream
<1> HIDE DEF g
<1>6. Grows(g, This, x)
  BY <1>2, <1>3, <1>5 DEF Grows
<1>7. Emitted(g.stream.buffer, Append(items, x), Len(items) + 1, script.strings)
  BY <1>2, <1>4, <1>5, EmittedLast
<1>8. Building(g, Append(items, x), script.strings)
  BY <1>2, <1>4, <1>6, <1>7, BuildingMore
<1> QED BY <1>1, <1>2, <1>8, SameStrings, ReduceCode DEF items

LEMMA OpNumberCode ==
    ASSUME CInv, NamesInv, CodeInv, NEW o \in Opcodes, NEW ref \in BOOLEAN, NEW num \in Constants,
           OpNumber(o, ref, num)
    PROVE  CodeInv'
<1> DEFINE x == Item(o, ref, None, num)
           items == source[Len(source)].items
           g == EmitOp2(This, o, ref, num)
<1>1. InFunction /\ Grammar[o] = "number" /\ Reduce(script, g, x, "statement")
  BY DEF OpNumber, Parsing, InFunction
<1>2. num \in Nat /\ num < Modulus
  <2>1. num \in 0..(Modulus - 1) /\ Modulus \in Nat
    BY OperandRange, CompilerAssumption
  <2> QED BY <2>1
<1>3. x \in ItemT /\ x.op = o /\ x.ref = ref /\ x.num = num /\ Form(x) = "number"
  <2>1. x \in ItemT /\ x.op = o /\ Form(x) = Grammar[o]
    BY <1>2, ItemTypes
  <2> QED BY <1>1, <2>1, ItemFields
<1> HIDE DEF x
<1>4. Bytes(x) = 1 + Width /\ Instruction(x) /\ x.op # "locals" /\ x.op # "label"
  <2>1. Instruction(x) /\ Bytes(x) = 1 + Width
    BY <1>3, Forms
  <2> QED BY <2>1 DEF Instruction
<1>5. /\ items \in Seq(ItemT)
      /\ Building(This, items, script.strings) /\ Refers(This, items)
      /\ StreamInv(This.stream) /\ This.stream.size = Address(items, Len(items) + 1)
      /\ This = [nameIndex |-> This.nameIndex, index |-> This.index,
                 locals |-> This.locals, code |-> This.code, stream |-> This.stream,
                 labels |-> This.labels, refs |-> This.refs]
  BY <1>1, ThisBuilding
<1> HIDE DEF items
<1>6. /\ StreamInv(g.stream) /\ g.stream.size = This.stream.size + (1 + Width)
      /\ \A k \in 1..This.stream.size : g.stream.buffer[k] = This.stream.buffer[k]
      /\ g.stream.buffer[This.stream.size + 1] = Prefixed(o, ref)
      /\ Carries(g.stream.buffer, This.stream.size, num)
      /\ g.locals = This.locals /\ g.labels = This.labels /\ g.refs = This.refs
  BY <1>2, <1>5, Op2Stream
<1> HIDE DEF g
<1>7. Grows(g, This, x)
  BY <1>3, <1>4, <1>6 DEF Grows
<1>8. Emitted(g.stream.buffer, Append(items, x), Len(items) + 1, script.strings)
  BY <1>2, <1>3, <1>5, <1>6, EmittedLast
<1>9. Building(g, Append(items, x), script.strings)
  BY <1>3, <1>5, <1>7, <1>8, BuildingMore
<1> QED BY <1>1, <1>3, <1>9, SameStrings, ReduceCode DEF items

LEMMA OpStringCode ==
    ASSUME CInv, NamesInv, CodeInv, NEW o \in Opcodes, NEW ref \in BOOLEAN, NEW str \in Strings,
           OpString(o, ref, str)
    PROVE  CodeInv'
<1> DEFINE x == Item(o, ref, str, 0)
           items == source[Len(source)].items
           s == AddString(script, str)
           v == StringIndex(s, str)
           g == EmitOp2(This, o, ref, v)
<1>1. InFunction /\ Grammar[o] = "string" /\ Reduce(s, g, x, "statement")
  BY DEF OpString, Parsing, InFunction
<1>2. /\ Keeps(script.strings, s.strings)
      /\ v \in Nat /\ v + 1 \in DOMAIN s.strings /\ s.strings[v + 1] = str
  BY StringAdded DEF CInv, NamesInv
<1>3. /\ s = [strings |-> s.strings, functions |-> script.functions]
      /\ s.strings = IF Contains(script.strings, str) THEN script.strings
                     ELSE Append(script.strings, str)
  BY AddedString DEF CInv
<1> HIDE DEF s, v
<1>4. Len(s.strings) <= Len(script.strings) + 1
  <2> DEFINE old == script.strings
  <2>1. old \in Seq(Names \cup Strings)
    BY DEF NamesInv
  <2>2. Len(s.strings) = Len(old) \/ Len(s.strings) = Len(Append(old, str))
    BY <1>3
  <2> HIDE DEF old
  <2>3. Len(old) \in Nat /\ Len(Append(old, str)) = Len(old) + 1
    BY <2>1
  <2>4. Len(s.strings) <= Len(old) + 1
    BY <2>2, <2>3
  <2> QED BY <2>4 DEF old
<1>5. x \in ItemT /\ x.op = o /\ x.ref = ref /\ x.word = str /\ Form(x) = "string"
  <2>1. x \in ItemT /\ x.op = o /\ Form(x) = Grammar[o]
    BY ItemTypes
  <2> QED BY <1>1, <2>1, ItemFields
<1> HIDE DEF x
<1>6. Bytes(x) = 1 + Width /\ Instruction(x) /\ x.op # "locals" /\ x.op # "label"
  <2>1. Instruction(x) /\ Bytes(x) = 1 + Width
    BY <1>5, Forms
  <2> QED BY <2>1 DEF Instruction
<1>7. /\ items \in Seq(ItemT)
      /\ Building(This, items, script.strings) /\ Refers(This, items)
      /\ StreamInv(This.stream) /\ This.stream.size = Address(items, Len(items) + 1)
      /\ This = [nameIndex |-> This.nameIndex, index |-> This.index,
                 locals |-> This.locals, code |-> This.code, stream |-> This.stream,
                 labels |-> This.labels, refs |-> This.refs]
  BY <1>1, ThisBuilding
<1> HIDE DEF items
<1>8. /\ StreamInv(g.stream) /\ g.stream.size = This.stream.size + (1 + Width)
      /\ \A k \in 1..This.stream.size : g.stream.buffer[k] = This.stream.buffer[k]
      /\ g.stream.buffer[This.stream.size + 1] = Prefixed(o, ref)
      /\ Carries(g.stream.buffer, This.stream.size, v)
      /\ g.locals = This.locals /\ g.labels = This.labels /\ g.refs = This.refs
  BY <1>2, <1>7, Op2Stream
<1> HIDE DEF g
<1>9. Grows(g, This, x)
  BY <1>5, <1>6, <1>8 DEF Grows
<1>10. Emitted(g.stream.buffer, Append(items, x), Len(items) + 1, s.strings)
  <2>1. \E w \in DOMAIN s.strings :
            s.strings[w] = x.word /\ Carries(g.stream.buffer, This.stream.size, w - 1)
    <3>1. (v + 1) - 1 = v
      BY <1>2
    <3> QED BY <1>2, <1>5, <1>8, <3>1
  <2> QED BY <1>5, <1>7, <1>8, <2>1, EmittedLast
<1>11. Building(g, Append(items, x), s.strings)
  BY <1>2, <1>5, <1>7, <1>9, <1>10, BuildingMore DEF Keeps
<1> QED BY <1>1, <1>2, <1>3, <1>4, <1>5, <1>11, ReduceCode DEF items

LEMMA OpLabelCode ==
    ASSUME CInv, NamesInv, CodeInv, NEW o \in Opcodes, NEW ref \in BOOLEAN, NEW label \in Labels,
           OpLabel(o, ref, label)
    PROVE  CodeInv'
<1> DEFINE x == Item(o, ref, label, 0)
           items == source[Len(source)].items
           r == [offset |-> This.stream.position + 1, label |-> label]
           f == [This EXCEPT !.refs = Append(@, r)]
           g == EmitJump(This, o, ref, label)
<1>1. InFunction /\ Grammar[o] = "label" /\ Reduce(script, g, x, "statement")
  BY DEF OpLabel, Parsing, InFunction
<1>2. x \in ItemT /\ x.op = o /\ x.ref = ref /\ x.word = label /\ Form(x) = "label"
  <2>1. x \in ItemT /\ x.op = o /\ Form(x) = Grammar[o]
    BY ItemTypes
  <2> QED BY <1>1, <2>1, ItemFields
<1> HIDE DEF x
<1>3. Bytes(x) = 1 + Width /\ Instruction(x) /\ x.op # "locals" /\ x.op # "label"
  <2>1. Instruction(x) /\ Bytes(x) = 1 + Width
    BY <1>2, Forms
  <2> QED BY <2>1 DEF Instruction
<1>4. /\ items \in Seq(ItemT)
      /\ Building(This, items, script.strings) /\ Refers(This, items)
      /\ StreamInv(This.stream) /\ This.stream.size = Address(items, Len(items) + 1)
      /\ This.stream.position = This.stream.size
      /\ This = [nameIndex |-> This.nameIndex, index |-> This.index,
                 locals |-> This.locals, code |-> This.code, stream |-> This.stream,
                 labels |-> This.labels, refs |-> This.refs]
  BY <1>1, ThisBuilding
<1> HIDE DEF items
<1>5. g = EmitOp2(f, o, ref, 0)
  BY DEF EmitJump
<1>6. r = [offset |-> This.stream.size + 1, label |-> x.word]
  BY <1>2, <1>4
<1> HIDE DEF r
<1>7. f = [nameIndex |-> This.nameIndex, index |-> This.index, locals |-> This.locals,
           code |-> This.code, stream |-> This.stream, labels |-> This.labels,
           refs |-> Append(This.refs, r)]
  BY <1>4, MoreRefs
<1> HIDE DEF f, g
<1>8. /\ f = [nameIndex |-> f.nameIndex, index |-> f.index, locals |-> f.locals, code |-> f.code,
              stream |-> f.stream, labels |-> f.labels, refs |-> f.refs]
      /\ f.labels = This.labels /\ f.refs = Append(This.refs, r) /\ f.locals = This.locals
      /\ f.stream = This.stream
  BY <1>7
<1>9. /\ StreamInv(g.stream) /\ g.stream.size = f.stream.size + (1 + Width)
      /\ \A k \in 1..f.stream.size : g.stream.buffer[k] = f.stream.buffer[k]
      /\ g.stream.buffer[f.stream.size + 1] = Prefixed(o, ref)
      /\ Carries(g.stream.buffer, f.stream.size, 0)
      /\ g.locals = f.locals /\ g.labels = f.labels /\ g.refs = f.refs
  <2>1. StreamInv(f.stream) /\ 0 \in Nat
    BY <1>4, <1>8
  <2> QED BY <1>5, <1>8, <2>1, Op2Stream
<1>10. Grows(g, This, x)
  BY <1>2, <1>3, <1>6, <1>8, <1>9 DEF Grows
<1>11. Emitted(g.stream.buffer, Append(items, x), Len(items) + 1, script.strings)
  BY <1>2, <1>4, <1>8, <1>9, EmittedLast
<1>12. Building(g, Append(items, x), script.strings)
  BY <1>2, <1>4, <1>10, <1>11, BuildingMore
<1> QED BY <1>1, <1>2, <1>12, SameStrings, ReduceCode DEF items

LEMMA LabelCode == ASSUME CInv, NamesInv, CodeInv, Label PROVE CodeInv'
<1> DEFINE x == Item("label", FALSE, taken, 0)
           items == source[Len(source)].items
           g == SetLabel(This, taken)
<1>1. InFunction /\ at = "colon" /\ phase = "compile" /\ Reduce(script, g, x, "statement")
  BY DEF Label, Parsing, InFunction
<1>2. taken \in Labels
  BY <1>1 DEF CInv, ParserInv
<1>3. x \in ItemT /\ x.op = "label" /\ x.word = taken
  BY <1>2 DEF Item, ItemT
<1> HIDE DEF x
<1>4. Form(x) # "label" /\ Bytes(x) = 0 /\ ~Instruction(x) /\ x.op # "locals"
  BY <1>3, Forms DEF Instruction
<1>5. /\ items \in Seq(ItemT)
      /\ Building(This, items, script.strings) /\ Refers(This, items)
      /\ StreamInv(This.stream) /\ This.stream.size \in Nat
      /\ This.stream.position = This.stream.size
      /\ This = [nameIndex |-> This.nameIndex, index |-> This.index,
                 locals |-> This.locals, code |-> This.code, stream |-> This.stream,
                 labels |-> This.labels, refs |-> This.refs]
  BY <1>1, ThisBuilding
<1>6. This.labels \in [Labels -> Nat \cup {None}]
  BY <1>5 DEF Refers
<1> HIDE DEF items
<1>7. /\ g.stream = This.stream /\ g.locals = This.locals /\ g.refs = This.refs
      /\ g.labels = [This.labels EXCEPT ![taken] = This.stream.position]
  BY <1>5 DEF SetLabel
<1> HIDE DEF g
<1>8. \A l \in Labels : g.labels[l] = IF taken = l THEN This.stream.size ELSE This.labels[l]
  BY <1>2, <1>5, <1>6, <1>7
<1>9. Grows(g, This, x)
  <2>1. g.stream.size = This.stream.size + Bytes(x)
    BY <1>4, <1>5, <1>7
  <2> QED BY <1>3, <1>4, <1>5, <1>7, <1>8, <2>1 DEF Grows
<1>10. Building(g, Append(items, x), script.strings)
  BY <1>3, <1>4, <1>5, <1>9, BuildingMore
<1> QED BY <1>1, <1>3, <1>10, SameStrings, ReduceCode DEF items

LEMMA InitLocalsCode ==
    ASSUME CInv, NamesInv, CodeInv, NEW num \in Constants, InitLocals(num)
    PROVE  CodeInv'
<1> DEFINE x == Item("locals", FALSE, None, num)
           items == source[Len(source)].items
           g == [This EXCEPT !.locals = num]
<1>1. InFunction /\ Reduce(script, g, x, "statement")
  BY DEF InitLocals, Parsing, InFunction
<1>2. x \in ItemT /\ x.op = "locals" /\ x.num = num
  <2>1. num \in Nat
    BY CompilerAssumption
  <2> QED BY <2>1 DEF Item, ItemT
<1> HIDE DEF x
<1>3. Form(x) # "label" /\ Bytes(x) = 0 /\ ~Instruction(x) /\ x.op # "label"
  BY <1>2, Forms DEF Instruction
<1>4. /\ items \in Seq(ItemT)
      /\ Building(This, items, script.strings) /\ Refers(This, items)
      /\ StreamInv(This.stream) /\ This.stream.size \in Nat
      /\ This = [nameIndex |-> This.nameIndex, index |-> This.index,
                 locals |-> This.locals, code |-> This.code, stream |-> This.stream,
                 labels |-> This.labels, refs |-> This.refs]
  BY <1>1, ThisBuilding
<1> HIDE DEF items
<1>5. g.stream = This.stream /\ g.locals = num /\ g.refs = This.refs /\ g.labels = This.labels
  BY <1>4
<1> HIDE DEF g
<1>6. Grows(g, This, x)
  <2>1. g.stream.size = This.stream.size + Bytes(x)
    BY <1>3, <1>4, <1>5
  <2> QED BY <1>2, <1>3, <1>4, <1>5, <2>1 DEF Grows
<1>7. Building(g, Append(items, x), script.strings)
  BY <1>2, <1>3, <1>4, <1>6, BuildingMore
<1> QED BY <1>1, <1>2, <1>7, SameStrings, ReduceCode DEF items

-----------------------------------------------------------------------------
(* The other steps.                                                          *)

LEMMA StartCode == ASSUME CInv, NamesInv, CodeInv, StartFunction PROVE CodeInv'
<1> DEFINE n == Len(source)
           new == [name |-> taken, items |-> <<>>]
           s == AddString(script, taken)
           f == [nameIndex |-> StringIndex(s, taken), index |-> NodeCount(s), locals |-> 0,
                 code |-> <<>>, stream |-> Open, labels |-> [l \in Labels |-> None], refs |-> <<>>]
<1>1. /\ phase = "compile" /\ at = "open" /\ taken \in Names /\ n < MaxFunctions
      /\ script' = CreateFunction(script, taken) /\ current' = taken
      /\ source' = Append(source, new) /\ at' = "statement" /\ phase' = phase
  BY DEF StartFunction, Parsing, CInv, ParserInv, tool
<1>2. /\ s = [strings |-> s.strings, functions |-> script.functions]
      /\ s.strings = IF Contains(script.strings, taken) THEN script.strings
                     ELSE Append(script.strings, taken)
  BY AddedString DEF CInv
<1>3. CreateFunction(script, taken) = Enter(s, taken, f)
  BY DEF CreateFunction
<1>4. f.stream = Open /\ f.locals = 0 /\ f.refs = <<>> /\ \A l \in Labels : f.labels[l] = None
  OBVIOUS
<1>5. Keeps(script.strings, s.strings)
  BY <1>1, StringAdded DEF CInv, NamesInv
<1> HIDE DEF f, s
<1>6. Len(s.strings) <= Len(script.strings) + 1 /\ Len(script.strings) \in Nat
      /\ Len(s.strings) \in Nat
  <2> DEFINE old == script.strings
  <2>1. old \in Seq(Names \cup Strings) /\ s.strings \in Seq(Names \cup Strings)
    BY <1>5 DEF NamesInv, Keeps
  <2>2. Len(s.strings) = Len(old) \/ Len(s.strings) = Len(Append(old, taken))
    BY <1>2
  <2> HIDE DEF old
  <2>3. Len(old) \in Nat /\ Len(Append(old, taken)) = Len(old) + 1 /\ Len(s.strings) \in Nat
    BY <2>1
  <2>4. Len(s.strings) <= Len(old) + 1
    BY <2>2, <2>3
  <2> QED BY <2>3, <2>4 DEF old
<1>7. /\ script'.strings = s.strings
      /\ Defined(script)' = Defined(script) \cup {taken}
      /\ \A m \in Defined(script) \cup {taken} : script'.functions[m] =
            IF m = taken THEN f ELSE script.functions[m]
  BY <1>1, <1>2, <1>3 DEF Enter, Defined
<1>8. /\ source \in Seq(FunctionT) /\ new \in FunctionT
  BY <1>1 DEF CInv, ParserInv, FunctionT
<1>9. Len(new.items) = 0 /\ new.items = <<>> /\ new.name = taken
  OBVIOUS
<1> HIDE DEF new
<1>10. /\ source' \in Seq(FunctionT) /\ Len(source') = n + 1 /\ n \in Nat
       /\ DOMAIN source = 1..n /\ DOMAIN source' = 1..(n + 1)
       /\ source'[n + 1] = new /\ \A k \in 1..n : source'[k] = source[k]
  BY <1>1, <1>8
<1>11. Items' = Items
  <2> DEFINE more == source'
             m == n + 1
  <2>1. /\ m \in Nat \ {0} /\ more \in Seq(FunctionT) /\ Len(more) = m /\ Len(source) = m - 1
        /\ Len(more[m].items) = 0 /\ \A k \in 1..(m - 1) : more[k].items = source[k].items
    BY <1>9, <1>10
  <2>2. 0 \in {0, 1} /\ (0 = 0 /\ Len(source) = m - 1 /\ Len(more[m].items) = 0)
    BY <2>1
  <2> HIDE DEF more, m
  <2>3. Count(more) = Count(source) + 0
    BY <1>8, <2>1, <2>2, CountMore
  <2>4. Count(source) \in Nat
    BY <1>8, CountsAll
  <2> QED BY <2>3, <2>4, ItemsCounted, ItemsCountedNext DEF more
<1>12. /\ Len(source) <= MaxFunctions /\ Len(script.strings) <= Len(source) + Items
       /\ Items <= MaxItems /\ \A k \in DOMAIN source : source[k].name \in Defined(script)
       /\ \A k \in DOMAIN source : Final(k) =>
             Written(script.functions[source[k].name], source[k].items, script.strings)
  BY DEF CodeInv
<1>13. Items \in Nat /\ MaxItems \in Nat /\ MaxFunctions \in Nat
  BY <1>8, CountsAll, ItemsCounted, CompilerAssumption
<1> HIDE DEF n
<1>14. /\ (Items <= MaxItems)' /\ (Len(source) <= MaxFunctions)'
       /\ (Len(script.strings) <= Len(source) + Items)'
  BY <1>1, <1>6, <1>7, <1>10, <1>11, <1>12, <1>13 DEF n
<1>15. ASSUME NEW k \in 1..(n + 1) PROVE source'[k].name \in Defined(script)'
  <2>1. CASE k = n + 1
    BY <1>7, <1>9, <1>10, <2>1
  <2>2. CASE k \in 1..n
    BY <1>7, <1>10, <1>12, <2>2
  <2> QED BY <1>10, <2>1, <2>2
<1>16. (InFunction => Building(This, source[Len(source)].items, script.strings))'
  <2>1. This' = f
    BY <1>1, <1>7 DEF This
  <2>2. source'[Len(source')].items = <<>>
    BY <1>9, <1>10
  <2>3. Building(f, <<>>, script'.strings)
    BY <1>4, BuildingBegins
  <2> QED BY <2>1, <2>2, <2>3
<1>17. ASSUME NEW k \in 1..(n + 1), Final(k)'
       PROVE  Written(script'.functions[source'[k].name], source'[k].items, script'.strings)
  <2>1. k < n + 1
    BY <1>1, <1>10, <1>17 DEF Final, Parsed
  <2>2. k \in 1..n /\ source'[k] = source[k]
    BY <1>10, <2>1
  <2>3. Parsed(k)
    BY <1>1, <1>10, <2>2 DEF Parsed
  <2>4. \A j \in 1..(n + 1) : source'[j].name = source[k].name => j <= k
    BY <1>10, <1>17, <2>2 DEF Final
  <2>5. Final(k)
    <3>1. \A j \in 1..n : j \in 1..(n + 1) /\ source'[j].name = source[j].name
      BY <1>10
    <3> QED BY <1>10, <2>3, <2>4, <3>1 DEF Final
  <2>6. source[k].name # taken
    <3>1. n + 1 \in 1..(n + 1) /\ ~(n + 1 <= k) /\ source'[n + 1].name = taken
      BY <1>9, <1>10, <2>1
    <3> QED BY <2>4, <3>1
  <2>7. Written(script.functions[source[k].name], source[k].items, script.strings)
        /\ source[k].name \in Defined(script)
    BY <1>10, <1>12, <2>2, <2>5
  <2>8. script'.functions[source'[k].name] = script.functions[source[k].name]
    BY <1>7, <2>2, <2>6, <2>7
  <2> QED BY <1>5, <1>7, <2>2, <2>7, <2>8, WrittenKept
<1>18. (\A k \in DOMAIN source : source[k].name \in Defined(script))'
  BY <1>10, <1>15
<1>19. (\A k \in DOMAIN source : Final(k) =>
          Written(script.functions[source[k].name], source[k].items, script.strings))'
  BY <1>10, <1>17
<1> QED BY <1>14, <1>16, <1>18, <1>19 DEF CodeInv

\* The bytecode and the strings of a program fit an operand.
LEMMA ProgramFits ==
    ASSUME CInv, NamesInv, CodeInv, NEW k \in DOMAIN source
    PROVE  (1 + Width) * Len(source[k].items) < Modulus /\ Len(script.strings) < Modulus
<1> DEFINE l == Len(source[k].items)
           w == 1 + Width
<1>1. source \in Seq(FunctionT)
  BY DEF CInv, ParserInv, FunctionT
<1>2. l \in Nat /\ l <= Items /\ Items \in Nat
  <2>1. source[k] \in FunctionT
    BY <1>1
  <2> QED BY <1>1, <2>1, LengthOfItems, CountsAll, ItemsCounted
<1>3. Items <= MaxItems /\ Len(source) <= MaxFunctions /\ Len(script.strings) <= Len(source) + Items
  BY DEF CodeInv
<1>4. MaxItems \in Nat /\ MaxFunctions \in Nat /\ w * MaxItems + MaxFunctions < Modulus
      /\ w \in Nat \ {0} /\ Modulus \in Nat
  BY CompilerAssumption, OperandRange
<1>5. Len(script.strings) \in Nat /\ Len(source) \in Nat
  BY <1>1 DEF NamesInv
<1> HIDE DEF l, w
<1>6. w * l <= w * MaxItems /\ w * l \in Nat /\ w * MaxItems \in Nat /\ MaxItems <= w * MaxItems
  <2>1. w * l \in Nat /\ w * MaxItems \in Nat
    BY <1>2, <1>4
  <2>2. l <= MaxItems
    BY <1>2, <1>3, <1>4
  <2>3. w * l <= w * MaxItems
    BY <1>2, <1>4, <2>2
  <2>4. MaxItems <= w * MaxItems
    BY <1>4
  <2> QED BY <2>1, <2>3, <2>4
<1> DEFINE a == w * l
           b == w * MaxItems
<1>7. a <= b /\ a \in Nat /\ b \in Nat /\ MaxItems <= b /\ b + MaxFunctions < Modulus
  BY <1>4, <1>6
<1> HIDE DEF a, b
<1>8. a < Modulus /\ Len(script.strings) < Modulus
  BY <1>2, <1>3, <1>4, <1>5, <1>7
<1> QED BY <1>8 DEF a, w, l

LEMMA EndCode == ASSUME CInv, NamesInv, CodeInv, EndFunction PROVE CodeInv'
<1> DEFINE n == Len(source)
           items == source[n].items
           g == Finalized(This)
<1>1. /\ InFunction /\ script' = [script EXCEPT !.functions[current] = g]
      /\ at' = "functions" /\ phase' = phase /\ source' = source /\ current' = current
      /\ at = "statement"
  BY DEF EndFunction, Parsing, InFunction, tool
<1>2. /\ n \in Nat \ {0} /\ DOMAIN source = 1..n
      /\ items \in Seq(ItemT) /\ Refers(This, items) /\ current = source[n].name
  BY <1>1, LastFunction, ThisBuilding DEF CInv
<1>3. n \in DOMAIN source
  <2> HIDE DEF n
  <2> QED BY <1>2
<1>4. Written(g, items, script.strings)
  <2> DEFINE T == Names \cup Strings
             strings == script.strings
  <2>1. strings \in Seq(T)
    BY DEF NamesInv
  <2>2. Building(This, items, strings)
    BY <1>1, ThisBuilding
  <2>3. (1 + Width) * Len(items) < Modulus /\ Len(strings) < Modulus
    BY <1>3, ProgramFits
  <2> HIDE DEF T, strings, items, g
  <2>4. Written(Finalized(This), items, strings)
    BY <1>2, <2>1, <2>2, <2>3, FinishedWritten
  <2> QED BY <2>4 DEF g, strings
<1> HIDE DEF g
<1>5. /\ script = [strings |-> script.strings, functions |-> script.functions]
      /\ script.functions = [m \in Defined(script) |-> script.functions[m]]
      /\ current \in Defined(script)
  BY <1>1, LastFunction DEF CInv, ScriptInv
<1>6. /\ script'.strings = script.strings
      /\ Defined(script)' = Defined(script)
      /\ \A m \in Defined(script) : script'.functions[m] =
            IF m = current THEN g ELSE script.functions[m]
  BY <1>1, <1>5 DEF Defined
<1>7. Items' = Items
  BY <1>1, ItemsCounted, ItemsCountedNext
<1>8. /\ Len(source) <= MaxFunctions /\ Len(script.strings) <= Len(source) + Items
      /\ Items <= MaxItems /\ \A k \in DOMAIN source : source[k].name \in Defined(script)
      /\ \A k \in DOMAIN source : Final(k) =>
            Written(script.functions[source[k].name], source[k].items, script.strings)
  BY DEF CodeInv
<1>9. ASSUME NEW k \in 1..n, Final(k)'
      PROVE  Written(script'.functions[source'[k].name], source'[k].items, script'.strings)
  <2>1. \A j \in 1..n : source[j].name = source[k].name => j <= k
    BY <1>1, <1>2, <1>9 DEF Final
  <2>2. CASE k = n
    <3>1. source[k].name = current /\ source[k].items = items
      BY <1>2, <2>2
    <3>2. script'.functions[source'[k].name] = g
      BY <1>1, <1>5, <1>6, <3>1
    <3> QED BY <1>1, <1>4, <1>6, <3>1, <3>2
  <2>3. CASE k # n
    <3>1. k < n
      <4> HIDE DEF n
      <4> QED BY <1>2, <2>3
    <3>2. Final(k)
      BY <1>2, <2>1, <3>1 DEF Final, Parsed
    <3>3. source[k].name # current
      BY <1>1, <1>2, <3>2, LastIsNotFinal
    <3>4. source[k].name \in Defined(script)
          /\ Written(script.functions[source[k].name], source[k].items, script.strings)
      BY <1>2, <1>8, <3>2
    <3>5. script'.functions[source'[k].name] = script.functions[source[k].name]
      BY <1>1, <1>6, <3>3, <3>4
    <3> QED BY <1>1, <1>6, <3>4, <3>5
  <2> QED BY <2>2, <2>3
<1>10. ~InFunction'
  BY <1>1 DEF InFunction
<1>11. /\ (Items <= MaxItems)' /\ (Len(source) <= MaxFunctions)'
       /\ (Len(script.strings) <= Len(source) + Items)'
  BY <1>1, <1>6, <1>7, <1>8
<1>12. (\A k \in DOMAIN source : source[k].name \in Defined(script))'
  BY <1>1, <1>6, <1>8
<1>13. (\A k \in DOMAIN source : Final(k) =>
          Written(script.functions[source[k].name], source[k].items, script.strings))'
  BY <1>1, <1>2, <1>9
<1>14. (InFunction => Building(This, source[Len(source)].items, script.strings))'
  BY <1>10
<1> QED BY <1>11, <1>12, <1>13, <1>14 DEF CodeInv

LEMMA RestSteps ==
    ASSUME [Next]_vars
    PROVE  \/ Reductions \/ StartFunction \/ EndFunction \/ SyntaxError
           \/ /\ UNCHANGED <<script, current, source>>
              /\ phase' = "compile" => phase = "compile"
              /\ at \in {"statement", "colon"} <=> at' \in {"statement", "colon"}
<1>1. CASE Shifts
  BY <1>1 DEF Shifts, Shift, Parsing, tool
<1>2. CASE (\E t \in Comments : BeginComment(t)) \/ Skipping \/ LeaveComment
  BY <1>2 DEF BeginComment, Skipping, SkipChar, AfterStar, ReadNoFile, LeaveComment, parsing
<1>3. CASE Accept \/ Save \/ FreeSaved \/ Load \/ LoadBad \/ FreeLoaded
  BY <1>3 DEF Accept, Save, FreeSaved, Load, LoadBad, FreeLoaded, parsing
<1>4. CASE UNCHANGED vars
  BY <1>4 DEF vars
<1> QED BY <1>1, <1>2, <1>3, <1>4 DEF Next, Reductions

LEMMA RestCode ==
    ASSUME CInv, CodeInv, UNCHANGED <<script, current, source>>,
           phase' = "compile" => phase = "compile",
           at \in {"statement", "colon"} <=> at' \in {"statement", "colon"}
    PROVE  CodeInv'
<1>1. Items' = Items
  BY ItemsCounted, ItemsCountedNext
<1>2. InFunction' => InFunction
  BY DEF InFunction
<1>3. \A k \in DOMAIN source : Final(k)' <=> Final(k)
  BY DEF Final, Parsed
<1>4. This' = This /\ Defined(script)' = Defined(script)
  BY DEF This, Defined
<1>5. /\ (Items <= MaxItems)' /\ (Len(source) <= MaxFunctions)'
      /\ (Len(script.strings) <= Len(source) + Items)'
      /\ (\A k \in DOMAIN source : source[k].name \in Defined(script))'
  BY <1>1, <1>4 DEF CodeInv
<1>6. (InFunction => Building(This, source[Len(source)].items, script.strings))'
  BY <1>2, <1>4 DEF CodeInv
<1>7. (\A k \in DOMAIN source : Final(k) =>
          Written(script.functions[source[k].name], source[k].items, script.strings))'
  BY <1>3 DEF CodeInv
<1> QED BY <1>5, <1>6, <1>7 DEF CodeInv

LEMMA StepCode == CInv /\ NamesInv /\ CodeInv /\ [Next]_vars => CodeInv'
<1> SUFFICES ASSUME CInv, NamesInv, CodeInv, [Next]_vars PROVE CodeInv'
  OBVIOUS
<1>1. CASE Reductions
  <2>1. CASE Label
    BY <2>1, LabelCode
  <2>2. CASE \E num \in Constants : InitLocals(num)
    BY <2>2, InitLocalsCode
  <2>3. ASSUME NEW in \in Inputs,
               \/ Op(in[1], in[2])
               \/ \E num \in Constants : OpNumber(in[1], in[2], num)
               \/ \E s \in Strings : OpString(in[1], in[2], s)
               \/ \E l \in Labels : OpLabel(in[1], in[2], l)
        PROVE  CodeInv'
    <3>1. in[1] \in Opcodes /\ in[2] \in BOOLEAN
      BY InputTypes
    <3> QED BY <2>3, <3>1, OpCode, OpNumberCode, OpStringCode, OpLabelCode
  <2> QED BY <1>1, <2>1, <2>2, <2>3 DEF Reductions
<1>2. CASE SyntaxError
  <2>1. /\ phase' \in {"CRASH", "WILD"} /\ script' = [strings |-> <<>>, functions |-> <<>>]
        /\ source' = <<>>
    BY <1>2 DEF SyntaxError, EmptyScript
  <2>2. Items' = 0
    BY <2>1, NoFunctions, ItemsCountedNext
  <2>3. ~InFunction' /\ DOMAIN source' = {} /\ Len(source') = 0 /\ Len(script'.strings) = 0
    BY <2>1 DEF InFunction
  <2>4. MaxItems \in Nat /\ MaxFunctions \in Nat
    BY CompilerAssumption
  <2> QED BY <2>2, <2>3, <2>4 DEF CodeInv
<1> QED BY <1>1, <1>2, RestSteps, RestCode, StartCode, EndCode

\* Every finished function runs as it was written, whatever the program: each
\* instruction is at the address its statements give, with its prefix and its
\* operand, and every jump the interpreter takes leads to where its label was
\* last set, or on to the next instruction from the first unknown label on.
THEOREM CompilerWritesProgram == Spec => []CodeRunsAsWritten
<1>1. CInv /\ NamesInv /\ CodeInv => CodeRunsAsWritten
  <2> SUFFICES ASSUME CInv, NamesInv, CodeInv, NEW k \in DOMAIN source, Final(k)
               PROVE  LET f == script.functions[source[k].name]
                          items == source[k].items
                          counts == {i \in DOMAIN items : items[i].op = "locals"}
                      IN  /\ script.strings[f.nameIndex + 1] = source[k].name
                          /\ f.locals = (IF counts = {} THEN 0 ELSE items[Max(counts)].num)
                          /\ Len(f.code) = Address(items, Len(items) + 1)
                          /\ \A i \in DOMAIN items :
                                items[i].op \notin {"label", "locals"} => Means(f, items, i)
    BY DEF CodeRunsAsWritten
  <2> DEFINE f == script.functions[source[k].name]
             items == source[k].items
  <2>1. source[k].name \in Defined(script) /\ Written(f, items, script.strings)
    BY DEF CodeInv
  <2>2. script.strings[f.nameIndex + 1] = source[k].name
    BY <2>1 DEF NamesInv
  <2> HIDE DEF f, items
  <2>3. ASSUME NEW i \in DOMAIN items, items[i].op \notin {"label", "locals"} PROVE Means(f, items, i)
    BY <2>1, <2>3 DEF Written, Instruction, Executes, Means
  <2>4. /\ f.locals = LocalsOf(items) /\ Len(f.code) = Address(items, Len(items) + 1)
    BY <2>1 DEF Written
  <2> QED BY <2>2, <2>3, <2>4 DEF LocalsOf, f, items
<1>2. Init => NamesInv
  BY DEF Init, EmptyScript, NamesInv, Defined
<1> QED BY <1>1, <1>2, CompilerInvariant, StepNames, InitCode, StepCode, PTL DEF Spec
=============================================================================
