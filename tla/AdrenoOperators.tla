--------------------------- MODULE AdrenoOperators ---------------------------
(* What the operators of AdrenoVM_Run compute (vm/vm.c 62-186 and 658-940),  *)
(* as functions of the values AdrenoValue_GetValue finds for the operands;   *)
(* AdrenoVM has what the instructions do to the stack and to counters.       *)
(*                                                                           *)
(* A value is [type, it]: null, a word, a string (a sequence) or an array.   *)
EXTENDS Integers, Sequences, FiniteSetsExt

CONSTANTS Bits,     \* of a word: 32
          Modulus   \* 2^Bits: words are unsigned and wrap

ASSUME OperatorsAssumption == Bits \in Nat \ {0} /\ Modulus \in Nat \ {0, 1}

Words == 0..(Modulus - 1)

Word(x) == [type |-> "int", it |-> x]
String(s) == [type |-> "string", it |-> s]

Error(e) == [type |-> "error", it |-> e]

\* An instruction that cannot go on leaves vm->Error and stops the script.
Failed(r) == r.type = "error"

Truth(p) == IF p THEN 1 ELSE 0

Ones(x) == {i \in 0..(Bits - 1) : (x \div 2^i) % 2 = 1}
Number(ones) == MapThenSumSet(LAMBDA i : 2^i, ones)

Arithmetic(op, x, y) ==
    CASE op = "add" -> (x + y) % Modulus
      [] op = "sub" -> (x - y) % Modulus
      [] op = "mul" -> (x * y) % Modulus
      [] op = "div" -> x \div y
      [] op = "rem" -> x % y

Bitwise(op, x, y) ==
    CASE op = "or" -> Number(Ones(x) \cup Ones(y))
      [] op = "and" -> Number(Ones(x) \cap Ones(y))
      [] op = "xor" -> Number((Ones(x) \ Ones(y)) \cup (Ones(y) \ Ones(x)))

\* OP_LOR and OP_LAND evaluate both operands, as all operators do.
Comparison(op, x, y) ==
    CASE op = "eq" -> x = y
      [] op = "ne" -> x # y
      [] op = "gt" -> x > y
      [] op = "ge" -> x >= y
      [] op = "lt" -> x < y
      [] op = "le" -> x <= y
      [] op = "lor" -> x # 0 \/ y # 0
      [] op = "land" -> x # 0 /\ y # 0

ArithmeticOps == {"add", "sub", "mul", "div", "rem"}
BitwiseOps == {"or", "and", "xor"}
ShiftOps == {"shl", "shr"}
ComparisonOps == {"eq", "ne", "gt", "ge", "lt", "le", "lor", "land"}
DualOps == ArithmeticOps \cup BitwiseOps \cup ShiftOps \cup ComparisonOps

\* A shift by the width of a word or more is undefined in C: any word.
Shifts(op, x, y) ==
    IF y >= Bits THEN Words
    ELSE {IF op = "shl" THEN (x * 2^y) % Modulus ELSE x \div 2^y}

\* Of strings, OP_NE answers 0 for two of different size, as OP_EQ does.
StringResult(op, s, t) ==
    CASE op = "add" -> String(s \o t)
      [] op = "eq" -> Word(Truth(Len(s) = Len(t) /\ s = t))
      [] op = "ne" -> Word(Truth(Len(s) = Len(t) /\ s # t))
      [] OTHER -> Error("INVALID_OPERAND")

IntegerResults(op, x, y) ==
    CASE op \in {"div", "rem"} /\ y = 0 -> {Error("DIVISON_BY_0")}
      [] op \in ShiftOps -> {Word(z) : z \in Shifts(op, x, y)}
      [] op \in BitwiseOps -> {Word(Bitwise(op, x, y))}
      [] op \in ComparisonOps -> {Word(Truth(Comparison(op, x, y)))}
      [] OTHER -> {Word(Arithmetic(op, x, y))}

\* What a dual operator may push, or the error it stops with, in the order of
\* the tests in the code.
DualResults(op, v, w) ==
    IF "null" \in {v.type, w.type} THEN {Error("NULL_REFERENCE")}
    ELSE IF v.type # w.type THEN {Error("FOREING_CAST")}
    ELSE CASE v.type = "int" -> IntegerResults(op, v.it, w.it)
           [] v.type = "string" -> {StringResult(op, v.it, w.it)}
           [] OTHER -> {Error("INVALID_OPERAND")}

SingleResult(op, v) ==
    IF v.type # "int"
    THEN Error(IF v.type = "null" THEN "NULL_REFERENCE" ELSE "INVALID_OPERAND")
    ELSE CASE op = "neg" -> Word((0 - v.it) % Modulus)
           [] op = "not" -> Word(Number((0..(Bits - 1)) \ Ones(v.it)))
           [] op = "lnot" -> Word(Truth(v.it = 0))
=============================================================================
