----------------------------- MODULE Arithmetic -----------------------------
(***************************************************************************)
(* Instructions on integers (vm/vm_Execution.impl.cpp).  int has Bits bits *)
(* and long twice as many, so that all ints and all shifts can be tried.   *)
(*                                                                         *)
(* What C++ leaves undefined is a choice between what builds for the       *)
(* processors the VM runs on can do: signed overflow wraps, a shift takes  *)
(* the count modulo the width, a division that has no result traps and     *)
(* ends the process or gives a value.  An outcome is a pair of a word and  *)
(* a number.                                                               *)
(***************************************************************************)
EXTENDS Integers, Sequences, Powers

CONSTANTS Bits,     \* bits of int, a power of two
          ByteBits  \* bits of byte, char and short

Narrow(w, n) == ((n + Pow[w - 1]) % Pow[w]) - Pow[w - 1]
Lowest(w) == -(Pow[w - 1])
Value(n) == <<"value", n>>
Trap == <<"trap", 0>>
Arithmetic == <<"ArithmeticException", 0>>

\* Division in C++ rounds towards zero.
Magnitude(n) == IF n < 0 THEN -n ELSE n
Rounded(x, y) ==
    (IF (x < 0) = (y < 0) THEN 1 ELSE -1) * (Magnitude(x) \div Magnitude(y))

Binary == {"ADD", "SUB", "MUL", "DIV", "REM", "SHL", "SHR", "USHR", "CMP"}

\* Mutant: the sign bits stay.
UshrAsShr(w, x, y) == x \div Pow[y % w]

\* IUSHR and LUSHR.  For negative numbers 2 << ~count is added, an int also
\* when the operand is a long.
Ushr(w, x, y) ==
    LET count == y % w
    IN  IF x >= 0 THEN x \div Pow[count]
        ELSE Narrow(w, (x \div Pow[count]) + Narrow(Bits, 2 * Pow[(-(count + 1)) % Bits]))

\* The outcomes of an instruction on two numbers of w bits; the count of a
\* shift is an int.
Operate(op, w, x, y) ==
    CASE op = "ADD" -> {Value(Narrow(w, x + y))}
      [] op = "SUB" -> {Value(Narrow(w, x - y))}
      [] op = "MUL" -> {Value(Narrow(w, x * y))}
      [] op = "DIV" -> IF y = 0 THEN {Arithmetic}
                       ELSE IF x = Lowest(w) /\ y = -1 THEN {Trap, Value(x)}
                       ELSE {Value(Rounded(x, y))}
      [] op = "REM" -> IF y = 0 THEN {Trap, Value(x)}
                       ELSE IF x = Lowest(w) /\ y = -1 THEN {Trap, Value(0)}
                       ELSE {Value(x - y * Rounded(x, y))}
      [] op = "SHL" -> {Value(Narrow(w, x * Pow[y % w]))}
      [] op = "SHR" -> {Value(x \div Pow[y % w])}
      [] op = "USHR" -> {Value(Ushr(w, x, y))}
      [] op = "CMP" -> {Value(IF y > x THEN -1 ELSE IF y < x THEN 1 ELSE 0)}

\* Conversions: byte, char and short are int in the VM.
Unary == {"NEG", "L2I", "I2L", "I2B", "I2C", "I2S"}
Convert(op, w, x) ==
    CASE op = "NEG" -> Narrow(w, -x)
      [] op = "L2I" -> Narrow(Bits, x)
      [] OTHER -> x

\* IINC of a local variable by a signed byte.
Iinc(x, c) == Narrow(Bits, x + c)

Conditions == {"EQ", "NE", "LT", "GE", "GT", "LE"}

\* IF_ICMPcond; IFcond compares with 0.
Taken(cond, x, y) ==
    CASE cond = "EQ" -> x = y
      [] cond = "NE" -> x # y
      [] cond = "LT" -> x < y
      [] cond = "GE" -> x >= y
      [] cond = "GT" -> x > y
      [] cond = "LE" -> x <= y

\* LOOKUPSWITCH at offset pc.  code[p] is the word at offset p (of 2 * Bits
\* bits here), and the arithmetic on offsets is unsigned; of two equal keys
\* the map keeps the first.
SwitchTarget(code, pc, top) ==
    LET at == IF pc % 4 = 0 THEN pc + 4 ELSE pc + (4 - (pc % 4))
        unsigned(n) == n % Pow[2 * Bits]
        keys == {i \in 1..code[at + 4] : code[at + 8 * i] = unsigned(top)}
        offset == IF keys = {} THEN code[at]
                  ELSE code[at + 8 * (CHOOSE i \in keys : \A j \in keys : i <= j) + 4]
    IN  unsigned(offset + pc)

=============================================================================
