---------------------------- MODULE OperandStack ----------------------------
(***************************************************************************)
(* The operand stack of an ExecutionFrame and what instructions do to it   *)
(* (libjavm/src/javm/vm/vm_Execution.impl.cpp).  The code keeps one        *)
(* Variable per value, whatever its size, asks IsBigComputationalType where *)
(* the Java VM specification counts words, and never clears the stack.     *)
(*                                                                         *)
(* The bytecode is verified: each instruction finds the values its         *)
(* specification asks for.  What it names may be missing all the same.     *)
(***************************************************************************)
EXTENDS Integers, Sequences

CONSTANTS
    Small,    \* values of one word: an int, float or reference
    Big,      \* values of two: a long or double
    Nullptr,  \* what Pop returns when the stack is empty
    MaxDepth  \* bound: operands

ASSUME ConstantsAssumption ==
    /\ Small # {} /\ Small \cap Big = {} /\ Nullptr \notin Small \cup Big
    /\ MaxDepth \in Nat

VARIABLES
    operands,  \* the stack, the top last
    junk,      \* how many operands at the bottom the Java VM specification
               \* would not have there (history)
    inst,      \* the last instruction: its effect by that specification
    astray     \* the code has not followed it (history)

vars == <<operands, junk, inst, astray>>

Value == Small \cup Big
Depth == Len(operands)

TypeOK ==
    /\ operands \in Seq(Value \cup {Nullptr})
    /\ junk \in 0..Depth
    /\ astray \in BOOLEAN
    /\ ~astray => operands \in Seq(Value)

Init == operands = <<>> /\ junk = 0 /\ inst = [op |-> "none"] /\ astray = FALSE

\* The i-th operand from the top, as the i-th Pop returns it.
Nth(i) == IF i <= Depth THEN operands[Depth + 1 - i] ELSE Nullptr
Under(n) == SubSeq(operands, 1, Depth - n)

\* The sizes of the upper operands, from the top, are those of shape.
Shaped(shape) ==
    /\ junk + Len(shape) <= Depth
    /\ \A i \in DOMAIN shape : Nth(i) \in IF shape[i] = 1 THEN Small ELSE Big

Bounded == Len(operands') <= MaxDepth

-----------------------------------------------------------------------------
(* Instructions that compute                                               *)

\* Pops n operands and pushes those of res.
Replaces(n, res) ==
    /\ junk + n <= Depth
    /\ operands' = Under(n) \o res
    /\ Bounded
    /\ UNCHANGED <<junk, astray>>

Gives == {<<v>> : v \in Value}

Computes(takes, gives) ==
    inst' = [op |-> "compute", takes |-> takes, gives |-> gives]

\* Constants, loads, getstatic, new, jsr, when what they name is found.
Push == Computes(0, 1) /\ \E res \in Gives : Replaces(0, res)

\* Stores, ifs on one value, putstatic, monitorenter and monitorexit.
Consume == Computes(1, 0) /\ Replaces(1, <<>>)

\* Negations, conversions, getfield, newarray, arraylength, checkcast.
Unary == Computes(1, 1) /\ \E res \in Gives : Replaces(1, res)

\* Arithmetic, shifts, lcmp, array loads.
Operator == Computes(2, 1) /\ \E res \in Gives : Replaces(2, res)

\* Ifs on two values, putfield.
ConsumeTwo == Computes(2, 0) /\ Replaces(2, <<>>)

ArrayStore == Computes(3, 0) /\ Replaces(3, <<>>)

\* A call takes one operand per parameter of the descriptor, and the object.
Invoke ==
    \E args \in 0..3 : \E res \in {<<>>} \cup Gives :
        Computes(args, Len(res)) /\ Replaces(args, res)

\* fcmpl and its like push a result for NaN, and then one more, as though the
\* numbers were equal.
Compare ==
    /\ inst' = [op |-> "compare"]
    /\ Shaped(<<1, 1>>) \/ Shaped(<<2, 2>>)
    /\ \E res \in Small :
          \/ operands' = Under(2) \o <<res>> /\ UNCHANGED <<junk, astray>>
          \/ \E nanv \in Small :
                /\ operands' = Under(2) \o <<nanv, res>>
                /\ IF junk + 2 = Depth
                   THEN junk' = junk + 1 /\ UNCHANGED astray
                   ELSE astray' = TRUE /\ UNCHANGED junk
    /\ Bounded

\* instanceof pushes nothing for an array.
InstanceOf ==
    /\ inst' = [op |-> "instanceof"]
    /\ Shaped(<<1>>)
    /\ \/ /\ \E res \in Small : operands' = Under(1) \o <<res>>
          /\ UNCHANGED <<junk, astray>>
       \/ operands' = Under(1) /\ astray' = TRUE /\ UNCHANGED junk

\* What the instruction names is not found, or its class cannot be used, and
\* the code goes on as though nothing were wrong.
Unresolved ==
    /\ inst' = [op |-> "unresolved"]
    /\ \/ UNCHANGED operands          \* new, ldc, and invokestatic of a class
       \/ \E n \in 1..3 :             \* putstatic; a call that returns nullptr
             junk + n <= Depth /\ operands' = Under(n)
       \/ \E n \in 0..1 :             \* getstatic and getfield
             junk + n <= Depth /\ operands' = Append(Under(n), Nullptr)
    /\ Bounded
    /\ astray' = TRUE
    /\ UNCHANGED junk

-----------------------------------------------------------------------------
(* Shuffles                                                                *)

Drops(k) == inst' = [op |-> "drop", words |-> k]
Copies(k, d) == inst' = [op |-> "copy", words |-> k, over |-> d]

Pop == Drops(1) /\ Shaped(<<1>>) /\ Replaces(1, <<>>)

Pop2 ==
    /\ Drops(2)
    /\ Shaped(<<2>>) \/ Shaped(<<1, 1>>)
    /\ IF Nth(1) \in Big THEN Replaces(1, <<>>) ELSE Replaces(2, <<>>)

Dup == Copies(1, 0) /\ Shaped(<<1>>) /\ Replaces(1, <<Nth(1), Nth(1)>>)

DupX1 ==
    /\ Copies(1, 1)
    /\ Shaped(<<1, 1>>)
    /\ Replaces(2, <<Nth(1), Nth(2), Nth(1)>>)

\* The test is of the top operand, which is never big.
DupX2 ==
    /\ Copies(1, 2)
    /\ Shaped(<<1, 1, 1>>) \/ Shaped(<<1, 2>>)
    /\ operands' = IF Nth(1) \in Big
                   THEN Under(2) \o <<Nth(1), Nth(2), Nth(1)>>
                   ELSE Under(3) \o <<Nth(1), Nth(3), Nth(2), Nth(1)>>
    /\ Bounded
    /\ astray' = Shaped(<<1, 2>>)
    /\ UNCHANGED junk

Dup2 ==
    /\ Copies(2, 0)
    /\ Shaped(<<2>>) \/ Shaped(<<1, 1>>)
    /\ IF Nth(1) \in Big
       THEN Replaces(1, <<Nth(1), Nth(1)>>)
       ELSE Replaces(2, <<Nth(2), Nth(1), Nth(2), Nth(1)>>)

\* Mutant: the form for two small values on top is used for a big one too.
Dup2X1OneForm ==
    /\ Copies(2, 1)
    /\ Shaped(<<1, 1, 1>>) \/ Shaped(<<2, 1>>)
    /\ operands' = Under(3) \o <<Nth(2), Nth(1), Nth(3), Nth(2), Nth(1)>>
    /\ Bounded
    /\ UNCHANGED <<junk, astray>>

Dup2X1 ==
    /\ Copies(2, 1)
    /\ Shaped(<<1, 1, 1>>) \/ Shaped(<<2, 1>>)
    /\ IF Nth(1) \in Big
       THEN Replaces(2, <<Nth(1), Nth(2), Nth(1)>>)
       ELSE Replaces(3, <<Nth(2), Nth(1), Nth(3), Nth(2), Nth(1)>>)

\* Of the four forms, that of two big values is not told from a big one over
\* two small ones.
Dup2X2 ==
    /\ Copies(2, 2)
    /\ \E shape \in {<<1, 1, 1, 1>>, <<2, 1, 1>>, <<1, 1, 2>>, <<2, 2>>} :
          Shaped(shape)
    /\ operands' =
          IF Nth(1) \in Big
          THEN Under(3) \o <<Nth(1), Nth(3), Nth(2), Nth(1)>>
          ELSE IF Nth(3) \in Big
          THEN Under(3) \o <<Nth(2), Nth(1), Nth(3), Nth(2), Nth(1)>>
          ELSE Under(4) \o <<Nth(2), Nth(1), Nth(4), Nth(3), Nth(2), Nth(1)>>
    /\ Bounded
    /\ astray' = Shaped(<<2, 2>>)
    /\ UNCHANGED junk

-----------------------------------------------------------------------------
\* An instruction throws after it has popped some operands.  The throwable is
\* pushed once for each entry of the exception table that matches, on top of
\* the others.
Handler ==
    /\ inst' = [op |-> "catch"]
    /\ \E throwable \in Small : \E matches \in 1..2 : \E popped \in 0..(Depth - junk) :
          /\ operands' = Under(popped) \o [i \in 1..matches |-> throwable]
          /\ junk' = Depth - popped + matches - 1
    /\ Bounded
    /\ UNCHANGED astray

\* The frame is followed as long as it follows the specification.
Next ==
    /\ ~astray
    /\ \/ Push \/ Consume \/ Unary \/ Operator \/ ConsumeTwo \/ ArrayStore
       \/ Invoke \/ Compare \/ InstanceOf \/ Unresolved
       \/ Pop \/ Pop2 \/ Dup \/ DupX1 \/ DupX2 \/ Dup2 \/ Dup2X1 \/ Dup2X2
       \/ Handler

Spec == Init /\ [][Next]_vars

-----------------------------------------------------------------------------
(* Properties                                                              *)

\* The words of a sequence of values.
Halves(v) ==
    IF v \in Big THEN <<[val |-> v, half |-> 1], [val |-> v, half |-> 2]>>
                 ELSE <<[val |-> v, half |-> 1]>>
WordsOf(values) ==
    LET upTo[i \in 0..Len(values)] ==
            IF i = 0 THEN <<>> ELSE upTo[i - 1] \o Halves(values[i])
    IN upTo[Len(values)]

\* The operands that the Java VM specification has on the stack too.
Live == SubSeq(operands, junk + 1, Depth)
Slots == INSTANCE SlotStack WITH slots <- WordsOf(Live)

\* Frames behave as the Java VM specification says, except in the cases that
\* SlotStack lists: what handlers and comparisons leave below is never read,
\* and dup instructions on values of two words move what they should.  After
\* one of those cases, nothing is said of the frame.
FollowsJvm == Slots!Spec
=============================================================================
