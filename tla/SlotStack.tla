----------------------------- MODULE SlotStack -----------------------------
(***************************************************************************)
(* The operand stack of a frame as the Java VM specification has it: a     *)
(* sequence of words, in which a long or a double is two adjacent words.   *)
(* Instructions name the values or words they are about; none may split a  *)
(* value of two words.  A handler starts with the throwable alone on the   *)
(* stack.                                                                  *)
(***************************************************************************)
EXTENDS Integers, Sequences, FiniteSets

CONSTANTS Small, Big  \* values of one word, and of two

VARIABLES
    slots,  \* the words, the top one last
    inst,   \* the last instruction, as its effect
    astray  \* an instruction of Stray has been executed

Value == Small \cup Big
Words(v) ==
    IF v \in Big THEN <<[val |-> v, half |-> 1], [val |-> v, half |-> 2]>>
                 ELSE <<[val |-> v, half |-> 1]>>

Depth == Len(slots)
Below(n) == SubSeq(slots, 1, Depth - n)
Over(n) == SubSeq(slots, Depth - n + 1, Depth)

\* A value ends with the word at i.
Boundary(i) == i = 0 \/ slots[i].half = 2 \/ slots[i].val \in Small

\* The upper n words are whole values, c of them.
Values(n, c) ==
    /\ Boundary(Depth - n)
    /\ Cardinality({i \in (Depth - n + 1)..Depth : Boundary(i)}) = c

Init == slots = <<>> /\ inst = [op |-> "none"] /\ astray = FALSE

\* Takes values and gives a result or none.
Compute(takes, gives) ==
    /\ inst' = [op |-> "compute", takes |-> takes, gives |-> gives]
    /\ \E n \in 0..Depth :
          /\ Values(n, takes)
          /\ IF gives = 0 THEN slots' = Below(n)
                          ELSE \E v \in Value : slots' = Below(n) \o Words(v)

Compare ==
    /\ inst' = [op |-> "compare"]
    /\ \E n \in 2..4 : n <= Depth /\ Values(n, 2)
          /\ \E v \in Small : slots' = Below(n) \o Words(v)

InstanceOf ==
    /\ inst' = [op |-> "instanceof"]
    /\ \E v \in Small : Boundary(Depth - 1) /\ slots' = Below(1) \o Words(v)

\* pop and pop2.
Drop(k) ==
    /\ inst' = [op |-> "drop", words |-> k]
    /\ k <= Depth /\ Boundary(Depth - k)
    /\ slots' = Below(k)

\* dup, dup_x1, ..., dup2_x2: copies the upper k words below the next d ones.
Copy(k, d) ==
    /\ inst' = [op |-> "copy", words |-> k, over |-> d]
    /\ k + d <= Depth /\ Boundary(Depth - k) /\ Boundary(Depth - k - d)
    /\ slots' = Below(k + d) \o Over(k) \o Over(k + d)

Catch ==
    /\ inst' = [op |-> "catch"]
    /\ \E v \in Small : slots' = Words(v)

\* Where an implementation may leave this specification: dup_x2 and dup2_x2
\* over a value of two words below a single value, a comparison with other
\* operands below its own, instanceof, and what fails to find the class, field
\* or constant that it names: such an instruction should throw.
Stray ==
    /\ \/ /\ inst' = [op |-> "copy", words |-> 1, over |-> 2]
          /\ Depth >= 3 /\ ~Boundary(Depth - 2)
       \/ /\ inst' = [op |-> "copy", words |-> 2, over |-> 2]
          /\ Depth >= 4 /\ ~Boundary(Depth - 1) /\ ~Boundary(Depth - 3)
       \/ /\ inst' = [op |-> "compare"]
          /\ \E n \in 2..4 : n < Depth /\ Values(n, 2)
       \/ inst' = [op |-> "instanceof"]
       \/ inst' = [op |-> "unresolved"]
    /\ astray' = TRUE

Next ==
    /\ ~astray
    /\ \/ /\ \/ \E takes \in 0..3, gives \in 0..1 : Compute(takes, gives)
             \/ Compare \/ InstanceOf \/ Catch
             \/ \E k \in 1..2 : Drop(k) \/ \E d \in 0..2 : Copy(k, d)
          /\ UNCHANGED astray
       \/ Stray

Spec == Init /\ [][Next]_<<slots, inst, astray>>
=============================================================================
