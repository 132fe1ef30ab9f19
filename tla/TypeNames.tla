------------------------------ MODULE TypeNames ------------------------------
(***************************************************************************)
(* Types as names and descriptors say them (vm/vm_TypeBase.hpp and .cpp,   *)
(* vm/ref/ref_Reflection.cpp): "int", "I", "A", "LA;", "[[LA;".  The       *)
(* characters of a text are the bytes of its encoding.                     *)
(***************************************************************************)
EXTENDS ClassReader

CONSTANTS Primitives  \* <<name, descriptor>> of the primitive types

\* '[', 'L', ';', ')'.
Bracket == 91
Letter == 76
Semicolon == 59
Parenthesis == 41

Text(chars) == IF \E x \in Texts : Encoding[x] = chars THEN FromUtf8(chars) ELSE NoText

\* The number of elements at the front that are ch, and the rest.
Leading(chars, ch) ==
    LET k == SelectInSeq(chars, LAMBDA c : c # ch) IN IF k = 0 THEN Len(chars) ELSE k - 1
Without(chars, ch) == SubSeq(chars, Leading(chars, ch) + 1, Len(chars))

\* GetClassNameFromDescriptor: all brackets, all 'L' and one ';' are cut off.
GetClassNameFromDescriptor(x) ==
    LET name == Without(Without(Encoding[x], Bracket), Letter)
    IN  Text(IF Last(name) = Semicolon THEN Front(name) ELSE name)

\* IsPrimitiveType, of a name or of a descriptor with brackets.
IsPrimitiveType(x) ==
    \E p \in Primitives : x = p[1] \/ Text(Without(Encoding[x], Bracket)) = p[2]

\* CreateTypeByName, as far as the class is found: the name of the primitive
\* type or class, and the dimensions; nullptr for what is neither.
CreateTypeByName(x, classes) ==
    LET dims == Leading(Encoding[x], Bracket)
        rest == Without(Encoding[x], Bracket)
        name == Text(IF rest[1] = Letter /\ Last(rest) = Semicolon THEN Front(Tail(rest)) ELSE rest)
    IN  IF \E p \in Primitives : name \in {p[1], p[2]}
        THEN [base |-> (CHOOSE p \in Primitives : name \in {p[1], p[2]})[1], dims |-> dims]
        ELSE IF name \in classes THEN [base |-> name, dims |-> dims] ELSE NoItem

\* GetFunctionDescriptorParameterCount: a '[' counts for nothing, and from an
\* 'L' to its ';' it is one.
ParameterCount(d) ==
    LET inside == SubSeq(Encoding[d], 2, SelectLastInSeq(Encoding[d], LAMBDA ch : ch = Parenthesis) - 1)
        after[i \in 0..Len(inside)] ==
            IF i = 0 THEN [n |-> 0, class |-> FALSE]
            ELSE LET r == after[i - 1]
                     ch == inside[i]
                 IN  CASE ch = Bracket -> r
                       [] ch # Bracket /\ r.class -> [r EXCEPT !.class = ch # Semicolon]
                       [] OTHER -> [n |-> r.n + 1, class |-> ch = Letter]
    IN  after[Len(inside)].n

=============================================================================
