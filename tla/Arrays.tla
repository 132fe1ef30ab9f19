------------------------------- MODULE Arrays -------------------------------
(***************************************************************************)
(* Arrays of references (vm/vm_Array.cpp) and the code that creates, reads *)
(* and writes them: MULTIANEWARRAY, AALOAD, AASTORE and CHECKCAST in       *)
(* vm/vm_Execution.impl.cpp, and System.arraycopy.                         *)
(*                                                                         *)
(* An element is nullptr (NoItem) until it is set or read; else it is      *)
(* Null, an object, which is known by its class, or an array.  An array of *)
(* a primitive type has NoItem for its class.  An operation ends with a    *)
(* word; "dies" is a nullptr that is used.                                 *)
(***************************************************************************)
EXTENDS ClassTypes

VARIABLE arrays   \* arrays[a]: [class, elements]

Length(a) == Len(arrays[a].elements)
Element(a, i) == arrays[a].elements[i + 1]

\* Mutant: any object.
FitsAlways(class, v) == v = Null \/ v \in DOMAIN types \/ v = Array

\* The type tests of SetAt, for an array of a class.
Fits(class, v) ==
    \/ v = Null
    \/ v \in DOMAIN types /\ CanCastTo(v, class)
    \/ v = Array /\ class = Object

\* GetAt at an index in range gives an empty element its default.
GetAt(a, i) == IF Element(a, i) = NoItem THEN Null ELSE Element(a, i)
InRange(a, i) == i \in 0..(Length(a) - 1)

AaLoad(a, i) ==
    arrays' = IF InRange(a, i) THEN [arrays EXCEPT ![a].elements[i + 1] = GetAt(a, i)]
              ELSE arrays

AaStoreOutcome(a, i, v) ==
    IF ~InRange(a, i) THEN "ArrayIndexOutOfBoundsException"
    ELSE IF Fits(arrays[a].class, v) THEN "stored" ELSE "ArrayStoreException"
AaStore(a, i, v) ==
    arrays' = IF AaStoreOutcome(a, i, v) = "stored"
              THEN [arrays EXCEPT ![a].elements[i + 1] = v] ELSE arrays

\* arraycopy: all elements are read before the first is written; an index
\* out of range reads nullptr, and writes nothing.
Copied(a, sp, n) == [i \in 1..n |-> IF InRange(a, sp + i - 1) THEN GetAt(a, sp + i - 1) ELSE NoItem]
ArrayCopyOutcome(a, sp, b, dp, n) ==
    IF \E i \in 1..n : Copied(a, sp, n)[i] = NoItem /\ InRange(b, dp + i - 1)
    THEN "dies" ELSE "void"
ArrayCopy(a, sp, b, dp, n) ==
    LET values == Copied(a, sp, n)
        read == [arrays EXCEPT ![a].elements =
                    [i \in DOMAIN @ |-> IF i - 1 \in sp..(sp + n - 1) THEN GetAt(a, i - 1) ELSE @[i]]]
    IN  arrays' = [read EXCEPT ![b].elements =
            [i \in DOMAIN @ |-> IF /\ i - 1 \in dp..(dp + n - 1)
                                   /\ Fits(arrays[b].class, values[i - dp])
                                THEN values[i - dp] ELSE @[i]]]

\* CHECKCAST of an array of a class, or of a primitive type (whose class is
\* nullptr), by the code of class c: its element class is asked whether it can
\* be cast; how many dimensions the types have is not compared, and a cast
\* that fails throws an InternalError.  INSTANCEOF of an array pushes nothing.
CheckCastArray(c, index, class) ==
    LET x == GetItemAt(types[c].pool, index, 7).text
        type == CreateTypeByName(x, DOMAIN types)
    IN  IF type = NoItem \/ class = NoItem THEN "dies"
        ELSE IF type.dims > 0 /\ CanCastTo(class, GetClassNameFromDescriptor(x))
        THEN "pushed" ELSE "internal"

-----------------------------------------------------------------------------
(* MULTIANEWARRAY                                                          *)

\* An array as [class, dims, elements]: what SetAt does with a row.
Row(class, row) == IF class = NoItem \/ class = Object THEN row ELSE NoItem
NewArray(class, n, dims) == [class |-> class, dims |-> dims, elements |-> [i \in 1..n |-> NoItem]]

\* CreatePopulateMultidimensionalArray, of each dimension from the last: the
\* array has rows, which are the arrays of the next.  Only an array of Object
\* takes them if the type is a class.
Populate(class, lengths) ==
    LET populated[d \in DOMAIN lengths] ==
            LET new == NewArray(class, lengths[d], Len(lengths) - d + 1)
            IN  IF d = Len(lengths) THEN new
                ELSE [new EXCEPT !.elements =
                         [i \in 1..lengths[d] |-> Row(class, populated[d + 1])]]
    IN  populated[1]

\* (The initialisation of the class is in ClassInit.)
MultiANewArray(c, index, lengths) ==
    LET base == GetClassNameFromDescriptor(GetItemAt(types[c].pool, index, 7).text)
        class == IF IsPrimitiveType(base) THEN NoItem ELSE base
        fails(x) == [outcome |-> x, array |-> NoItem]
    IN  IF \E d \in DOMAIN lengths : lengths[d] < 0 THEN fails("NegativeArraySizeException")
        ELSE IF class \notin DOMAIN types \cup {NoItem} THEN fails("internal")
        ELSE [outcome |-> "pushed", array |-> Populate(class, lengths)]

=============================================================================
