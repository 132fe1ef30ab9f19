----------------------------- MODULE ClassReader -----------------------------
(***************************************************************************)
(* Reading a class file: JavaClassFileSource::Load and LocateClassType     *)
(* (rt/rt_JavaClassFileSource.cpp), the constant pool                      *)
(* (vm/vm_ConstantPool.cpp) and the attributes (vm/vm_Attributes.cpp).     *)
(*                                                                         *)
(* A file is a sequence of bytes, of which MemoryReader takes the next few *)
(* without looking whether there are any.  What is read at offset at is a  *)
(* record [at, item]: the offset after it, and the thing read.             *)
(***************************************************************************)
EXTENDS Naturals, SequencesExt

CONSTANTS Texts,    \* texts that occur in files
          Encoding, \* Encoding[x]: the bytes of text x
          NoText,   \* an empty String
          NoItem    \* nullptr

ASSUME EncodingAssumption ==
    /\ NoText \notin Texts
    /\ \A x, y \in Texts : Encoding[x] = Encoding[y] => x = y

\* Reads of one, two and four bytes; BE turns them around.
U1(f, at) == f[at + 1]
U2(f, at) == 256 * f[at + 1] + f[at + 2]
U4(f, at) == 65536 * U2(f, at) + U2(f, at + 2)

\* n things, one after the other; read[p] is the one at offset p.
Offsets(f) == 0..Len(f)
Many(read, n, at) ==
    LET after[i \in 0..n] ==
            IF i = 0 THEN [at |-> at, item |-> <<>>]
            ELSE LET last == after[i - 1]
                     next == read[last.at]
                 IN  [at |-> next.at, item |-> Append(last.item, next.item)]
    IN  after[n]

\* A count of two bytes and so many things.
Counted(read, f, at) == Many(read, U2(f, at), at + 2)

\* The elements of a sequence that are in a set, in their order.
Kept(s, S) == FlattenSeq([i \in 1..Len(s) |-> IF s[i] \in S THEN <<s[i]>> ELSE <<>>])

\* str::FromUtf8.
FromUtf8(bytes) == CHOOSE x \in Texts : Encoding[x] = bytes

-----------------------------------------------------------------------------
(* The constant pool                                                       *)

\* An item has its tag and two numbers, which mean indices of other items or
\* a value, and a text.  An unknown tag becomes Invalid and takes no more
\* bytes, after which the file is misread.
Invalid == 0
Item(tag, x, y, text) == [tag |-> tag, x |-> x, y |-> y, text |-> text]
ReadItem(f, at) ==
    LET tag == U1(f, at)
        skip(n, x, y) == [at |-> at + 1 + n, item |-> Item(tag, x, y, NoText)]
    IN  CASE tag = 1 ->
               LET n == U2(f, at + 1)
               IN  [at |-> at + 3 + n,
                    item |-> Item(tag, 0, 0, FromUtf8(SubSeq(f, at + 4, at + 3 + n)))]
          [] tag \in {3, 4} -> skip(4, U4(f, at + 1), 0)
          [] tag \in {5, 6} -> skip(8, U4(f, at + 5), 0)
          [] tag \in {7, 8, 16} -> skip(2, U2(f, at + 1), 0)
          [] tag \in {9, 10, 11, 12, 18} -> skip(4, U2(f, at + 1), U2(f, at + 3))
          [] tag = 15 -> skip(3, U1(f, at + 1), U2(f, at + 2))
          [] OTHER -> [at |-> at + 1, item |-> Item(Invalid, 0, 0, NoText)]

\* Mutant: a long or double is in the second of its places.
ReadPoolLongLast(f, at) ==
    LET after[i \in 0..(U2(f, at) - 1)] ==
            IF i = 0 THEN [at |-> at + 2, item |-> <<>>]
            ELSE LET last == after[i - 1]
                     next == ReadItem(f, last.at)
                 IN  IF Len(last.item) >= i THEN last
                     ELSE [at |-> next.at,
                           item |-> last.item \o (IF next.item.tag \in {5, 6}
                                                  THEN <<NoItem, next.item>> ELSE <<next.item>>)]
    IN  after[U2(f, at) - 1]

\* The loop over the items: a long or double takes two places, of which the
\* second is empty.
ReadPool(f, at) ==
    LET after[i \in 0..(U2(f, at) - 1)] ==
            IF i = 0 THEN [at |-> at + 2, item |-> <<>>]
            ELSE LET last == after[i - 1]
                     next == ReadItem(f, last.at)
                 IN  IF Len(last.item) >= i THEN last
                     ELSE [at |-> next.at,
                           item |-> last.item \o (IF next.item.tag \in {5, 6}
                                                  THEN <<next.item, NoItem>> ELSE <<next.item>>)]
    IN  after[U2(f, at) - 1]

\* GetItemAt with an expected tag.  (With the second place of a long it
\* would use nullptr; no file refers to one.)
GetItemAt(pool, i, tag) ==
    IF i \in 1..Len(pool) /\ pool[i].tag = tag THEN pool[i] ELSE NoItem

TextAt(pool, i) ==
    LET item == GetItemAt(pool, i, 1) IN IF item = NoItem THEN NoText ELSE item.text

\* ProcessConstantPoolUtf8Data: the texts that items refer to.
Processed(pool) == [i \in 1..Len(pool) |->
    IF pool[i] = NoItem THEN NoItem
    ELSE [tag |-> pool[i].tag, x |-> pool[i].x, y |-> pool[i].y,
          text |-> IF pool[i].tag \in {7, 8, 12, 16} THEN TextAt(pool, pool[i].x) ELSE pool[i].text,
          desc |-> IF pool[i].tag = 12 THEN TextAt(pool, pool[i].y) ELSE NoText]]

\* The name in a Class item, or "" if there is none.
ClassAt(pool, i) ==
    LET item == GetItemAt(pool, i, 7) IN IF item = NoItem THEN NoText ELSE item.text

-----------------------------------------------------------------------------
(* Attributes                                                              *)

\* AttributeInfo, with the name that ProcessAttributeInfoArray finds.
ReadAttribute(f, pool, at) ==
    LET n == U4(f, at + 2)
    IN  [at |-> at + 6 + n,
         item |-> [name |-> TextAt(pool, U2(f, at)), info |-> SubSeq(f, at + 7, at + 6 + n)]]
ReadAttributes(f, pool, at) == Counted([p \in Offsets(f) |-> ReadAttribute(f, pool, p)], f, at)

Named(attributes, x) == Kept(attributes, {a \in Range(attributes) : a.name = x})

\* Annotations: the values are read and dropped, the type stays.  The value
\* of an array is not read, so that the rest of the attribute is misread.
Constant == {66, 67, 68, 70, 73, 74, 83, 90, 115}  \* B C D F I J S Z s
Enum == 101
Class == 99
Nested == 64
ReadAnnotation(f, at) ==
    LET values(nested) == [p \in Offsets(f) |->
            LET tag == U1(f, p + 2)
            IN  [at |-> CASE tag \in Constant \cup {Class} -> p + 5
                          [] tag = Enum -> p + 7
                          [] tag = Nested -> nested[p + 3]
                          [] OTHER -> p + 3,
                 item |-> tag]]
        ends[depth \in 0..Len(f)] == [p \in Offsets(f) |->
            IF depth = 0 THEN p ELSE Counted(values(ends[depth - 1]), f, p + 2).at]
    IN  [at |-> ends[Len(f)][at], item |-> U2(f, at)]

\* RuntimeVisibleAnnotationsAttributeData and ProcessAnnotations.
Annotations(attribute, pool) ==
    LET marks == Counted([p \in Offsets(attribute.info) |-> ReadAnnotation(attribute.info, p)],
                         attribute.info, 0).item
    IN  [i \in 1..Len(marks) |-> TextAt(pool, marks[i])]
ProcessAttributes(attributes, pool) ==
    FlattenSeq([i \in 1..Len(Named(attributes, "RuntimeVisibleAnnotations")) |->
                  Annotations(Named(attributes, "RuntimeVisibleAnnotations")[i], pool)])

\* HasAnnotation, for CallerSensitive.
HasAnnotation(member, x) == \E i \in 1..Len(member.notes) : member.notes[i] = x

\* CodeAttributeData: the code, the exception table and the attributes.
ReadCode(f, pool) ==
    LET n == U4(f, 4)
        handlers == Counted([p \in Offsets(f) |-> [at |-> p + 8,
                        item |-> <<U2(f, p), U2(f, p + 2), U2(f, p + 4), U2(f, p + 6)>>]], f, 8 + n)
    IN  [stack |-> U2(f, 0), locals |-> U2(f, 2), code |-> SubSeq(f, 9, 8 + n),
         handlers |-> handlers.item, attributes |-> ReadAttributes(f, pool, handlers.at).item]

\* LineNumberTableAttributeData, and GetLineNumberTable of all of them.
ReadLines(f) ==
    Counted([p \in Offsets(f) |-> [at |-> p + 4, item |-> <<U2(f, p), U2(f, p + 2)>>]], f, 0).item
LineNumberTable(code) ==
    LET tables == Named(code.attributes, "LineNumberTable")
    IN  FlattenSeq([i \in 1..Len(tables) |-> ReadLines(tables[i].info)])

\* FindLineNumber: the entry with the greatest start up to the offset, the
\* later of two; line 0 if there is none.
FindLineNumber(table, offset) ==
    FoldLeft(LAMBDA best, e : IF e[1] <= offset /\ e[1] >= best[1] THEN e ELSE best,
             <<0, 0>>, table)[2]

-----------------------------------------------------------------------------
(* The class                                                               *)

HasFlag(flags, bit) == (flags \div bit) % 2 = 1
Static == 8
Native == 256

\* FieldInfo, ProcessFieldInfoArray and ClassBaseField, of fields and methods.
ReadMember(f, pool, at) ==
    LET attributes == ReadAttributes(f, pool, at + 6)
    IN  [at |-> attributes.at,
         item |-> [flags |-> U2(f, at), name |-> TextAt(pool, U2(f, at + 2)),
                   desc |-> TextAt(pool, U2(f, at + 4)), attributes |-> attributes.item,
                   notes |-> ProcessAttributes(attributes.item, pool)]]
ReadMembers(f, pool, at) == Counted([p \in Offsets(f) |-> ReadMember(f, pool, p)], f, at)

Magic == <<202, 254, 186, 190>>

\* Load and LocateClassType: the class type, or NoItem if Load returns early.
Load(f) ==
    LET constants == ReadPool(f, 8)
        pool == Processed(constants.item)
        at == constants.at
        interfaces == Counted([p \in Offsets(f) |-> [at |-> p + 2, item |-> ClassAt(pool, U2(f, p))]],
                              f, at + 6)
        fields == ReadMembers(f, pool, interfaces.at)
        methods == ReadMembers(f, pool, fields.at)
        sources == Named(ReadAttributes(f, pool, methods.at).item, "SourceFile")
    IN  IF SubSeq(f, 1, 4) # Magic \/ ClassAt(pool, U2(f, at + 2)) = NoText
        THEN NoItem
        ELSE [name |-> ClassAt(pool, U2(f, at + 2)), super |-> ClassAt(pool, U2(f, at + 4)),
              interfaces |-> Kept(interfaces.item, Texts),
              fields |-> fields.item, methods |-> methods.item, flags |-> U2(f, at),
              source |-> IF sources = <<>> THEN NoText ELSE TextAt(pool, U2(sources[1].info, 0)),
              pool |-> pool]

=============================================================================
