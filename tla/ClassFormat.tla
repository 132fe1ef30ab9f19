----------------------------- MODULE ClassFormat -----------------------------
(***************************************************************************)
(* Class files as a Java compiler writes them (chapter 4 of the Java VM    *)
(* specification), for the classes that a description names: the reader    *)
(* of ClassFile is checked on these.  A text is a model value with an      *)
(* encoding of its own; a file is a sequence of bytes.                     *)
(*                                                                         *)
(* A class is [name, super, interfaces, fields, methods, source, refs,     *)
(* numbers]; super is NoText for java.lang.Object.  A field or method is   *)
(* [name, desc, flags, body, lines, notes]: body tells whether it has      *)
(* code, lines are pairs of an offset and a line number, notes the types   *)
(* of its annotations.  refs and numbers are constants its code uses.      *)
(***************************************************************************)
EXTENDS Naturals, SequencesExt

CONSTANTS Texts,    \* names, descriptors and the like
          Encoding, \* Encoding[x]: the bytes of text x
          NoText    \* ""

U1(n) == <<n>>
U2(n) == <<n \div 256, n % 256>>
U4(n) == U2(n \div 65536) \o U2(n % 65536)
Table(s) == U2(Len(s)) \o FlattenSeq(s)

\* Constants, by what they mean.
Utf8(x) == [tag |-> 1, text |-> x]
Number(tag, n) == [tag |-> tag, number |-> n]
Name(tag, x) == [tag |-> tag, text |-> x]
NameAndType(x, d) == [tag |-> 12, text |-> x, desc |-> d]
Ref(tag, c, x, d) == [tag |-> tag, class |-> c, text |-> x, desc |-> d]

\* The places of constants: longs and doubles take two.  The number of a
\* constant is its first place.
Places(cs) ==
    FlattenSeq([i \in 1..Len(cs) |-> IF cs[i].tag \in {5, 6} THEN <<cs[i], Utf8(NoText)>> ELSE <<cs[i]>>])
Index(cs, c) == SelectInSeq(Places(cs), LAMBDA d : d = c)

Constant(cs, c) == U1(c.tag) \o
    CASE c.tag = 1 -> U2(Len(Encoding[c.text])) \o Encoding[c.text]
      [] c.tag \in {3, 4} -> U4(c.number)
      [] c.tag \in {5, 6} -> U4(0) \o U4(c.number)
      [] c.tag \in {7, 8, 16} -> U2(Index(cs, Utf8(c.text)))
      [] c.tag = 12 -> U2(Index(cs, Utf8(c.text))) \o U2(Index(cs, Utf8(c.desc)))
      [] c.tag \in {9, 10, 11} -> U2(Index(cs, Name(7, c.class)))
                                  \o U2(Index(cs, NameAndType(c.text, c.desc)))
      [] c.tag = 15 -> U1(c.number) \o U2(Index(cs, c.ref))
      [] c.tag = 18 -> U2(0) \o U2(Index(cs, NameAndType(c.text, c.desc)))

Attribute(cs, x, info) == U2(Index(cs, Utf8(x))) \o U4(Len(info)) \o info

\* An annotation with a number, an enum constant and an annotation in it.
Annotation(cs, x) ==
    LET type == U2(Index(cs, Utf8(x)))
        inner == type \o Table(<<>>)
    IN  type \o Table(<<type \o U1(73) \o U2(1), type \o U1(101) \o type \o type,
                        type \o U1(64) \o inner>>)

Code(cs, m) ==
    U2(2) \o U2(1) \o U4(3) \o <<0, 0, 177>>
    \o Table(<<U2(0) \o U2(2) \o U2(2) \o U2(0)>>)
    \o Table(<<Attribute(cs, "LineNumberTable",
                   Table([i \in 1..Len(m.lines) |-> U2(m.lines[i][1]) \o U2(m.lines[i][2])]))>>)

Member(cs, m) ==
    U2(m.flags) \o U2(Index(cs, Utf8(m.name))) \o U2(Index(cs, Utf8(m.desc)))
    \o Table((IF m.notes = <<>> THEN <<>>
              ELSE <<Attribute(cs, "RuntimeVisibleAnnotations",
                         Table([i \in 1..Len(m.notes) |-> Annotation(cs, m.notes[i])]))>>)
             \o (IF m.body THEN <<Attribute(cs, "Code", Code(cs, m))>> ELSE <<>>))

\* The constants in the order of the file; numbers first, so that the second
\* number of a long comes before everything else.
Constants(class) ==
    LET all == class.fields \o class.methods
    IN  class.numbers \o class.refs
        \o [i \in 1..Len(class.interfaces) |-> Name(7, class.interfaces[i])]
        \o <<Name(7, class.name)>>
        \o (IF class.super = NoText THEN <<>> ELSE <<Name(7, class.super)>>)
        \o FlattenSeq([i \in 1..Len(class.refs) |->
               IF class.refs[i].tag \in {9, 10, 11}
               THEN <<Name(7, class.refs[i].class),
                      NameAndType(class.refs[i].text, class.refs[i].desc)>>
               ELSE <<>>])
        \o FoldSet(LAMBDA x, s : Append(s, Utf8(x)), <<>>, Texts)

ClassFile(class) ==
    LET cs == Constants(class)
        members(s) == Table([i \in 1..Len(s) |-> Member(cs, s[i])])
    IN  <<202, 254, 186, 190>> \o U2(0) \o U2(52)
        \o U2(1 + Len(Places(cs)))
        \o FlattenSeq([i \in 1..Len(cs) |-> Constant(cs, cs[i])])
        \o U2(1) \o U2(Index(cs, Name(7, class.name)))
        \o (IF class.super = NoText THEN U2(0) ELSE U2(Index(cs, Name(7, class.super))))
        \o Table([i \in 1..Len(class.interfaces) |-> U2(Index(cs, Name(7, class.interfaces[i])))])
        \o members(class.fields) \o members(class.methods)
        \o Table(<<Attribute(cs, "SourceFile", U2(Index(cs, Utf8(class.source))))>>)

=============================================================================
