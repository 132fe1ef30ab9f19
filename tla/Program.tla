------------------------------- MODULE Program -------------------------------
(***************************************************************************)
(* A program is read and run: its class files are added to the class path  *)
(* one by one (ClassReader), and then an instruction of the class Self is  *)
(* executed: one that looks something up (ClassTypes), an operation on an  *)
(* array (Arrays), or one on integers (Arithmetic).  What the program is   *)
(* (world) is chosen at the start, and answer is compared with what Java   *)
(* says of it (JavaRules).                                                 *)
(***************************************************************************)
EXTENDS Arrays, Arithmetic, FiniteSets

CONSTANTS Nowhere, InterfaceNames,
          Worlds,      \* programs
          Base,        \* one of them, for the tasks "arrays" and "numbers"
          Order,       \* the class files in the order of the class path
          Self,        \* the class whose code is executed
          Arity,       \* Arity[d]: the parameters of a method descriptor
          Meaning,     \* Meaning[x]: the type that x names: its base and dimensions
          ArrayPairs,  \* pairs of element classes of the two arrays
          Size,        \* bound: length of arrays and of dimensions
          ShiftBits,   \* bits of the count of a shift of an int
          MaxOps,      \* bound: operations on arrays
          Switches     \* LOOKUPSWITCH instructions: [default, pairs]

\* int has a number of bits that shifts count with ShiftBits.  Switches are
\* as compilers make them: keys are ints, none twice, and the targets are in
\* the code, whose offsets are numbers without sign.
ASSUME NumbersAssumption ==
    /\ ShiftBits \in Nat /\ Bits = Pow[ShiftBits] /\ ByteBits \in 1..Bits
    /\ \A s \in Switches :
        LET inCode(offset) == offset \in Int /\ \A pc \in 8..11 : pc + offset \in 0..(Pow[2 * Bits] - 1)
        IN  /\ inCode(s.default)
            /\ Len(s.pairs) < Pow[2 * Bits]
            /\ s.pairs \in Seq(Int \X Int)
            /\ \A i \in DOMAIN s.pairs :
                   /\ s.pairs[i][1] \in -(Pow[Bits - 1]) .. (Pow[Bits - 1] - 1)
                   /\ inCode(s.pairs[i][2])
                   /\ \A j \in DOMAIN s.pairs : s.pairs[i][1] = s.pairs[j][1] => i = j

\* Lines of a method as compilers number them: from offset 0, and an offset is
\* of one line only.
LinesNumbered(lines) ==
    /\ lines \in Seq(Nat \X Nat)
    /\ \E e \in Range(lines) : e[1] = 0
    /\ \A e, g \in Range(lines) : e[1] = g[1] => e = g

\* The classes of a program, as compilers accept them: every class but Object
\* has a superclass, which is no interface; no class is its own supertype;
\* fields of interfaces are static, and Object has none; no class has two
\* methods of the same name and descriptor; only what is not static may be
\* abstract, and nothing of Object is; what has a body has lines.
WellFormed(w) ==
    /\ DOMAIN w = Range(Order)
    /\ \A c \in DOMAIN w :
           /\ w[c].super \in (Range(Order) \ InterfaceNames) \cup {NoText}
           /\ w[c].super = NoText <=> c = Object
           /\ c \in InterfaceNames => w[c].super = Object
           /\ w[c].interfaces \in Seq(InterfaceNames \cap Range(Order))
           /\ c = Object => w[c].interfaces = <<>>
           /\ w[c].fields \in Seq(Range(w[c].fields)) /\ w[c].methods \in Seq(Range(w[c].methods))
           /\ c = Object => w[c].fields = <<>>
           /\ \A f \in Range(w[c].fields) : c \in InterfaceNames => HasFlag(f.flags, Static)
           /\ \A m \in Range(w[c].methods) :
                  /\ m.body => ~HasFlag(m.flags, Native) /\ LinesNumbered(m.lines)
                  /\ HasFlag(m.flags, Static) \/ c = Object => m.body \/ HasFlag(m.flags, Native)
                  /\ \A n \in Range(w[c].methods) : m.name = n.name /\ m.desc = n.desc => m = n
    /\ \A set \in (SUBSET DOMAIN w) \ {{}} : \E c \in set :
           w[c].super \notin set /\ Range(w[c].interfaces) \cap set = {}
    /\ \A r \in Range(w[Self].refs) \cup Range(w[Self].numbers) :
           /\ r.tag \in {9, 10, 11} => r.class \in Range(Order)
           /\ r.tag = 7 => /\ Meaning[r.text].dims \in Nat
                           /\ Meaning[r.text].dims = 0 => Meaning[r.text].base = r.text

ASSUME WorldsAssumption ==
    /\ Order \in Seq(Range(Order))
    /\ {NoText, NoItem, Nowhere, Null, Array} \cap Range(Order) = {}
    /\ Self \in Range(Order) \ InterfaceNames /\ Object \in Range(Order) \ InterfaceNames
    /\ Base \in Worlds
    /\ \A w \in Worlds : WellFormed(w)

ASSUME ArraysAssumption ==
    /\ Size \in Nat
    /\ ArrayPairs \subseteq Range(Order) \X Range(Order)

VARIABLES
    world,  \* world[c]: description of class c, as in ClassFormat
    task,   \* which instructions are executed
    answer, \* what the last instruction did
    ops     \* operations on arrays so far (bounded by MaxOps)

vars == <<world, task, types, arrays, answer, ops>>

Format == INSTANCE ClassFormat
Java == INSTANCE JavaRules

Descriptions == {w[c] : w \in Worlds, c \in Range(Order)}

\* What a class file can hold: numbers of two or four bytes, and of nothing
\* more than two bytes count.
Byte == {n \in Nat : n < 256}
Word == {n \in Nat : n < 65536}
IsLong(n) == n \in Nat /\ n \div 65536 \in Word
Few(S) == {s \in Seq(S) : Len(s) \in Word}
ConstantFits(c) ==
    \/ c.tag \in 3..6 /\ IsLong(c.number)
    \/ c.tag \in {7, 8, 16} /\ c.text \in Texts
    \/ c.tag \in {9, 10, 11} /\ {c.class, c.text, c.desc} \subseteq Texts
    \/ c.tag \in {12, 18} /\ {c.text, c.desc} \subseteq Texts
    \/ c.tag = 15 /\ c.number \in Byte
MemberFits(m) ==
    /\ {m.name, m.desc} \subseteq Texts /\ m.flags \in Word /\ m.body \in BOOLEAN
    /\ m.lines \in Few(Word \X Word) /\ m.notes \in Few(Texts)
DescriptionFits(d) ==
    /\ {d.name, d.source} \subseteq Texts /\ d.super \in Texts \cup {NoText}
    /\ d.interfaces \in Few(Texts)
    /\ d.fields \in Few(Range(d.fields)) /\ d.methods \in Few(Range(d.methods))
    /\ \A m \in Range(d.fields) \cup Range(d.methods) : MemberFits(m)
    /\ d.refs \in Seq(Range(d.refs)) /\ d.numbers \in Seq(Range(d.numbers))
    /\ \A c \in Range(d.refs) \cup Range(d.numbers) : ConstantFits(c)
    /\ \A c \in Range(d.numbers) : c.tag \in 3..6
    /\ 1 + Len(Format!Places(Format!Constants(d))) \in Word
ASSUME FilesAssumption ==
    /\ IsFiniteSet(Texts) /\ \A x \in Texts : Encoding[x] \in Few(Byte)
    /\ {"Code", "LineNumberTable", "SourceFile", "RuntimeVisibleAnnotations"} \subseteq Texts
    /\ \A d \in Descriptions : DescriptionFits(d)

\* Names and descriptors as compilers write them: a class is named by what is
\* no descriptor and no primitive type, an array type by brackets and the
\* descriptor of its base (of a class whose name does not begin with an 'L'),
\* and a method descriptor has that of each parameter.
Descriptor(base, s) ==
    \/ <<base, s>> \in {<<p[1], Encoding[p[2]]>> : p \in Primitives}
    \/ /\ base \in Range(Order) /\ Encoding[base][1] # Letter
       /\ s = <<Letter>> \o Encoding[base] \o <<Semicolon>>
NamesType(x, type) ==
    /\ type # NoItem /\ type = [base |-> type.base, dims |-> type.dims] /\ type.dims \in Nat
    /\ type.dims = 0 => type.base = x /\ x \in Range(Order)
    /\ type.dims > 0 =>
           /\ type.dims < Len(Encoding[x]) /\ \A i \in 1..type.dims : Encoding[x][i] = Bracket
           /\ Descriptor(type.base, SubSeq(Encoding[x], type.dims + 1, Len(Encoding[x])))
IsParameter(s) == \E n \in 1..Len(s) :
    /\ \A i \in 1..(n - 1) : s[i] = Bracket
    /\ IF n = Len(s) THEN s[n] \notin {Bracket, Letter}
       ELSE s[n] = Letter /\ \A i \in (n + 1)..Len(s) : s[i] = Semicolon <=> i = Len(s)
HasParameters(s, n) == \E end \in 1..(Len(s) - 1), cuts \in [0..n -> 1..Len(s)] :
    /\ s[end + 1] = Parenthesis /\ \A i \in (end + 2)..Len(s) : s[i] # Parenthesis
    /\ cuts[0] = 1 /\ cuts[n] = end
    /\ \A i \in 1..n : cuts[i - 1] < cuts[i] /\ IsParameter(SubSeq(s, cuts[i - 1] + 1, cuts[i]))
ASSUME NamesAssumption ==
    /\ Range(Order) \subseteq Texts
    /\ \A c \in Range(Order) :
           /\ Encoding[c] # <<>> /\ Encoding[c][1] # Bracket /\ Last(Encoding[c]) # Semicolon
           /\ \A p \in Primitives : c \notin {p[1], p[2]}
    /\ \A p \in Primitives :
           /\ p[2] \in Texts /\ Len(Encoding[p[2]]) = 1
           /\ Encoding[p[2]][1] \notin {Bracket, Letter, Semicolon}
           /\ \A q \in Primitives : {p[1], p[2]} \cap {q[1], q[2]} # {} => p = q
    /\ \A d \in Descriptions : \A c \in Range(d.refs) \cup Range(d.numbers) :
           /\ c.tag = 7 => NamesType(c.text, Meaning[c.text])
           /\ c.tag \in {10, 11} => Arity[c.desc] \in Nat /\ HasParameters(Encoding[c.desc], Arity[c.desc])

\* What is read: the items of the pool, before and after their texts are
\* looked up, references to members, fields and methods, and class types.
\* NoItem is none of them.
Names == Texts \cup {NoText}
Items1 == [tag : Nat, x : Nat, y : Nat, text : Names]
Items2 == [tag : Nat, x : Nat, y : Nat, text : Names, desc : Names]
Infos == [name : Names, info : Seq(Nat)]
Members == [flags : Nat, name : Names, desc : Names, attributes : Seq(Infos), notes : Seq(Names)]
Pooled == Items2 \cup {NoItem}
Loaded == [name : Names, super : Names, interfaces : Seq(Names), fields : Seq(Members),
           methods : Seq(Members), flags : Nat, source : Names, pool : Seq(Pooled)]
ASSUME NoItemAssumption ==
    /\ NoItem \notin Items1
    /\ NoItem \notin Items2
    /\ NoItem \notin [class : Names, name : Names, desc : Names]
    /\ NoItem \notin Members
    /\ NoItem \notin Loaded

\* The constructor of a JavaClassFileSource, for each class file there is.
ReadClass == [d \in Descriptions |-> Load(Format!ClassFile(d))]

\* The constants that code uses, with the numbers the compiler gave them.
Numbering == [d \in Descriptions |->
    {<<Format!Index(Format!Constants(d), r), r>> : r \in Range(d.refs) \cup Range(d.numbers)}]

NoAnswer == [op |-> "none"]

\* Every class occurs in a program that is Base but for that class.
NearBase(w) == Cardinality({c \in Range(Order) : w[c] # Base[c]}) <= 1

\* The files are added one by one in the task "files", and have been in the
\* others.
Init ==
    /\ task \in {"files", "lookups", "arrays", "numbers"}
    /\ world \in IF task = "lookups" THEN Worlds
                 ELSE IF task = "files" THEN {w \in Worlds : NearBase(w)} ELSE {Base}
    /\ types = IF task = "files" THEN <<>> ELSE [c \in Range(Order) |-> ReadClass[world[c]]]
    /\ \E p \in ArrayPairs : arrays =
           IF task = "arrays"
           THEN [a \in 1..2 |-> [class |-> p[a], elements |-> [i \in 1..Size |-> NoItem]]]
           ELSE <<>>
    /\ answer = NoAnswer
    /\ ops = 0

-----------------------------------------------------------------------------

\* A class file is added to the class path and its class read.
AddClassFile ==
    /\ task = "files" /\ Cardinality(DOMAIN types) < Len(Order)
    /\ LET c == Order[Cardinality(DOMAIN types) + 1]
       IN  types' = [x \in {c} \cup DOMAIN types |-> IF x = c THEN ReadClass[world[c]] ELSE types[x]]
    /\ UNCHANGED <<world, task, arrays, answer, ops>>

LooksUp == task = "lookups" /\ answer = NoAnswer
Answers(a) == answer' = a /\ UNCHANGED <<world, task, types, arrays, ops>>

\* The constants of Self with a tag, and what an object of class c may be
\* used as.
Constants(tag) == {p \in Numbering[world[Self]] : p[2].tag = tag}
Is(c, class) == class \in Java!Supertypes[c]
Objects == Range(Order) \ InterfaceNames

\* Calls that a compiler writes: of a method that the class named has or
\* inherits, on an object whose class is not abstract.  INVOKESPECIAL is on
\* this, which is an object of Self: of a method of Self, or of its superclass.
Declared(r) == \E k \in Java!Supertypes[r.class] : Java!Method(k, FALSE, r.text, r.desc) # {}
Receivers(inst, r) ==
    IF inst = "INVOKESPECIAL"
    THEN {c \in {Self} : /\ Java!Select(r.class, r.text, r.desc) # Nowhere
                         /\ \/ r.class = world[Self].super
                            \/ r.class = Self /\ Java!Method(Self, FALSE, r.text, r.desc) # {}}
    ELSE {c \in Objects : Is(c, r.class) /\ Java!Select(c, r.text, r.desc) # Nowhere}
         \cup {Null} \cup (IF r.class = Object THEN {Array} ELSE {})

InvokeInstance(inst) ==
    /\ LooksUp
    /\ \E p \in Constants(IF inst = "INVOKEINTERFACE" THEN 11 ELSE 10) :
       \E c \in Receivers(inst, p[2]) :
           /\ Declared(p[2])
           /\ Answers([op |-> inst, ref |-> p[2], receiver |-> c,
                       slots |-> 1 + ParameterCount(p[2].desc),
                       result |-> Invoke(inst, Self, p[1], c)])

InvokeClass ==
    /\ LooksUp
    /\ \E p \in Constants(10) :
           /\ Java!SelectStatic(p[2].class, p[2].text, p[2].desc) # Nowhere
           /\ Answers([op |-> "INVOKESTATIC", ref |-> p[2], receiver |-> Null,
                       slots |-> ParameterCount(p[2].desc),
                       result |-> InvokeStatic(Self, p[1])])

UseField(inst) ==
    /\ LooksUp
    /\ \E p \in Constants(9) :
       \E c \in {o \in Objects : Is(o, p[2].class)} \cup {Null} :
           /\ Java!FieldOf(p[2].class, FALSE, p[2].text, p[2].desc) # Nowhere
           /\ Answers([op |-> inst, ref |-> p[2], receiver |-> c,
                       result |-> Field(inst, Self, p[1], c)])

\* (The fields of an interface are final.)
UseStaticField(inst) ==
    /\ LooksUp
    /\ \E p \in Constants(9) :
           /\ Java!FieldOf(p[2].class, TRUE, p[2].text, p[2].desc)
                  \notin {Nowhere} \cup (IF inst = "PUTSTATIC" THEN InterfaceNames ELSE {})
           /\ Answers([op |-> inst, ref |-> p[2], receiver |-> Null,
                       result |-> StaticField(inst, Self, p[1])])

TestType(inst) ==
    /\ LooksUp
    /\ \E p \in Constants(7), c \in Objects \cup {Null} :
           /\ Meaning[p[2].text].dims = 0
           /\ inst = "isAssignableFrom" => c # Null
           /\ Answers([op |-> inst, ref |-> p[2], receiver |-> c,
                       result |-> CASE inst = "CHECKCAST" -> CheckCast(Self, p[1], c)
                                    [] inst = "INSTANCEOF" -> InstanceOf(Self, p[1], c)
                                    [] inst = "isAssignableFrom" -> IsAssignableFrom(c, p[2].text)])

TestArrayType ==
    /\ LooksUp
    /\ \E p \in Constants(7), class \in Range(Order) \cup {NoItem} :
           Answers([op |-> "CHECKCAST_array", ref |-> p[2], receiver |-> class,
                    result |-> CheckCastArray(Self, p[1], class)])

LoadClass ==
    /\ LooksUp
    /\ \E p \in Constants(7) : Answers([op |-> "LDC", ref |-> p[2], result |-> LdcClass(Self, p[1])])

\* The line of a frame in a stack trace, for a method that has code.
FindLine ==
    /\ LooksUp
    /\ \E c \in Range(Order) : \E i \in DOMAIN world[c].methods, n \in 0..5 :
           LET m == world[c].methods[i]
           IN  /\ m.body
               /\ Answers([op |-> "line", method |-> m, offset |-> n,
                           line |-> FindLineNumber(GetMethodLineNumberTable(c, m.name, m.desc), n)])

-----------------------------------------------------------------------------
(* Arrays and numbers                                                      *)

UsesArrays == task = "arrays" /\ ops < MaxOps /\ answer # [op |-> "dies"]
Done(a) == answer' = a /\ ops' = ops + 1 /\ UNCHANGED <<world, task, types>>

Reads ==
    /\ UsesArrays
    /\ \E a \in DOMAIN arrays, i \in 0..Size : AaLoad(a, i)
    /\ Done([op |-> "AALOAD"])

Stores ==
    /\ UsesArrays
    /\ \E a \in DOMAIN arrays, i \in 0..Size, v \in Objects \cup {Null, Array} :
           /\ AaStore(a, i, v)
           /\ Done([op |-> "AASTORE", array |-> a, value |-> v,
                    outcome |-> AaStoreOutcome(a, i, v)])

Copies ==
    /\ UsesArrays
    /\ \E a, b \in DOMAIN arrays, sp, dp, n \in 0..Size :
           /\ ArrayCopy(a, sp, b, dp, n)
           /\ Done(IF ArrayCopyOutcome(a, sp, b, dp, n) = "dies" THEN [op |-> "dies"]
                   ELSE [op |-> "arraycopy", from |-> arrays[a], to |-> b, before |-> arrays[b],
                         sp |-> sp, dp |-> dp, n |-> n])

Creates ==
    /\ UsesArrays
    /\ \E p \in Constants(7), n \in 2..3 : \E lengths \in [1..n -> -1..Size] :
           /\ n <= Meaning[p[2].text].dims
           /\ Done([op |-> "MULTIANEWARRAY", type |-> Meaning[p[2].text], lengths |-> lengths,
                    result |-> MultiANewArray(Self, p[1], lengths)])
           /\ UNCHANGED arrays

Calculates == task = "numbers" /\ answer = NoAnswer

\* Longs are the most and least, and those near to 0 and to the bounds of int.
Operands(w) == IF w = Bits THEN Java!Ints(w)
               ELSE {n \in Java!Ints(w) : (n + 1) % Pow[Bits - 1] \in 0..2}

OnTwo ==
    /\ Calculates
    /\ \E op \in Binary, w \in {Bits, 2 * Bits} :
       \E x \in Operands(w), y \in Operands(IF op \in {"SHL", "SHR", "USHR"} THEN Bits ELSE w) :
       \E o \in Operate(op, w, x, y) :
           Answers([op |-> op, width |-> w, x |-> x, y |-> y, outcome |-> o])

OnOne ==
    /\ Calculates
    /\ \E op \in Unary : \E x \in Java!Ints(IF op = "L2I" THEN 2 * Bits ELSE Bits) :
           Answers([op |-> op, x |-> x, outcome |-> Value(Convert(op, Bits, x))])

Increments ==
    /\ Calculates
    /\ \E x \in Java!Ints(Bits), c \in Java!Ints(ByteBits) :
           Answers([op |-> "IINC", x |-> x, y |-> c, outcome |-> Value(Iinc(x, c))])

Compares ==
    /\ Calculates
    /\ \E cond \in Conditions, x, y \in Java!Ints(Bits) :
           Answers([op |-> "IF", cond |-> cond, x |-> x, y |-> y, taken |-> Taken(cond, x, y)])

\* A LOOKUPSWITCH at offset pc, as a compiler lays it out.
Layout(s, pc) ==
    LET at == CHOOSE p \in (pc + 1)..(pc + 4) : p % 4 = 0
        word(i) == IF i = 0 THEN s.default ELSE IF i = 1 THEN Len(s.pairs)
                   ELSE s.pairs[i \div 2][1 + (i % 2)]
    IN  [p \in {at + (4 * i) : i \in 0..(1 + (2 * Len(s.pairs)))} |->
            Java!Unsigned(2 * Bits, word((p - at) \div 4))]

Branches ==
    /\ Calculates
    /\ \E s \in Switches, pc \in 8..11, top \in Java!Ints(Bits) :
           Answers([op |-> "LOOKUPSWITCH", switch |-> s, pc |-> pc, top |-> top,
                    target |-> SwitchTarget(Layout(s, pc), pc, top)])

Next ==
    \/ AddClassFile
    \/ \E i \in {"INVOKEVIRTUAL", "INVOKESPECIAL", "INVOKEINTERFACE"} : InvokeInstance(i)
    \/ InvokeClass
    \/ \E i \in {"GETFIELD", "PUTFIELD"} : UseField(i)
    \/ \E i \in {"GETSTATIC", "PUTSTATIC"} : UseStaticField(i)
    \/ \E i \in {"CHECKCAST", "INSTANCEOF", "isAssignableFrom"} : TestType(i)
    \/ TestArrayType \/ LoadClass \/ FindLine
    \/ Reads \/ Stores \/ Copies \/ Creates
    \/ OnTwo \/ OnOne \/ Increments \/ Compares \/ Branches

Spec == Init /\ [][Next]_vars

-----------------------------------------------------------------------------
(* Properties                                                              *)

\* The line of an offset: of the entry that starts nearest before it.
LineOf(lines, n) == (CHOOSE e \in Range(lines) :
    e[1] <= n /\ \A g \in Range(lines) : g[1] <= n => g[1] <= e[1])[2]

\* The line that a stack trace shows for an offset is the one it has.
LinesAreRead == answer.op = "line" => answer.line = LineOf(answer.method.lines, answer.offset)

\* A field or method has been read as it was written: with its annotations,
\* with code if it has a body, and with the lines of that.
MemberRead(m, d, pool) ==
    /\ m # NoItem /\ m.name = d.name /\ m.desc = d.desc /\ m.flags = d.flags
    /\ \A x \in Texts : HasAnnotation(m, x) = (x \in Range(d.notes))
    /\ HasCode(m) = d.body
    /\ d.body =>
           LineNumberTable(ReadCode(Named(m.attributes, "Code")[1].info, pool)) = d.lines

\* So has the type that a constant names, the class and member that it refers
\* to with as many parameters, or its value.
TypeRead(x) ==
    /\ CreateTypeByName(x, Range(Order)) = Meaning[x] /\ Meaning[x] # NoItem
    /\ Meaning[x].dims > 0 =>
           /\ \A c \in Range(Order) : GetClassNameFromDescriptor(x) = c <=> Meaning[x].base = c
           /\ IsPrimitiveType(GetClassNameFromDescriptor(x)) <=> Meaning[x].base \notin Range(Order)
ConstantRead(pool, p) ==
    LET item == GetItemAt(pool, p[1], p[2].tag)
    IN  /\ pool[p[1]] # NoItem /\ item # NoItem
        /\ CASE p[2].tag \in {9, 10, 11} ->
                    /\ Resolve(pool, p[1], p[2].tag) # NoItem
                    /\ Resolve(pool, p[1], p[2].tag)
                           = [class |-> p[2].class, name |-> p[2].text, desc |-> p[2].desc]
                    /\ p[2].tag # 9 => ParameterCount(p[2].desc) = Arity[p[2].desc]
             [] p[2].tag = 7 -> item.text = p[2].text /\ TypeRead(p[2].text)
             [] p[2].tag \in {8, 12, 16} -> item.text = p[2].text
             [] p[2].tag \in 3..6 -> item.x = p[2].number
             [] OTHER -> TRUE

\* The class type t has been read as the compiler wrote d.
ClassRead(t, d) ==
    /\ t # NoItem
    /\ t.name = d.name /\ t.super = d.super /\ t.interfaces = d.interfaces
    /\ t.source = d.source
    /\ Len(t.fields) = Len(d.fields) /\ Len(t.methods) = Len(d.methods)
    /\ \A i \in DOMAIN d.fields : MemberRead(t.fields[i], d.fields[i], t.pool)
    /\ \A i \in DOMAIN d.methods : MemberRead(t.methods[i], d.methods[i], t.pool)
    /\ \A p \in Numbering[d] : ConstantRead(t.pool, p)

\* So have all class files there are.
FilesAreRead == \A d \in Descriptions : ClassRead(ReadClass[d], d)

\* Reading a class file gives what the compiler wrote, wherever a long has
\* taken two numbers: the names of the class, its superclass and interfaces,
\* its fields and methods, and under the number of each constant its value
\* or the type, or class and member, it names; and each offset in a method
\* gets its line, also if the table is not in order.  (No annotation has an
\* array in it, and there are no constants of the tags 17, 19 and 20.)
ReadsWhatWasWritten ==
    /\ LinesAreRead
    /\ task = "files" => \A c \in DOMAIN types : ClassRead(types[c], world[c])

\* Where the VM departs from Java in the choice of a method, which is j in
\* Java: a class below j's, or any if j is of an interface, names an interface
\* that has another default; or no class names the interface of j itself.
Below(c, j) == {k \in Range(Java!Classes[c]) : j \in Range(Java!Classes[c]) => k # j /\ Is(k, j)}
OtherDefault(c, j, r) == \E k \in Below(c, j) : \E i \in Range(world[k].interfaces) :
    i # j /\ Java!Implements(i, FALSE, r.text, r.desc)
DirectlyOf(c) == {c} \cup Range(world[c].interfaces)
Direct(c) == UNION {DirectlyOf(k) : k \in Range(Java!Classes[c])}

\* How the method that is found in class j runs.
Runs(j, r, static) ==
    LET m == CHOOSE d \in Java!Method(j, static, r.text, r.desc) : TRUE
    IN  [class |-> j, outcome |-> IF <<j, r.text>> \in Registered THEN "native"
                                  ELSE IF m.body THEN "code" ELSE "UnsatisfiedLinkError"]

\* A call runs the method Java selects, and takes as many values from the
\* stack as the descriptor says: a method of the nearest class that declares
\* it, else the most specific default of an interface.  The exceptions are
\* those above, and INVOKESPECIAL of a method that the class it names
\* inherits from a superclass, which fails.
CallsFollowJava ==
    LET r == answer.ref
        c == CASE answer.op = "INVOKESPECIAL" -> r.class
               [] answer.op # "INVOKESPECIAL" /\ answer.receiver = Array -> Object
               [] OTHER -> answer.receiver
        j == Java!Select(c, r.text, r.desc)
    IN  /\ answer.op \in {"INVOKEVIRTUAL", "INVOKESPECIAL", "INVOKEINTERFACE"} =>
               /\ answer.slots = 1 + Arity[r.desc]
               /\ answer.receiver = Null => answer.result = Internal
               /\ \/ answer.receiver = Null \/ OtherDefault(c, j, r)
                  \/ j \notin Direct(c) /\ answer.result = Internal
                  \/ /\ answer.op = "INVOKESPECIAL"
                     /\ j \notin DirectlyOf(c) /\ answer.result = Internal
                  \/ answer.result = Runs(j, r, FALSE)
        /\ answer.op = "INVOKESTATIC" =>
               /\ answer.slots = Arity[r.desc]
               /\ answer.result = Runs(Java!SelectStatic(r.class, r.text, r.desc), r, TRUE)

\* An instruction on a field means the one that Java resolves, also if the
\* class of the object hides it, with two exceptions: a put through a subclass
\* is dropped if the field is static; and a static field that a class inherits
\* from an interface is not seen, so that a get of it finds the field of a
\* superclass with that name, or none at all.
FieldsFollowJava ==
    LET r == answer.ref
        owner(static) == Java!FieldOf(r.class, static, r.text, r.desc)
        seen == Java!NearestField(r.class, TRUE, r.text, r.desc)
        field(class) == [outcome |-> "field", class |-> class]
    IN  /\ answer.op \in {"GETFIELD", "PUTFIELD"} =>
               IF answer.receiver = Null
               THEN answer.result.outcome # "field"
               ELSE answer.result = field(owner(FALSE))
        /\ answer.op = "GETSTATIC" =>
               answer.result = IF owner(TRUE) \notin InterfaceNames \ {r.class} THEN field(owner(TRUE))
                               ELSE IF seen = Nowhere THEN Missing ELSE field(seen)
        /\ answer.op = "PUTSTATIC" =>
               answer.result = IF owner(TRUE) = r.class THEN field(r.class) ELSE NotRun

\* What a cast lets pass is of the type, and what it refuses is not, unless
\* the type is an interface that other interfaces inherit from and no class
\* names.  Of an array the same holds for the class of its elements and that of
\* the type's, whatever their dimensions are, but an array of a primitive type
\* never passes.  Class.isAssignableFrom answers the same question as a cast,
\* with its operands the wrong way round for Java.  A constant that names a
\* type gives that type.
CastsFollowJava ==
    LET type == Meaning[answer.ref.text]
        c == answer.receiver
        passes == answer.result.outcome \in {"pushed", "true"}
        arraypasses == answer.result = "pushed"
    IN  /\ answer.op \in {"CHECKCAST", "INSTANCEOF", "isAssignableFrom"} =>
               IF c = Null THEN passes = (answer.op = "CHECKCAST")
               ELSE passes = (Is(c, type.base) /\ type.base \in Direct(c))
        /\ answer.op = "CHECKCAST_array" =>
               arraypasses = (/\ type.dims > 0 /\ c # NoItem
                              /\ Is(c, type.base) /\ type.base \in Direct(c))
        /\ answer.op = "LDC" => answer.result = [outcome |-> "pushed", class |-> type]

\* Java's outcomes of integer instructions.
JavaOutcome(op, w, x, y) ==
    LET shift == Java!Unsigned(IF w = Bits THEN ShiftBits ELSE ShiftBits + 1, y)
        java(n) == Value(Java!Signed(w, n))
    IN  CASE op = "ADD" -> java(x + y)
          [] op = "SUB" -> java(x - y)
          [] op = "MUL" -> java(x * y)
          [] op \in {"DIV", "REM"} ->
                 IF y = 0 THEN Arithmetic
                 ELSE IF op = "DIV" THEN java(Java!Quotient(x, y))
                 ELSE java(x - y * Java!Quotient(x, y))
          [] op = "SHL" -> java(x * Pow[shift])
          [] op = "SHR" -> Value(CHOOSE q \in Java!Ints(w) : x - q * Pow[shift] \in 0..(Pow[shift] - 1))
          [] op = "USHR" -> java(Java!Unsigned(w, x) \div Pow[shift])
          [] op = "CMP" -> Value(IF x < y THEN -1 ELSE IF x = y THEN 0 ELSE 1)

\* Integer instructions give what Java says at every value, with five
\* exceptions: remainders by zero (no exception), the lowest number divided by
\* -1 (may trap), LUSHR of a negative long by other than a multiple of 64 (of
\* 2 * Bits here), and byte, char and short, which are not made narrower.
NumbersFollowJava ==
    /\ answer.op \in Binary =>
           \/ answer.outcome = JavaOutcome(answer.op, answer.width, answer.x, answer.y)
           \/ answer.op = "REM" /\ answer.y = 0
           \/ answer.op \in {"DIV", "REM"} /\ answer.x = Lowest(answer.width) /\ answer.y = -1
           \/ answer.op = "USHR" /\ answer.width # Bits /\ answer.x < 0 /\ answer.y % (2 * Bits) # 0
    /\ answer.op \in Unary =>
           LET java == CASE answer.op = "NEG" -> Java!Signed(Bits, -answer.x)
                         [] answer.op = "L2I" -> Java!Signed(Bits, answer.x)
                         [] answer.op = "I2L" -> answer.x
                         [] answer.op = "I2C" -> Java!Unsigned(ByteBits, answer.x)
                         [] OTHER -> Java!Signed(ByteBits, answer.x)
           IN  \/ answer.outcome = Value(java)
               \/ answer.op \in {"I2B", "I2C", "I2S"} /\ java # answer.x
    /\ answer.op = "IINC" => answer.outcome = Value(Java!Signed(Bits, answer.x + answer.y))
    /\ answer.op = "IF" =>
           answer.taken = (Java!Abs(answer.x - answer.y) * (IF answer.x < answer.y THEN -1 ELSE 1)
               \in CASE answer.cond = "EQ" -> {0}
                     [] answer.cond = "NE" -> Int \ {0}
                     [] answer.cond = "LT" -> Int \ Nat
                     [] answer.cond = "GE" -> Nat
                     [] answer.cond = "GT" -> Nat \ {0}
                     [] answer.cond = "LE" -> (Int \ Nat) \cup {0})
    /\ answer.op = "LOOKUPSWITCH" =>
           LET hits == {p \in Range(answer.switch.pairs) : p[1] = answer.top}
           IN  answer.target = answer.pc + (IF hits = {} THEN answer.switch.default
                                            ELSE (CHOOSE p \in hits : TRUE)[2])

\* What an element may be in Java.
Assignable(class, v) ==
    v = Null \/ (v = Array /\ class = Object) \/ (v \in Objects /\ Is(v, class))

\* Whatever is stored and copied, arrays hold only what their type allows, and
\* what they refuse they would refuse in Java too (but for inherited
\* interfaces, as in casts).  A copy of a range that is in both arrays, if
\* all of it fits, gives what was in the one before, also if they are the
\* same; nothing outside the range changes.  A new array of arrays is refused
\* if a length is negative; else it has the lengths asked for if it is of
\* Object or a primitive type, else no rows.
ArraysFollowJava ==
    /\ \A a \in DOMAIN arrays : \A i \in 0..(Size - 1) :
           Element(a, i) = NoItem \/ Assignable(arrays[a].class, Element(a, i))
    /\ answer.op = "AASTORE" /\ answer.outcome = "ArrayStoreException" =>
           LET class == arrays[answer.array].class
           IN  ~Assignable(class, answer.value) \/ class \notin Direct(answer.value)
    /\ answer.op = "arraycopy" =>
           LET source(i) == answer.from.elements[i - answer.dp + answer.sp]
               value(i) == IF source(i) = NoItem THEN Null ELSE source(i)
               old == answer.before.elements
           IN  \A i \in 1..Size :
                   LET new == Element(answer.to, i - 1)
                   IN  IF i \in (answer.dp + 1)..(answer.dp + answer.n)
                       THEN answer.sp + answer.n <= Size =>
                               \/ new = value(i)
                               \/ new = old[i] /\ ~Fits(answer.before.class, value(i))
                       ELSE \/ new = old[i]
                            \/ new = Null /\ old[i] = NoItem
    /\ answer.op = "MULTIANEWARRAY" =>
           LET n == answer.lengths
               full == answer.type.base \notin Range(Order) \ {Object}
               elements == answer.result.array.elements
           IN  IF \E d \in DOMAIN n : n[d] < 0
               THEN answer.result.outcome = "NegativeArraySizeException"
               ELSE /\ answer.result.outcome = "pushed"
                    /\ Len(elements) = n[1]
                    /\ full => \A r \in Range(elements) :
                           /\ Len(r.elements) = n[2]
                           /\ \A x \in Range(r.elements) :
                                  IF Len(n) = 2 THEN x = NoItem ELSE Len(x.elements) = n[3]
                    /\ ~full => Range(elements) \subseteq {NoItem}

=============================================================================
