----------------------------- MODULE ClassTypes -----------------------------
(***************************************************************************)
(* Looking up methods, fields and types in the class types that have been  *)
(* read (vm/vm_Class.cpp), and the instructions that do so                 *)
(* (vm/vm_Execution.impl.cpp).                                             *)
(*                                                                         *)
(* An object is known by its class: it is a chain of ClassInstances, one   *)
(* for each class from its own to the topmost, each of which has instances *)
(* of the interfaces its class names, and of no others.  null and arrays   *)
(* are receivers too.  An instruction gives a record [outcome, class]: what*)
(* comes of it, and the class in which a method or field was found.        *)
(***************************************************************************)
EXTENDS TypeNames

CONSTANTS Object,     \* "java/lang/Object"
          Registered, \* <<class, name>> in the tables of native methods
          Null, Array \* receivers that are no ClassInstance

VARIABLE types        \* types[c]: the class type LocateClassType finds

First(s, P(_)) == LET i == SelectInSeq(s, P) IN IF i = 0 THEN NoItem ELSE s[i]

\* The ClassInstances of an object, or the ClassTypes a search goes through.
Chain[c \in DOMAIN types] ==
    <<c>> \o (IF types[c].super \in DOMAIN types THEN Chain[types[c].super] ELSE <<>>)

Interfaces(c) == types[c].interfaces

\* A static or an instance member; MethodIsInvokable: Native or with Code.
Member(members, static, x, d) ==
    First(members, LAMBDA m : m.name = x /\ m.desc = d /\ HasFlag(m.flags, Static) = static)
HasCode(m) == Named(m.attributes, "Code") # <<>>
MethodIsInvokable(m) == HasFlag(m.flags, Native) \/ HasCode(m)
Invokable(c, static, x, d) ==
    LET m == Member(types[c].methods, static, x, d) IN m # NoItem /\ MethodIsInvokable(m)

-----------------------------------------------------------------------------
(* ClassType and ClassInstance                                             *)

\* Mutant: only the class's own name and its superclasses'.
CanCastToSuper(c, x) == x \in Range(Chain[c])

CanCastTo(c, x) == \E l \in Range(Chain[c]) : x = l \/ x \in Range(Interfaces(l))

\* Mutant: the object itself.
InstanceItself(c, x) == c

GetInstanceByClassType(c, x) ==
    First(Chain[c], LAMBDA l : x = l \/ x \in Range(Interfaces(l)))

\* What a ClassInstance has for a method: itself, or one of its interfaces.
Supplier(c, x, d) ==
    First(<<c>> \o Interfaces(c), LAMBDA k : k \in DOMAIN types /\ Invokable(k, FALSE, x, d))

\* Mutant: the topmost level that has something.
VirtualFromTop(c, x, d) ==
    LET l == First(Reverse(Chain[c]), LAMBDA k : Supplier(k, x, d) # NoItem)
    IN  IF l = NoItem THEN NoItem ELSE Supplier(l, x, d)

\* GetInstanceByClassTypeAndMethodVirtualInterface: the nearest level that
\* has something.
VirtualInterface(c, x, d) ==
    LET l == First(Chain[c], LAMBDA k : Supplier(k, x, d) # NoItem)
    IN  IF l = NoItem THEN NoItem ELSE Supplier(l, x, d)

\* GetInstanceByClassTypeAndMethodSpecial: only the level of the class named.
Special(c, class, x, d) == IF class \in Range(Chain[c]) THEN Supplier(class, x, d) ELSE NoItem

\* CallInstanceMethod and CallClassMethod: the nearest class with such a
\* method that has an implementation; a registered one goes before the code.
Call(c, static, x, d) ==
    LET l == First(Chain[c], LAMBDA k :
                 /\ Member(types[k].methods, static, x, d) # NoItem
                 /\ <<k, x>> \in Registered \/ Invokable(k, static, x, d))
    IN  [class |-> l,
         outcome |-> IF l = NoItem THEN "invalid"
                     ELSE IF <<l, x>> \in Registered THEN "native"
                     ELSE IF HasFlag(Member(types[l].methods, static, x, d).flags, Native)
                     THEN "UnsatisfiedLinkError" ELSE "code"]

\* GetField of a ClassInstance, GetStaticField of a ClassType.
FieldOwner(c, static, x, d) ==
    First(Chain[c], LAMBDA l : Member(types[l].fields, static, x, d) # NoItem)

\* GetMethodLineNumberTable, for the line of a frame of a stack trace.
GetMethodLineNumberTable(c, x, d) ==
    LET has(m) == m.name = x /\ m.desc = d /\ HasCode(m)
        l == First(Chain[c], LAMBDA k : First(types[k].methods, has) # NoItem)
    IN  IF l = NoItem THEN <<>>
        ELSE LineNumberTable(ReadCode(
                 Named(First(types[l].methods, has).attributes, "Code")[1].info, types[l].pool))

-----------------------------------------------------------------------------
(* Instructions of the code of class c; index is the number of a constant  *)

\* A FieldRef, MethodRef or InterfaceMethodRef, its class and NameAndType.
Resolve(pool, index, tag) ==
    LET ref == GetItemAt(pool, index, tag)
        class == GetItemAt(pool, ref.x, 7)
        nat == GetItemAt(pool, ref.y, 12)
    IN  IF ref = NoItem \/ class = NoItem \/ nat = NoItem THEN NoItem
        ELSE [class |-> class.text, name |-> nat.text, desc |-> nat.desc]

Internal == [outcome |-> "internal", class |-> NoItem]
NotRun == [outcome |-> "ignored", class |-> NoItem]
Throws(x) == [outcome |-> x, class |-> NoItem]
Missing == [outcome |-> "nullptr", class |-> NoItem]

\* INVOKEVIRTUAL, INVOKESPECIAL and INVOKEINTERFACE.  A null receiver throws
\* an InternalError that no handler catches, not a NullPointerException; an
\* array has the methods of its inner object.
Invoke(inst, c, index, receiver) ==
    LET ref == Resolve(types[c].pool, index, IF inst = "INVOKEINTERFACE" THEN 11 ELSE 10)
        found == IF inst = "INVOKESPECIAL"
                 THEN Special(receiver, ref.class, ref.name, ref.desc)
                 ELSE VirtualInterface(receiver, ref.name, ref.desc)
    IN  IF ref = NoItem \/ receiver = Null THEN Internal
        ELSE IF receiver = Array THEN Call(Object, FALSE, ref.name, ref.desc)
        ELSE IF found = NoItem THEN Internal
        ELSE Call(found, FALSE, ref.name, ref.desc)

\* INVOKESTATIC: what cannot be resolved is skipped.  (The initialisation of
\* the class is in ClassInit.)
InvokeStatic(c, index) ==
    LET ref == Resolve(types[c].pool, index, 10)
    IN  IF ref = NoItem THEN NotRun
        ELSE IF ref.class \notin DOMAIN types THEN NotRun
        ELSE Call(ref.class, TRUE, ref.name, ref.desc)

\* GETFIELD and PUTFIELD; a put into null throws an InternalError.  A field
\* that is not found is read as nullptr, and not put.
Field(inst, c, index, receiver) ==
    LET ref == Resolve(types[c].pool, index, 9)
        level == GetInstanceByClassType(receiver, ref.class)
        owner == FieldOwner(level, FALSE, ref.name, ref.desc)
    IN  IF receiver = Null
        THEN IF inst = "GETFIELD" THEN Throws("NullPointerException") ELSE Internal
        ELSE IF ref = NoItem \/ level = NoItem THEN Internal
        ELSE IF owner # NoItem THEN [outcome |-> "field", class |-> owner]
        ELSE IF inst = "GETFIELD" THEN Missing ELSE NotRun

\* GETSTATIC and PUTSTATIC: GetStaticField looks at superclasses, and returns
\* nullptr if none has the field; SetStaticField looks only at the class.
StaticField(inst, c, index) ==
    LET ref == Resolve(types[c].pool, index, 9)
        owner == FieldOwner(ref.class, TRUE, ref.name, ref.desc)
    IN  IF ref = NoItem \/ ref.class \notin DOMAIN types THEN Internal
        ELSE IF inst = "GETSTATIC" /\ owner = NoItem THEN Missing
        ELSE IF inst = "GETSTATIC" \/ owner = ref.class
        THEN [outcome |-> "field", class |-> owner] ELSE NotRun

\* CHECKCAST and INSTANCEOF of objects and null.
CheckCast(c, index, receiver) ==
    LET class == GetItemAt(types[c].pool, index, 7)
    IN  IF class = NoItem THEN Internal
        ELSE IF receiver = Null \/ CanCastTo(receiver, class.text)
        THEN [outcome |-> "pushed", class |-> class.text] ELSE Throws("ClassCastException")
InstanceOf(c, index, receiver) ==
    LET class == GetItemAt(types[c].pool, index, 7)
    IN  IF class = NoItem THEN NotRun
        ELSE [outcome |-> IF receiver # Null /\ CanCastTo(receiver, class.text)
                          THEN "true" ELSE "false", class |-> class.text]

\* Class.isAssignableFrom: it asks whether its own type can be cast to the
\* other.
IsAssignableFrom(c, x) ==
    [outcome |-> IF CanCastTo(c, x) THEN "true" ELSE "false", class |-> x]

\* LDC of a class: a type that is not found is skipped (the InternalError is
\* not returned).
LdcClass(c, index) ==
    LET type == CreateTypeByName(GetItemAt(types[c].pool, index, 7).text, DOMAIN types)
    IN  IF type = NoItem THEN NotRun ELSE [outcome |-> "pushed", class |-> type]

=============================================================================
