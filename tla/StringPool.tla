----------------------------- MODULE StringPool -----------------------------
(***************************************************************************)
(* Two lists that give a name one object: the intern list of strings       *)
(* (vm/jutil/jutil_String.cpp) and the list of java.lang.Class objects     *)
(* (vm_Variable.cpp).  Each is searched first and extended later, and      *)
(* nothing is locked; making a string runs the constructor of              *)
(* java.lang.String, which interns the empty string, and making a Class    *)
(* object interns its name.  The lists only grow and their entries keep    *)
(* their names, so a search item by item finds what a search in one step   *)
(* at its last item finds.                                                 *)
(***************************************************************************)
EXTENDS Naturals, Sequences

CONSTANTS Threads,   \* threads that use the lists
          Texts,     \* the texts of strings
          Empty,     \* the text ""
          ClassNames,\* the names of classes, which are texts too
          MaxObjects \* bound: strings and Class objects when a call begins

Nothing == 0

\* What is assumed of them (SharedObjects does).
NamesAreTexts ==
    /\ Empty \in Texts /\ Nothing \notin Texts
    /\ ClassNames \subseteq Texts \ {Empty}
    /\ MaxObjects \in Nat

Kinds == {"string", "class"}

VARIABLES
    objects, \* the strings and Class objects made so far: their kind and name
    list,    \* list[k]: g_InternStringList, g_CachedClassTypeVariableList
    frames,  \* frames[t]: the calls t is in, the innermost last
    answer,  \* answer[t]: what t's last finished call returned
    returned \* history: the kinds and names a call has returned for

vars == <<objects, list, frames, answer, returned>>

\* find: about to search the list; ctor: in the constructor; value: about to
\* set the value; check, push: in InternVariable; name: about to make the
\* name of a Class object; cache: about to extend the list of these.
Ats == {"find", "ctor", "value", "check", "push", "name", "cache"}

\* late: a call for this name had returned when this one began.
Call(kind, name, at, object) ==
    [kind |-> kind, name |-> name, at |-> at, object |-> object,
     late |-> <<kind, name>> \in returned]

TypeOK ==
    /\ objects \in Seq([kind : Kinds, name : Texts \cup {Nothing}])
    /\ list \in [Kinds -> Seq(1..Len(objects))]
    /\ frames \in [Threads -> Seq([kind : Kinds, name : Texts, at : Ats, late : BOOLEAN,
                                   object : {Nothing} \cup 1..Len(objects)])]
    /\ answer \in [Threads -> [kind : Kinds, name : Texts \cup {Nothing}, late : BOOLEAN,
                               object : {Nothing} \cup 1..Len(objects)]]
    /\ returned \subseteq Kinds \X Texts

Init ==
    /\ objects = <<>>
    /\ list = [k \in Kinds |-> <<>>]
    /\ frames = [t \in Threads |-> <<>>]
    /\ answer = [t \in Threads |->
                    [kind |-> "string", name |-> Nothing, late |-> FALSE, object |-> Nothing]]
    /\ returned = {}

-----------------------------------------------------------------------------

\* Mutant: the last match.
LastMatch(kind, name) ==
    LET Matches == {i \in 1..Len(list[kind]) : objects[list[kind][i]].name = name}
    IN  IF Matches = {} THEN Nothing
        ELSE list[kind][CHOOSE i \in Matches : \A j \in Matches : j <= i]

\* TryFindInternString and TryFindCachedClassTypeVariable: the first match.
TryFind(kind, name) ==
    LET Matches == {i \in 1..Len(list[kind]) : objects[list[kind][i]].name = name}
    IN  IF Matches = {} THEN Nothing
        ELSE list[kind][CHOOSE i \in Matches : \A j \in Matches : i <= j]

In(t, kind, at) ==
    /\ frames[t] # <<>>
    /\ LET top == frames[t][Len(frames[t])] IN top.kind = kind /\ top.at = at

Top(t) == frames[t][Len(frames[t])]
Below(t) == SubSeq(frames[t], 1, Len(frames[t]) - 1)
Goto(t, at, o) == frames' = [frames EXCEPT ![t] = Append(Below(t),
                                [Top(t) EXCEPT !.at = at, !.object = o])]
Return(t, o) ==
    /\ frames' = [frames EXCEPT ![t] = Below(t)]
    /\ answer' = [answer EXCEPT ![t] = [kind |-> Top(t).kind, name |-> Top(t).name,
                                        late |-> Top(t).late, object |-> o]]
    /\ returned' = returned \cup {<<Top(t).kind, Top(t).name>>}

Make(kind, name) == objects' = Append(objects, [kind |-> kind, name |-> name])
Made == Len(objects) + 1

\* NewString, for LDC and for the natives.
NewString(t) == \E x \in Texts :
    /\ frames[t] = <<>> /\ Len(objects) < MaxObjects
    /\ frames' = [frames EXCEPT ![t] = <<Call("string", x, "find", Nothing)>>]
    /\ UNCHANGED <<objects, list, answer, returned>>

\* String.intern of a string that the program has put together.
Intern(t) == \E x \in Texts :
    /\ frames[t] = <<>> /\ Len(objects) < MaxObjects
    /\ Make("string", x)
    /\ frames' = [frames EXCEPT ![t] = <<[Call("string", x, "check", Made) EXCEPT !.late = FALSE]>>]
    /\ UNCHANGED <<list, answer, returned>>

\* NewClassTypeVariable, for LDC of a class and for getClass and its like.
NewClassTypeVariable(t) == \E c \in ClassNames :
    /\ frames[t] = <<>> /\ Len(objects) < MaxObjects
    /\ frames' = [frames EXCEPT ![t] = <<Call("class", c, "find", Nothing)>>]
    /\ UNCHANGED <<objects, list, answer, returned>>

Found(t, kind) ==
    /\ In(t, kind, "find") /\ TryFind(kind, Top(t).name) # Nothing
    /\ Return(t, TryFind(kind, Top(t).name))
    /\ UNCHANGED <<objects, list>>

NotFound(t, kind) == In(t, kind, "find") /\ TryFind(kind, Top(t).name) = Nothing

\* NewStringVariable: no constructor is called for "", else it would not end.
MakeString(t) ==
    /\ NotFound(t, "string")
    /\ Make("string", Nothing)
    /\ Goto(t, IF Top(t).name = Empty THEN "value" ELSE "ctor", Made)
    /\ UNCHANGED <<list, answer, returned>>

\* The constructor: this.value = "".value, by LDC of "".
Construct(t) ==
    /\ In(t, "string", "ctor")
    /\ frames' = [frames EXCEPT ![t] =
           Below(t) \o <<[Top(t) EXCEPT !.at = "value"], Call("string", Empty, "find", Nothing)>>]
    /\ UNCHANGED <<objects, list, answer, returned>>

SetStringValue(t) ==
    /\ In(t, "string", "value")
    /\ objects' = [objects EXCEPT ![Top(t).object].name = Top(t).name]
    /\ Goto(t, "check", Top(t).object)
    /\ UNCHANGED <<list, answer, returned>>

\* Mutant: a new string is returned without being interned.
ReturnUninterned(t) ==
    /\ In(t, "string", "check")
    /\ Return(t, Top(t).object)
    /\ UNCHANGED <<objects, list>>

\* InternVariable: whatever is found, the caller returns its own string.
CheckInterned(t) ==
    /\ In(t, "string", "check")
    /\ IF TryFind("string", Top(t).name) = Nothing
       THEN Goto(t, "push", Top(t).object) /\ UNCHANGED <<answer, returned>>
       ELSE Return(t, Top(t).object)
    /\ UNCHANGED <<objects, list>>

PushInterned(t) ==
    /\ In(t, "string", "push")
    /\ list' = [list EXCEPT !["string"] = Append(@, Top(t).object)]
    /\ Return(t, Top(t).object)
    /\ UNCHANGED objects

\* The rest of NewClassTypeVariable; the list is not searched again.
MakeClass(t) ==
    /\ NotFound(t, "class")
    /\ Make("class", Top(t).name)
    /\ Goto(t, "name", Made)
    /\ UNCHANGED <<list, answer, returned>>

NameClass(t) ==
    /\ In(t, "class", "name")
    /\ frames' = [frames EXCEPT ![t] =
           Below(t) \o <<[Top(t) EXCEPT !.at = "cache"], Call("string", Top(t).name, "find", Nothing)>>]
    /\ UNCHANGED <<objects, list, answer, returned>>

PushClass(t) ==
    /\ In(t, "class", "cache")
    /\ list' = [list EXCEPT !["class"] = Append(@, Top(t).object)]
    /\ Return(t, Top(t).object)
    /\ UNCHANGED objects

Next == \E t \in Threads :
    \/ NewString(t) \/ Intern(t) \/ NewClassTypeVariable(t)
    \/ \E k \in Kinds : Found(t, k)
    \/ MakeString(t) \/ Construct(t) \/ SetStringValue(t)
    \/ CheckInterned(t) \/ PushInterned(t)
    \/ MakeClass(t) \/ NameClass(t) \/ PushClass(t)

Spec == Init /\ [][Next]_vars

-----------------------------------------------------------------------------
(* Properties                                                              *)

\* The object of a name, once there is one, is never replaced: strings and
\* classes that threads compare with == do not change while they do.
CanonicalNeverChanges ==
    [][\A k \in Kinds, x \in Texts :
           TryFind(k, x) # Nothing => TryFind(k, x)' = TryFind(k, x)]_vars

\* A call that began after another one for the same name had returned gives
\* the object of that name, even if several threads have made one at the same
\* time before.  (Calls that overlap may each return an object of their own,
\* and intern returns the string it was called on.)
LaterCallsAgree == \A t \in Threads :
    answer[t].late => answer[t].object = TryFind(answer[t].kind, answer[t].name)

=============================================================================
