-------------------------------- MODULE Heap --------------------------------
(***************************************************************************)
(* The int fields of an object that several threads use, and the static    *)
(* fields of its classes.  An object is a chain of ClassInstances          *)
(* (vm_Class.cpp), one for each class from its own to the topmost; each    *)
(* has one ClassField for each field its class declares, and a ClassField  *)
(* points to a Variable that holds the value.  Nothing is locked, and a    *)
(* field has no Variable until it is set or read.                          *)
(*                                                                         *)
(* A Variable is shared, not copied: GETFIELD and getIntVolatile put the   *)
(* field's own Variable on the operand stack, PUTFIELD makes the field     *)
(* point to the one on the stack, and compareAndSwapInt (misc_Unsafe.cpp)  *)
(* writes into the Variable.  A Variable is its index in the sequence      *)
(* value.  The pointer of a field is read and written in one step.         *)
(***************************************************************************)
EXTENDS Naturals, Sequences, FiniteSets

CONSTANTS Threads,    \* threads that use the object
          Chain,      \* its classes: its own first, the topmost last
          Fields,     \* Fields[c]: the instance fields c declares, in order
          Statics,    \* Statics[c]: the static fields c declares
          PutValues,  \* values that are put
          Exchanges,  \* <<expected, new>> of direct calls of compareAndSwapInt
          MaxOps      \* bound: operations per thread

Levels == 1..Len(Chain)
Elements(s) == {s[i] : i \in 1..Len(s)}
Instances == UNION {Elements(Fields[Chain[i]]) : i \in Levels}
Names == Instances \cup UNION {Statics[Chain[i]] : i \in Levels}

ASSUME ConstantsAssumption ==
    /\ IsFiniteSet(Threads)
    /\ Chain \in Seq({Chain[i] : i \in 1..Len(Chain)}) /\ Len(Chain) > 0
    /\ \A i \in Levels : Fields[Chain[i]] \in Seq(Instances)
    /\ Len(Fields[Chain[1]]) > 0
    /\ \A i, j \in Levels : Statics[Chain[i]] \cap Elements(Fields[Chain[j]]) = {}
    /\ PutValues \subseteq Nat
    /\ Exchanges \subseteq Nat \X Nat
    /\ MaxOps \in Nat

\* The fields of the object and of its classes: the declaring class, as its
\* place in the chain, and a name.  A subclass may declare a name again.
Declares(i, f) == f \in Elements(Fields[Chain[i]]) \cup Statics[Chain[i]]
FieldIds == {x \in Levels \X Names : Declares(x[1], x[2])}

VARIABLES
    cell,      \* cell[x]: the Variable of field x, or NoVar
    value,     \* value[v]: the int in Variable v
    call,      \* call[t]: what t is doing
    stack,     \* stack[t]: the Variable t has read last, or NoVar
    ops,       \* ops[t]: operations so far (bounded by MaxOps)
    java,      \* history: what the counter holds if each operation is atomic
    disturbed, \* history: operations on the counter have overlapped or failed
    ceiling    \* history: the most that the operations begun so far explain

vars == <<cell, value, call, stack, ops, java, disturbed, ceiling>>

NoVar == 0
Variables == 1..Len(value)

\* GetField and SetField from level i on: the nearest class from there that
\* declares the name.
Declaring(i, f) == CHOOSE j \in i..Len(Chain) :
                       Declares(j, f) /\ \A k \in i..(j-1) : ~Declares(k, f)
Resolves(i, f) == \E j \in i..Len(Chain) : Declares(j, f)

\* Offsets: objectFieldOffset has no return before its result, so all fields
\* that are not static get 0; GetFieldByUnsafeOffset takes the name of the
\* field at that place and looks it up from the object's own class.
ObjectFieldOffset(f) == 0
ByUnsafeOffset(off) == <<Declaring(1, Fields[Chain[1]][off + 1]), Fields[Chain[1]][off + 1]>>
Counter == ByUnsafeOffset(0)

\* test, fetch, default: in GetField; add: getIntVolatile has returned; args:
\* about to read the arguments of compareAndSwapInt; compare, store, restore:
\* in DoCompareAndSwap.
Ats == {"idle", "test", "fetch", "default", "add", "args", "compare", "store", "restore"}
Ops == {"get", "volatile", "add", "exchange"}
Idle == [op |-> "get", at |-> "idle", field |-> Counter, expected |-> 0, new |-> 0,
         var |-> NoVar, settled |-> FALSE, may |-> {}]

Busy(t, x) == call[t].at # "idle" /\ call[t].field = x

\* A field that has a Variable, and nobody is about to give it a default.
Settled(x) == cell[x] # NoVar /\ ~\E t \in Threads : Busy(t, x) /\ call[t].at = "default"

TypeOK ==
    /\ value \in Seq(Nat)
    /\ cell \in [FieldIds -> {NoVar} \cup Variables]
    /\ stack \in [Threads -> {NoVar} \cup Variables]
    /\ ops \in [Threads -> 0..MaxOps]
    /\ java \in Nat /\ ceiling \in Nat /\ disturbed \in BOOLEAN
    /\ \A t \in Threads :
           /\ call[t] \in [op : Ops, at : Ats, field : FieldIds, expected : Nat, new : Nat,
                           var : {NoVar} \cup Variables, settled : BOOLEAN, may : SUBSET Variables]
           /\ call[t].at \in {"compare", "store", "restore"} => call[t].var \in Variables
           /\ call[t].at \in {"add", "args"} => stack[t] \in Variables
           /\ call[t].at = "fetch" => cell[call[t].field] # NoVar

Init ==
    /\ cell = [x \in FieldIds |-> NoVar]
    /\ value = <<>>
    /\ call = [t \in Threads |-> Idle]
    /\ stack = [t \in Threads |-> NoVar]
    /\ ops = [t \in Threads |-> 0]
    /\ java = 0
    /\ disturbed = FALSE
    /\ ceiling = 0

-----------------------------------------------------------------------------
(* Beginning an operation                                                  *)

Largest(a, b) == IF a > b THEN a ELSE b

\* Increments that have not stored yet, each of which may add 1 to value n.
Pending == {t \in Threads : call[t].at # "idle" /\ call[t].op \in {"volatile", "add"}}
Explains(n) == Largest(ceiling, n + Cardinality(Pending))

\* t begins op on field x; two operations on the counter at once disturb it.
Begin(t, op, x, expected, new) ==
    /\ call[t].at = "idle" /\ ops[t] < MaxOps
    /\ ops' = [ops EXCEPT ![t] = @ + 1]
    /\ call' = [call EXCEPT ![t] = [Idle EXCEPT !.op = op, !.at = "test", !.field = x,
                    !.expected = expected, !.new = new, !.settled = Settled(x),
                    !.may = IF Settled(x) THEN {cell[x]} ELSE {}]]
    /\ disturbed' = (disturbed \/ (x = Counter /\ \E u \in Threads : Busy(u, x)))
    /\ UNCHANGED <<cell, value, stack, java>>

\* GETFIELD and GETSTATIC that name the class at level i, and GetField by name
\* in the C++ code (i = 1).
GetField(t) == \E i \in Levels, f \in Names :
    Resolves(i, f) /\ Begin(t, "get", <<Declaring(i, f), f>>, 0, 0) /\ UNCHANGED ceiling

\* getAndAddInt of sun.misc.Unsafe: getIntVolatile, an addition, and
\* compareAndSwapInt, again from the start when that fails.
GetAndAdd(t) == \E f \in Instances :
    /\ Begin(t, "volatile", ByUnsafeOffset(ObjectFieldOffset(f)), 0, 0)
    /\ ceiling' = ceiling + 1

\* compareAndSwapInt with two ints of its own.
CompareAndSwapInt(t) == \E p \in Exchanges, f \in Instances :
    /\ Begin(t, "exchange", ByUnsafeOffset(ObjectFieldOffset(f)), p[1], p[2])
    /\ ceiling' = Explains(Largest(p[1], p[2]))

\* PUTFIELD of a new Variable, or of the one that t has read last.
PutVariable(t, x, v, n) ==
    /\ call[t].at = "idle" /\ ops[t] < MaxOps
    /\ ops' = [ops EXCEPT ![t] = @ + 1]
    /\ cell' = [cell EXCEPT ![x] = v]
    /\ call' = [u \in Threads |-> IF Busy(u, x) THEN [call[u] EXCEPT !.may = @ \cup {v}]
                                               ELSE call[u]]
    /\ IF x = Counter
       THEN /\ java' = n
            /\ disturbed' = (disturbed \/ \E u \in Threads : Busy(u, x))
       ELSE UNCHANGED <<java, disturbed>>
    /\ ceiling' = Explains(n)
    /\ UNCHANGED stack

PutNew(t, x) == \E n \in PutValues :
    PutVariable(t, x, Len(value) + 1, n) /\ value' = Append(value, n)

PutRead(t, x) ==
    /\ stack[t] # NoVar
    /\ PutVariable(t, x, stack[t], value[stack[t]])
    /\ UNCHANGED value

PutField(t) == \E i \in Levels, f \in Instances :
    /\ Resolves(i, f)
    /\ PutNew(t, <<Declaring(i, f), f>>) \/ PutRead(t, <<Declaring(i, f), f>>)

\* PUTSTATIC.  SetStaticField looks at no superclass: a put that names a
\* subclass of the class that declares the field changes nothing.
PutStatic(t) == \E i \in Levels, f \in Names \ Instances :
    IF Declares(i, f)
    THEN PutNew(t, <<i, f>>) \/ PutRead(t, <<i, f>>)
    ELSE /\ Resolves(i, f) /\ call[t].at = "idle" /\ ops[t] < MaxOps
         /\ ops' = [ops EXCEPT ![t] = @ + 1]
         /\ UNCHANGED <<cell, value, call, stack, java, disturbed, ceiling>>

-----------------------------------------------------------------------------
(* The rest of GetField, and what its caller does with the Variable        *)

\* Mutant: the field is not tested.
TestNothing(t) ==
    /\ call[t].at = "test"
    /\ call' = [call EXCEPT ![t].at = "default"]
    /\ UNCHANGED <<cell, value, stack, ops, java, disturbed, ceiling>>

\* Mutant: an empty field is taken for one that is set.
TestFetches(t) ==
    /\ call[t].at = "test"
    /\ call' = [call EXCEPT ![t].at = "fetch"]
    /\ UNCHANGED <<cell, value, stack, ops, java, disturbed, ceiling>>

\* HasVariable.
Test(t) ==
    /\ call[t].at = "test"
    /\ call' = [call EXCEPT ![t].at = IF cell[call[t].field] = NoVar THEN "default" ELSE "fetch"]
    /\ UNCHANGED <<cell, value, stack, ops, java, disturbed, ceiling>>

\* GetField returns v: to the operand stack, or to compareAndSwapInt.
Returned(t, v) ==
    IF call[t].op \in {"get", "volatile"}
    THEN /\ stack' = [stack EXCEPT ![t] = v]
         /\ call' = [call EXCEPT ![t].at = IF call[t].op = "get" THEN "idle" ELSE "add"]
    ELSE /\ call' = [call EXCEPT ![t].at = "compare", ![t].var = v]
         /\ UNCHANGED stack

Fetch(t) ==
    /\ call[t].at = "fetch"
    /\ Returned(t, cell[call[t].field])
    /\ UNCHANGED <<cell, value, ops, java, disturbed, ceiling>>

\* Mutant: the default is returned and not stored.
DefaultNotStored(t) ==
    /\ call[t].at = "default"
    /\ value' = Append(value, 0)
    /\ Returned(t, Len(value) + 1)
    /\ UNCHANGED <<cell, ops, java, disturbed, ceiling>>

\* NewDefaultVariable and SetVariable; what is returned is the new Variable,
\* also when the field has been set since the test.
Default(t) ==
    /\ call[t].at = "default"
    /\ value' = Append(value, 0)
    /\ cell' = [cell EXCEPT ![call[t].field] = Len(value) + 1]
    /\ Returned(t, Len(value) + 1)
    /\ UNCHANGED <<ops, java, disturbed, ceiling>>

-----------------------------------------------------------------------------
(* Unsafe                                                                  *)

\* The addition reads what the Variable holds by then.
Add(t) ==
    /\ call[t].at = "add"
    /\ call' = [call EXCEPT ![t].at = "args", ![t].new = value[stack[t]] + 1]
    /\ UNCHANGED <<cell, value, stack, ops, java, disturbed, ceiling>>

\* compareAndSwapInt reads the expected value, which is in the field's own
\* Variable, and then finds the field.
Args(t) ==
    /\ call[t].at = "args"
    /\ call' = [call EXCEPT ![t].op = "add", ![t].at = "test",
                            ![t].expected = value[stack[t]]]
    /\ UNCHANGED <<cell, value, stack, ops, java, disturbed, ceiling>>

Compare(t) ==
    /\ call[t].at = "compare"
    /\ call' = [call EXCEPT ![t].at = IF value[call[t].var] = call[t].expected
                                      THEN "store" ELSE "restore"]
    /\ UNCHANGED <<cell, value, stack, ops, java, disturbed, ceiling>>

\* Mutant: the result of a successful exchange is lost and it is tried again.
StoreAndRetry(t) ==
    /\ call[t].at = "store"
    /\ value' = [value EXCEPT ![call[t].var] = call[t].new]
    /\ java' = java + 1
    /\ call' = [call EXCEPT ![t].at = IF call[t].op = "add" THEN "test" ELSE "idle",
                            ![t].op = "volatile"]
    /\ UNCHANGED <<cell, stack, ops, disturbed, ceiling>>

\* The exchange succeeds.
Store(t) ==
    /\ call[t].at = "store"
    /\ value' = [value EXCEPT ![call[t].var] = call[t].new]
    /\ java' = IF call[t].op = "add" THEN java + 1 ELSE call[t].new
    /\ call' = [call EXCEPT ![t].at = "idle"]
    /\ UNCHANGED <<cell, stack, ops, disturbed, ceiling>>

\* It fails, and the expected value is stored all the same.
Restore(t) ==
    /\ call[t].at = "restore"
    /\ value' = [value EXCEPT ![call[t].var] = call[t].expected]
    /\ disturbed' = TRUE
    /\ call' = [call EXCEPT ![t].at = IF call[t].op = "add" THEN "test" ELSE "idle",
                            ![t].op = IF call[t].op = "add" THEN "volatile" ELSE call[t].op]
    /\ UNCHANGED <<cell, stack, ops, java, ceiling>>

-----------------------------------------------------------------------------

Starts(t) ==
    \/ GetField(t) \/ PutField(t) \/ PutStatic(t)
    \/ GetAndAdd(t) \/ CompareAndSwapInt(t)

Goes(t) ==
    \/ Test(t) \/ Fetch(t) \/ Default(t)
    \/ Add(t) \/ Args(t) \/ Compare(t) \/ Store(t) \/ Restore(t)

Next == \E t \in Threads : Starts(t) \/ Goes(t)

Spec == Init /\ [][Next]_vars

-----------------------------------------------------------------------------
(* Properties                                                              *)

\* A read that begins when a field is settled (it has been set or read once,
\* and no first read is still on its way to store the default) returns the
\* Variable the field had then or one put since: never one put before, and
\* never a default.  A field that its constructor sets is settled when the
\* object is shared.
Regular == \A t \in Threads :
    call[t].at = "idle" /\ call[t].op = "get" /\ call[t].settled => stack[t] \in call[t].may

\* While operations on the first field have not overlapped and no exchange
\* has failed, it holds what Java says, whichever fields share Variables:
\* puts and increments have each had their effect once, through the offset.
ExactUnlessDisturbed ==
    ~disturbed /\ (\A t \in Threads : ~Busy(t, Counter)) =>
        java = IF cell[Counter] = NoVar THEN 0 ELSE value[cell[Counter]]

\* Whatever overlaps, no Variable holds more than the puts, exchanges and
\* increments begun so far explain: an increment that is tried again has not
\* been stored before.  Increments may be lost, and exchanges undone.
NeverAhead == \A v \in Variables : value[v] <= ceiling

=============================================================================
