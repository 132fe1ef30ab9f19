------------------------- MODULE SharedObjectsProofs -------------------------
(* Proofs about Heap and StringPool, for any threads, classes, fields,      *)
(* values, texts and class names.                                           *)
EXTENDS SharedObjects, FiniteSetTheorems, SequenceTheorems, WellFoundedInduction, TLAPS

-----------------------------------------------------------------------------
(* The fields                                                              *)

LEMMA FirstExists ==
    ASSUME NEW S \in SUBSET Nat, S # {}
    PROVE  \E i \in S : \A j \in S : i <= j
  <1> DEFINE Less == {ss \in Nat \X Nat : ss[1] < ss[2]}
  <1>1. IsWellFoundedOn(Less, Nat)
    <2>1. OpToRel(<, Nat) = {ss \in Nat \X Nat : ss[1] < ss[2]}
      BY DEF OpToRel
    <2> QED
      BY <2>1, NatLessThanWellFounded, Zenon
  <1>2. \A i, j \in Nat : i < j => <<i, j>> \in Less
    OBVIOUS
  <1> HIDE DEF Less
  <1>3. PICK x \in S : \A y \in S : ~(<<y, x>> \in Less)
    BY <1>1, WFMin, Zenon
  <1>4. ASSUME NEW y \in S PROVE x <= y
    <2>1. ~(y < x)
      BY <1>2, <1>3, Zenon
    <2> QED
      BY <2>1
  <1> QED
    BY <1>4, Zenon

\* A name that resolves is a field of the class that is found.
LEMMA DeclaringIsField ==
    ASSUME NEW i \in Levels, NEW f \in Names, Resolves(i, f)
    PROVE  <<Declaring(i, f), f>> \in FieldIds
  <1> DEFINE J == {j \in i..Len(Chain) : Declares(j, f)}
             P(j) == Declares(j, f) /\ \A k \in i..(j - 1) : ~Declares(k, f)
  <1>1. Len(Chain) \in Nat /\ i \in Nat /\ i >= 1
    BY ConstantsAssumption DEF Levels
  <1>2. J \in SUBSET Nat /\ J # {}
    BY <1>1 DEF Resolves
  <1>3. PICK j \in J : \A k \in J : j <= k
    <2> HIDE DEF J
    <2> QED
      BY <1>2, FirstExists, Zenon
  <1>4. j \in i..Len(Chain) /\ Declares(j, f)
    OBVIOUS
  <1>5. \A k \in i..(j - 1) : ~Declares(k, f)
    BY <1>1, <1>3, <1>4
  <1>6. \E k \in i..Len(Chain) : P(k)
    BY <1>4, <1>5
  <1> DEFINE d == CHOOSE k \in i..Len(Chain) : P(k)
  <1>7. d \in i..Len(Chain) /\ P(d)
    BY <1>6, Zenon
  <1>8. Declaring(i, f) = d
    BY DEF Declaring
  <1> HIDE DEF d
  <1>9. d \in Levels
    BY <1>1, <1>7 DEF Levels
  <1>10. <<d, f>> \in Levels \X Names /\ Declares(d, f)
    BY <1>7, <1>9
  <1> QED
    BY <1>8, <1>10 DEF FieldIds

\* The first field of the object's own class.
LEMMA CounterIsField ==
    Counter \in FieldIds /\ \A f : ByUnsafeOffset(ObjectFieldOffset(f)) = Counter
  <1> DEFINE f == Fields[Chain[1]][1]
  <1>1. 1 \in Levels /\ Len(Chain) \in Nat
    BY ConstantsAssumption DEF Levels
  <1>2. Fields[Chain[1]] \in Seq(Instances) /\ Len(Fields[Chain[1]]) > 0
    BY <1>1, ConstantsAssumption
  <1>3. f \in Elements(Fields[Chain[1]]) /\ f \in Instances
    BY <1>2 DEF Elements
  <1>4. Resolves(1, f) /\ f \in Names
    BY <1>1, <1>3 DEF Resolves, Declares, Names, Levels
  <1>5. Counter = <<Declaring(1, f), f>>
    BY DEF Counter, ByUnsafeOffset
  <1>6. \A g : ByUnsafeOffset(ObjectFieldOffset(g)) = Counter
    BY DEF Counter, ObjectFieldOffset
  <1> QED
    BY <1>1, <1>4, <1>5, <1>6, DeclaringIsField

-----------------------------------------------------------------------------
(* The inductive invariant                                                 *)

CallSet(n) == [op : Ops, at : Ats, field : FieldIds, expected : Nat, new : Nat,
               var : {NoVar} \cup 1..n, settled : BOOLEAN, may : SUBSET (1..n)]

Typed == TypeOK /\ call \in [Threads -> CallSet(Len(value))]

\* What an operation that is under way is, by where it is.
Placed(c) ==
    /\ c.at # "idle" /\ c.op # "get" => c.field = Counter
    /\ c.at \in {"compare", "store", "restore"} => c.op \in {"add", "exchange"}
    /\ c.at \in {"add", "args"} => c.op = "volatile"
Structure == \A t \in Threads : Placed(call[t])

\* A settled field stays settled, and what it holds is among what a read that
\* began then may return.
Reads == \A t \in Threads :
    call[t].at # "idle" /\ call[t].settled =>
        Settled(call[t].field) /\ cell[call[t].field] \in call[t].may

\* What is in the Variables and on its way there, and the increments that
\* have not been stored, are below the ceiling together.
P == Cardinality(Pending)
Below(c, p, top) ==
    /\ c.at # "idle" /\ c.op \in {"add", "exchange"} => c.expected + p <= top
    /\ c.at # "idle" /\ c.op = "exchange" => c.new + p <= top
    /\ c.at # "idle" /\ (c.op = "add" \/ c.at = "args") => c.new + p <= top + 1
Bounded ==
    /\ P <= ceiling
    /\ \A v \in Variables : value[v] + P <= ceiling
    /\ \A t \in Threads : Below(call[t], P, ceiling)

\* The counter as the object holds it, and what one operation on it knows.
Holds == IF cell[Counter] = NoVar THEN 0 ELSE value[cell[Counter]]
Knows(c, s, k, h) ==
    /\ c.at = "default" => k = NoVar
    /\ c.at \in {"compare", "store", "restore"} => c.var = k
    /\ c.at \in {"add", "args"} => s = k
    /\ c.at = "args" => c.new = h + 1
    /\ c.op = "add" => k # NoVar /\ c.expected = h /\ c.new = h + 1
    /\ c.at = "store" => c.expected = h
Exact == ~disturbed =>
    /\ \A t, u \in Threads : Busy(t, Counter) /\ Busy(u, Counter) => t = u
    /\ java = Holds
    /\ \A t \in Threads : Busy(t, Counter) => Knows(call[t], stack[t], cell[Counter], Holds)

HeapInv == Typed /\ Structure /\ Reads /\ Regular /\ Bounded /\ Exact

LEMMA InitHeapInv == Init => HeapInv
  <1> SUFFICES ASSUME Init PROVE HeapInv
    OBVIOUS
  <1>1. Counter \in FieldIds /\ Len(value) = 0 /\ \A t \in Threads : call[t] = Idle
    BY CounterIsField DEF Init
  <1>2. Idle \in CallSet(0) /\ Idle.at = "idle" /\ Idle.settled = FALSE
    BY CounterIsField DEF Idle, CallSet, Ops, Ats, NoVar
  <1>3. Typed
    <2>1. call \in [Threads -> CallSet(0)]
      BY <1>1, <1>2 DEF Init
    <2>2. MaxOps \in Nat /\ value \in Seq(Nat)
      BY ConstantsAssumption DEF Init
    <2>3. /\ cell \in [FieldIds -> {NoVar} \cup Variables]
          /\ stack \in [Threads -> {NoVar} \cup Variables]
          /\ ops \in [Threads -> 0..MaxOps]
          /\ java \in Nat /\ ceiling \in Nat /\ disturbed \in BOOLEAN
      <3>1. cell \in [FieldIds -> {NoVar} \cup Variables]
        BY DEF Init
      <3>2. stack \in [Threads -> {NoVar} \cup Variables]
        BY DEF Init
      <3>3. ops \in [Threads -> 0..MaxOps]
        BY <2>2 DEF Init
      <3>4. java \in Nat /\ ceiling \in Nat /\ disturbed \in BOOLEAN
        BY DEF Init
      <3> QED
        BY <3>1, <3>2, <3>3, <3>4
    <2>4. \A t \in Threads : call[t] \in CallSet(0) /\ call[t].at = "idle"
      BY <1>1, <1>2
    <2> HIDE DEF Init
    <2>5. \A t \in Threads :
           /\ call[t] \in [op : Ops, at : Ats, field : FieldIds, expected : Nat, new : Nat,
                           var : {NoVar} \cup Variables, settled : BOOLEAN, may : SUBSET Variables]
      BY <1>1, <2>4 DEF CallSet, Variables
    <2> QED
      BY <1>1, <2>1, <2>2, <2>3, <2>4, <2>5 DEF Typed, TypeOK
  <1>4. Structure /\ Reads /\ Regular
    BY <1>1, <1>2 DEF Structure, Placed, Reads, Regular
  <1>5. Bounded
    <2>1. Pending = {}
      BY <1>1, <1>2 DEF Pending
    <2>2. P = 0
      BY <2>1, FS_EmptySet DEF P
    <2> QED
      BY <1>1, <1>2, <2>2 DEF Bounded, Below, Variables, Init
  <1>6. Exact
    BY <1>1, <1>2 DEF Exact, Busy, Holds, Init
  <1> QED
    BY <1>3, <1>4, <1>5, <1>6 DEF HeapInv

-----------------------------------------------------------------------------
(* What a step does to the calls                                           *)

LEMMA TypedFacts ==
    ASSUME Typed
    PROVE  /\ value \in Seq(Nat) /\ Len(value) \in Nat
           /\ cell \in [FieldIds -> {NoVar} \cup 1..Len(value)]
           /\ stack \in [Threads -> {NoVar} \cup 1..Len(value)]
           /\ ops \in [Threads -> 0..MaxOps] /\ MaxOps \in Nat
           /\ java \in Nat /\ ceiling \in Nat /\ disturbed \in BOOLEAN
           /\ \A t \in Threads :
                  /\ call[t] \in CallSet(Len(value))
                  /\ call[t].at \in {"compare", "store", "restore"} =>
                         call[t].var \in 1..Len(value)
                  /\ call[t].at \in {"add", "args"} => stack[t] \in 1..Len(value)
                  /\ call[t].at = "fetch" => cell[call[t].field] # NoVar
  <1>1. value \in Seq(Nat)
    BY DEF Typed, TypeOK
  <1>2. MaxOps \in Nat
    BY ConstantsAssumption
  <1>3. \A t \in Threads : call[t] \in CallSet(Len(value))
    BY DEF Typed
  <1> QED
    BY <1>1, <1>2, <1>3 DEF Typed, TypeOK, Variables

LEMMA CallSetGrows ==
    ASSUME NEW n \in Nat, NEW m \in Nat, n <= m
    PROVE  CallSet(n) \subseteq CallSet(m)
  <1>1. 1..n \subseteq 1..m
    OBVIOUS
  <1>2. SUBSET (1..n) \subseteq SUBSET (1..m)
    BY <1>1
  <1> SUFFICES ASSUME NEW c \in CallSet(n) PROVE c \in CallSet(m)
    OBVIOUS
  <1>3. /\ c.op \in Ops /\ c.at \in Ats /\ c.field \in FieldIds /\ c.expected \in Nat
        /\ c.new \in Nat /\ c.var \in {NoVar} \cup 1..m /\ c.settled \in BOOLEAN
        /\ c.may \in SUBSET (1..m)
    BY <1>1, <1>2 DEF CallSet
  <1>4. c = [op |-> c.op, at |-> c.at, field |-> c.field, expected |-> c.expected,
             new |-> c.new, var |-> c.var, settled |-> c.settled, may |-> c.may]
    BY DEF CallSet
  <1> QED
    BY <1>3, <1>4 DEF CallSet

Changed(t, m, g) ==
    /\ call' \in [Threads -> CallSet(m)] /\ call'[t] = g
    /\ \A u \in Threads : u # t => call'[u] = call[u]

LEMMA CallChanges ==
    ASSUME Typed, NEW t \in Threads, NEW m \in Nat, Len(value) <= m,
           NEW g \in CallSet(m), call' = [call EXCEPT ![t] = g]
    PROVE  Changed(t, m, g)
  <1>1. call \in [Threads -> CallSet(Len(value))] /\ Len(value) \in Nat
    BY TypedFacts DEF Typed
  <1>2. CallSet(Len(value)) \subseteq CallSet(m)
    BY <1>1, CallSetGrows
  <1>3. call \in [Threads -> CallSet(m)]
    BY <1>1, <1>2
  <1> QED
    BY <1>3 DEF Changed

\* The type invariant after a step of t: the Variables become more, no field
\* loses its own, and the others' calls differ in "may" at most.
LEMMA TypedKeeps ==
    ASSUME Typed, NEW t \in Threads,
           value' \in Seq(Nat), Len(value) <= Len(value'),
           cell' \in [FieldIds -> {NoVar} \cup 1..Len(value')],
           stack' \in [Threads -> {NoVar} \cup 1..Len(value')],
           ops' \in [Threads -> 0..MaxOps],
           java' \in Nat, ceiling' \in Nat, disturbed' \in BOOLEAN,
           call' \in [Threads -> CallSet(Len(value'))],
           \A x \in FieldIds : cell[x] # NoVar => cell'[x] # NoVar,
           \A u \in Threads : u # t =>
               /\ stack'[u] = stack[u] /\ call'[u].at = call[u].at
               /\ call'[u].var = call[u].var /\ call'[u].field = call[u].field,
           call'[t].at \in {"compare", "store", "restore"} => call'[t].var # NoVar,
           call'[t].at \in {"add", "args"} => stack'[t] # NoVar,
           call'[t].at = "fetch" => cell'[call'[t].field] # NoVar
    PROVE  Typed'
  <1>1. Len(value') \in Nat /\ Len(value) \in Nat
    BY TypedFacts
  <1>2. ASSUME NEW u \in Threads
        PROVE  /\ call'[u] \in CallSet(Len(value'))
               /\ call'[u].at \in {"compare", "store", "restore"} =>
                      call'[u].var \in 1..Len(value')
               /\ call'[u].at \in {"add", "args"} => stack'[u] \in 1..Len(value')
               /\ call'[u].at = "fetch" => cell'[call'[u].field] # NoVar
    <2>1. call'[u] \in CallSet(Len(value')) /\ stack'[u] \in {NoVar} \cup 1..Len(value')
      OBVIOUS
    <2>2. call'[u].var \in {NoVar} \cup 1..Len(value') /\ call'[u].field \in FieldIds
      BY <2>1 DEF CallSet
    <2>3. CASE u = t
      BY <2>1, <2>2, <2>3
    <2>4. CASE u # t
      <3>1. /\ call[u].at \in {"compare", "store", "restore"} => call[u].var \in 1..Len(value)
            /\ call[u].at \in {"add", "args"} => stack[u] \in 1..Len(value)
            /\ call[u].at = "fetch" => cell[call[u].field] # NoVar
        BY TypedFacts
      <3>2. /\ stack'[u] = stack[u] /\ call'[u].at = call[u].at
            /\ call'[u].var = call[u].var /\ call'[u].field = call[u].field
        BY <2>4
      <3>3. call[u].at = "fetch" => cell'[call[u].field] # NoVar
        BY <2>2, <3>1, <3>2
      <3> QED
        BY <1>1, <2>1, <3>1, <3>2, <3>3
    <2> QED
      BY <2>3, <2>4
  <1>3. \A u \in Threads : call'[u] \in
            [op : Ops, at : Ats, field : FieldIds, expected : Nat, new : Nat,
             var : {NoVar} \cup Variables', settled : BOOLEAN, may : SUBSET Variables']
    BY <1>2 DEF CallSet, Variables
  <1>4. TypeOK'
    BY <1>1, <1>2, <1>3 DEF TypeOK, Variables
  <1> QED
    BY <1>4 DEF Typed

LEMMA ReadsKeeps ==
    ASSUME Typed, Typed',
           \A x \in FieldIds : cell[x] # NoVar => cell'[x] # NoVar,
           \A u \in Threads : call'[u].at = "default" =>
               \/ cell[call'[u].field] = NoVar
               \/ call[u].at = "default" /\ call[u].field = call'[u].field,
           \A u \in Threads : call'[u].at # "idle" /\ call'[u].settled =>
               /\ Settled(call'[u].field)
               /\ cell'[call'[u].field] \in call'[u].may
    PROVE  Reads'
  <1> SUFFICES ASSUME NEW u \in Threads, call'[u].at # "idle", call'[u].settled
               PROVE  /\ cell'[call'[u].field] # NoVar
                      /\ ~\E w \in Threads : /\ call'[w].at # "idle"
                                             /\ call'[w].field = call'[u].field
                                             /\ call'[w].at = "default"
                      /\ cell'[call'[u].field] \in call'[u].may
    BY DEF Reads, Settled, Busy
  <1> DEFINE x == call'[u].field
  <1>1. x \in FieldIds
    BY DEF Typed, CallSet
  <1>2. Settled(x)
    OBVIOUS
  <1>3. cell[x] # NoVar /\ \A w \in Threads : ~(call[w].field = x /\ call[w].at = "default")
    BY <1>2 DEF Settled, Busy
  <1> HIDE DEF x
  <1>4. \A w \in Threads : ~(call'[w].field = x /\ call'[w].at = "default")
    BY <1>3
  <1> QED
    BY <1>1, <1>3, <1>4 DEF x

LEMMA PendingFacts ==
    Pending \subseteq Threads /\ IsFiniteSet(Pending) /\ P \in Nat
  <1>1. Pending \subseteq Threads /\ IsFiniteSet(Threads)
    BY ConstantsAssumption DEF Pending
  <1>2. IsFiniteSet(Pending)
    BY <1>1, FS_Subset
  <1> QED
    BY <1>1, <1>2, FS_CardinalityType DEF P

IsPending(c) == c.at # "idle" /\ c.op \in {"volatile", "add"}

LEMMA PendingMoves ==
    ASSUME NEW t \in Threads,
           \A u \in Threads : u # t => call'[u].at = call[u].at /\ call'[u].op = call[u].op
    PROVE  /\ P' \in Nat
           /\ (IsPending(call'[t]) <=> IsPending(call[t])) => P' = P
           /\ IsPending(call'[t]) /\ ~IsPending(call[t]) => P' = P + 1
           /\ ~IsPending(call'[t]) /\ IsPending(call[t]) => P' = P - 1
  <1> DEFINE A == Pending
             B == {u \in Threads : IsPending(call'[u])}
  <1>1. Pending' = B /\ A = {u \in Threads : IsPending(call[u])}
    BY DEF Pending, IsPending
  <1>2. IsFiniteSet(A) /\ P \in Nat /\ P = Cardinality(A) /\ P' = Cardinality(Pending')
    BY PendingFacts DEF P
  <1>3. \A u \in Threads : u # t => (u \in B <=> u \in A)
    BY <1>1 DEF IsPending
  <1>4. (t \in B <=> IsPending(call'[t])) /\ (t \in A <=> IsPending(call[t]))
    BY <1>1
  <1>5. B \subseteq Threads /\ A \subseteq Threads
    BY <1>1
  <1> HIDE DEF A, B
  <1>6. CASE IsPending(call'[t]) <=> IsPending(call[t])
    <2>1. \A u \in Threads : u \in B <=> u \in A
      BY <1>3, <1>4, <1>6, Zenon
    <2>2. B = A
      BY <1>5, <2>1
    <2> QED
      BY <1>1, <1>2, <1>6, <2>2
  <1>7. CASE IsPending(call'[t]) /\ ~IsPending(call[t])
    <2>1. B = A \cup {t} /\ t \notin A
      BY <1>3, <1>4, <1>5, <1>7
    <2>2. Cardinality(A \cup {t}) = Cardinality(A) + 1
      BY <1>2, <2>1, FS_AddElement
    <2> QED
      BY <1>1, <1>2, <1>7, <2>1, <2>2
  <1>8. CASE ~IsPending(call'[t]) /\ IsPending(call[t])
    <2>1. B = A \ {t} /\ t \in A
      BY <1>3, <1>4, <1>5, <1>8
    <2>2. Cardinality(A \ {t}) = Cardinality(A) - 1
      BY <1>2, <2>1, FS_RemoveElement
    <2>3. Cardinality(A \ {t}) \in Nat
      BY <1>2, FS_Subset, FS_CardinalityType
    <2> QED
      BY <1>1, <1>2, <1>8, <2>1, <2>2, <2>3
  <1> QED
    BY <1>6, <1>7, <1>8

LEMMA Lifted ==
    \A x, p, q, c, d \in Nat : x + p <= c /\ c + q <= d + p => x + q <= d
  OBVIOUS

LEMMA LiftedNew ==
    \A x, p, q, c, d \in Nat : x + p <= c + 1 /\ c + q <= d + p => x + q <= d + 1
  OBVIOUS

LEMMA Lowered ==
    \A c, p, q \in Nat : q <= p => c + q <= c + p
  OBVIOUS

LEMMA Raised ==
    \A c, d, p : c \in Nat /\ d \in Nat /\ p \in Nat /\ c <= d => c + p <= d + p
  OBVIOUS

LEMMA BothRise ==
    \A c, p : c \in Nat /\ p \in Nat => c + (p + 1) <= (c + 1) + p
  OBVIOUS

LEMMA BoundedKeeps ==
    ASSUME Typed, Typed', Bounded, NEW t \in Threads, P' \in Nat,
           ceiling + P' <= ceiling' + P,
           \A v \in 1..Len(value') :
               \/ v \in 1..Len(value) /\ value'[v] = value[v]
               \/ value'[v] + P' <= ceiling',
           \A u \in Threads : u # t =>
               /\ call'[u].at = call[u].at /\ call'[u].op = call[u].op
               /\ call'[u].expected = call[u].expected /\ call'[u].new = call[u].new,
           Below(call'[t], P', ceiling')
    PROVE  Bounded'
  <1>1. /\ P \in Nat /\ P' \in Nat /\ ceiling \in Nat /\ ceiling' \in Nat /\ P <= ceiling
        /\ ceiling + P' <= ceiling' + P
    BY PendingFacts, TypedFacts DEF Bounded, Typed, TypeOK
  <1>2. P' <= ceiling'
    BY <1>1
  <1>3. ASSUME NEW v \in 1..Len(value')
        PROVE  value'[v] + P' <= ceiling'
    <2>1. CASE v \in 1..Len(value) /\ value'[v] = value[v]
      <3>1. value[v] + P <= ceiling /\ value[v] \in Nat
        BY <2>1, TypedFacts DEF Bounded, Variables
      <3> QED
        BY <1>1, <2>1, <3>1, Lifted
    <2>2. CASE value'[v] + P' <= ceiling'
      BY <2>2
    <2> QED
      BY <2>1, <2>2
  <1>4. ASSUME NEW u \in Threads
        PROVE  Below(call'[u], P', ceiling')
    <2>1. CASE u = t
      BY <2>1
    <2>2. CASE u # t
      <3>1. Below(call[u], P, ceiling) /\ call[u].expected \in Nat /\ call[u].new \in Nat
        BY TypedFacts DEF Bounded, CallSet
      <3> QED
        BY <1>1, <2>2, <3>1, Lifted, LiftedNew DEF Below
    <2> QED
      BY <2>1, <2>2
  <1> QED
    BY <1>2, <1>3, <1>4 DEF Bounded, Variables

LEMMA ExactKeeps ==
    ASSUME Exact, NEW t \in Threads, ~disturbed' => ~disturbed,
           \A u \in Threads : u # t =>
               /\ stack'[u] = stack[u] /\ call'[u].at = call[u].at
               /\ call'[u].op = call[u].op /\ call'[u].field = call[u].field
               /\ call'[u].expected = call[u].expected /\ call'[u].new = call[u].new
               /\ call'[u].var = call[u].var,
           ~disturbed' /\ call'[t].at # "idle" /\ call'[t].field = Counter =>
               /\ \A u \in Threads : u # t => ~Busy(u, Counter)
               /\ Knows(call'[t], stack'[t], cell'[Counter], Holds'),
           ~disturbed' => java' = Holds',
           \A u \in Threads : ~disturbed' /\ u # t /\ Busy(u, Counter) =>
               cell'[Counter] = cell[Counter] /\ Holds' = Holds
    PROVE  Exact'
  <1> SUFFICES ASSUME ~disturbed'
               PROVE  /\ \A u, w \in Threads :
                             /\ call'[u].at # "idle" /\ call'[u].field = Counter
                             /\ call'[w].at # "idle" /\ call'[w].field = Counter
                             => u = w
                      /\ java' = Holds'
                      /\ \A u \in Threads :
                             call'[u].at # "idle" /\ call'[u].field = Counter =>
                                 Knows(call'[u], stack'[u], cell'[Counter], Holds')
    BY DEF Exact, Busy, Counter, ByUnsafeOffset, Declaring, Declares
  <1>1. \A u \in Threads : u # t =>
            ((call'[u].at # "idle" /\ call'[u].field = Counter) <=> Busy(u, Counter))
    BY DEF Busy
  <1>2. /\ \A u, w \in Threads : Busy(u, Counter) /\ Busy(w, Counter) => u = w
        /\ \A u \in Threads : Busy(u, Counter) =>
               Knows(call[u], stack[u], cell[Counter], Holds)
    BY DEF Exact
  <1>3. ASSUME NEW u \in Threads, NEW w \in Threads,
               call'[u].at # "idle", call'[u].field = Counter,
               call'[w].at # "idle", call'[w].field = Counter
        PROVE  u = w
    BY <1>1, <1>2, <1>3
  <1>4. ASSUME NEW u \in Threads, call'[u].at # "idle", call'[u].field = Counter
        PROVE  Knows(call'[u], stack'[u], cell'[Counter], Holds')
    <2>1. CASE u = t
      BY <1>4, <2>1
    <2>2. CASE u # t
      <3>1. Busy(u, Counter)
        BY <1>1, <1>4, <2>2
      <3>2. cell'[Counter] = cell[Counter] /\ Holds' = Holds
        BY <2>2, <3>1
      <3>3. Knows(call[u], stack[u], cell[Counter], Holds)
        BY <1>2, <3>1
      <3> QED
        BY <2>2, <3>2, <3>3 DEF Knows
    <2> QED
      BY <2>1, <2>2
  <1> QED
    BY <1>3, <1>4

LEMMA StructureKeeps ==
    ASSUME Structure, NEW t \in Threads, Placed(call'[t]),
           \A u \in Threads : u # t =>
               /\ call'[u].at = call[u].at /\ call'[u].op = call[u].op
               /\ call'[u].field = call[u].field
    PROVE  Structure'
  <1> SUFFICES ASSUME NEW u \in Threads PROVE Placed(call'[u])
    BY DEF Structure, Placed, Counter, ByUnsafeOffset, Declaring, Declares
  <1>1. Placed(call[u])
    BY DEF Structure
  <1> QED
    BY <1>1 DEF Placed

\* The read that t finishes, and the others' that are not disturbed.
LEMMA RegularKeeps ==
    ASSUME Regular, NEW t \in Threads,
           call'[t].at = "idle" /\ call'[t].op = "get" /\ call'[t].settled =>
               stack'[t] \in call'[t].may,
           \A u \in Threads : u # t =>
               /\ stack'[u] = stack[u] /\ call'[u].at = call[u].at /\ call'[u].op = call[u].op
               /\ call'[u].settled = call[u].settled /\ call[u].may \subseteq call'[u].may
    PROVE  Regular'
  BY DEF Regular

-----------------------------------------------------------------------------
(* The steps that read                                                     *)

LEMMA QuietHeapStep ==
    ASSUME HeapInv, NEW t \in Threads, NEW g \in CallSet(Len(value)),
           call' = [call EXCEPT ![t] = g],
           UNCHANGED <<cell, value, ops, java, disturbed, ceiling>>,
           stack' \in [Threads -> {NoVar} \cup 1..Len(value)],
           \A u \in Threads : u # t => stack'[u] = stack[u],
           call[t].at # "idle", g.field = call[t].field,
           g.settled = call[t].settled, g.may = call[t].may,
           IsPending(g) <=> IsPending(call[t]),
           g.at = "default" => cell[g.field] = NoVar,
           g.at = "fetch" => cell[g.field] # NoVar,
           g.at \in {"compare", "store", "restore"} => g.var # NoVar,
           g.at \in {"add", "args"} => stack'[t] # NoVar,
           Placed(g), Below(g, P, ceiling),
           g.at = "idle" /\ g.op = "get" /\ g.settled => stack'[t] \in g.may,
           ~disturbed /\ g.at # "idle" /\ g.field = Counter =>
               Knows(g, stack'[t], cell[Counter], Holds)
    PROVE  HeapInv'
  <1>1. Typed /\ Structure /\ Reads /\ Regular /\ Bounded /\ Exact
    BY DEF HeapInv
  <1>2. /\ cell' = cell /\ value' = value /\ ops' = ops /\ java' = java
        /\ disturbed' = disturbed /\ ceiling' = ceiling
    OBVIOUS
  <1>3. Len(value) \in Nat /\ Len(value) <= Len(value)
    BY <1>1, TypedFacts
  <1>4. Changed(t, Len(value), g)
    BY <1>1, <1>3, CallChanges, Zenon
  <1>5. /\ call' \in [Threads -> CallSet(Len(value'))] /\ call'[t] = g
        /\ \A u \in Threads : u # t => call'[u] = call[u]
    BY <1>2, <1>4, Zenon DEF Changed
  <1>6. Typed'
    <2>1. /\ value' \in Seq(Nat) /\ cell' \in [FieldIds -> {NoVar} \cup 1..Len(value')]
          /\ ops' \in [Threads -> 0..MaxOps]
          /\ java' \in Nat /\ ceiling' \in Nat /\ disturbed' \in BOOLEAN
          /\ Len(value) <= Len(value')
      BY <1>1, <1>2, <1>3, TypedFacts
    <2>2. stack' \in [Threads -> {NoVar} \cup 1..Len(value')]
      BY <1>2
    <2>3. \A x \in FieldIds : cell[x] # NoVar => cell'[x] # NoVar
      BY <1>2
    <2>4. \A u \in Threads : u # t =>
               /\ stack'[u] = stack[u] /\ call'[u].at = call[u].at
               /\ call'[u].var = call[u].var /\ call'[u].field = call[u].field
      BY <1>5
    <2>5. /\ call'[t].at \in {"compare", "store", "restore"} => call'[t].var # NoVar
          /\ call'[t].at \in {"add", "args"} => stack'[t] # NoVar
          /\ call'[t].at = "fetch" => cell'[call'[t].field] # NoVar
      BY <1>2, <1>5
    <2> QED
      BY <1>1, <1>5, <2>1, <2>2, <2>3, <2>4, <2>5, TypedKeeps
  <1>7. Structure'
    BY <1>1, <1>5, StructureKeeps
  <1>8. Reads'
    <2>1. \A u \in Threads : call'[u].at = "default" =>
               \/ cell[call'[u].field] = NoVar
               \/ call[u].at = "default" /\ call[u].field = call'[u].field
      BY <1>5
    <2>2. ASSUME NEW u \in Threads, call'[u].at # "idle", call'[u].settled
          PROVE  Settled(call'[u].field) /\ cell'[call'[u].field] \in call'[u].may
      <3>1. /\ call[u].at # "idle" /\ call[u].settled
            /\ call'[u].field = call[u].field /\ call'[u].may = call[u].may
        BY <1>5, <2>2
      <3>2. Settled(call[u].field) /\ cell[call[u].field] \in call[u].may
        BY <1>1, <3>1 DEF Reads
      <3> QED
        BY <1>2, <3>1, <3>2
    <2> QED
      BY <1>1, <1>2, <1>6, <2>1, <2>2, ReadsKeeps
  <1>9. Regular'
    BY <1>1, <1>5, RegularKeeps
  <1>10. Bounded'
    <2>1. P' = P /\ P \in Nat /\ ceiling \in Nat
      BY <1>1, <1>5, PendingMoves, PendingFacts, TypedFacts
    <2>2. P' \in Nat /\ ceiling + P' <= ceiling' + P /\ Below(call'[t], P', ceiling')
      BY <1>2, <1>5, <2>1
    <2>3. \A v \in 1..Len(value') :
               \/ v \in 1..Len(value) /\ value'[v] = value[v]
               \/ value'[v] + P' <= ceiling'
      BY <1>2
    <2>4. \A u \in Threads : u # t =>
               /\ call'[u].at = call[u].at /\ call'[u].op = call[u].op
               /\ call'[u].expected = call[u].expected /\ call'[u].new = call[u].new
      BY <1>5
    <2> QED
      BY <1>1, <1>6, <2>2, <2>3, <2>4, BoundedKeeps
  <1>11. Exact'
    <2>1. Holds' = Holds
      BY <1>2 DEF Holds
    <2>2. ~disturbed' => java' = Holds'
      BY <1>1, <1>2, <2>1 DEF Exact
    <2>3. ASSUME ~disturbed', call'[t].at # "idle", call'[t].field = Counter
          PROVE  /\ \A u \in Threads : u # t => ~Busy(u, Counter)
                 /\ Knows(call'[t], stack'[t], cell'[Counter], Holds')
      <3>1. Busy(t, Counter)
        BY <1>5, <2>3 DEF Busy
      <3>2. \A u \in Threads : Busy(u, Counter) => u = t
        BY <1>1, <1>2, <2>3, <3>1 DEF Exact
      <3> QED
        BY <1>2, <1>5, <2>1, <2>3, <3>2
    <2>4. \A u \in Threads : u # t =>
               /\ stack'[u] = stack[u] /\ call'[u].at = call[u].at
               /\ call'[u].op = call[u].op /\ call'[u].field = call[u].field
               /\ call'[u].expected = call[u].expected /\ call'[u].new = call[u].new
               /\ call'[u].var = call[u].var
      BY <1>5
    <2>5. \A u \in Threads : ~disturbed' /\ u # t /\ Busy(u, Counter) =>
               cell'[Counter] = cell[Counter] /\ Holds' = Holds
      BY <1>2, <2>1
    <2> QED
      BY <1>1, <1>2, <2>2, <2>3, <2>4, <2>5, ExactKeeps
  <1> QED
    BY <1>6, <1>7, <1>8, <1>9, <1>10, <1>11 DEF HeapInv

LEMMA CallFields ==
    ASSUME NEW n, NEW c \in CallSet(n)
    PROVE  /\ c.op \in Ops /\ c.at \in Ats /\ c.field \in FieldIds /\ c.expected \in Nat
           /\ c.new \in Nat /\ c.var \in {NoVar} \cup 1..n /\ c.settled \in BOOLEAN
           /\ c.may \in SUBSET (1..n)
           /\ c = [op |-> c.op, at |-> c.at, field |-> c.field, expected |-> c.expected,
                   new |-> c.new, var |-> c.var, settled |-> c.settled, may |-> c.may]
  BY DEF CallSet

\* A call that goes on: to another place, and with other operands.
Went(g, c, n, op, at, expected, new, var) ==
    /\ g \in CallSet(n) /\ g.op = op /\ g.at = at /\ g.field = c.field
    /\ g.expected = expected /\ g.new = new /\ g.var = var
    /\ g.settled = c.settled /\ g.may = c.may

ToPlace(c, at) == [c EXCEPT !.at = at]
ToCompare(c, v) == [c EXCEPT !.at = "compare", !.var = v]
ToArgs(c, w) == [c EXCEPT !.at = "args", !.new = w]
ToTest(c, e) == [c EXCEPT !.op = "add", !.at = "test", !.expected = e]
ToRetry(c, at, op) == [c EXCEPT !.at = at, !.op = op]

LEMMA GoesToPlace ==
    ASSUME NEW n, NEW c \in CallSet(n), NEW at \in Ats
    PROVE  Went(ToPlace(c, at), c, n, c.op, at, c.expected, c.new, c.var)
  BY DEF CallSet, Went, ToPlace

LEMMA GoesToCompare ==
    ASSUME NEW n, NEW c \in CallSet(n), NEW v \in {NoVar} \cup 1..n
    PROVE  Went(ToCompare(c, v), c, n, c.op, "compare", c.expected, c.new, v)
  BY DEF CallSet, Went, ToCompare, Ats

LEMMA GoesToArgs ==
    ASSUME NEW n, NEW c \in CallSet(n), NEW w \in Nat
    PROVE  Went(ToArgs(c, w), c, n, c.op, "args", c.expected, w, c.var)
  BY DEF CallSet, Went, ToArgs, Ats

LEMMA GoesToTest ==
    ASSUME NEW n, NEW c \in CallSet(n), NEW e \in Nat
    PROVE  Went(ToTest(c, e), c, n, "add", "test", e, c.new, c.var)
  BY DEF CallSet, Went, ToTest, Ats, Ops

LEMMA GoesToRetry ==
    ASSUME NEW n, NEW c \in CallSet(n), NEW at \in Ats, NEW op \in Ops
    PROVE  Went(ToRetry(c, at, op), c, n, op, at, c.expected, c.new, c.var)
  BY DEF CallSet, Went, ToRetry

\* What is known of the call of t.
LEMMA Here ==
    ASSUME HeapInv, NEW t \in Threads
    PROVE  /\ call[t] \in CallSet(Len(value)) /\ Len(value) \in Nat
           /\ Placed(call[t]) /\ Below(call[t], P, ceiling)
           /\ ~disturbed /\ call[t].at # "idle" /\ call[t].field = Counter =>
                  /\ Knows(call[t], stack[t], cell[Counter], Holds)
                  /\ java = Holds
                  /\ \A u \in Threads : u # t => ~Busy(u, Counter)
           /\ call[t].at # "idle" /\ call[t].settled =>
                  Settled(call[t].field) /\ cell[call[t].field] \in call[t].may
           /\ cell[call[t].field] \in {NoVar} \cup 1..Len(value)
           /\ stack[t] \in {NoVar} \cup 1..Len(value)
           /\ call[t].at \in {"compare", "store", "restore"} => call[t].var \in 1..Len(value)
           /\ call[t].at \in {"add", "args"} => stack[t] \in 1..Len(value)
           /\ call[t].at = "fetch" => cell[call[t].field] # NoVar
           /\ \A v \in 1..Len(value) : value[v] \in Nat /\ value[v] + P <= ceiling
           /\ P \in Nat /\ ceiling \in Nat /\ P <= ceiling /\ Holds \in Nat
           /\ Counter \in FieldIds /\ cell[Counter] \in {NoVar} \cup 1..Len(value)
  <1>1. Typed /\ Structure /\ Reads /\ Regular /\ Bounded /\ Exact
    BY DEF HeapInv
  <1>2. /\ call[t] \in CallSet(Len(value)) /\ Len(value) \in Nat
        /\ stack[t] \in {NoVar} \cup 1..Len(value)
        /\ call[t].at \in {"compare", "store", "restore"} => call[t].var \in 1..Len(value)
        /\ call[t].at \in {"add", "args"} => stack[t] \in 1..Len(value)
        /\ call[t].at = "fetch" => cell[call[t].field] # NoVar
        /\ \A v \in 1..Len(value) : value[v] \in Nat
        /\ P \in Nat /\ ceiling \in Nat
    BY <1>1, TypedFacts, PendingFacts
  <1>3. \A x \in FieldIds : cell[x] \in {NoVar} \cup 1..Len(value)
    BY <1>1, TypedFacts
  <1>4. call[t].field \in FieldIds /\ Counter \in FieldIds
    BY <1>2, CallFields, CounterIsField, Zenon
  <1>5. Placed(call[t]) /\ Below(call[t], P, ceiling) /\ P <= ceiling
        /\ \A v \in 1..Len(value) : value[v] + P <= ceiling
    BY <1>1 DEF Structure, Bounded, Variables
  <1>6. call[t].at # "idle" /\ call[t].settled =>
            Settled(call[t].field) /\ cell[call[t].field] \in call[t].may
    BY <1>1 DEF Reads
  <1>7. ~disturbed /\ call[t].at # "idle" /\ call[t].field = Counter =>
            /\ Knows(call[t], stack[t], cell[Counter], Holds)
            /\ java = Holds
            /\ \A u \in Threads : u # t => ~Busy(u, Counter)
    BY <1>1 DEF Exact, Busy
  <1>8. Holds \in Nat
    BY <1>2, <1>3, <1>4 DEF Holds
  <1>9. cell[Counter] \in {NoVar} \cup 1..Len(value)
        /\ cell[call[t].field] \in {NoVar} \cup 1..Len(value)
    BY <1>3, <1>4
  <1> QED
    BY <1>2, <1>4, <1>5, <1>6, <1>7, <1>8, <1>9

LEMMA TestKeeps ==
    ASSUME HeapInv, NEW t \in Threads, Test(t)
    PROVE  HeapInv'
  <1> DEFINE c == call[t]
             a == IF cell[c.field] = NoVar THEN "default" ELSE "fetch"
             g == ToPlace(c, a)
  <1>1. c.at = "test" /\ UNCHANGED <<cell, value, stack, ops, java, disturbed, ceiling>>
        /\ call' = [call EXCEPT ![t] = g]
    BY DEF Test, ToPlace
  <1>2. c \in CallSet(Len(value)) /\ Placed(c) /\ Below(c, P, ceiling)
        /\ stack \in [Threads -> {NoVar} \cup 1..Len(value)]
    BY Here, TypedFacts DEF HeapInv
  <1>3. a \in {"default", "fetch"} /\ (a = "default" => cell[c.field] = NoVar)
        /\ (a = "fetch" => cell[c.field] # NoVar)
    OBVIOUS
  <1>4. a \in Ats
    BY <1>3 DEF Ats
  <1>5. Went(g, c, Len(value), c.op, a, c.expected, c.new, c.var)
    <2> HIDE DEF c, a
    <2> QED
      BY <1>2, <1>4, GoesToPlace, Zenon
  <1>6. ~disturbed /\ c.field = Counter => Knows(c, stack[t], cell[Counter], Holds)
    BY <1>1, Here
  <1> HIDE DEF c, a, g
  <1>7. /\ g \in CallSet(Len(value)) /\ g.op = c.op /\ g.at = a /\ g.field = c.field
        /\ g.expected = c.expected /\ g.new = c.new /\ g.var = c.var
        /\ g.settled = c.settled /\ g.may = c.may
    BY <1>5, Zenon DEF Went
  <1>8. /\ IsPending(g) <=> IsPending(c)
        /\ Placed(g) /\ Below(g, P, ceiling)
        /\ ~disturbed /\ g.field = Counter => Knows(g, stack[t], cell[Counter], Holds)
    BY <1>1, <1>2, <1>3, <1>6, <1>7 DEF IsPending, Placed, Below, Knows
  <1> QED
    BY <1>1, <1>2, <1>3, <1>7, <1>8, QuietHeapStep DEF c

\* GetField returns the Variable v of the call c to t.
Result(g, c, n, v) ==
    \/ /\ c.op = "get"
       /\ Went(g, c, n, c.op, "idle", c.expected, c.new, c.var)
    \/ /\ c.op = "volatile"
       /\ Went(g, c, n, c.op, "add", c.expected, c.new, c.var)
    \/ /\ c.op \in {"add", "exchange"}
       /\ Went(g, c, n, c.op, "compare", c.expected, c.new, v)

LEMMA ReturnedGoes ==
    ASSUME Typed, NEW t \in Threads, NEW n \in Nat, Len(value) <= n, NEW v \in 1..n, Returned(t, v)
    PROVE  \E g \in CallSet(n) :
               /\ Result(g, call[t], n, v) /\ call' = [call EXCEPT ![t] = g]
               /\ stack' \in [Threads -> {NoVar} \cup 1..n]
               /\ \A u \in Threads : u # t => stack'[u] = stack[u]
               /\ stack'[t] = IF call[t].op \in {"get", "volatile"} THEN v ELSE stack[t]
  <1> DEFINE c == call[t]
  <1>1. /\ call[t] \in CallSet(Len(value)) /\ Len(value) \in Nat
        /\ stack \in [Threads -> {NoVar} \cup 1..Len(value)]
    BY TypedFacts
  <1>2. c \in CallSet(n)
    BY <1>1, CallSetGrows
  <1>3. /\ c.op \in Ops /\ c.expected \in Nat /\ c.new \in Nat /\ c.var \in {NoVar} \cup 1..n
        /\ c = [op |-> c.op, at |-> c.at, field |-> c.field, expected |-> c.expected,
                new |-> c.new, var |-> c.var, settled |-> c.settled, may |-> c.may]
    BY <1>2, CallFields
  <1>4. stack \in [Threads -> {NoVar} \cup 1..n] /\ v \in {NoVar} \cup 1..n
    BY <1>1
  <1>5. "idle" \in Ats /\ "add" \in Ats
    BY DEF Ats
  <1>6. CASE c.op = "get"
    <2> DEFINE g == ToPlace(c, "idle")
    <2>1. call' = [call EXCEPT ![t] = g] /\ stack' = [stack EXCEPT ![t] = v]
      BY <1>6 DEF Returned, ToPlace
    <2> HIDE DEF c
    <2>2. Went(g, c, n, c.op, "idle", c.expected, c.new, c.var)
      BY <1>2, <1>5, GoesToPlace, Zenon
    <2> HIDE DEF g
    <2>3. g \in CallSet(n) /\ Result(g, c, n, v)
      BY <1>6, <2>2 DEF Result, Went
    <2>4. /\ stack' \in [Threads -> {NoVar} \cup 1..n]
          /\ \A u \in Threads : u # t => stack'[u] = stack[u]
          /\ stack'[t] = IF c.op \in {"get", "volatile"} THEN v ELSE stack[t]
      BY <1>4, <1>6, <2>1
    <2> QED
      BY <2>1, <2>3, <2>4 DEF c
  <1>7. CASE c.op = "volatile"
    <2> DEFINE g == ToPlace(c, "add")
    <2>1. call' = [call EXCEPT ![t] = g] /\ stack' = [stack EXCEPT ![t] = v]
      BY <1>7 DEF Returned, ToPlace
    <2> HIDE DEF c
    <2>2. Went(g, c, n, c.op, "add", c.expected, c.new, c.var)
      BY <1>2, <1>5, GoesToPlace, Zenon
    <2> HIDE DEF g
    <2>3. g \in CallSet(n) /\ Result(g, c, n, v)
      BY <1>7, <2>2 DEF Result, Went
    <2>4. /\ stack' \in [Threads -> {NoVar} \cup 1..n]
          /\ \A u \in Threads : u # t => stack'[u] = stack[u]
          /\ stack'[t] = IF c.op \in {"get", "volatile"} THEN v ELSE stack[t]
      BY <1>4, <1>7, <2>1
    <2> QED
      BY <2>1, <2>3, <2>4 DEF c
  <1>8. CASE c.op \in {"add", "exchange"}
    <2> DEFINE g == ToCompare(c, v)
    <2>1. call' = [call EXCEPT ![t] = g] /\ stack' = stack
      BY <1>8 DEF Returned, ToCompare
    <2> HIDE DEF c
    <2>2. Went(g, c, n, c.op, "compare", c.expected, c.new, v)
      BY <1>2, <1>4, GoesToCompare, Zenon
    <2> HIDE DEF g
    <2>3. g \in CallSet(n) /\ Result(g, c, n, v)
      BY <1>8, <2>2 DEF Result, Went
    <2>4. /\ stack' \in [Threads -> {NoVar} \cup 1..n]
          /\ \A u \in Threads : u # t => stack'[u] = stack[u]
          /\ stack'[t] = IF c.op \in {"get", "volatile"} THEN v ELSE stack[t]
      BY <1>4, <1>8, <2>1
    <2> QED
      BY <2>1, <2>3, <2>4 DEF c
  <1> QED
    BY <1>3, <1>6, <1>7, <1>8 DEF Ops

LEMMA FetchKeeps ==
    ASSUME HeapInv, NEW t \in Threads, Fetch(t)
    PROVE  HeapInv'
  <1> DEFINE c == call[t]
             v == cell[c.field]
  <1>1. c.at = "fetch" /\ UNCHANGED <<cell, value, ops, java, disturbed, ceiling>>
        /\ Returned(t, v)
    BY DEF Fetch
  <1>2. /\ c \in CallSet(Len(value)) /\ Placed(c) /\ Below(c, P, ceiling)
        /\ Len(value) \in Nat /\ v \in 1..Len(value) /\ v # NoVar
        /\ c.settled => v \in c.may
        /\ ~disturbed /\ c.field = Counter => Knows(c, stack[t], cell[Counter], Holds)
    BY <1>1, Here DEF NoVar
  <1>3. PICK g \in CallSet(Len(value)) :
               /\ Result(g, c, Len(value), v) /\ call' = [call EXCEPT ![t] = g]
               /\ stack' \in [Threads -> {NoVar} \cup 1..Len(value)]
               /\ \A u \in Threads : u # t => stack'[u] = stack[u]
               /\ stack'[t] = IF c.op \in {"get", "volatile"} THEN v ELSE stack[t]
    BY <1>1, <1>2, ReturnedGoes DEF HeapInv
  <1>4. c.field = Counter => v = cell[Counter]
    OBVIOUS
  <1> HIDE DEF c, v
  <1>5. /\ g.op = c.op /\ g.field = c.field /\ g.expected = c.expected /\ g.new = c.new
        /\ g.settled = c.settled /\ g.may = c.may
        /\ \/ c.op = "get" /\ g.at = "idle"
           \/ c.op = "volatile" /\ g.at = "add"
           \/ c.op \in {"add", "exchange"} /\ g.at = "compare" /\ g.var = v
    BY <1>3 DEF Result, Went
  <1>6. /\ IsPending(g) <=> IsPending(c)
        /\ Placed(g) /\ Below(g, P, ceiling)
        /\ g.at \in {"compare", "store", "restore"} => g.var # NoVar
        /\ g.at \in {"add", "args"} => stack'[t] # NoVar
        /\ g.at = "idle" /\ g.op = "get" /\ g.settled => stack'[t] \in g.may
        /\ g.at # "default" /\ g.at # "fetch"
    BY <1>1, <1>2, <1>3, <1>5 DEF IsPending, Placed, Below
  <1>7. ~disturbed /\ g.at # "idle" /\ g.field = Counter =>
            Knows(g, stack'[t], cell[Counter], Holds)
    BY <1>1, <1>2, <1>3, <1>4, <1>5 DEF Knows
  <1> QED
    BY <1>1, <1>3, <1>5, <1>6, <1>7, QuietHeapStep DEF c

LEMMA AddKeeps ==
    ASSUME HeapInv, NEW t \in Threads, Add(t)
    PROVE  HeapInv'
  <1> DEFINE c == call[t]
             w == value[stack[t]] + 1
             g == ToArgs(c, w)
  <1>1. c.at = "add" /\ UNCHANGED <<cell, value, stack, ops, java, disturbed, ceiling>>
        /\ call' = [call EXCEPT ![t] = g]
    BY DEF Add, ToArgs
  <1>2. /\ c \in CallSet(Len(value)) /\ Placed(c) /\ Below(c, P, ceiling)
        /\ stack[t] \in 1..Len(value)
        /\ stack \in [Threads -> {NoVar} \cup 1..Len(value)]
        /\ ~disturbed /\ c.field = Counter => Knows(c, stack[t], cell[Counter], Holds)
        /\ P \in Nat /\ ceiling \in Nat
    BY <1>1, Here, TypedFacts DEF HeapInv
  <1>3. value[stack[t]] \in Nat /\ value[stack[t]] + P <= ceiling
    BY <1>2, Here
  <1>4. w \in Nat /\ w + P <= ceiling + 1
    BY <1>2, <1>3
  <1>5. stack[t] = cell[Counter] => w = Holds + 1
    BY <1>2 DEF Holds, NoVar
  <1>7. Went(g, c, Len(value), c.op, "args", c.expected, w, c.var)
    <2> HIDE DEF c, w
    <2> QED
      BY <1>2, <1>3, <1>4, GoesToArgs, Zenon
  <1> HIDE DEF c, w, g
  <1>9. /\ g \in CallSet(Len(value)) /\ g.op = c.op /\ g.at = "args" /\ g.field = c.field
        /\ g.expected = c.expected /\ g.new = w
        /\ g.settled = c.settled /\ g.may = c.may
    BY <1>7, Zenon DEF Went
  <1>10. /\ IsPending(g) <=> IsPending(c)
         /\ Placed(g) /\ Below(g, P, ceiling) /\ stack[t] # NoVar
         /\ ~disturbed /\ g.field = Counter => Knows(g, stack[t], cell[Counter], Holds)
    BY <1>1, <1>2, <1>4, <1>5, <1>9 DEF IsPending, Placed, Below, Knows, NoVar
  <1> QED
    BY <1>1, <1>2, <1>9, <1>10, QuietHeapStep DEF c

LEMMA ArgsKeeps ==
    ASSUME HeapInv, NEW t \in Threads, Args(t)
    PROVE  HeapInv'
  <1> DEFINE c == call[t]
             e == value[stack[t]]
             g == ToTest(c, e)
  <1>1. c.at = "args" /\ UNCHANGED <<cell, value, stack, ops, java, disturbed, ceiling>>
        /\ call' = [call EXCEPT ![t] = g]
    BY DEF Args, ToTest
  <1>2. /\ c \in CallSet(Len(value)) /\ Placed(c) /\ Below(c, P, ceiling)
        /\ stack[t] \in 1..Len(value)
        /\ stack \in [Threads -> {NoVar} \cup 1..Len(value)]
        /\ ~disturbed /\ c.field = Counter => Knows(c, stack[t], cell[Counter], Holds)
        /\ P \in Nat /\ ceiling \in Nat
    BY <1>1, Here, TypedFacts DEF HeapInv
  <1>3. e \in Nat /\ e + P <= ceiling
    BY <1>2, Here
  <1>5. stack[t] = cell[Counter] => e = Holds /\ cell[Counter] # NoVar
    BY <1>2 DEF Holds, NoVar
  <1>7. Went(g, c, Len(value), "add", "test", e, c.new, c.var)
    <2> HIDE DEF c, e
    <2> QED
      BY <1>2, <1>3, GoesToTest, Zenon
  <1> HIDE DEF c, e, g
  <1>9. /\ g \in CallSet(Len(value)) /\ g.op = "add" /\ g.at = "test" /\ g.field = c.field
        /\ g.expected = e /\ g.new = c.new
        /\ g.settled = c.settled /\ g.may = c.may
    BY <1>7, Zenon DEF Went
  <1>10. /\ IsPending(g) <=> IsPending(c)
         /\ Placed(g) /\ Below(g, P, ceiling)
         /\ ~disturbed /\ g.field = Counter => Knows(g, stack[t], cell[Counter], Holds)
    BY <1>1, <1>2, <1>3, <1>5, <1>9 DEF IsPending, Placed, Below, Knows
  <1> QED
    BY <1>1, <1>2, <1>9, <1>10, QuietHeapStep DEF c

LEMMA CompareKeeps ==
    ASSUME HeapInv, NEW t \in Threads, Compare(t)
    PROVE  HeapInv'
  <1> DEFINE c == call[t]
             a == IF value[c.var] = c.expected THEN "store" ELSE "restore"
             g == ToPlace(c, a)
  <1>1. c.at = "compare" /\ UNCHANGED <<cell, value, stack, ops, java, disturbed, ceiling>>
        /\ call' = [call EXCEPT ![t] = g]
    BY DEF Compare, ToPlace
  <1>2. /\ c \in CallSet(Len(value)) /\ Placed(c) /\ Below(c, P, ceiling)
        /\ c.var \in 1..Len(value)
        /\ stack \in [Threads -> {NoVar} \cup 1..Len(value)]
        /\ ~disturbed /\ c.field = Counter => Knows(c, stack[t], cell[Counter], Holds)
    BY <1>1, Here, TypedFacts DEF HeapInv
  <1>3. a \in {"store", "restore"} /\ a \in Ats /\ (a = "store" => value[c.var] = c.expected)
    BY DEF Ats
  <1>4. c.var = cell[Counter] => value[c.var] = Holds
    BY <1>2 DEF Holds, NoVar
  <1> HIDE DEF a
  <1>7. Went(g, c, Len(value), c.op, a, c.expected, c.new, c.var)
    <2> HIDE DEF c, a
    <2> QED
      BY <1>2, <1>3, GoesToPlace, Zenon
  <1> HIDE DEF c, g
  <1>9. /\ g \in CallSet(Len(value)) /\ g.op = c.op /\ g.at = a /\ g.field = c.field
        /\ g.expected = c.expected /\ g.new = c.new /\ g.var = c.var
        /\ g.settled = c.settled /\ g.may = c.may
    BY <1>7, Zenon DEF Went
  <1>10. /\ IsPending(g) <=> IsPending(c)
         /\ Placed(g) /\ Below(g, P, ceiling) /\ g.var # NoVar
         /\ ~disturbed /\ g.field = Counter => Knows(g, stack[t], cell[Counter], Holds)
    BY <1>1, <1>2, <1>3, <1>4, <1>9 DEF IsPending, Placed, Below, Knows, NoVar
  <1> QED
    BY <1>1, <1>2, <1>3, <1>9, <1>10, QuietHeapStep DEF c

-----------------------------------------------------------------------------
(* The steps that write                                                    *)

LEMMA OthersFacts ==
    ASSUME NEW t \in Threads, \A u \in Threads : u # t => call'[u] = call[u],
           \A u \in Threads : u # t => stack'[u] = stack[u]
    PROVE  \A u \in Threads : u # t =>
               /\ stack'[u] = stack[u] /\ call'[u].at = call[u].at
               /\ call'[u].op = call[u].op /\ call'[u].field = call[u].field
               /\ call'[u].expected = call[u].expected /\ call'[u].new = call[u].new
               /\ call'[u].var = call[u].var /\ call'[u].settled = call[u].settled
               /\ call[u].may \subseteq call'[u].may
  OBVIOUS

\* A call that ends an exchange by writing w.
LEMMA WriteStep ==
    ASSUME HeapInv, NEW t \in Threads, call[t].at \in {"store", "restore"},
           NEW w \in Nat, value' = [value EXCEPT ![call[t].var] = w],
           NEW g \in CallSet(Len(value)), call' = [call EXCEPT ![t] = g],
           UNCHANGED <<cell, stack, ops, ceiling>>,
           g.field = call[t].field, g.settled = call[t].settled, g.may = call[t].may,
           g.at \in {"idle", "test"}, g.op # "get", Placed(g),
           P' \in Nat, P' <= P, w + P' <= ceiling, Below(g, P', ceiling),
           java' \in Nat, disturbed' \in BOOLEAN,
           ~disturbed' => ~disturbed /\ g.at = "idle" /\ java' = w
    PROVE  HeapInv'
  <1>1. Typed /\ Structure /\ Reads /\ Regular /\ Bounded /\ Exact
    BY DEF HeapInv
  <1>2. cell' = cell /\ stack' = stack /\ ops' = ops /\ ceiling' = ceiling
    OBVIOUS
  <1>3. Len(value) \in Nat /\ Len(value) <= Len(value) /\ value \in Seq(Nat)
    BY <1>1, TypedFacts
  <1>4. call[t].var \in 1..Len(value)
    BY Here
  <1>5. /\ value' \in Seq(Nat) /\ Len(value') = Len(value) /\ value'[call[t].var] = w
        /\ \A v \in 1..Len(value) : v # call[t].var => value'[v] = value[v]
    BY <1>3, <1>4
  <1>6. Changed(t, Len(value), g)
    BY <1>1, <1>3, CallChanges, Zenon
  <1>7. /\ call' \in [Threads -> CallSet(Len(value'))] /\ call'[t] = g
        /\ \A u \in Threads : u # t => call'[u] = call[u]
    BY <1>5, <1>6, Zenon DEF Changed
  <1>8. \A u \in Threads : u # t =>
               /\ stack'[u] = stack[u] /\ call'[u].at = call[u].at
               /\ call'[u].op = call[u].op /\ call'[u].field = call[u].field
               /\ call'[u].expected = call[u].expected /\ call'[u].new = call[u].new
               /\ call'[u].var = call[u].var /\ call'[u].settled = call[u].settled
               /\ call[u].may \subseteq call'[u].may
    BY <1>2, <1>7, OthersFacts, Zenon
  <1>9. Typed'
    <2>1. /\ cell' \in [FieldIds -> {NoVar} \cup 1..Len(value')]
          /\ ops' \in [Threads -> 0..MaxOps] /\ ceiling' \in Nat
          /\ Len(value) <= Len(value')
          /\ stack' \in [Threads -> {NoVar} \cup 1..Len(value')]
      BY <1>1, <1>2, <1>3, <1>5, TypedFacts
    <2>2. \A x \in FieldIds : cell[x] # NoVar => cell'[x] # NoVar
      BY <1>2
    <2>3. /\ call'[t].at \notin {"compare", "store", "restore"}
          /\ call'[t].at \notin {"add", "args"} /\ call'[t].at # "fetch"
      BY <1>7
    <2> QED
      BY <1>1, <1>5, <1>7, <1>8, <2>1, <2>2, <2>3, TypedKeeps
  <1>10. Structure'
    BY <1>1, <1>7, <1>8, StructureKeeps
  <1>11. Reads'
    <2>1. \A u \in Threads : call'[u].at = "default" =>
               \/ cell[call'[u].field] = NoVar
               \/ call[u].at = "default" /\ call[u].field = call'[u].field
      BY <1>7
    <2>2. ASSUME NEW u \in Threads, call'[u].at # "idle", call'[u].settled
          PROVE  Settled(call'[u].field) /\ cell'[call'[u].field] \in call'[u].may
      <3>1. /\ call[u].at # "idle" /\ call[u].settled
            /\ call'[u].field = call[u].field /\ call'[u].may = call[u].may
        BY <1>7, <2>2
      <3>2. Settled(call[u].field) /\ cell[call[u].field] \in call[u].may
        BY <1>1, <3>1 DEF Reads
      <3> QED
        BY <1>2, <3>1, <3>2
    <2> QED
      BY <1>1, <1>2, <1>9, <2>1, <2>2, ReadsKeeps
  <1>12. Regular'
    <2>1. call'[t].op # "get"
      BY <1>7
    <2> QED
      BY <1>1, <1>8, <2>1, RegularKeeps
  <1>13. Bounded'
    <2>1. P \in Nat /\ ceiling \in Nat
      BY <1>1, PendingFacts, TypedFacts
    <2>2. ceiling + P' <= ceiling + P
      BY <2>1, Lowered
    <2>3. ceiling + P' <= ceiling' + P /\ Below(call'[t], P', ceiling')
      BY <1>2, <1>7, <2>2, Zenon
    <2>4. \A v \in 1..Len(value') :
               \/ v \in 1..Len(value) /\ value'[v] = value[v]
               \/ value'[v] + P' <= ceiling'
      BY <1>2, <1>5
    <2> QED
      BY <1>1, <1>8, <1>9, <2>3, <2>4, BoundedKeeps
  <1>14. Exact'
    <2> SUFFICES ASSUME ~disturbed' PROVE Exact'
      BY DEF Exact
    <2>1. ~disturbed /\ g.at = "idle" /\ java' = w
      OBVIOUS
    <2>2. call[t].field = Counter
      BY Here DEF Placed
    <2>3. /\ Knows(call[t], stack[t], cell[Counter], Holds)
          /\ \A u \in Threads : u # t => ~Busy(u, Counter)
      BY <2>1, <2>2, Here
    <2>4. call[t].var = cell[Counter] /\ cell[Counter] # NoVar
      BY <1>4, <2>3 DEF Knows, NoVar
    <2>5. Holds' = w
      BY <1>2, <1>5, <2>4 DEF Holds
    <2>6. call'[t].at = "idle"
      BY <1>7, <2>1
    <2> QED
      BY <1>1, <1>8, <2>1, <2>3, <2>5, <2>6, ExactKeeps
  <1> QED
    BY <1>9, <1>10, <1>11, <1>12, <1>13, <1>14 DEF HeapInv

LEMMA StoreKeeps ==
    ASSUME HeapInv, NEW t \in Threads, Store(t)
    PROVE  HeapInv'
  <1> DEFINE c == call[t]
             g == ToPlace(c, "idle")
  <1>1. /\ c.at = "store" /\ UNCHANGED <<cell, stack, ops, disturbed, ceiling>>
        /\ value' = [value EXCEPT ![c.var] = c.new]
        /\ java' = IF c.op = "add" THEN java + 1 ELSE c.new
        /\ call' = [call EXCEPT ![t] = g]
    BY DEF Store, ToPlace
  <1>2. /\ c \in CallSet(Len(value)) /\ Placed(c) /\ Below(c, P, ceiling)
        /\ P \in Nat /\ ceiling \in Nat /\ Len(value) \in Nat /\ Len(value) <= Len(value)
        /\ ~disturbed /\ c.field = Counter => Knows(c, stack[t], cell[Counter], Holds) /\ java = Holds
        /\ java \in Nat /\ disturbed \in BOOLEAN /\ Typed /\ Holds \in Nat
    BY <1>1, Here, TypedFacts DEF HeapInv
  <1>3. c.new \in Nat
    BY <1>2, CallFields, Zenon
  <1>4. Went(g, c, Len(value), c.op, "idle", c.expected, c.new, c.var)
    <2>1. "idle" \in Ats
      BY DEF Ats
    <2> HIDE DEF c
    <2> QED
      BY <1>2, <2>1, GoesToPlace, Zenon
  <1> HIDE DEF g
  <1>5. g \in CallSet(Len(value)) /\ g.op = c.op /\ g.at = "idle" /\ g.field = c.field
        /\ g.settled = c.settled /\ g.may = c.may
    BY <1>4, Zenon DEF Went
  <1>6. Changed(t, Len(value), g)
    BY <1>1, <1>2, <1>5, CallChanges, Zenon
  <1>7. /\ call'[t] = g
        /\ \A u \in Threads : u # t => call'[u].at = call[u].at /\ call'[u].op = call[u].op
    BY <1>6, Zenon DEF Changed
  <1>8. c.op \in {"add", "exchange"} /\ c.field = Counter
    BY <1>1, <1>2 DEF Placed
  <1>9. ~IsPending(g) /\ (IsPending(c) <=> c.op = "add")
    BY <1>1, <1>5, <1>8 DEF IsPending
  <1>10. P' \in Nat /\ P' <= P /\ c.new + P' <= ceiling
    <2>1. CASE c.op = "add"
      <3>1. P' \in Nat /\ P' = P - 1
        BY <1>7, <1>9, <2>1, PendingMoves
      <3>2. c.new + P <= ceiling + 1
        BY <1>1, <1>2, <2>1 DEF Below
      <3> HIDE DEF c
      <3> QED
        BY <1>2, <1>3, <3>1, <3>2
    <2>2. CASE c.op = "exchange"
      <3>1. P' \in Nat /\ P' = P
        BY <1>7, <1>9, <2>2, PendingMoves
      <3>2. c.new + P <= ceiling
        BY <1>1, <1>2, <2>2 DEF Below
      <3> QED
        BY <1>2, <3>1, <3>2
    <2> QED
      BY <1>8, <2>1, <2>2
  <1>11. Placed(g) /\ Below(g, P', ceiling) /\ g.op # "get"
    BY <1>5, <1>8 DEF Placed, Below
  <1>12. java' \in Nat /\ disturbed' \in BOOLEAN
    BY <1>1, <1>2, <1>3
  <1>13. ~disturbed' => java' = c.new
    <2>1. ~disturbed /\ c.op = "add" => c.new = Holds + 1 /\ java = Holds
      BY <1>2, <1>8 DEF Knows
    <2> QED
      BY <1>1, <2>1
  <1> QED
    BY <1>1, <1>3, <1>5, <1>10, <1>11, <1>12, <1>13, WriteStep DEF c

LEMMA RestoreKeeps ==
    ASSUME HeapInv, NEW t \in Threads, Restore(t)
    PROVE  HeapInv'
  <1> DEFINE c == call[t]
             at == IF c.op = "add" THEN "test" ELSE "idle"
             op == IF c.op = "add" THEN "volatile" ELSE c.op
             g == ToRetry(c, at, op)
  <1>1. /\ c.at = "restore" /\ UNCHANGED <<cell, stack, ops, java, ceiling>>
        /\ value' = [value EXCEPT ![c.var] = c.expected] /\ disturbed' = TRUE
        /\ call' = [call EXCEPT ![t] = g]
    BY DEF Restore, ToRetry
  <1>2. /\ c \in CallSet(Len(value)) /\ Placed(c) /\ Below(c, P, ceiling)
        /\ P \in Nat /\ ceiling \in Nat /\ Len(value) \in Nat /\ Len(value) <= Len(value)
        /\ java \in Nat /\ Typed
    BY <1>1, Here, TypedFacts DEF HeapInv
  <1>3. c.expected \in Nat
    BY <1>2, CallFields, Zenon
  <1>4. c.op \in {"add", "exchange"} /\ c.field = Counter
    BY <1>1, <1>2 DEF Placed
  <1>5. /\ at \in Ats /\ op \in Ops
        /\ \/ c.op = "add" /\ at = "test" /\ op = "volatile"
           \/ c.op = "exchange" /\ at = "idle" /\ op = "exchange"
    BY <1>4 DEF Ats, Ops
  <1> HIDE DEF at, op
  <1>6. Went(g, c, Len(value), op, at, c.expected, c.new, c.var)
    <2> HIDE DEF c
    <2> QED
      BY <1>2, <1>5, GoesToRetry, Zenon
  <1> HIDE DEF g
  <1>7. g \in CallSet(Len(value)) /\ g.op = op /\ g.at = at /\ g.field = c.field
        /\ g.settled = c.settled /\ g.may = c.may
    BY <1>6, Zenon DEF Went
  <1>8. Changed(t, Len(value), g)
    BY <1>1, <1>2, <1>7, CallChanges, Zenon
  <1>9. /\ call'[t] = g
        /\ \A u \in Threads : u # t => call'[u].at = call[u].at /\ call'[u].op = call[u].op
    BY <1>8, Zenon DEF Changed
  <1>10. IsPending(g) <=> IsPending(c)
    BY <1>1, <1>5, <1>7 DEF IsPending
  <1>11. P' = P
    BY <1>9, <1>10, PendingMoves
  <1>12. c.expected + P <= ceiling
    BY <1>1, <1>2, <1>4 DEF Below
  <1>13. P' \in Nat /\ P' <= P /\ c.expected + P' <= ceiling
    BY <1>2, <1>11, <1>12
  <1>14. Placed(g) /\ Below(g, P', ceiling) /\ g.op # "get" /\ g.at \in {"idle", "test"}
    BY <1>4, <1>5, <1>7 DEF Placed, Below
  <1> QED
    BY <1>1, <1>2, <1>3, <1>7, <1>13, <1>14, WriteStep DEF c

LEMMA DefaultKeeps ==
    ASSUME HeapInv, NEW t \in Threads, Default(t)
    PROVE  HeapInv'
  <1> DEFINE c == call[t]
             x == c.field
             v == Len(value) + 1
  <1>1. /\ c.at = "default" /\ UNCHANGED <<ops, java, disturbed, ceiling>>
        /\ value' = Append(value, 0) /\ cell' = [cell EXCEPT ![x] = v]
        /\ Returned(t, v)
    BY DEF Default
  <1>2. Typed /\ Structure /\ Reads /\ Regular /\ Bounded /\ Exact
    BY DEF HeapInv
  <1>3. /\ c \in CallSet(Len(value)) /\ Placed(c) /\ Below(c, P, ceiling)
        /\ P \in Nat /\ ceiling \in Nat /\ P <= ceiling
        /\ value \in Seq(Nat) /\ Len(value) \in Nat
        /\ cell \in [FieldIds -> {NoVar} \cup 1..Len(value)]
        /\ Counter \in FieldIds /\ cell[Counter] \in {NoVar} \cup 1..Len(value)
    BY <1>2, Here, TypedFacts
  <1>4. x \in FieldIds
    BY <1>3, CallFields, Zenon
  <1>5. ~c.settled
    <2>1. ~Settled(x)
      BY <1>1 DEF Settled, Busy
    <2> QED
      BY <1>1, <2>1, Here
  <1>6. v \in Nat /\ Len(value) <= v /\ v \in 1..v /\ v # NoVar /\ v \notin 1..Len(value)
    BY <1>3 DEF NoVar
  <1>7. /\ value' \in Seq(Nat) /\ Len(value') = v /\ value'[v] = 0
        /\ \A w \in 1..Len(value) : value'[w] = value[w]
    BY <1>1, <1>3
  <1> HIDE DEF v
  <1>8. PICK g \in CallSet(v) :
               /\ Result(g, c, v, v) /\ call' = [call EXCEPT ![t] = g]
               /\ stack' \in [Threads -> {NoVar} \cup 1..v]
               /\ \A u \in Threads : u # t => stack'[u] = stack[u]
               /\ stack'[t] = IF c.op \in {"get", "volatile"} THEN v ELSE stack[t]
    BY <1>1, <1>2, <1>6, ReturnedGoes
  <1>9. /\ g.op = c.op /\ g.field = x /\ g.expected = c.expected /\ g.new = c.new
        /\ ~g.settled
        /\ \/ c.op = "get" /\ g.at = "idle"
           \/ c.op = "volatile" /\ g.at = "add" /\ stack'[t] = v
           \/ c.op \in {"add", "exchange"} /\ g.at = "compare" /\ g.var = v
    <2> HIDE DEF c
    <2>1. /\ g.op = c.op /\ g.field = c.field /\ g.expected = c.expected /\ g.new = c.new
          /\ g.settled = c.settled
          /\ \/ c.op = "get" /\ g.at = "idle"
             \/ c.op = "volatile" /\ g.at = "add"
             \/ c.op \in {"add", "exchange"} /\ g.at = "compare" /\ g.var = v
      BY <1>8 DEF Result, Went
    <2> QED
      BY <1>5, <1>8, <2>1
  <1>10. Changed(t, v, g)
    BY <1>2, <1>6, <1>8, CallChanges, Zenon
  <1>11. /\ call' \in [Threads -> CallSet(Len(value'))] /\ call'[t] = g
         /\ \A u \in Threads : u # t => call'[u] = call[u]
    BY <1>7, <1>10, Zenon DEF Changed
  <1>12. \A u \in Threads : u # t =>
               /\ stack'[u] = stack[u] /\ call'[u].at = call[u].at
               /\ call'[u].op = call[u].op /\ call'[u].field = call[u].field
               /\ call'[u].expected = call[u].expected /\ call'[u].new = call[u].new
               /\ call'[u].var = call[u].var /\ call'[u].settled = call[u].settled
               /\ call[u].may \subseteq call'[u].may
    BY <1>8, <1>11, OthersFacts, Zenon
  <1>13. cell'[x] = v /\ \A y \in FieldIds : y # x => cell'[y] = cell[y]
    BY <1>1, <1>3, <1>4
  <1> HIDE DEF x
  <1>14. Typed'
    <2>1. /\ cell' \in [FieldIds -> {NoVar} \cup 1..Len(value')]
          /\ ops' \in [Threads -> 0..MaxOps]
          /\ java' \in Nat /\ ceiling' \in Nat /\ disturbed' \in BOOLEAN
          /\ Len(value) <= Len(value')
      <3>1. cell \in [FieldIds -> {NoVar} \cup 1..v] /\ v \in {NoVar} \cup 1..v
        BY <1>3, <1>6
      <3>2. cell' \in [FieldIds -> {NoVar} \cup 1..v]
        BY <1>1, <3>1
      <3> QED
        BY <1>1, <1>2, <1>6, <1>7, <3>2, TypedFacts
    <2>2. stack' \in [Threads -> {NoVar} \cup 1..Len(value')]
      BY <1>7, <1>8
    <2>3. \A y \in FieldIds : cell[y] # NoVar => cell'[y] # NoVar
      BY <1>6, <1>13
    <2>4. /\ call'[t].at \in {"compare", "store", "restore"} => call'[t].var # NoVar
          /\ call'[t].at \in {"add", "args"} => stack'[t] # NoVar
          /\ call'[t].at # "fetch"
      BY <1>6, <1>9, <1>11
    <2>5. call'[t].at = "fetch" => cell'[call'[t].field] # NoVar
      BY <2>4, Zenon
    <2>6. \A u \in Threads : u # t =>
             /\ stack'[u] = stack[u] /\ call'[u].at = call[u].at
             /\ call'[u].var = call[u].var /\ call'[u].field = call[u].field
      BY <1>12, Zenon
    <2> QED
      BY <1>2, <1>7, <1>11, <1>12, <2>1, <2>2, <2>3, <2>4, <2>5, <2>6, TypedKeeps, Zenon
  <1>15. Structure'
    <2>1. Placed(g)
      BY <1>1, <1>3, <1>9 DEF Placed, x
    <2> QED
      BY <1>2, <1>11, <1>12, <2>1, StructureKeeps
  <1>16. Reads'
    <2>1. \A u \in Threads : call'[u].at = "default" =>
               \/ cell[call'[u].field] = NoVar
               \/ call[u].at = "default" /\ call[u].field = call'[u].field
      BY <1>9, <1>11
    <2>2. ASSUME NEW u \in Threads, call'[u].at # "idle", call'[u].settled
          PROVE  Settled(call'[u].field) /\ cell'[call'[u].field] \in call'[u].may
      <3>1. u # t /\ call'[u] = call[u]
        BY <1>9, <1>11, <2>2
      <3>2. Settled(call[u].field) /\ cell[call[u].field] \in call[u].may
        BY <1>2, <2>2, <3>1 DEF Reads
      <3>3. call[u].field # x
        BY <1>1, <3>2 DEF Settled, Busy, x
      <3>4. call[u].field \in FieldIds
        BY <1>2, TypedFacts, CallFields
      <3> QED
        BY <1>13, <3>1, <3>2, <3>3, <3>4
    <2>3. \A y \in FieldIds : cell[y] # NoVar => cell'[y] # NoVar
      BY <1>6, <1>13
    <2> QED
      BY <1>2, <1>14, <2>1, <2>2, <2>3, ReadsKeeps
  <1>17. Regular'
    BY <1>2, <1>9, <1>11, <1>12, RegularKeeps
  <1>18. Bounded'
    <2>1. IsPending(g) <=> IsPending(c)
      BY <1>1, <1>9 DEF IsPending
    <2>2. P' = P
      BY <1>11, <1>12, <2>1, PendingMoves
    <2>3. Below(g, P, ceiling)
      BY <1>1, <1>3, <1>9 DEF Below
    <2>4. ceiling' = ceiling
      BY <1>1
    <2>5. P' \in Nat /\ ceiling + P' <= ceiling' + P /\ Below(call'[t], P', ceiling')
      BY <1>3, <1>11, <2>2, <2>3, <2>4
    <2>6. \A w \in 1..Len(value') :
               \/ w \in 1..Len(value) /\ value'[w] = value[w]
               \/ value'[w] + P' <= ceiling'
      <3>1. 0 + P' <= ceiling'
        BY <1>3, <2>2, <2>4
      <3>2. \A w \in 1..v : w \in 1..Len(value) \/ w = v
        BY <1>3 DEF v
      <3> QED
        BY <1>7, <3>1, <3>2
    <2> QED
      BY <1>2, <1>12, <1>14, <2>5, <2>6, BoundedKeeps
  <1>19. Exact'
    <2> SUFFICES ASSUME ~disturbed' PROVE Exact'
      BY DEF Exact
    <2>1. ~disturbed /\ java' = java
      BY <1>1
    <2>2. CASE x = Counter
      <3>1. /\ Knows(c, stack[t], cell[Counter], Holds) /\ java = Holds
            /\ \A u \in Threads : u # t => ~Busy(u, Counter)
        BY <1>1, <2>1, <2>2, Here DEF x
      <3>2. cell[Counter] = NoVar /\ c.op # "add" /\ Holds = 0
        BY <1>1, <3>1 DEF Knows, Holds
      <3>3. cell'[Counter] = v /\ Holds' = 0
        BY <1>6, <1>7, <1>13, <2>2 DEF Holds
      <3>4. call'[t].at # "idle" => Knows(g, stack'[t], cell'[Counter], Holds')
        BY <1>9, <1>11, <3>2, <3>3 DEF Knows
      <3> QED
        BY <1>2, <1>11, <1>12, <2>1, <3>1, <3>2, <3>3, <3>4, ExactKeeps
    <2>3. CASE x # Counter
      <3>1. cell'[Counter] = cell[Counter] /\ Holds' = Holds
        BY <1>3, <1>7, <1>13, <2>3 DEF Holds
      <3>2. java' = Holds'
        BY <1>2, <2>1, <3>1 DEF Exact
      <3>3. call'[t].field # Counter
        BY <1>9, <1>11, <2>3
      <3> QED
        BY <1>2, <1>12, <2>1, <3>1, <3>2, <3>3, ExactKeeps
    <2> QED
      BY <2>2, <2>3
  <1> QED
    BY <1>14, <1>15, <1>16, <1>17, <1>18, <1>19 DEF HeapInv

-----------------------------------------------------------------------------
(* The steps that begin an operation                                       *)

Began(op, x, e, n, settled, may) ==
    [Idle EXCEPT !.op = op, !.at = "test", !.field = x, !.expected = e, !.new = n,
                 !.settled = settled, !.may = may]

\* What a call that has begun is.
Fresh(g, m, op, x, e, n, settled, may) ==
    /\ g \in CallSet(m) /\ g.op = op /\ g.at = "test" /\ g.field = x
    /\ g.expected = e /\ g.new = n /\ g.settled = settled /\ g.may = may

LEMMA BeganIsFresh ==
    ASSUME NEW m \in Nat, NEW op \in Ops, NEW x \in FieldIds, NEW e \in Nat, NEW n \in Nat,
           NEW settled \in BOOLEAN, NEW may \in SUBSET (1..m)
    PROVE  Fresh(Began(op, x, e, n, settled, may), m, op, x, e, n, settled, may)
  <1> DEFINE c == Idle
  <1>1. c \in CallSet(m) /\ "test" \in Ats
    BY CounterIsField DEF Idle, CallSet, Ops, Ats, NoVar
  <1>2. Began(op, x, e, n, settled, may) =
            [c EXCEPT !.op = op, !.at = "test", !.field = x, !.expected = e, !.new = n,
                      !.settled = settled, !.may = may]
    BY DEF Began
  <1> HIDE DEF c
  <1> QED
    BY <1>1, <1>2 DEF Fresh, CallSet

LEMMA BeginKeeps ==
    ASSUME HeapInv, NEW t \in Threads, NEW op \in {"get", "volatile", "exchange"},
           NEW x \in FieldIds, NEW e \in Nat, NEW n \in Nat, Begin(t, op, x, e, n),
           op # "get" => x = Counter, ceiling' \in Nat,
           op = "volatile" => ceiling' = ceiling + 1,
           op # "volatile" => ceiling <= ceiling',
           op = "exchange" => e + P <= ceiling' /\ n + P <= ceiling'
    PROVE  HeapInv'
  <1> DEFINE may == IF Settled(x) THEN {cell[x]} ELSE {}
             settled == Settled(x)
             g == Began(op, x, e, n, settled, may)
  <1>1. /\ call[t].at = "idle" /\ ops[t] < MaxOps /\ ops' = [ops EXCEPT ![t] = ops[t] + 1]
        /\ call' = [call EXCEPT ![t] = g]
        /\ disturbed' = (disturbed \/ (x = Counter /\ \E u \in Threads : Busy(u, x)))
        /\ UNCHANGED <<cell, value, stack, java>>
    BY DEF Begin, Began
  <1>2. Typed /\ Structure /\ Reads /\ Regular /\ Bounded /\ Exact
    BY DEF HeapInv
  <1>3. /\ value \in Seq(Nat) /\ Len(value) \in Nat /\ Len(value) <= Len(value)
        /\ cell \in [FieldIds -> {NoVar} \cup 1..Len(value)]
        /\ stack \in [Threads -> {NoVar} \cup 1..Len(value)]
        /\ ops \in [Threads -> 0..MaxOps] /\ MaxOps \in Nat
        /\ java \in Nat /\ ceiling \in Nat /\ disturbed \in BOOLEAN
    BY <1>2, TypedFacts
  <1>4. Settled(x) \in BOOLEAN /\ may \in SUBSET (1..Len(value))
    BY <1>3 DEF Settled
  <1>5. op \in Ops
    BY DEF Ops
  <1>6. Fresh(g, Len(value), op, x, e, n, settled, may)
    <2>1. settled \in BOOLEAN /\ Len(value) \in Nat
      BY <1>3, <1>4
    <2> HIDE DEF may, settled
    <2> QED
      BY <1>4, <1>5, <2>1, BeganIsFresh, Zenon
  <1> HIDE DEF g
  <1>7. /\ g \in CallSet(Len(value)) /\ g.op = op /\ g.at = "test" /\ g.field = x
        /\ g.expected = e /\ g.new = n /\ g.settled = Settled(x) /\ g.may = may
    BY <1>6, Zenon DEF Fresh
  <1>8. g.settled => Settled(x) /\ cell[x] \in g.may
    BY <1>7
  <1> HIDE DEF may
  <1>9. Changed(t, Len(value), g)
    BY <1>1, <1>2, <1>3, <1>7, CallChanges, Zenon
  <1>10. cell' = cell /\ value' = value /\ stack' = stack /\ java' = java
    BY <1>1
  <1>11. /\ call' \in [Threads -> CallSet(Len(value'))] /\ call'[t] = g
         /\ \A u \in Threads : u # t => call'[u] = call[u]
    BY <1>9, <1>10, Zenon DEF Changed
  <1>12. \A u \in Threads : u # t =>
               /\ stack'[u] = stack[u] /\ call'[u].at = call[u].at
               /\ call'[u].op = call[u].op /\ call'[u].field = call[u].field
               /\ call'[u].expected = call[u].expected /\ call'[u].new = call[u].new
               /\ call'[u].var = call[u].var /\ call'[u].settled = call[u].settled
               /\ call[u].may \subseteq call'[u].may
    BY <1>10, <1>11, OthersFacts, Zenon
  <1>13. Typed'
    <2>1. ops' \in [Threads -> 0..MaxOps]
      BY <1>1, <1>3
    <2>2. disturbed' \in BOOLEAN
      BY <1>1, <1>3
    <2>3. /\ value' \in Seq(Nat) /\ Len(value) <= Len(value')
          /\ cell' \in [FieldIds -> {NoVar} \cup 1..Len(value')]
          /\ stack' \in [Threads -> {NoVar} \cup 1..Len(value')] /\ java' \in Nat
      BY <1>3, <1>10
    <2>4. \A y \in FieldIds : cell[y] # NoVar => cell'[y] # NoVar
      BY <1>10
    <2>5. call'[t].at \notin {"compare", "store", "restore", "add", "args", "fetch"}
      BY <1>7, <1>11
    <2> QED
      BY <1>2, <1>11, <1>12, <2>1, <2>2, <2>3, <2>4, <2>5, TypedKeeps
  <1>14. Structure'
    <2>1. Placed(g)
      BY <1>7 DEF Placed
    <2> QED
      BY <1>2, <1>11, <1>12, <2>1, StructureKeeps
  <1>15. Reads'
    <2>1. \A u \in Threads : call'[u].at = "default" =>
               \/ cell[call'[u].field] = NoVar
               \/ call[u].at = "default" /\ call[u].field = call'[u].field
      BY <1>7, <1>11
    <2>2. ASSUME NEW u \in Threads, call'[u].at # "idle", call'[u].settled
          PROVE  Settled(call'[u].field) /\ cell'[call'[u].field] \in call'[u].may
      <3>1. CASE u = t
        BY <1>7, <1>8, <1>10, <1>11, <2>2, <3>1
      <3>2. CASE u # t
        <4>1. call'[u] = call[u]
          BY <1>11, <3>2
        <4>2. Settled(call[u].field) /\ cell[call[u].field] \in call[u].may
          BY <1>2, <2>2, <4>1 DEF Reads
        <4> QED
          BY <1>10, <4>1, <4>2
      <3> QED
        BY <3>1, <3>2
    <2>3. \A y \in FieldIds : cell[y] # NoVar => cell'[y] # NoVar
      BY <1>10
    <2> QED
      BY <1>2, <1>13, <2>1, <2>2, <2>3, ReadsKeeps
  <1>16. Regular'
    <2>1. call'[t].at # "idle"
      BY <1>7, <1>11
    <2> QED
      BY <1>2, <1>12, <2>1, RegularKeeps
  <1>17. Bounded'
    <2>1. P \in Nat /\ P <= ceiling
      BY <1>2, PendingFacts DEF Bounded
    <2>2. ~IsPending(call[t]) /\ (IsPending(g) <=> op = "volatile")
      BY <1>1, <1>7 DEF IsPending
    <2>3. /\ P' \in Nat /\ op = "volatile" => P' = P + 1
      BY <1>11, <1>12, <2>2, PendingMoves
    <2>4. op # "volatile" => P' = P
      BY <1>11, <1>12, <2>2, PendingMoves
    <2>5. P' \in Nat
      BY <1>11, <1>12, PendingMoves
    <2>6. ceiling + P' <= ceiling' + P
      <3>1. CASE op = "volatile"
        <4>1. P' = P + 1 /\ ceiling' = ceiling + 1
          BY <2>3, <2>5, <3>1
        <4> QED
          BY <1>3, <2>1, <4>1, BothRise
      <3>2. CASE op # "volatile"
        <4>1. P' = P /\ ceiling <= ceiling'
          BY <2>4, <3>2
        <4>2. ceiling \in Nat /\ ceiling' \in Nat /\ P \in Nat /\ ceiling <= ceiling'
          BY <1>3, <2>1, <4>1
        <4>3. ceiling + P <= ceiling' + P
          BY <4>2, Raised, Zenon
        <4> QED
          BY <4>1, <4>3, Zenon
      <3> QED
        BY <3>1, <3>2
    <2>7. Below(g, P', ceiling')
      BY <1>7, <2>4 DEF Below
    <2>8. Below(call'[t], P', ceiling')
      BY <1>11, <2>7
    <2>9. \A w \in 1..Len(value') :
               \/ w \in 1..Len(value) /\ value'[w] = value[w]
               \/ value'[w] + P' <= ceiling'
      BY <1>10
    <2> QED
      BY <1>2, <1>12, <1>13, <2>5, <2>6, <2>8, <2>9, BoundedKeeps
  <1>18. Exact'
    <2> SUFFICES ASSUME ~disturbed' PROVE Exact'
      BY DEF Exact
    <2>1. ~disturbed /\ (x = Counter => \A u \in Threads : ~Busy(u, Counter))
      BY <1>1
    <2>2. cell'[Counter] = cell[Counter] /\ Holds' = Holds
      BY <1>10 DEF Holds
    <2>3. java' = Holds'
      BY <1>2, <1>10, <2>1, <2>2 DEF Exact
    <2>4. Knows(g, stack'[t], cell'[Counter], Holds')
      BY <1>7 DEF Knows
    <2>5. call'[t].field = x /\ Knows(call'[t], stack'[t], cell'[Counter], Holds')
      BY <1>7, <1>11, <2>4
    <2> QED
      BY <1>2, <1>12, <2>1, <2>2, <2>3, <2>5, ExactKeeps
  <1> QED
    BY <1>13, <1>14, <1>15, <1>16, <1>17, <1>18 DEF HeapInv

LEMMA GetFieldKeeps ==
    ASSUME HeapInv, NEW t \in Threads, GetField(t)
    PROVE  HeapInv'
  <1>1. PICK i \in Levels, f \in Names :
            Resolves(i, f) /\ Begin(t, "get", <<Declaring(i, f), f>>, 0, 0) /\ UNCHANGED ceiling
    BY DEF GetField
  <1>2. <<Declaring(i, f), f>> \in FieldIds
    BY <1>1, DeclaringIsField
  <1>3. ceiling \in Nat
    BY TypedFacts DEF HeapInv
  <1> DEFINE x == <<Declaring(i, f), f>>
  <1>4. x \in FieldIds /\ Begin(t, "get", x, 0, 0) /\ ceiling' = ceiling
    BY <1>1, <1>2
  <1> HIDE DEF x
  <1> QED
    BY <1>3, <1>4, BeginKeeps

LEMMA GetAndAddKeeps ==
    ASSUME HeapInv, NEW t \in Threads, GetAndAdd(t)
    PROVE  HeapInv'
  <1>1. Begin(t, "volatile", Counter, 0, 0) /\ ceiling' = ceiling + 1 /\ Counter \in FieldIds
    BY CounterIsField DEF GetAndAdd
  <1>2. ceiling \in Nat
    BY TypedFacts DEF HeapInv
  <1> QED
    BY <1>1, <1>2, BeginKeeps

LEMMA LargestBounds ==
    \A a, b \in Nat : Largest(a, b) \in Nat /\ a <= Largest(a, b) /\ b <= Largest(a, b)
  BY DEF Largest

\* What Explains adds is below the ceiling with the pending increments.
LEMMA ExplainsBounds ==
    ASSUME HeapInv, NEW n \in Nat
    PROVE  /\ Explains(n) \in Nat /\ ceiling <= Explains(n)
           /\ \A k \in Nat : k <= n => k + P <= Explains(n)
  <1>1. ceiling \in Nat /\ P \in Nat
    BY TypedFacts, PendingFacts DEF HeapInv
  <1>2. Explains(n) = Largest(ceiling, n + P)
    BY DEF Explains, P
  <1>3. n + P \in Nat
    BY <1>1
  <1>4. Explains(n) \in Nat /\ ceiling <= Explains(n) /\ n + P <= Explains(n)
    BY <1>1, <1>2, <1>3, LargestBounds
  <1> QED
    BY <1>1, <1>4

LEMMA CompareAndSwapIntKeeps ==
    ASSUME HeapInv, NEW t \in Threads, CompareAndSwapInt(t)
    PROVE  HeapInv'
  <1>1. PICK p \in Exchanges : /\ Begin(t, "exchange", Counter, p[1], p[2])
                               /\ ceiling' = Explains(Largest(p[1], p[2]))
    BY CounterIsField DEF CompareAndSwapInt
  <1>2. p[1] \in Nat /\ p[2] \in Nat /\ Counter \in FieldIds
    BY ConstantsAssumption, CounterIsField
  <1> DEFINE e == p[1]
             n == p[2]
  <1> HIDE DEF e, n
  <1>3. /\ e \in Nat /\ n \in Nat /\ Begin(t, "exchange", Counter, e, n)
        /\ ceiling' = Explains(Largest(e, n))
    BY <1>1, <1>2 DEF e, n
  <1>4. Largest(e, n) \in Nat /\ e <= Largest(e, n) /\ n <= Largest(e, n)
    BY <1>3, LargestBounds
  <1>5. ceiling' \in Nat /\ ceiling <= ceiling' /\ e + P <= ceiling' /\ n + P <= ceiling'
    BY <1>3, <1>4, ExplainsBounds
  <1> QED
    BY <1>2, <1>3, <1>5, BeginKeeps

-----------------------------------------------------------------------------
(* The steps that put                                                      *)

ToMay(c, v) == [c EXCEPT !.may = c.may \cup {v}]

\* A call that may return v as well.
MayToo(g, c, m, v) ==
    /\ g \in CallSet(m) /\ g.op = c.op /\ g.at = c.at /\ g.field = c.field
    /\ g.expected = c.expected /\ g.new = c.new /\ g.var = c.var
    /\ g.settled = c.settled /\ g.may = c.may \cup {v}

LEMMA GoesToMay ==
    ASSUME NEW m, NEW c \in CallSet(m), NEW v \in 1..m
    PROVE  MayToo(ToMay(c, v), c, m, v)
  <1>1. c.may \cup {v} \in SUBSET (1..m)
    BY DEF CallSet
  <1> QED
    BY <1>1 DEF CallSet, MayToo, ToMay

\* The calls after a put of v into x.
LEMMA PutChanges ==
    ASSUME Typed, NEW x \in FieldIds, NEW m \in Nat, Len(value) <= m, NEW v \in 1..m,
           call' = [u \in Threads |-> IF Busy(u, x) THEN ToMay(call[u], v) ELSE call[u]]
    PROVE  /\ call' \in [Threads -> CallSet(m)]
           /\ \A u \in Threads : IF Busy(u, x) THEN MayToo(call'[u], call[u], m, v)
                                               ELSE call'[u] = call[u]
  <1>1. Len(value) \in Nat /\ \A u \in Threads : call[u] \in CallSet(Len(value))
    BY TypedFacts
  <1>2. \A u \in Threads : call[u] \in CallSet(m)
    BY <1>1, CallSetGrows
  <1>3. \A u \in Threads : MayToo(ToMay(call[u], v), call[u], m, v)
    BY <1>2, GoesToMay, Zenon
  <1>4. \A u \in Threads : ToMay(call[u], v) \in CallSet(m)
    BY <1>3, Zenon DEF MayToo
  <1> QED
    BY <1>2, <1>3, <1>4

LEMMA PutVariableKeeps ==
    ASSUME HeapInv, NEW t \in Threads, NEW x \in FieldIds, NEW n \in Nat,
           value' \in Seq(Nat), Len(value) <= Len(value'),
           NEW v \in 1..Len(value'), value'[v] = n,
           \A w \in 1..Len(value) : value'[w] = value[w],
           \A w \in 1..Len(value') : w \in 1..Len(value) \/ w = v,
           PutVariable(t, x, v, n)
    PROVE  HeapInv'
  <1>1. /\ call[t].at = "idle" /\ ops[t] < MaxOps /\ ops' = [ops EXCEPT ![t] = ops[t] + 1]
        /\ cell' = [cell EXCEPT ![x] = v]
        /\ call' = [u \in Threads |-> IF Busy(u, x) THEN ToMay(call[u], v) ELSE call[u]]
        /\ x = Counter => java' = n /\ disturbed' = (disturbed \/ \E u \in Threads : Busy(u, x))
        /\ x # Counter => java' = java /\ disturbed' = disturbed
        /\ ceiling' = Explains(n) /\ stack' = stack
    BY DEF PutVariable, ToMay
  <1>2. Typed /\ Structure /\ Reads /\ Regular /\ Bounded /\ Exact
    BY DEF HeapInv
  <1>3. /\ Len(value) \in Nat /\ Len(value') \in Nat
        /\ cell \in [FieldIds -> {NoVar} \cup 1..Len(value)]
        /\ stack \in [Threads -> {NoVar} \cup 1..Len(value)]
        /\ ops \in [Threads -> 0..MaxOps] /\ MaxOps \in Nat
        /\ java \in Nat /\ ceiling \in Nat /\ disturbed \in BOOLEAN
    BY <1>2, TypedFacts
  <1>4. /\ call' \in [Threads -> CallSet(Len(value'))]
        /\ \A u \in Threads : IF Busy(u, x) THEN MayToo(call'[u], call[u], Len(value'), v)
                                            ELSE call'[u] = call[u]
    BY <1>1, <1>2, <1>3, PutChanges
  <1>5. call'[t] = call[t]
    BY <1>1, <1>4 DEF Busy
  <1>6. \A u \in Threads :
               /\ stack'[u] = stack[u] /\ call'[u].at = call[u].at
               /\ call'[u].op = call[u].op /\ call'[u].field = call[u].field
               /\ call'[u].expected = call[u].expected /\ call'[u].new = call[u].new
               /\ call'[u].var = call[u].var /\ call'[u].settled = call[u].settled
               /\ call[u].may \subseteq call'[u].may
    BY <1>1, <1>4 DEF MayToo
  <1>7. cell'[x] = v /\ \A y \in FieldIds : y # x => cell'[y] = cell[y]
    BY <1>1, <1>3
  <1>8. v # NoVar
    BY DEF NoVar
  <1>9. \A y \in FieldIds : cell[y] # NoVar => cell'[y] # NoVar
    BY <1>7, <1>8
  <1>10. ceiling' \in Nat /\ ceiling <= ceiling' /\ n + P <= ceiling'
    BY <1>1, ExplainsBounds
  <1>11. Typed'
    <2>1. ops' \in [Threads -> 0..MaxOps]
      BY <1>1, <1>3
    <2>2. java' \in Nat /\ disturbed' \in BOOLEAN
      BY <1>1, <1>3
    <2>3. cell' \in [FieldIds -> {NoVar} \cup 1..Len(value')]
      <3>1. cell \in [FieldIds -> {NoVar} \cup 1..Len(value')] /\ v \in {NoVar} \cup 1..Len(value')
        BY <1>3
      <3> QED
        BY <1>1, <3>1
    <2>4. stack' \in [Threads -> {NoVar} \cup 1..Len(value')]
      BY <1>1, <1>3
    <2>5. call'[t].at \notin {"compare", "store", "restore", "add", "args", "fetch"}
      BY <1>1, <1>5
    <2>6. \A u \in Threads : u # t =>
               /\ stack'[u] = stack[u] /\ call'[u].at = call[u].at
               /\ call'[u].var = call[u].var /\ call'[u].field = call[u].field
      BY <1>6
    <2> QED
      BY <1>2, <1>4, <1>9, <1>10, <2>1, <2>2, <2>3, <2>4, <2>5, <2>6, TypedKeeps
  <1>12. Structure'
    <2>1. Placed(call'[t])
      BY <1>2, <1>5 DEF Structure
    <2> QED
      BY <1>2, <1>6, <2>1, StructureKeeps
  <1>13. Reads'
    <2>1. \A u \in Threads : call'[u].at = "default" =>
               \/ cell[call'[u].field] = NoVar
               \/ call[u].at = "default" /\ call[u].field = call'[u].field
      BY <1>6
    <2>2. ASSUME NEW u \in Threads, call'[u].at # "idle", call'[u].settled
          PROVE  Settled(call'[u].field) /\ cell'[call'[u].field] \in call'[u].may
      <3>1. call[u].at # "idle" /\ call[u].settled /\ call'[u].field = call[u].field
        BY <1>6, <2>2
      <3>2. Settled(call[u].field) /\ cell[call[u].field] \in call[u].may
        BY <1>2, <3>1 DEF Reads
      <3>3. CASE call[u].field = x
        <4>1. Busy(u, x)
          BY <3>1, <3>3 DEF Busy
        <4>2. v \in call'[u].may
          BY <1>4, <4>1 DEF MayToo
        <4> QED
          BY <1>7, <3>1, <3>2, <3>3, <4>2
      <3>4. CASE call[u].field # x
        <4>1. call[u].field \in FieldIds
          BY <1>2, TypedFacts, CallFields
        <4>2. cell[call[u].field] \in call'[u].may
          BY <1>6, <3>2
        <4> QED
          BY <1>7, <3>1, <3>2, <3>4, <4>1, <4>2
      <3> QED
        BY <3>3, <3>4
    <2> QED
      BY <1>2, <1>9, <1>11, <2>1, <2>2, ReadsKeeps
  <1>14. Regular'
    <2>1. call'[t].at = "idle" /\ call'[t].op = "get" /\ call'[t].settled =>
               stack'[t] \in call'[t].may
      BY <1>1, <1>2, <1>5 DEF Regular
    <2> QED
      BY <1>2, <1>6, <2>1, RegularKeeps
  <1>15. Bounded'
    <2>1. P' = P /\ P \in Nat
      BY <1>5, <1>6, PendingMoves, PendingFacts
    <2>2. ceiling + P <= ceiling' + P
      BY <1>3, <1>10, <2>1, Raised, Zenon
    <2>3. ceiling + P' <= ceiling' + P
      BY <2>1, <2>2, Zenon
    <2>4. Below(call'[t], P', ceiling')
      BY <1>1, <1>5 DEF Below
    <2>5. \A w \in 1..Len(value') :
               \/ w \in 1..Len(value) /\ value'[w] = value[w]
               \/ value'[w] + P' <= ceiling'
      <3>1. value'[v] + P' <= ceiling'
        BY <1>10, <2>1
      <3> QED
        BY <3>1
    <2>6. \A u \in Threads : u # t =>
               /\ call'[u].at = call[u].at /\ call'[u].op = call[u].op
               /\ call'[u].expected = call[u].expected /\ call'[u].new = call[u].new
      BY <1>6
    <2>7. P' \in Nat
      BY <2>1
    <2> QED
      BY <1>2, <1>11, <2>3, <2>4, <2>5, <2>6, <2>7, BoundedKeeps
  <1>16. Exact'
    <2> SUFFICES ASSUME ~disturbed' PROVE Exact'
      BY DEF Exact
    <2>1. call'[t].at = "idle"
      BY <1>1, <1>5
    <2>2. Counter \in FieldIds /\ cell[Counter] \in {NoVar} \cup 1..Len(value)
      BY Here
    <2>3. CASE x = Counter
      <3>1. ~disturbed /\ java' = n /\ \A u \in Threads : ~Busy(u, Counter)
        BY <1>1, <2>3
      <3>2. Holds' = n
        BY <1>7, <1>8, <2>3 DEF Holds
      <3> QED
        BY <1>2, <1>6, <2>1, <3>1, <3>2, ExactKeeps
    <2>4. CASE x # Counter
      <3>1. ~disturbed /\ java' = java
        BY <1>1, <2>4
      <3>2. cell'[Counter] = cell[Counter]
        BY <1>7, <2>2, <2>4
      <3>3. Holds' = Holds
        BY <2>2, <3>2 DEF Holds
      <3>4. java' = Holds'
        BY <1>2, <3>1, <3>3 DEF Exact
      <3> QED
        BY <1>2, <1>6, <2>1, <3>1, <3>2, <3>3, <3>4, ExactKeeps
    <2> QED
      BY <2>3, <2>4
  <1> QED
    BY <1>11, <1>12, <1>13, <1>14, <1>15, <1>16 DEF HeapInv

LEMMA PutNewKeeps ==
    ASSUME HeapInv, NEW t \in Threads, NEW x \in FieldIds, PutNew(t, x)
    PROVE  HeapInv'
  <1>1. PICK n \in PutValues : PutVariable(t, x, Len(value) + 1, n) /\ value' = Append(value, n)
    BY DEF PutNew
  <1>2. n \in Nat
    BY ConstantsAssumption
  <1>3. value \in Seq(Nat) /\ Len(value) \in Nat
    BY TypedFacts DEF HeapInv
  <1> DEFINE v == Len(value) + 1
  <1>4. /\ value' \in Seq(Nat) /\ Len(value') = v /\ Len(value) <= Len(value')
        /\ v \in 1..Len(value') /\ value'[v] = n
        /\ \A w \in 1..Len(value) : value'[w] = value[w]
        /\ \A w \in 1..Len(value') : w \in 1..Len(value) \/ w = v
        /\ PutVariable(t, x, v, n)
    BY <1>1, <1>2, <1>3
  <1> HIDE DEF v
  <1> QED
    BY <1>2, <1>4, PutVariableKeeps

LEMMA PutReadKeeps ==
    ASSUME HeapInv, NEW t \in Threads, NEW x \in FieldIds, PutRead(t, x)
    PROVE  HeapInv'
  <1> DEFINE v == stack[t]
             n == value[v]
  <1>1. v # NoVar /\ PutVariable(t, x, v, n) /\ value' = value
    BY DEF PutRead
  <1>2. value \in Seq(Nat) /\ Len(value) \in Nat /\ v \in 1..Len(value)
    BY <1>1, TypedFacts DEF HeapInv
  <1>3. n \in Nat
    BY <1>2
  <1>4. /\ value' \in Seq(Nat) /\ Len(value) <= Len(value') /\ v \in 1..Len(value')
        /\ value'[v] = n /\ \A w \in 1..Len(value) : value'[w] = value[w]
        /\ \A w \in 1..Len(value') : w \in 1..Len(value) \/ w = v
    BY <1>1, <1>2
  <1> HIDE DEF v, n
  <1> QED
    BY <1>1, <1>3, <1>4, PutVariableKeeps

LEMMA PutFieldKeeps ==
    ASSUME HeapInv, NEW t \in Threads, PutField(t)
    PROVE  HeapInv'
  <1>1. PICK i \in Levels, f \in Instances :
            /\ Resolves(i, f)
            /\ PutNew(t, <<Declaring(i, f), f>>) \/ PutRead(t, <<Declaring(i, f), f>>)
    BY DEF PutField
  <1>2. f \in Names
    BY DEF Names
  <1>3. <<Declaring(i, f), f>> \in FieldIds
    BY <1>1, <1>2, DeclaringIsField
  <1> QED
    BY <1>1, <1>3, PutNewKeeps, PutReadKeeps

-----------------------------------------------------------------------------
(* Every step                                                              *)

LEMMA StutterKeeps ==
    ASSUME HeapInv, UNCHANGED vars
    PROVE  HeapInv'
  <1>1. /\ cell' = cell /\ value' = value /\ call' = call /\ stack' = stack /\ ops' = ops
        /\ java' = java /\ disturbed' = disturbed /\ ceiling' = ceiling
    BY DEF vars
  <1>2. /\ Pending' = Pending /\ Variables' = Variables /\ Holds' = Holds /\ P' = P
    BY <1>1 DEF Pending, Variables, Holds, P
  <1>3. Typed'
    BY <1>1, <1>2 DEF HeapInv, Typed, TypeOK
  <1>4. Structure' /\ Reads' /\ Regular'
    BY <1>1 DEF HeapInv, Structure, Reads, Regular, Settled, Busy
  <1>5. Bounded'
    BY <1>1, <1>2 DEF HeapInv, Bounded
  <1>6. Exact'
    BY <1>1, <1>2 DEF HeapInv, Exact, Busy
  <1> QED
    BY <1>3, <1>4, <1>5, <1>6 DEF HeapInv

LEMMA PutStaticKeeps ==
    ASSUME HeapInv, NEW t \in Threads, PutStatic(t)
    PROVE  HeapInv'
  <1>1. PICK i \in Levels, f \in Names \ Instances :
            IF Declares(i, f)
            THEN PutNew(t, <<i, f>>) \/ PutRead(t, <<i, f>>)
            ELSE /\ Resolves(i, f) /\ call[t].at = "idle" /\ ops[t] < MaxOps
                 /\ ops' = [ops EXCEPT ![t] = ops[t] + 1]
                 /\ UNCHANGED <<cell, value, call, stack, java, disturbed, ceiling>>
    BY DEF PutStatic
  <1>2. CASE Declares(i, f)
    <2>1. <<i, f>> \in FieldIds
      BY <1>2 DEF FieldIds
    <2> QED
      BY <1>1, <1>2, <2>1, PutNewKeeps, PutReadKeeps
  <1>3. CASE ~Declares(i, f)
    <2>1. /\ cell' = cell /\ value' = value /\ call' = call /\ stack' = stack
          /\ java' = java /\ disturbed' = disturbed /\ ceiling' = ceiling
          /\ ops[t] < MaxOps /\ ops' = [ops EXCEPT ![t] = ops[t] + 1]
      BY <1>1, <1>3
    <2>2. /\ Pending' = Pending /\ Variables' = Variables /\ Holds' = Holds /\ P' = P
      BY <2>1 DEF Pending, Variables, Holds, P
    <2>3. ops \in [Threads -> 0..MaxOps] /\ MaxOps \in Nat
      BY TypedFacts DEF HeapInv
    <2>4. ops' \in [Threads -> 0..MaxOps]
      BY <2>1, <2>3
    <2>5. Typed'
      BY <2>1, <2>2, <2>4 DEF HeapInv, Typed, TypeOK
    <2>6. Structure' /\ Reads' /\ Regular'
      BY <2>1 DEF HeapInv, Structure, Reads, Regular, Settled, Busy
    <2>7. Bounded'
      BY <2>1, <2>2 DEF HeapInv, Bounded
    <2>8. Exact'
      BY <2>1, <2>2 DEF HeapInv, Exact, Busy
    <2> QED
      BY <2>5, <2>6, <2>7, <2>8 DEF HeapInv
  <1> QED
    BY <1>2, <1>3

LEMMA NextHeapKeeps ==
    ASSUME HeapInv, [Next]_vars
    PROVE  HeapInv'
  <1>1. CASE Next
    <2>1. PICK t \in Threads : Starts(t) \/ Goes(t)
      BY <1>1 DEF Next
    <2>2. CASE Starts(t)
      BY <2>2, GetFieldKeeps, PutFieldKeeps, PutStaticKeeps, GetAndAddKeeps,
         CompareAndSwapIntKeeps DEF Starts
    <2>3. CASE Goes(t)
      BY <2>3, TestKeeps, FetchKeeps, DefaultKeeps, AddKeeps, ArgsKeeps, CompareKeeps,
         StoreKeeps, RestoreKeeps DEF Goes
    <2> QED
      BY <2>1, <2>2, <2>3
  <1>2. CASE UNCHANGED vars
    BY <1>2, StutterKeeps
  <1> QED
    BY <1>1, <1>2

\* The inductive invariant of the fields holds in every state of Heap.
THEOREM HeapInvHolds == Spec => []HeapInv
  <1>1. HeapInv /\ [Next]_vars => HeapInv'
    BY NextHeapKeeps
  <1> QED
    BY <1>1, InitHeapInv, PTL DEF Spec

-----------------------------------------------------------------------------
(* The pool *)

(* The inductive invariant                                                 *)

FrameSet(n) == [kind : pool!Kinds, name : Texts, at : pool!Ats, late : BOOLEAN,
                object : {pool!Nothing} \cup 1..n]
Object == [kind : pool!Kinds, name : Texts \cup {pool!Nothing}]
AnswerSet(n) == [kind : pool!Kinds, name : Texts \cup {pool!Nothing}, late : BOOLEAN,
                 object : {pool!Nothing} \cup 1..n]

\* A string that is being made has no text yet, later it has that of its
\* call; a call that began after one for its name had returned only searches.
Making(f) == f.at \in {"ctor", "value"}
HasText(f) == f.at \in {"check", "push", "name", "cache"}
Good(f, os, ret) ==
    /\ Making(f) => f.object # pool!Nothing /\ os[f.object].name = pool!Nothing
    /\ HasText(f) => f.object # pool!Nothing /\ os[f.object].name = f.name
    /\ f.late => f.at = "find" /\ <<f.kind, f.name>> \in ret
FramesOK ==
    \A t \in Threads : \A i \in 1..Len(frames[t]) : Good(frames[t][i], objects, returned)

\* No two calls make the same string.
OwnObjects ==
    \A t, u \in Threads : \A i \in 1..Len(frames[t]), j \in 1..Len(frames[u]) :
        /\ Making(frames[t][i]) /\ Making(frames[u][j])
        /\ frames[t][i].object = frames[u][j].object
        => t = u /\ i = j

\* The objects in the lists have names.
Listed == \A k \in pool!Kinds : \A i \in 1..Len(list[k]) : objects[list[k][i]].name # pool!Nothing

\* There is an object for each name that a call has returned for.
Known == \A k \in pool!Kinds, x \in Texts :
    <<k, x>> \in returned => pool!TryFind(k, x) # pool!Nothing

Answered == \A t \in Threads :
    answer[t].late => /\ <<answer[t].kind, answer[t].name>> \in returned
                      /\ answer[t].object = pool!TryFind(answer[t].kind, answer[t].name)

PoolInv == pool!TypeOK /\ FramesOK /\ OwnObjects /\ Listed /\ Known /\ Answered

-----------------------------------------------------------------------------
(* The first match in a list                                               *)

Search(l, os, x) ==
    LET Matches == {i \in 1..Len(l) : os[l[i]].name = x}
    IN  IF Matches = {} THEN pool!Nothing
        ELSE l[CHOOSE i \in Matches : \A j \in Matches : i <= j]

LEMMA TryFindSearches ==
    \A k, x : /\ pool!TryFind(k, x) = Search(list[k], objects, x)
              /\ pool!TryFind(k, x)' = Search(list'[k], objects', x)
  BY DEF pool!TryFind, Search

LEMMA Searched ==
    /\ Known' <=> \A k \in pool!Kinds, x \in Texts :
                      <<k, x>> \in returned' => Search(list'[k], objects', x) # pool!Nothing
    /\ Answered <=> \A t \in Threads : answer[t].late =>
           /\ <<answer[t].kind, answer[t].name>> \in returned
           /\ answer[t].object = Search(list[answer[t].kind], objects, answer[t].name)
    /\ Answered' <=> \A t \in Threads : answer'[t].late =>
           /\ <<answer'[t].kind, answer'[t].name>> \in returned'
           /\ answer'[t].object = Search(list'[answer'[t].kind], objects', answer'[t].name)
  BY Zenon DEF Known, Answered, pool!TryFind, Search

IsList(l) == \E n \in Nat : l \in Seq(1..n)
Has(l, os, x) == \E i \in 1..Len(l) : os[l[i]].name = x
IsFirst(f, l, os, x) ==
    /\ f \in 1..Len(l) /\ os[l[f]].name = x
    /\ \A j \in 1..Len(l) : os[l[j]].name = x => f <= j

\* What is found is the first of the matches.
LEMMA SearchFinds ==
    ASSUME NEW l, IsList(l), NEW os, NEW x, Has(l, os, x)
    PROVE  \E f : IsFirst(f, l, os, x) /\ Search(l, os, x) = l[f] /\ l[f] # pool!Nothing
  <1> DEFINE M == {j \in 1..Len(l) : os[l[j]].name = x}
             f == CHOOSE j \in M : \A h \in M : j <= h
  <1>0. PICK n \in Nat : l \in Seq(1..n)
    BY DEF IsList
  <1>1. M \in SUBSET Nat /\ M # {}
    BY <1>0 DEF Has
  <1>2. f \in M /\ \A h \in M : f <= h
    <2> HIDE DEF M
    <2> QED
      BY <1>1, FirstExists, Zenon
  <1>3. Search(l, os, x) = l[f]
    BY <1>1, Zenon DEF Search
  <1> HIDE DEF f
  <1>4. f \in 1..Len(l) /\ os[l[f]].name = x
    BY <1>2
  <1>5. \A j \in 1..Len(l) : os[l[j]].name = x => f <= j
    BY <1>2
  <1>6. l[f] \in 1..n
    BY <1>0, <1>4
  <1>7. l[f] # pool!Nothing
    BY <1>6 DEF pool!Nothing
  <1> QED
    BY <1>3, <1>4, <1>5, <1>7, Zenon DEF IsFirst

LEMMA SearchHas ==
    ASSUME NEW l, IsList(l), NEW os, NEW x
    PROVE  Search(l, os, x) # pool!Nothing <=> Has(l, os, x)
  <1>1. CASE Has(l, os, x)
    BY <1>1, SearchFinds, Zenon
  <1>2. CASE ~Has(l, os, x)
    <2>1. {i \in 1..Len(l) : os[l[i]].name = x} = {}
      BY <1>2, Zenon DEF Has
    <2>2. Search(l, os, x) = pool!Nothing
      BY <2>1, Zenon DEF Search
    <2> QED
      BY <1>2, <2>2, Zenon
  <1> QED
    BY <1>1, <1>2, Zenon

\* A list that has grown gives the same object, if its objects keep their
\* names.
LEMMA SearchStable ==
    ASSUME NEW l, IsList(l), NEW os, NEW l2, IsList(l2), NEW os2, NEW x,
           Len(l) <= Len(l2),
           \A i \in 1..Len(l) : l2[i] = l[i] /\ os2[l[i]].name = os[l[i]].name,
           Search(l, os, x) # pool!Nothing
    PROVE  Search(l2, os2, x) = Search(l, os, x)
  <1>0. Len(l) \in Nat /\ Len(l2) \in Nat
    BY DEF IsList
  <1>1. Has(l, os, x)
    BY SearchHas, Zenon
  <1>2. PICK f : IsFirst(f, l, os, x) /\ Search(l, os, x) = l[f] /\ l[f] # pool!Nothing
    <2> HIDE DEF IsList, Has, IsFirst, Search
    <2> QED
      BY <1>1, SearchFinds
  <1>3. f \in 1..Len(l2)
    BY <1>0, <1>2 DEF IsFirst
  <1>4. os2[l2[f]].name = x
    BY <1>2, Zenon DEF IsFirst
  <1>5. Has(l2, os2, x)
    BY <1>3, <1>4, Zenon DEF Has
  <1>6. PICK g : IsFirst(g, l2, os2, x) /\ Search(l2, os2, x) = l2[g] /\ l2[g] # pool!Nothing
    BY <1>5, SearchFinds
  <1>7. g <= f
    BY <1>3, <1>4, <1>6, Zenon DEF IsFirst
  <1>8. g \in 1..Len(l) /\ f \in 1..Len(l)
    BY <1>0, <1>2, <1>6, <1>7 DEF IsFirst
  <1>9. l2[g] = l[g] /\ os[l[g]].name = x
    BY <1>6, <1>8, Zenon DEF IsFirst
  <1>10. f <= g
    BY <1>2, <1>8, <1>9, Zenon DEF IsFirst
  <1>11. f = g
    BY <1>0, <1>8, <1>7, <1>10
  <1> QED
    BY <1>2, <1>6, <1>9, <1>11, Zenon
-----------------------------------------------------------------------------
(* How a step changes the calls                                            *)

LEMMA Shorter ==
    ASSUME NEW S, NEW s \in Seq(S), s # <<>>
    PROVE  /\ Len(s) \in Nat /\ Len(s) >= 1 /\ s[Len(s)] \in S
           /\ SubSeq(s, 1, Len(s) - 1) \in Seq(S)
           /\ Len(SubSeq(s, 1, Len(s) - 1)) = Len(s) - 1
           /\ \A i \in 1..Len(s) - 1 : SubSeq(s, 1, Len(s) - 1)[i] = s[i]
  <1>1. Len(s) \in Nat /\ Len(s) >= 1 /\ s[Len(s)] \in S
    OBVIOUS
  <1>2. SubSeq(s, 1, Len(s) - 1) \in Seq(S)
    BY SMTT(30)
  <1>3. Len(SubSeq(s, 1, Len(s) - 1)) = Len(s) - 1
    <2>1. \A n \in Nat : n <= Len(s) => Len(SubSeq(s, 1, n)) = n
      OBVIOUS
    <2>2. Len(s) - 1 \in Nat /\ Len(s) - 1 <= Len(s)
      BY <1>1
    <2> QED
      BY <2>1, <2>2, Zenon
  <1>4. \A i \in 1..Len(s) - 1 : SubSeq(s, 1, Len(s) - 1)[i] = s[i]
    BY SMTT(30)
  <1> QED
    BY <1>1, <1>2, <1>3, <1>4

\* The calls of the others, and those of t below its n-th, are as before.
Moved(t, n) ==
    \A u \in Threads : \A i \in 1..Len(frames'[u]) :
        u # t \/ i < n => i \in 1..Len(frames[u]) /\ frames'[u][i] = frames[u][i]

LEMMA OneCall ==
    ASSUME pool!TypeOK, NEW t \in Threads, NEW m \in Nat, Len(objects) <= m,
           NEW g \in FrameSet(m), frames' = [frames EXCEPT ![t] = <<g>>]
    PROVE  /\ frames' \in [Threads -> Seq(FrameSet(m))]
           /\ Moved(t, 1) /\ Len(frames'[t]) = 1 /\ frames'[t][1] = g
  <1>1. FrameSet(Len(objects)) \subseteq FrameSet(m)
    BY DEF FrameSet, pool!TypeOK
  <1>2. \A u \in Threads : frames[u] \in Seq(FrameSet(m))
    <2>1. \A u \in Threads : frames[u] \in Seq(FrameSet(Len(objects)))
      BY DEF pool!TypeOK, FrameSet
    <2> QED
      BY <1>1, <2>1, SeqMonotonic
  <1>3. frames'[t] = <<g>> /\ \A u \in Threads : u # t => frames'[u] = frames[u]
    BY DEF pool!TypeOK
  <1>4. frames' \in [Threads -> Seq(FrameSet(m))]
    BY <1>2 DEF pool!TypeOK
  <1> QED
    BY <1>3, <1>4 DEF Moved

HasOne(t, m, g) ==
    /\ frames' \in [Threads -> Seq(FrameSet(m))]
    /\ Moved(t, Len(frames[t]))
    /\ Len(frames'[t]) = Len(frames[t]) /\ frames'[t][Len(frames[t])] = g

LEMMA NextCall ==
    ASSUME pool!TypeOK, NEW t \in Threads, NEW m \in Nat, Len(objects) <= m, frames[t] # <<>>,
           NEW g \in FrameSet(m), frames' = [frames EXCEPT ![t] = Append(pool!Below(t), g)]
    PROVE  HasOne(t, m, g)
  <1>1. FrameSet(Len(objects)) \subseteq FrameSet(m)
    BY DEF FrameSet, pool!TypeOK
  <1>2. \A u \in Threads : frames[u] \in Seq(FrameSet(m))
    <2>1. \A u \in Threads : frames[u] \in Seq(FrameSet(Len(objects)))
      BY DEF pool!TypeOK, FrameSet
    <2> QED
      BY <1>1, <2>1, SeqMonotonic
  <1>3. frames'[t] = Append(pool!Below(t), g) /\ \A u \in Threads : u # t => frames'[u] = frames[u]
    BY DEF pool!TypeOK
  <1> DEFINE s == frames[t]
             b == SubSeq(s, 1, Len(s) - 1)
  <1>4. s \in Seq(FrameSet(m)) /\ s # <<>>
    BY <1>2
  <1>5. frames'[t] = Append(b, g)
    BY <1>3 DEF pool!Below
  <1> HIDE DEF s
  <1>6. /\ Len(s) \in Nat /\ Len(s) >= 1 /\ b \in Seq(FrameSet(m)) /\ Len(b) = Len(s) - 1
        /\ \A i \in 1..Len(s) - 1 : b[i] = s[i]
    BY <1>4, Shorter
  <1> HIDE DEF b
  <1>7. /\ Append(b, g) \in Seq(FrameSet(m)) /\ Len(Append(b, g)) = Len(s)
        /\ Append(b, g)[Len(s)] = g
        /\ \A i \in 1..Len(s) - 1 : Append(b, g)[i] = s[i]
    BY <1>6
  <1>8. frames' \in [Threads -> Seq(FrameSet(m))]
    BY <1>2, <1>3, <1>5, <1>7 DEF pool!TypeOK
  <1>9. Moved(t, Len(s))
    <2>1. \A i \in 1..Len(s) - 1 : frames'[t][i] = s[i]
      BY <1>5, <1>7
    <2>2. Len(s) <= Len(frames'[t])
      BY <1>5, <1>6, <1>7
    <2> QED
      BY <1>3, <1>6, <2>1, <2>2 DEF Moved, s
  <1>10. Len(frames'[t]) = Len(s) /\ frames'[t][Len(s)] = g
    BY <1>5, <1>7
  <1> QED
    BY <1>8, <1>9, <1>10, Zenon DEF HasOne, s

HasTwo(t, m, g, h) ==
    /\ frames' \in [Threads -> Seq(FrameSet(m))]
    /\ Moved(t, Len(frames[t]))
    /\ Len(frames'[t]) = Len(frames[t]) + 1
    /\ frames'[t][Len(frames[t])] = g /\ frames'[t][Len(frames[t]) + 1] = h

LEMMA TwoCalls ==
    ASSUME pool!TypeOK, NEW t \in Threads, NEW m \in Nat, Len(objects) <= m, frames[t] # <<>>,
           NEW g \in FrameSet(m), NEW h \in FrameSet(m),
           frames' = [frames EXCEPT ![t] = pool!Below(t) \o <<g, h>>]
    PROVE  HasTwo(t, m, g, h)
  <1>1. FrameSet(Len(objects)) \subseteq FrameSet(m)
    BY DEF FrameSet, pool!TypeOK
  <1>2. \A u \in Threads : frames[u] \in Seq(FrameSet(m))
    <2>1. \A u \in Threads : frames[u] \in Seq(FrameSet(Len(objects)))
      BY DEF pool!TypeOK, FrameSet
    <2> QED
      BY <1>1, <2>1, SeqMonotonic
  <1>3. frames'[t] = pool!Below(t) \o <<g, h>> /\ \A u \in Threads : u # t => frames'[u] = frames[u]
    BY DEF pool!TypeOK
  <1> DEFINE s == frames[t]
             b == SubSeq(s, 1, Len(s) - 1)
             c == <<g, h>>
  <1>4. s \in Seq(FrameSet(m)) /\ s # <<>>
    BY <1>2
  <1>5. frames'[t] = b \o c
    BY <1>3 DEF pool!Below
  <1>10. c \in Seq(FrameSet(m)) /\ Len(c) = 2 /\ c[1] = g /\ c[2] = h
    OBVIOUS
  <1> HIDE DEF s, c
  <1>6. /\ Len(s) \in Nat /\ Len(s) >= 1 /\ b \in Seq(FrameSet(m)) /\ Len(b) = Len(s) - 1
        /\ \A i \in 1..Len(s) - 1 : b[i] = s[i]
    BY <1>4, Shorter
  <1> HIDE DEF b
  <1>7. /\ b \o c \in Seq(FrameSet(m)) /\ Len(b \o c) = Len(s) + 1
        /\ (b \o c)[Len(s)] = g /\ (b \o c)[Len(s) + 1] = h
        /\ \A i \in 1..Len(s) - 1 : (b \o c)[i] = s[i]
    <2>1. /\ b \o c \in Seq(FrameSet(m)) /\ Len(b \o c) = Len(b) + 2
          /\ \A i \in 1..Len(b) + 2 : (b \o c)[i] = IF i <= Len(b) THEN b[i] ELSE c[i - Len(b)]
      <3>1. /\ b \o c \in Seq(FrameSet(m)) /\ Len(b \o c) = Len(b) + Len(c)
            /\ \A i \in 1..Len(b) + Len(c) :
                  (b \o c)[i] = IF i <= Len(b) THEN b[i] ELSE c[i - Len(b)]
        <4>1. b \in Seq(FrameSet(m)) /\ c \in Seq(FrameSet(m))
          BY <1>6, <1>10
        <4> HIDE DEF FrameSet
        <4> QED
          BY <4>1, ConcatProperties
      <3> HIDE DEF FrameSet
      <3> QED
        BY <1>10, <3>1
    <2>2. (b \o c)[Len(s)] = c[1] /\ (b \o c)[Len(s) + 1] = c[2]
      <3>1. /\ Len(b) = Len(s) - 1 /\ Len(s) \in Nat /\ Len(s) >= 1
            /\ Len(s) \in 1..Len(b) + 2 /\ Len(s) + 1 \in 1..Len(b) + 2
            /\ ~(Len(s) <= Len(b)) /\ ~(Len(s) + 1 <= Len(b))
            /\ Len(s) - Len(b) = 1 /\ Len(s) + 1 - Len(b) = 2
        BY <1>6
      <3> QED
        BY <2>1, <3>1
    <2> QED
      BY <1>6, <1>10, <2>1, <2>2
  <1>8. frames' \in [Threads -> Seq(FrameSet(m))]
    BY <1>2, <1>3, <1>5, <1>7 DEF pool!TypeOK
  <1>9. Moved(t, Len(s))
    <2> SUFFICES ASSUME NEW u \in Threads, NEW i \in 1..Len(frames'[u]), u # t \/ i < Len(s)
                 PROVE  i \in 1..Len(frames[u]) /\ frames'[u][i] = frames[u][i]
      BY DEF Moved
    <2>1. CASE u # t
      BY <1>3, <2>1, Zenon
    <2>2. CASE u = t /\ i < Len(s)
      <3>1. i \in 1..Len(s) - 1 /\ i \in 1..Len(s)
        BY <1>5, <1>6, <1>7, <2>2
      <3> QED
        BY <1>5, <1>7, <2>2, <3>1, Zenon DEF s
    <2> QED
      BY <2>1, <2>2
  <1> QED
    BY <1>5, <1>7, <1>8, <1>9 DEF s, HasTwo

LEMMA NoCall ==
    ASSUME pool!TypeOK, NEW t \in Threads, frames[t] # <<>>,
           frames' = [frames EXCEPT ![t] = pool!Below(t)]
    PROVE  /\ frames' \in [Threads -> Seq(FrameSet(Len(objects)))]
           /\ Moved(t, Len(frames[t]))
           /\ Len(frames'[t]) = Len(frames[t]) - 1
  <1>2. \A u \in Threads : frames[u] \in Seq(FrameSet(Len(objects)))
    BY DEF pool!TypeOK, FrameSet
  <1>3. frames'[t] = pool!Below(t) /\ \A u \in Threads : u # t => frames'[u] = frames[u]
    BY DEF pool!TypeOK
  <1> DEFINE s == frames[t]
             b == SubSeq(s, 1, Len(s) - 1)
  <1>5. frames'[t] = b /\ s \in Seq(FrameSet(Len(objects))) /\ s # <<>>
    BY <1>2, <1>3 DEF pool!Below
  <1> HIDE DEF s
  <1>6. /\ Len(s) \in Nat /\ Len(s) >= 1 /\ b \in Seq(FrameSet(Len(objects)))
        /\ Len(b) = Len(s) - 1 /\ \A i \in 1..Len(s) - 1 : b[i] = s[i]
    BY <1>5, Shorter
  <1> HIDE DEF b
  <1>8. frames' \in [Threads -> Seq(FrameSet(Len(objects)))]
    BY <1>2, <1>3, <1>5, <1>6 DEF pool!TypeOK
  <1>9. Moved(t, Len(s))
    BY <1>3, <1>5, <1>6 DEF Moved, s
  <1> QED
    BY <1>5, <1>6, <1>8, <1>9 DEF s

LEMMA TopFacts ==
    ASSUME PoolInv, NEW t \in Threads, frames[t] # <<>>
    PROVE  /\ Len(frames[t]) \in Nat /\ Len(frames[t]) >= 1
           /\ pool!Top(t) = frames[t][Len(frames[t])]
           /\ pool!Top(t) \in FrameSet(Len(objects))
           /\ Good(pool!Top(t), objects, returned)
  <1>1. frames[t] \in Seq(FrameSet(Len(objects)))
    BY DEF PoolInv, pool!TypeOK, FrameSet
  <1>2. Len(frames[t]) \in Nat /\ Len(frames[t]) >= 1 /\ pool!Top(t) \in FrameSet(Len(objects))
    BY <1>1, Shorter DEF pool!Top
  <1>3. Len(frames[t]) \in 1..Len(frames[t])
    BY <1>2
  <1> QED
    BY <1>2, <1>3 DEF pool!Top, PoolInv, FramesOK

-----------------------------------------------------------------------------
(* What every step keeps                                                   *)

\* Lists grow at their ends, and no object that has a name gets another.
Grows ==
    /\ Len(objects) <= Len(objects')
    /\ \A o \in 1..Len(objects) :
           objects[o].name # pool!Nothing => objects'[o].name = objects[o].name
    /\ \A k \in pool!Kinds : /\ Len(list[k]) <= Len(list'[k])
                        /\ \A i \in 1..Len(list[k]) : list'[k][i] = list[k][i]
    /\ returned \subseteq returned'

LEMMA ListFacts ==
    ASSUME pool!TypeOK
    PROVE  /\ Len(objects) \in Nat
           /\ \A k \in pool!Kinds : /\ IsList(list[k]) /\ Len(list[k]) \in Nat
                               /\ \A i \in 1..Len(list[k]) : list[k][i] \in 1..Len(objects)
  <1>1. Len(objects) \in Nat
    BY DEF pool!TypeOK
  <1>2. \A k \in pool!Kinds : list[k] \in Seq(1..Len(objects))
    BY DEF pool!TypeOK
  <1> QED
    BY <1>1, <1>2 DEF IsList

LEMMA FoundStays ==
    ASSUME pool!TypeOK, pool!TypeOK', Listed, Grows,
           NEW k \in pool!Kinds, NEW x, Search(list[k], objects, x) # pool!Nothing
    PROVE  Search(list'[k], objects', x) = Search(list[k], objects, x)
  <1>1. IsList(list[k]) /\ \A i \in 1..Len(list[k]) : list[k][i] \in 1..Len(objects)
    BY ListFacts, Zenon
  <1>2. IsList(list'[k])
    <2>1. list'[k] \in Seq(1..Len(objects')) /\ Len(objects') \in Nat
      BY DEF pool!TypeOK
    <2> QED
      BY <2>1 DEF IsList
  <1>3. /\ Len(list[k]) <= Len(list'[k])
        /\ \A i \in 1..Len(list[k]) : list'[k][i] = list[k][i]
    BY DEF Grows
  <1>4. \A i \in 1..Len(list[k]) : objects'[list[k][i]].name = objects[list[k][i]].name
    BY <1>1, Zenon DEF Grows, Listed
  <1> DEFINE l == list[k]
             l2 == list'[k]
             os == objects
             os2 == objects'
  <1>5. /\ IsList(l) /\ IsList(l2) /\ Len(l) <= Len(l2) /\ Search(l, os, x) # pool!Nothing
        /\ \A i \in 1..Len(l) : l2[i] = l[i] /\ os2[l[i]].name = os[l[i]].name
    BY <1>1, <1>2, <1>3, <1>4, Zenon
  <1> HIDE DEF l, l2, os, os2
  <1>6. Search(l2, os2, x) = Search(l, os, x)
    BY <1>5, SearchStable
  <1> QED
    BY <1>6, Zenon DEF l, l2, os, os2

\* A step that returns from no call.
QuietMove(t, n) ==
    /\ Moved(t, n)
    /\ frames' \in [Threads -> Seq(FrameSet(Len(objects')))]
    /\ objects' \in Seq(Object) /\ Len(objects) <= Len(objects')
    /\ \A o \in 1..Len(objects) : objects'[o].name # objects[o].name =>
           /\ objects[o].name = pool!Nothing
           /\ \A u \in Threads : \A i \in 1..Len(frames[u]) :
                  Making(frames[u][i]) /\ frames[u][i].object = o => u = t /\ i = n
    /\ UNCHANGED <<list, answer, returned>>
    /\ \A i \in 1..Len(frames'[t]) : i >= n =>
           /\ Good(frames'[t][i], objects', returned)
           /\ Making(frames'[t][i]) =>
                  /\ i = n
                  /\ \/ frames'[t][i].object > Len(objects)
                     \/ /\ i \in 1..Len(frames[t]) /\ Making(frames[t][i])
                        /\ frames'[t][i].object = frames[t][i].object

LEMMA QuietStep ==
    ASSUME pool!NamesAreTexts, PoolInv, NEW t \in Threads, NEW n \in Nat, QuietMove(t, n)
    PROVE  PoolInv' /\ Grows
  <1> USE DEF QuietMove
  <1>1. /\ Len(objects) \in Nat /\ Len(objects') \in Nat
        /\ \A k \in pool!Kinds : \A i \in 1..Len(list[k]) : list[k][i] \in 1..Len(objects)
    BY ListFacts DEF PoolInv
  <1>2. \A u \in Threads : \A i \in 1..Len(frames[u]) : frames[u][i] \in FrameSet(Len(objects))
    <2>1. \A u \in Threads : frames[u] \in Seq(FrameSet(Len(objects)))
      BY DEF PoolInv, pool!TypeOK, FrameSet
    <2> QED
      BY <2>1
  <1>3. Grows
    BY <1>1 DEF Grows, PoolInv, pool!TypeOK
  <1>4. pool!TypeOK'
    <2>1. 1..Len(objects) \subseteq 1..Len(objects')
      BY <1>1
    <2>2. \A k \in pool!Kinds : list[k] \in Seq(1..Len(objects'))
      BY <2>1, SeqMonotonic DEF PoolInv, pool!TypeOK
    <2>3. list' \in [pool!Kinds -> Seq(1..Len(objects'))]
      BY <2>2 DEF PoolInv, pool!TypeOK
    <2>4. frames' \in [Threads -> Seq([kind : pool!Kinds, name : Texts, at : pool!Ats, late : BOOLEAN,
                                       object : {pool!Nothing} \cup 1..Len(objects')])]
      BY Zenon DEF FrameSet
    <2>5. objects' \in Seq([kind : pool!Kinds, name : Texts \cup {pool!Nothing}])
      BY Zenon DEF Object
    <2>6. answer \in [Threads -> AnswerSet(Len(objects))]
      BY Zenon DEF PoolInv, pool!TypeOK, AnswerSet
    <2>7. AnswerSet(Len(objects)) \subseteq AnswerSet(Len(objects'))
      BY <2>1 DEF AnswerSet
    <2>8. answer' \in [Threads -> AnswerSet(Len(objects'))]
      BY <2>6, <2>7
    <2>9. returned' \subseteq pool!Kinds \X Texts
      BY DEF PoolInv, pool!TypeOK
    <2> QED
      BY <2>3, <2>4, <2>5, <2>8, <2>9, Zenon DEF pool!TypeOK, AnswerSet
  <1>5. \A u \in Threads : \A i \in 1..Len(frames'[u]) :
            Good(frames'[u][i], objects', returned')
    <2> SUFFICES ASSUME NEW u \in Threads, NEW i \in 1..Len(frames'[u])
                 PROVE  Good(frames'[u][i], objects', returned)
      OBVIOUS
    <2>1. CASE u # t \/ i < n
      <3>1. i \in 1..Len(frames[u]) /\ frames'[u][i] = frames[u][i]
        BY <2>1 DEF Moved
      <3> DEFINE f == frames[u][i]
      <3>2. Good(f, objects, returned) /\ f \in FrameSet(Len(objects))
        BY <1>2, <3>1 DEF PoolInv, FramesOK
      <3>3. ~(u = t /\ i = n)
        BY <1>1, <2>1
      <3>4. Making(f) => f.object # pool!Nothing /\ objects'[f.object].name = objects[f.object].name
        BY <3>1, <3>2, <3>3 DEF Good, FrameSet, pool!Nothing
      <3>5. HasText(f) => f.object # pool!Nothing /\ objects[f.object].name = f.name /\ f.name # pool!Nothing
                          /\ f.object \in 1..Len(objects)
        BY <3>2 DEF Good, FrameSet, pool!NamesAreTexts, HasText, pool!Nothing
      <3> QED
        BY <3>1, <3>2, <3>4, <3>5 DEF Good
    <2>2. CASE u = t /\ i >= n
      BY <2>2
    <2>3. i \in Nat
      OBVIOUS
    <2> QED
      BY <2>1, <2>2, <2>3
  <1>6. OwnObjects'
    <2> DEFINE Old(u, i) == /\ i \in 1..Len(frames[u]) /\ Making(frames[u][i])
                            /\ frames'[u][i].object = frames[u][i].object
               New(u, i) == u = t /\ i = n /\ frames'[u][i].object > Len(objects)
    <2>1. ASSUME NEW u \in Threads, NEW i \in 1..Len(frames'[u]), Making(frames'[u][i])
          PROVE  Old(u, i) \/ New(u, i)
      <3>1. CASE u # t \/ i < n
        BY <2>1, <3>1, Zenon DEF Moved
      <3>2. CASE u = t /\ i >= n
        BY <2>1, <3>2, Zenon
      <3> QED
        BY <3>1, <3>2
    <2>2. ASSUME NEW u \in Threads, NEW i \in 1..Len(frames[u])
          PROVE  ~(frames[u][i].object > Len(objects))
      <3>1. frames[u][i].object \in {pool!Nothing} \cup 1..Len(objects)
        BY <1>2, <2>2, Zenon DEF FrameSet
      <3> QED
        BY <1>1, <3>1 DEF pool!Nothing
    <2> SUFFICES ASSUME NEW u \in Threads, NEW w \in Threads,
                        NEW i \in 1..Len(frames'[u]), NEW j \in 1..Len(frames'[w]),
                        Making(frames'[u][i]), Making(frames'[w][j]),
                        frames'[u][i].object = frames'[w][j].object
                 PROVE  u = w /\ i = j
      BY DEF OwnObjects, Making
    <2>3. (Old(u, i) \/ New(u, i)) /\ (Old(w, j) \/ New(w, j))
      BY <2>1, Zenon
    <2>4. CASE Old(u, i) /\ Old(w, j)
      <3>1. frames[u][i].object = frames[w][j].object
        BY <2>4
      <3>2. /\ i \in 1..Len(frames[u]) /\ j \in 1..Len(frames[w])
            /\ Making(frames[u][i]) /\ Making(frames[w][j])
        BY <2>4, Zenon
      <3>3. OwnObjects
        BY DEF PoolInv
      <3> HIDE DEF Old, New
      <3> QED
        BY <3>1, <3>2, <3>3 DEF OwnObjects
    <2>5. CASE New(u, i) /\ New(w, j)
      BY <2>5
    <2>6. ~(Old(u, i) /\ New(w, j)) /\ ~(New(u, i) /\ Old(w, j))
      BY <2>2, Zenon
    <2> QED
      BY <2>3, <2>4, <2>5, <2>6
  <1>7. Listed'
    <2> SUFFICES ASSUME NEW k \in pool!Kinds, NEW i \in 1..Len(list[k])
                 PROVE  objects'[list[k][i]].name # pool!Nothing
      BY DEF Listed
    <2>1. list[k][i] \in 1..Len(objects)
      BY <1>1
    <2>2. objects[list[k][i]].name # pool!Nothing
      BY DEF PoolInv, Listed
    <2> QED
      BY <1>3, <2>1, <2>2, Zenon DEF Grows
  <1>8. \A k \in pool!Kinds, x \in Texts \cup {pool!Nothing} :
            Search(list[k], objects, x) # pool!Nothing =>
                Search(list'[k], objects', x) = Search(list[k], objects, x)
    BY <1>3, <1>4, FoundStays, Zenon DEF PoolInv
  <1>9. \A k \in pool!Kinds, x \in Texts \cup {pool!Nothing} :
            pool!TryFind(k, x) # pool!Nothing => pool!TryFind(k, x)' = pool!TryFind(k, x)
    BY <1>8, TryFindSearches, Zenon
  <1>10. Known'
    BY <1>9 DEF PoolInv, Known
  <1>11. Answered'
    <2> SUFFICES ASSUME NEW u \in Threads, answer[u].late
                 PROVE  /\ <<answer[u].kind, answer[u].name>> \in returned
                        /\ answer[u].object
                               = Search(list[answer[u].kind], objects', answer[u].name)
      BY Searched
    <2> DEFINE a == answer[u]
    <2>1. a.late /\ <<a.kind, a.name>> \in returned
          /\ a.object = Search(list[a.kind], objects, a.name)
      BY Searched, Zenon DEF PoolInv
    <2>2. a.kind \in pool!Kinds /\ a.name \in Texts
      BY <2>1 DEF PoolInv, pool!TypeOK
    <2>3. Search(list[a.kind], objects, a.name) # pool!Nothing
      BY <2>1, <2>2, TryFindSearches, Zenon DEF PoolInv, Known
    <2> HIDE DEF a
    <2>4. Search(list'[a.kind], objects', a.name) = Search(list[a.kind], objects, a.name)
      BY <1>8, <2>2, <2>3, Zenon
    <2> QED
      BY <2>1, <2>4 DEF a
  <1> QED
    BY <1>3, <1>4, <1>5, <1>6, <1>7, <1>10, <1>11 DEF PoolInv, FramesOK

\* A step that returns o from the innermost call of t.
LEMMA ReturnStep ==
    ASSUME pool!NamesAreTexts, PoolInv, NEW t \in Threads, frames[t] # <<>>,
           NEW o \in 1..Len(objects), pool!Return(t, o), UNCHANGED objects,
           list' \in [pool!Kinds -> Seq(1..Len(objects))],
           \A k \in pool!Kinds : /\ Len(list[k]) <= Len(list'[k])
                            /\ \A i \in 1..Len(list[k]) : list'[k][i] = list[k][i],
           \A k \in pool!Kinds : \A i \in 1..Len(list'[k]) : objects[list'[k][i]].name # pool!Nothing,
           Search(list'[pool!Top(t).kind], objects, pool!Top(t).name) # pool!Nothing,
           pool!Top(t).late => o = Search(list'[pool!Top(t).kind], objects, pool!Top(t).name)
    PROVE  PoolInv' /\ Grows
  <1> DEFINE f == pool!Top(t)
             g == [kind |-> f.kind, name |-> f.name, late |-> f.late, object |-> o]
  <1>1. f \in FrameSet(Len(objects)) /\ Len(frames[t]) \in Nat
    BY TopFacts
  <1>2. f.kind \in pool!Kinds /\ f.name \in Texts /\ f.late \in BOOLEAN
    BY <1>1 DEF FrameSet
  <1>3. /\ answer' = [answer EXCEPT ![t] = g]
        /\ returned' = returned \cup {<<f.kind, f.name>>}
        /\ frames' = [frames EXCEPT ![t] = pool!Below(t)]
    BY DEF pool!Return
  <1>4. g \in AnswerSet(Len(objects)) /\ g.kind = f.kind /\ g.name = f.name
        /\ g.late = f.late /\ g.object = o
    BY <1>2 DEF AnswerSet
  <1> HIDE DEF f, g
  <1>5. /\ frames' \in [Threads -> Seq(FrameSet(Len(objects)))]
        /\ Moved(t, Len(frames[t])) /\ Len(frames'[t]) = Len(frames[t]) - 1
    BY <1>3, NoCall DEF PoolInv
  <1>6. \A u \in Threads : \A i \in 1..Len(frames'[u]) :
            i \in 1..Len(frames[u]) /\ frames'[u][i] = frames[u][i]
    BY <1>1, <1>5 DEF Moved
  <1>7. Grows
    <2>1. Len(objects) \in Nat
      BY DEF PoolInv, pool!TypeOK
    <2>2. /\ Len(objects) <= Len(objects')
          /\ \A p \in 1..Len(objects) :
                 objects[p].name # pool!Nothing => objects'[p].name = objects[p].name
      BY <2>1
    <2>3. \A k \in pool!Kinds : /\ Len(list[k]) <= Len(list'[k])
                             /\ \A i \in 1..Len(list[k]) : list'[k][i] = list[k][i]
      OBVIOUS
    <2>4. returned \subseteq returned'
      BY <1>3
    <2> QED
      BY <2>2, <2>3, <2>4, Zenon DEF Grows
  <1>8. pool!TypeOK'
    <2>1. answer \in [Threads -> AnswerSet(Len(objects))]
      BY Zenon DEF PoolInv, pool!TypeOK, AnswerSet
    <2>2. answer' \in [Threads -> AnswerSet(Len(objects))]
      BY <1>3, <1>4, <2>1
    <2>3. returned' \subseteq pool!Kinds \X Texts
      <3>1. <<f.kind, f.name>> \in pool!Kinds \X Texts
        BY <1>2
      <3> QED
        BY <1>3, <3>1 DEF PoolInv, pool!TypeOK
    <2>4. objects \in Seq([kind : pool!Kinds, name : Texts \cup {pool!Nothing}])
      BY DEF PoolInv, pool!TypeOK
    <2> QED
      BY <1>5, <2>2, <2>3, <2>4, Zenon DEF pool!TypeOK, AnswerSet, FrameSet
  <1>9. FramesOK'
    <2> SUFFICES ASSUME NEW u \in Threads, NEW i \in 1..Len(frames'[u])
                 PROVE  Good(frames'[u][i], objects', returned')
      BY DEF FramesOK
    <2>1. Good(frames'[u][i], objects, returned)
      BY <1>6 DEF PoolInv, FramesOK
    <2> QED
      BY <1>3, <2>1 DEF Good
  <1>10. OwnObjects'
    <2> SUFFICES ASSUME NEW u \in Threads, NEW w \in Threads,
                        NEW i \in 1..Len(frames'[u]), NEW j \in 1..Len(frames'[w]),
                        Making(frames'[u][i]), Making(frames'[w][j]),
                        frames'[u][i].object = frames'[w][j].object
                 PROVE  u = w /\ i = j
      BY DEF OwnObjects, Making
    <2>1. /\ i \in 1..Len(frames[u]) /\ frames'[u][i] = frames[u][i]
          /\ j \in 1..Len(frames[w]) /\ frames'[w][j] = frames[w][j]
      BY <1>6, Zenon
    <2> QED
      BY <2>1 DEF PoolInv, OwnObjects, Making
  <1>11. Listed'
    BY DEF Listed
  <1>12. \A k \in pool!Kinds, x \in Texts \cup {pool!Nothing} :
            Search(list[k], objects, x) # pool!Nothing =>
                Search(list'[k], objects', x) = Search(list[k], objects, x)
    BY <1>7, <1>8, FoundStays, Zenon DEF PoolInv
  <1>13. \A k \in pool!Kinds, x \in Texts \cup {pool!Nothing} :
            pool!TryFind(k, x) # pool!Nothing => pool!TryFind(k, x)' = pool!TryFind(k, x)
    BY <1>12, TryFindSearches, Zenon
  <1>15. Known'
    <2> SUFFICES ASSUME NEW k \in pool!Kinds, NEW x \in Texts, <<k, x>> \in returned'
                 PROVE  Search(list'[k], objects', x) # pool!Nothing
      BY Searched
    <2>1. CASE <<k, x>> \in returned
      <3>1. Search(list[k], objects, x) # pool!Nothing
        BY <2>1, TryFindSearches, Zenon DEF PoolInv, Known
      <3> QED
        BY <1>12, <3>1, Zenon
    <2>2. CASE k = f.kind /\ x = f.name
      BY <2>2, Zenon DEF f
    <2> QED
      BY <1>3, <2>1, <2>2
  <1>16. Answered'
    <2> SUFFICES ASSUME NEW u \in Threads, answer'[u].late
                 PROVE  /\ <<answer'[u].kind, answer'[u].name>> \in returned'
                        /\ answer'[u].object
                               = Search(list'[answer'[u].kind], objects', answer'[u].name)
      BY Searched
    <2>1. answer'[u] = IF u = t THEN g ELSE answer[u]
      BY <1>3 DEF PoolInv, pool!TypeOK
    <2>2. CASE u = t
      <3>1. answer'[u] = g
        BY <2>1, <2>2
      <3>2. o = Search(list'[f.kind], objects, f.name)
        BY <1>4, <3>1 DEF f
      <3> QED
        BY <1>3, <1>4, <3>1, <3>2
    <2>3. CASE u # t
      <3> DEFINE a == answer[u]
      <3>1. answer'[u] = a
        BY <2>1, <2>3
      <3>2. a.kind \in pool!Kinds /\ a.name \in Texts \cup {pool!Nothing}
        BY DEF PoolInv, pool!TypeOK
      <3>3. a.late /\ <<a.kind, a.name>> \in returned
            /\ a.object = Search(list[a.kind], objects, a.name)
        BY <3>1, Searched, Zenon DEF PoolInv
      <3>4. a.name \in Texts
        BY <3>3 DEF PoolInv, pool!TypeOK
      <3>5. Search(list[a.kind], objects, a.name) # pool!Nothing
        BY <3>2, <3>3, <3>4, TryFindSearches, Zenon DEF PoolInv, Known
      <3> HIDE DEF a
      <3>6. Search(list'[a.kind], objects', a.name) = Search(list[a.kind], objects, a.name)
        BY <1>12, <3>2, <3>5, Zenon
      <3> QED
        <4>1. a.object = Search(list'[a.kind], objects', a.name)
          BY <3>3, <3>6, Zenon
        <4>2. <<a.kind, a.name>> \in returned'
          BY <1>3, <3>3
        <4> QED
          BY <3>1, <4>1, <4>2, Zenon
    <2> QED
      BY <2>2, <2>3
  <1> QED
    BY <1>7, <1>8, <1>9, <1>10, <1>11, <1>15, <1>16 DEF PoolInv

-----------------------------------------------------------------------------
(* The actions                                                             *)

LEMMA MakeFacts ==
    ASSUME pool!TypeOK, NEW k \in pool!Kinds, NEW x \in Texts \cup {pool!Nothing}, pool!Make(k, x)
    PROVE  /\ objects' \in Seq(Object) /\ Len(objects') = Len(objects) + 1
           /\ Len(objects) \in Nat
           /\ \A o \in 1..Len(objects) : objects'[o] = objects[o]
           /\ objects'[pool!Made].name = x
  <1> DEFINE r == [kind |-> k, name |-> x]
  <1>1. r \in Object /\ r.name = x /\ objects \in Seq(Object) /\ objects' = Append(objects, r)
    BY DEF Object, pool!Make, pool!TypeOK
  <1> HIDE DEF r
  <1> QED
    BY <1>1 DEF pool!Made

LEMMA ObjectsFacts ==
    ASSUME PoolInv
    PROVE  /\ pool!TypeOK /\ Len(objects) \in Nat /\ objects \in Seq(Object)
           /\ Len(objects) <= Len(objects)
  <1>1. pool!TypeOK /\ objects \in Seq(Object)
    BY DEF PoolInv, pool!TypeOK, Object
  <1> QED
    BY <1>1

\* The frame of a call that has just begun, and one that goes on.
LEMMA CallFacts ==
    ASSUME NEW k \in pool!Kinds, NEW x \in Texts, NEW m \in Nat
    PROVE  /\ pool!Call(k, x, "find", pool!Nothing) \in FrameSet(m)
           /\ Good(pool!Call(k, x, "find", pool!Nothing), objects, returned)
           /\ ~Making(pool!Call(k, x, "find", pool!Nothing))
  <1> DEFINE g == pool!Call(k, x, "find", pool!Nothing)
  <1>1. /\ g.kind = k /\ g.name = x /\ g.at = "find" /\ g.object = pool!Nothing
        /\ g.late = (<<k, x>> \in returned)
        /\ g = [kind |-> k, name |-> x, at |-> "find", object |-> pool!Nothing, late |-> g.late]
    BY DEF pool!Call
  <1>2. g.late \in BOOLEAN
    BY DEF pool!Call
  <1> HIDE DEF g
  <1>3. g \in FrameSet(m)
    BY <1>1, <1>2 DEF FrameSet, pool!Ats
  <1>4. Good(g, objects, returned) /\ ~Making(g)
    BY <1>1 DEF Good, Making, HasText
  <1> QED
    BY <1>3, <1>4 DEF g

Going(f, at, o) == [f EXCEPT !.at = at, !.object = o]
GoesTo(g, f, at, o, m) ==
    /\ g \in FrameSet(m) /\ g.at = at /\ g.object = o
    /\ g.kind = f.kind /\ g.name = f.name /\ g.late = f.late

LEMMA GoesOn ==
    ASSUME NEW n, NEW m \in Nat, NEW f \in FrameSet(n), NEW at \in pool!Ats, NEW o \in 1..m
    PROVE  GoesTo(Going(f, at, o), f, at, o, m)
  BY DEF FrameSet, Going, GoesTo

InternFrame(x, o) == [pool!Call("string", x, "check", o) EXCEPT !.late = FALSE]
Interns(g, x, o, m) ==
    g \in FrameSet(m) /\ g.at = "check" /\ g.object = o /\ g.name = x /\ g.late = FALSE

LEMMA InternCall ==
    ASSUME NEW x \in Texts, NEW m \in Nat, NEW o \in 1..m
    PROVE  Interns(InternFrame(x, o), x, o, m)
  <1> DEFINE c == pool!Call("string", x, "check", o)
             g == InternFrame(x, o)
  <1>1. c \in FrameSet(m) /\ c.at = "check" /\ c.object = o /\ c.name = x
    BY DEF pool!Call, FrameSet, pool!Kinds, pool!Ats
  <1>2. g = [c EXCEPT !.late = FALSE]
    BY DEF InternFrame
  <1> HIDE DEF c, g
  <1>3. g \in FrameSet(m) /\ g.at = "check" /\ g.object = o /\ g.name = x /\ g.late = FALSE
    BY <1>1, <1>2 DEF FrameSet
  <1> QED
    BY <1>3 DEF Interns, g

LEMMA NewStringKeeps ==
    ASSUME pool!NamesAreTexts, PoolInv, NEW t \in Threads, pool!NewString(t)
    PROVE  PoolInv' /\ Grows
  <1>1. PICK x \in Texts :
            frames' = [frames EXCEPT ![t] = <<pool!Call("string", x, "find", pool!Nothing)>>]
    BY DEF pool!NewString
  <1> DEFINE g == pool!Call("string", x, "find", pool!Nothing)
  <1>2. g \in FrameSet(Len(objects)) /\ Good(g, objects, returned) /\ ~Making(g)
    <2>1. Len(objects) \in Nat /\ "string" \in pool!Kinds
      BY ObjectsFacts DEF pool!Kinds
    <2> QED
      BY <2>1, CallFacts, Zenon
  <1> HIDE DEF g
  <1>3. UNCHANGED <<objects, list, answer, returned>> /\ frames' = [frames EXCEPT ![t] = <<g>>]
    BY <1>1 DEF pool!NewString, g
  <1>4. /\ pool!TypeOK /\ Len(objects) \in Nat /\ objects \in Seq(Object)
        /\ Len(objects) <= Len(objects)
    BY ObjectsFacts, Zenon
  <1>5. /\ frames' \in [Threads -> Seq(FrameSet(Len(objects)))]
        /\ Moved(t, 1) /\ Len(frames'[t]) = 1 /\ frames'[t][1] = g
    BY <1>2, <1>3, <1>4, OneCall, Zenon
  <1>6. \A i \in 1..Len(frames'[t]) : frames'[t][i] = g
    BY <1>5
  <1>7. QuietMove(t, 1)
    BY <1>2, <1>3, <1>4, <1>5, <1>6 DEF QuietMove
  <1> QED
    BY <1>7, QuietStep

LEMMA NewClassTypeVariableKeeps ==
    ASSUME pool!NamesAreTexts, PoolInv, NEW t \in Threads, pool!NewClassTypeVariable(t)
    PROVE  PoolInv' /\ Grows
  <1>1. PICK x \in ClassNames :
            frames' = [frames EXCEPT ![t] = <<pool!Call("class", x, "find", pool!Nothing)>>]
    BY DEF pool!NewClassTypeVariable
  <1> DEFINE g == pool!Call("class", x, "find", pool!Nothing)
  <1>2. g \in FrameSet(Len(objects)) /\ Good(g, objects, returned) /\ ~Making(g)
    <2>1. Len(objects) \in Nat /\ "class" \in pool!Kinds /\ x \in Texts
      BY ObjectsFacts DEF pool!Kinds, pool!NamesAreTexts
    <2> QED
      BY <2>1, CallFacts, Zenon
  <1> HIDE DEF g
  <1>3. UNCHANGED <<objects, list, answer, returned>> /\ frames' = [frames EXCEPT ![t] = <<g>>]
    BY <1>1 DEF pool!NewClassTypeVariable, g
  <1>4. /\ pool!TypeOK /\ Len(objects) \in Nat /\ objects \in Seq(Object)
        /\ Len(objects) <= Len(objects)
    BY ObjectsFacts, Zenon
  <1>5. /\ frames' \in [Threads -> Seq(FrameSet(Len(objects)))]
        /\ Moved(t, 1) /\ Len(frames'[t]) = 1 /\ frames'[t][1] = g
    BY <1>2, <1>3, <1>4, OneCall, Zenon
  <1>6. \A i \in 1..Len(frames'[t]) : frames'[t][i] = g
    BY <1>5
  <1>7. QuietMove(t, 1)
    BY <1>2, <1>3, <1>4, <1>5, <1>6 DEF QuietMove
  <1> QED
    BY <1>7, QuietStep

LEMMA InternKeeps ==
    ASSUME pool!NamesAreTexts, PoolInv, NEW t \in Threads, pool!Intern(t)
    PROVE  PoolInv' /\ Grows
  <1>1. PICK x \in Texts :
            /\ pool!Make("string", x)
            /\ frames' = [frames EXCEPT ![t] =
                              <<[pool!Call("string", x, "check", pool!Made) EXCEPT !.late = FALSE]>>]
    BY DEF pool!Intern
  <1>2. /\ objects' \in Seq(Object) /\ Len(objects') = Len(objects) + 1 /\ Len(objects) \in Nat
        /\ \A o \in 1..Len(objects) : objects'[o] = objects[o]
        /\ objects'[pool!Made].name = x
    BY <1>1, MakeFacts DEF PoolInv, pool!Kinds
  <1> DEFINE g == InternFrame(x, pool!Made)
  <1>4. UNCHANGED <<list, answer, returned>> /\ frames' = [frames EXCEPT ![t] = <<g>>]
    BY <1>1 DEF pool!Intern, InternFrame
  <1>7. pool!Made \in 1..Len(objects') /\ pool!Made # pool!Nothing /\ Len(objects') \in Nat
    BY <1>2 DEF pool!Made, pool!Nothing
  <1>3. /\ g \in FrameSet(Len(objects')) /\ g.at = "check" /\ g.object = pool!Made
        /\ g.name = x /\ g.late = FALSE
    <2>1. Interns(g, x, pool!Made, Len(objects'))
      BY <1>7, InternCall, Zenon
    <2> QED
      BY <2>1, Zenon DEF Interns
  <1> HIDE DEF g
  <1>8. g \in FrameSet(Len(objects')) /\ Good(g, objects', returned) /\ ~Making(g)
    BY <1>2, <1>3, <1>7 DEF Good, Making, HasText
  <1>9. Len(objects') \in Nat /\ Len(objects) <= Len(objects') /\ pool!TypeOK
    BY <1>2 DEF PoolInv
  <1>5. /\ frames' \in [Threads -> Seq(FrameSet(Len(objects')))]
        /\ Moved(t, 1) /\ Len(frames'[t]) = 1 /\ frames'[t][1] = g
    BY <1>8, <1>4, <1>9, OneCall, Zenon
  <1>6. \A i \in 1..Len(frames'[t]) : frames'[t][i] = g
    BY <1>5
  <1>10. QuietMove(t, 1)
    BY <1>2, <1>8, <1>4, <1>9, <1>5, <1>6 DEF QuietMove
  <1> QED
    BY <1>10, QuietStep

\* A call that has not returned later than one for its name, or that is past
\* the search, is not late.
LEMMA NotLate ==
    ASSUME PoolInv, NEW t \in Threads, frames[t] # <<>>,
           pool!Top(t).at # "find" \/ pool!TryFind(pool!Top(t).kind, pool!Top(t).name) = pool!Nothing
    PROVE  ~pool!Top(t).late
  BY TopFacts DEF Good, PoolInv, Known, FrameSet

LEMMA MakeStringKeeps ==
    ASSUME pool!NamesAreTexts, PoolInv, NEW t \in Threads, pool!MakeString(t)
    PROVE  PoolInv' /\ Grows
  <1> DEFINE f == pool!Top(t)
             at == IF f.name = Empty THEN "value" ELSE "ctor"
             g == Going(f, at, pool!Made)
  <1>1. /\ frames[t] # <<>> /\ f.kind = "string" /\ f.at = "find"
        /\ pool!TryFind("string", f.name) = pool!Nothing
        /\ pool!Make("string", pool!Nothing) /\ UNCHANGED <<list, answer, returned>>
        /\ frames' = [frames EXCEPT ![t] = Append(pool!Below(t), g)]
    BY DEF pool!MakeString, pool!NotFound, pool!In, pool!Top, pool!Goto, Going
  <1>2. /\ objects' \in Seq(Object) /\ Len(objects') = Len(objects) + 1 /\ Len(objects) \in Nat
        /\ \A o \in 1..Len(objects) : objects'[o] = objects[o]
        /\ objects'[pool!Made].name = pool!Nothing
    BY <1>1, MakeFacts DEF PoolInv, pool!Kinds
  <1>3. /\ Len(frames[t]) \in Nat /\ f \in FrameSet(Len(objects))
    BY <1>1, TopFacts
  <1>4. ~f.late
    BY <1>1, NotLate
  <1> HIDE DEF f
  <1>5. at \in {"value", "ctor"}
    OBVIOUS
  <1> HIDE DEF at
  <1>9. pool!Made \in 1..Len(objects') /\ pool!Made # pool!Nothing /\ pool!Made > Len(objects) /\ at \in pool!Ats
        /\ Len(objects') \in Nat /\ Len(objects) <= Len(objects') /\ pool!TypeOK
    BY <1>2, <1>5 DEF pool!Made, pool!Nothing, pool!Ats, PoolInv
  <1>10. /\ g \in FrameSet(Len(objects')) /\ g.at = at /\ g.object = pool!Made
         /\ g.kind = f.kind /\ g.name = f.name /\ g.late = f.late
    <2>1. GoesTo(g, f, at, pool!Made, Len(objects'))
      BY <1>3, <1>9, GoesOn, Zenon
    <2> QED
      BY <2>1, Zenon DEF GoesTo
  <1> HIDE DEF g
  <1>6. Good(g, objects', returned) /\ g.object > Len(objects)
    BY <1>2, <1>4, <1>5, <1>9, <1>10 DEF Good, Making, HasText
  <1>7. /\ frames' \in [Threads -> Seq(FrameSet(Len(objects')))]
        /\ Moved(t, Len(frames[t]))
        /\ Len(frames'[t]) = Len(frames[t]) /\ frames'[t][Len(frames[t])] = g
    <2>1. HasOne(t, Len(objects'), g)
      BY <1>1, <1>9, <1>10, NextCall, Zenon
    <2> QED
      BY <2>1, Zenon DEF HasOne
  <1>8. \A i \in 1..Len(frames'[t]) :
            i >= Len(frames[t]) => i = Len(frames[t]) /\ frames'[t][i] = g
    BY <1>3, <1>7
  <1>11. QuietMove(t, Len(frames[t]))
    BY <1>1, <1>2, <1>3, <1>6, <1>7, <1>8 DEF QuietMove
  <1> QED
    BY <1>3, <1>11, QuietStep

LEMMA MakeClassKeeps ==
    ASSUME pool!NamesAreTexts, PoolInv, NEW t \in Threads, pool!MakeClass(t)
    PROVE  PoolInv' /\ Grows
  <1> DEFINE f == pool!Top(t)
             g == Going(f, "name", pool!Made)
  <1>1. /\ frames[t] # <<>> /\ f.kind = "class" /\ f.at = "find"
        /\ pool!TryFind("class", f.name) = pool!Nothing
        /\ pool!Make("class", f.name) /\ UNCHANGED <<list, answer, returned>>
        /\ frames' = [frames EXCEPT ![t] = Append(pool!Below(t), g)]
    BY DEF pool!MakeClass, pool!NotFound, pool!In, pool!Top, pool!Goto, Going
  <1>2. /\ Len(frames[t]) \in Nat /\ f \in FrameSet(Len(objects))
    BY <1>1, TopFacts
  <1>3. ~f.late
    BY <1>1, NotLate
  <1> HIDE DEF f
  <1>4. f.name \in Texts
    BY <1>2 DEF FrameSet
  <1>5. /\ objects' \in Seq(Object) /\ Len(objects') = Len(objects) + 1 /\ Len(objects) \in Nat
        /\ \A o \in 1..Len(objects) : objects'[o] = objects[o]
        /\ objects'[pool!Made].name = f.name
    BY <1>1, <1>4, MakeFacts DEF PoolInv, pool!Kinds
  <1>6. pool!Made \in 1..Len(objects') /\ pool!Made # pool!Nothing /\ "name" \in pool!Ats
        /\ Len(objects') \in Nat /\ Len(objects) <= Len(objects') /\ pool!TypeOK
    BY <1>5 DEF pool!Made, pool!Nothing, pool!Ats, PoolInv
  <1>7. /\ g \in FrameSet(Len(objects')) /\ g.at = "name" /\ g.object = pool!Made
        /\ g.kind = f.kind /\ g.name = f.name /\ g.late = f.late
    <2>1. GoesTo(g, f, "name", pool!Made, Len(objects'))
      BY <1>2, <1>6, GoesOn, Zenon
    <2> QED
      BY <2>1, Zenon DEF GoesTo
  <1> HIDE DEF g
  <1>8. Good(g, objects', returned) /\ ~Making(g)
    BY <1>3, <1>5, <1>6, <1>7 DEF Good, Making, HasText
  <1>9. /\ frames' \in [Threads -> Seq(FrameSet(Len(objects')))]
        /\ Moved(t, Len(frames[t]))
        /\ Len(frames'[t]) = Len(frames[t]) /\ frames'[t][Len(frames[t])] = g
    <2>1. HasOne(t, Len(objects'), g)
      BY <1>1, <1>6, <1>7, NextCall, Zenon
    <2> QED
      BY <2>1, Zenon DEF HasOne
  <1>10. \A i \in 1..Len(frames'[t]) :
            i >= Len(frames[t]) => i = Len(frames[t]) /\ frames'[t][i] = g
    BY <1>2, <1>9
  <1>11. QuietMove(t, Len(frames[t]))
    BY <1>1, <1>2, <1>5, <1>6, <1>8, <1>9, <1>10 DEF QuietMove
  <1> QED
    BY <1>2, <1>11, QuietStep

\* The two steps that begin a second call.
LEMMA SecondCall ==
    ASSUME pool!NamesAreTexts, PoolInv, NEW t \in Threads, frames[t] # <<>>,
           NEW at \in pool!Ats, NEW x \in Texts, pool!Top(t).object # pool!Nothing, ~pool!Top(t).late,
           frames' = [frames EXCEPT ![t] = pool!Below(t) \o
                         <<Going(pool!Top(t), at, pool!Top(t).object), pool!Call("string", x, "find", pool!Nothing)>>],
           UNCHANGED <<objects, list, answer, returned>>,
           \/ Making(pool!Top(t)) /\ at = "value"
           \/ HasText(pool!Top(t)) /\ at = "cache"
    PROVE  PoolInv' /\ Grows
  <1> DEFINE f == pool!Top(t)
             n == Len(frames[t])
             g == Going(f, at, f.object)
             h == pool!Call("string", x, "find", pool!Nothing)
             s == frames'[t]
  <1>1. pool!TypeOK /\ Len(objects) \in Nat /\ objects \in Seq(Object) /\ Len(objects) <= Len(objects)
    BY ObjectsFacts, Zenon
  <1>2. n \in Nat /\ n >= 1 /\ f = frames[t][n] /\ f \in FrameSet(Len(objects))
        /\ Good(f, objects, returned)
    BY TopFacts, Zenon
  <1>3. h \in FrameSet(Len(objects)) /\ Good(h, objects, returned) /\ ~Making(h)
    <2>1. "string" \in pool!Kinds
      BY DEF pool!Kinds
    <2> QED
      BY <1>1, <2>1, CallFacts, Zenon
  <1>4. f.object \in 1..Len(objects)
    BY <1>2 DEF FrameSet
  <1>5. /\ g \in FrameSet(Len(objects)) /\ g.at = at /\ g.object = f.object
        /\ g.kind = f.kind /\ g.name = f.name /\ g.late = f.late
    <2>1. GoesTo(g, f, at, f.object, Len(objects))
      BY <1>1, <1>2, <1>4, GoesOn, Zenon
    <2> QED
      BY <2>1, Zenon DEF GoesTo
  <1>6. /\ frames' \in [Threads -> Seq(FrameSet(Len(objects)))]
        /\ Moved(t, n) /\ Len(s) = n + 1 /\ s[n] = g /\ s[n + 1] = h
    <2>1. HasTwo(t, Len(objects), g, h)
      BY <1>1, <1>3, <1>5, TwoCalls, Zenon
    <2> QED
      BY <2>1, Zenon DEF HasTwo
  <1>7. Good(g, objects, returned) /\ (Making(g) => Making(f))
    BY <1>2, <1>5 DEF Good, Making, HasText
  <1> HIDE DEF g, h, f
  <1>8. \A i \in 1..Len(s) : i >= n => (i = n /\ s[i] = g) \/ s[i] = h
    <2> HIDE DEF n, s
    <2>1. \A i \in 1..n + 1 : i >= n => i = n \/ i = n + 1
      BY <1>2
    <2> QED
      BY <1>6, <2>1
  <1>9. ASSUME NEW i \in 1..Len(s), i >= n
        PROVE  /\ Good(s[i], objects, returned)
               /\ Making(s[i]) => /\ i = n /\ i \in 1..Len(frames[t]) /\ Making(frames[t][i])
                                  /\ s[i].object = frames[t][i].object
    <2>1. CASE s[i] = h
      BY <1>3, <2>1
    <2>2. CASE i = n /\ s[i] = g
      <3>1. i \in 1..Len(frames[t])
        BY <1>2, <2>2
      <3> QED
        BY <1>2, <1>5, <1>7, <2>2, <3>1, Zenon
    <2> QED
      BY <1>8, <1>9, <2>1, <2>2, Zenon
  <1>10. QuietMove(t, n)
    BY <1>1, <1>2, <1>6, <1>9 DEF QuietMove
  <1> QED
    BY <1>2, <1>10, QuietStep

LEMMA ConstructKeeps ==
    ASSUME pool!NamesAreTexts, PoolInv, NEW t \in Threads, pool!Construct(t)
    PROVE  PoolInv' /\ Grows
  <1> DEFINE f == pool!Top(t)
  <1>1. frames[t] # <<>> /\ f.at = "ctor" /\ UNCHANGED <<objects, list, answer, returned>>
    BY DEF pool!Construct, pool!In, pool!Top
  <1>2. f \in FrameSet(Len(objects)) /\ Good(f, objects, returned)
    BY <1>1, TopFacts
  <1>3. ~f.late
    BY <1>1, NotLate
  <1>4. frames' = [frames EXCEPT ![t] = pool!Below(t) \o
                       <<[f EXCEPT !.at = "value"], pool!Call("string", Empty, "find", pool!Nothing)>>]
    BY DEF pool!Construct
  <1> HIDE DEF f
  <1>5. [f EXCEPT !.at = "value"] = Going(f, "value", f.object)
    BY <1>2 DEF Going, FrameSet
  <1>6. f.object # pool!Nothing /\ Making(f) /\ "value" \in pool!Ats /\ Empty \in Texts
    BY <1>1, <1>2 DEF Good, Making, pool!Ats, pool!NamesAreTexts
  <1>7. frames' = [frames EXCEPT ![t] = pool!Below(t) \o
                       <<Going(f, "value", f.object), pool!Call("string", Empty, "find", pool!Nothing)>>]
    BY <1>4, <1>5
  <1> QED
    BY <1>1, <1>3, <1>6, <1>7, SecondCall, Zenon DEF f

LEMMA NameClassKeeps ==
    ASSUME pool!NamesAreTexts, PoolInv, NEW t \in Threads, pool!NameClass(t)
    PROVE  PoolInv' /\ Grows
  <1> DEFINE f == pool!Top(t)
  <1>1. frames[t] # <<>> /\ f.at = "name" /\ UNCHANGED <<objects, list, answer, returned>>
    BY DEF pool!NameClass, pool!In, pool!Top
  <1>2. f \in FrameSet(Len(objects)) /\ Good(f, objects, returned)
    BY <1>1, TopFacts
  <1>3. ~f.late
    BY <1>1, NotLate
  <1>4. frames' = [frames EXCEPT ![t] = pool!Below(t) \o
                       <<[f EXCEPT !.at = "cache"], pool!Call("string", f.name, "find", pool!Nothing)>>]
    BY DEF pool!NameClass
  <1> HIDE DEF f
  <1>5. [f EXCEPT !.at = "cache"] = Going(f, "cache", f.object)
    BY <1>2 DEF Going, FrameSet
  <1>6. f.object # pool!Nothing /\ HasText(f) /\ "cache" \in pool!Ats /\ f.name \in Texts
    BY <1>1, <1>2 DEF Good, HasText, pool!Ats, FrameSet
  <1>7. frames' = [frames EXCEPT ![t] = pool!Below(t) \o
                       <<Going(f, "cache", f.object), pool!Call("string", f.name, "find", pool!Nothing)>>]
    BY <1>4, <1>5
  <1> QED
    BY <1>1, <1>3, <1>6, <1>7, SecondCall DEF f

LEMMA SetStringValueKeeps ==
    ASSUME pool!NamesAreTexts, PoolInv, NEW t \in Threads, pool!SetStringValue(t)
    PROVE  PoolInv' /\ Grows
  <1> DEFINE f == pool!Top(t)
             n == Len(frames[t])
             g == Going(f, "check", f.object)
  <1>1. /\ frames[t] # <<>> /\ f.at = "value" /\ UNCHANGED <<list, answer, returned>>
        /\ objects' = [objects EXCEPT ![f.object].name = f.name]
        /\ frames' = [frames EXCEPT ![t] = Append(pool!Below(t), g)]
    BY DEF pool!SetStringValue, pool!In, pool!Top, pool!Goto, Going
  <1>2. /\ n \in Nat /\ n >= 1 /\ f = frames[t][n] /\ f \in FrameSet(Len(objects))
        /\ Good(f, objects, returned)
    BY <1>1, TopFacts
  <1>3. ~f.late
    BY <1>1, NotLate
  <1>4. /\ Making(f) /\ f.object # pool!Nothing /\ objects[f.object].name = pool!Nothing
    BY <1>1, <1>2 DEF Good, Making
  <1>5. \A u \in Threads : \A i \in 1..Len(frames[u]) :
            Making(frames[u][i]) /\ frames[u][i].object = f.object => u = t /\ i = n
    <2>1. n \in 1..n
      BY <1>2
    <2> QED
      BY <1>2, <1>4, <2>1 DEF PoolInv, OwnObjects
  <1> HIDE DEF f
  <1>6. f.object \in 1..Len(objects) /\ f.name \in Texts
    BY <1>2, <1>4 DEF FrameSet
  <1>7. pool!TypeOK /\ Len(objects) \in Nat /\ objects \in Seq(Object)
    BY ObjectsFacts, Zenon
  <1>8. objects \in [1..Len(objects) -> Object]
    BY <1>7
  <1> DEFINE r == [objects[f.object] EXCEPT !.name = f.name]
  <1>9. r \in Object /\ r.name = f.name
    BY <1>6, <1>8 DEF Object
  <1>10. objects' = [objects EXCEPT ![f.object] = r]
    BY <1>1
  <1> HIDE DEF r
  <1>11. /\ objects' \in Seq(Object) /\ Len(objects') = Len(objects)
         /\ \A o \in 1..Len(objects) : objects'[o] = IF o = f.object THEN r ELSE objects[o]
    BY <1>6, <1>7, <1>9, <1>10
  <1>12. "check" \in pool!Ats /\ Len(objects') \in Nat /\ Len(objects) <= Len(objects')
         /\ f.object \in 1..Len(objects')
    BY <1>6, <1>7, <1>11 DEF pool!Ats
  <1>13. /\ g \in FrameSet(Len(objects')) /\ g.at = "check" /\ g.object = f.object
         /\ g.kind = f.kind /\ g.name = f.name /\ g.late = f.late
    <2>1. GoesTo(g, f, "check", f.object, Len(objects'))
      BY <1>2, <1>12, GoesOn, Zenon
    <2> QED
      BY <2>1, Zenon DEF GoesTo
  <1> HIDE DEF g
  <1>14. Good(g, objects', returned) /\ ~Making(g)
    BY <1>3, <1>4, <1>6, <1>9, <1>11, <1>13 DEF Good, Making, HasText
  <1>15. /\ frames' \in [Threads -> Seq(FrameSet(Len(objects')))]
         /\ Moved(t, n) /\ Len(frames'[t]) = n /\ frames'[t][n] = g
    <2>1. HasOne(t, Len(objects'), g)
      BY <1>1, <1>7, <1>12, <1>13, NextCall, Zenon
    <2> QED
      BY <2>1, Zenon DEF HasOne
  <1>16. \A i \in 1..Len(frames'[t]) : i >= n => frames'[t][i] = g
    BY <1>2, <1>15
  <1>17. \A o \in 1..Len(objects) : objects'[o].name # objects[o].name => o = f.object
    BY <1>11
  <1>18. \A o \in 1..Len(objects) : objects'[o].name # objects[o].name =>
               /\ objects[o].name = pool!Nothing
               /\ \A u \in Threads : \A i \in 1..Len(frames[u]) :
                      Making(frames[u][i]) /\ frames[u][i].object = o => u = t /\ i = n
    BY <1>4, <1>5, <1>17
  <1>19. \A i \in 1..Len(frames'[t]) : i >= n =>
               Good(frames'[t][i], objects', returned) /\ ~Making(frames'[t][i])
    BY <1>14, <1>16, Zenon
  <1>20. \A i \in 1..Len(frames'[t]) : i >= n =>
            /\ Good(frames'[t][i], objects', returned)
            /\ Making(frames'[t][i]) =>
                   /\ i = n
                   /\ \/ frames'[t][i].object > Len(objects)
                      \/ /\ i \in 1..Len(frames[t]) /\ Making(frames[t][i])
                         /\ frames'[t][i].object = frames[t][i].object
    BY <1>19, Zenon
  <1>21. UNCHANGED <<list, answer, returned>> /\ n \in Nat /\ Len(objects) <= Len(objects')
    BY <1>1, <1>2, <1>12, Zenon
  <1> HIDE DEF n
  <1>22. QuietMove(t, n)
    BY <1>21, <1>11, <1>15, <1>18, <1>20 DEF QuietMove
  <1> QED
    BY <1>21, <1>22, QuietStep

\* A search that finds something gives one of the objects.
LEMMA FoundIsObject ==
    ASSUME PoolInv, NEW k \in pool!Kinds, NEW x, pool!TryFind(k, x) # pool!Nothing
    PROVE  pool!TryFind(k, x) \in 1..Len(objects)
  <1>1. IsList(list[k]) /\ \A i \in 1..Len(list[k]) : list[k][i] \in 1..Len(objects)
    BY ListFacts DEF PoolInv
  <1>2. Search(list[k], objects, x) # pool!Nothing /\ pool!TryFind(k, x) = Search(list[k], objects, x)
    BY TryFindSearches, Zenon
  <1>3. Has(list[k], objects, x)
    BY <1>1, <1>2, SearchHas, Zenon
  <1>4. PICK i : IsFirst(i, list[k], objects, x) /\ Search(list[k], objects, x) = list[k][i]
                 /\ list[k][i] # pool!Nothing
    BY <1>1, <1>3, SearchFinds
  <1> QED
    BY <1>1, <1>2, <1>4, Zenon DEF IsFirst

LEMMA FoundKeeps ==
    ASSUME pool!NamesAreTexts, PoolInv, NEW t \in Threads, NEW k \in pool!Kinds, pool!Found(t, k)
    PROVE  PoolInv' /\ Grows
  <1> DEFINE o == pool!TryFind(k, pool!Top(t).name)
  <1>1. /\ frames[t] # <<>> /\ pool!Top(t).kind = k /\ o # pool!Nothing
        /\ pool!Return(t, o) /\ UNCHANGED <<objects, list>>
    BY DEF pool!Found, pool!In, pool!Top
  <1>2. o \in 1..Len(objects)
    BY <1>1, FoundIsObject
  <1>3. o = Search(list[k], objects, pool!Top(t).name)
    BY TryFindSearches, Zenon
  <1>4. list \in [pool!Kinds -> Seq(1..Len(objects))]
    BY DEF PoolInv, pool!TypeOK
  <1>5. \A h \in pool!Kinds : Len(list[h]) \in Nat
    BY ListFacts DEF PoolInv
  <1> HIDE DEF o
  <1> QED
    BY <1>1, <1>2, <1>3, <1>4, <1>5, ReturnStep DEF PoolInv, Listed

LEMMA CheckInternedKeeps ==
    ASSUME pool!NamesAreTexts, PoolInv, NEW t \in Threads, pool!CheckInterned(t)
    PROVE  PoolInv' /\ Grows
  <1> DEFINE f == pool!Top(t)
             n == Len(frames[t])
             g == Going(f, "push", f.object)
  <1>1. frames[t] # <<>> /\ f.kind = "string" /\ f.at = "check" /\ UNCHANGED <<objects, list>>
    BY DEF pool!CheckInterned, pool!In, pool!Top
  <1>2. /\ n \in Nat /\ n >= 1 /\ f = frames[t][n] /\ f \in FrameSet(Len(objects))
        /\ Good(f, objects, returned)
    BY <1>1, TopFacts
  <1>3. ~f.late
    BY <1>1, NotLate
  <1>4. f.object # pool!Nothing /\ objects[f.object].name = f.name
    BY <1>1, <1>2 DEF Good, HasText
  <1>5. f.object \in 1..Len(objects)
    BY <1>2, <1>4 DEF FrameSet
  <1>6. pool!TypeOK /\ Len(objects) \in Nat /\ objects \in Seq(Object) /\ Len(objects) <= Len(objects)
    BY ObjectsFacts, Zenon
  <1>7. CASE pool!TryFind("string", f.name) = pool!Nothing
    <2>1. UNCHANGED <<answer, returned>>
          /\ frames' = [frames EXCEPT ![t] = Append(pool!Below(t), g)]
      BY <1>7 DEF pool!CheckInterned, pool!Goto, Going
    <2>2. "push" \in pool!Ats
      BY DEF pool!Ats
    <2>3. /\ g \in FrameSet(Len(objects)) /\ g.at = "push" /\ g.object = f.object
          /\ g.kind = f.kind /\ g.name = f.name /\ g.late = f.late
      <3>1. GoesTo(g, f, "push", f.object, Len(objects))
        BY <1>2, <1>5, <1>6, <2>2, GoesOn, Zenon
      <3> QED
        BY <3>1, Zenon DEF GoesTo
    <2> HIDE DEF f, g
    <2>4. Good(g, objects, returned) /\ ~Making(g)
      BY <1>3, <1>4, <2>3 DEF Good, Making, HasText
    <2>5. /\ frames' \in [Threads -> Seq(FrameSet(Len(objects)))]
          /\ Moved(t, n) /\ Len(frames'[t]) = n /\ frames'[t][n] = g
      <3>1. HasOne(t, Len(objects), g)
        BY <1>1, <1>6, <2>1, <2>3, NextCall, Zenon
      <3> QED
        BY <3>1, Zenon DEF HasOne
    <2>6. \A i \in 1..Len(frames'[t]) : i >= n => frames'[t][i] = g
      BY <1>2, <2>5
    <2>7. \A i \in 1..Len(frames'[t]) : i >= n =>
                 Good(frames'[t][i], objects, returned) /\ ~Making(frames'[t][i])
      BY <2>4, <2>6, Zenon
    <2> HIDE DEF n
    <2>8. QuietMove(t, n)
      BY <1>1, <1>2, <1>6, <2>1, <2>5, <2>7 DEF QuietMove
    <2> QED
      BY <1>2, <2>8, QuietStep
  <1>8. CASE pool!TryFind("string", f.name) # pool!Nothing
    <2>1. pool!Return(t, f.object)
      BY <1>8 DEF pool!CheckInterned
    <2>2. Search(list["string"], objects, f.name) # pool!Nothing
      BY <1>8, TryFindSearches, Zenon
    <2>3. list \in [pool!Kinds -> Seq(1..Len(objects))] /\ \A h \in pool!Kinds : Len(list[h]) \in Nat
      BY ListFacts DEF PoolInv, pool!TypeOK
    <2> QED
      BY <1>1, <1>3, <1>5, <2>1, <2>2, <2>3, ReturnStep DEF PoolInv, Listed
  <1> QED
    BY <1>7, <1>8

\* Adding an object that has the name of the call to its list.
LEMMA PushStep ==
    ASSUME pool!NamesAreTexts, PoolInv, NEW t \in Threads, frames[t] # <<>>, HasText(pool!Top(t)),
           NEW k \in pool!Kinds, pool!Top(t).kind = k, pool!Return(t, pool!Top(t).object),
           UNCHANGED objects,
           list' = [list EXCEPT ![k] = Append(list[k], pool!Top(t).object)]
    PROVE  PoolInv' /\ Grows
  <1> DEFINE f == pool!Top(t)
  <1>1. f \in FrameSet(Len(objects)) /\ Good(f, objects, returned)
    BY TopFacts
  <1>2. ~f.late
    BY NotLate DEF HasText
  <1>3. f.object # pool!Nothing /\ objects[f.object].name = f.name
    BY <1>1 DEF Good
  <1>4. f.object \in 1..Len(objects) /\ f.name # pool!Nothing
    BY <1>1, <1>3 DEF FrameSet, pool!NamesAreTexts, pool!Nothing
  <1> HIDE DEF f
  <1> DEFINE l == list[k]
             l2 == Append(l, f.object)
  <1>5. list \in [pool!Kinds -> Seq(1..Len(objects))] /\ l \in Seq(1..Len(objects))
    BY DEF PoolInv, pool!TypeOK
  <1> HIDE DEF l
  <1>6. /\ l2 \in Seq(1..Len(objects)) /\ Len(l) \in Nat /\ Len(l2) = Len(l) + 1
        /\ l2[Len(l2)] = f.object /\ \A i \in 1..Len(l) : l2[i] = l[i]
    BY <1>4, <1>5
  <1> HIDE DEF l2
  <1>7. list' = [list EXCEPT ![k] = l2]
    BY DEF l, l2, f
  <1>8. list' \in [pool!Kinds -> Seq(1..Len(objects))] /\ list'[k] = l2
        /\ \A h \in pool!Kinds : h # k => list'[h] = list[h]
    BY <1>5, <1>6, <1>7
  <1>9. ASSUME NEW h \in pool!Kinds
        PROVE  /\ Len(list[h]) <= Len(list'[h])
               /\ \A i \in 1..Len(list[h]) : list'[h][i] = list[h][i]
               /\ \A i \in 1..Len(list'[h]) : objects[list'[h][i]].name # pool!Nothing
    <2>1. CASE h # k
      <3>1. Len(list[h]) \in Nat /\ list'[h] = list[h]
        BY <1>8, <2>1, ListFacts DEF PoolInv
      <3>2. \A i \in 1..Len(list[h]) : objects[list[h][i]].name # pool!Nothing
        BY DEF PoolInv, Listed
      <3>3. Len(list'[h]) = Len(list[h])
        BY <3>1, Zenon
      <3>4. \A i \in 1..Len(list'[h]) : objects[list'[h][i]].name # pool!Nothing
        BY <3>1, <3>2, Zenon
      <3>5. \A i \in 1..Len(list[h]) : list'[h][i] = list[h][i]
        BY <3>1, Zenon
      <3>6. Len(list[h]) <= Len(list'[h])
        BY <3>1
      <3> QED
        BY <3>4, <3>5, <3>6, Zenon
    <2>2. CASE h = k
      <3>1. \A i \in 1..Len(l) : objects[l[i]].name # pool!Nothing
        BY <2>2 DEF PoolInv, Listed, l
      <3>2. \A i \in 1..Len(l2) : i \in 1..Len(l) \/ i = Len(l2)
        BY <1>6
      <3>3. \A i \in 1..Len(l2) : objects[l2[i]].name # pool!Nothing
        BY <1>3, <1>4, <1>6, <3>1, <3>2, Zenon
      <3> QED
        BY <1>6, <1>8, <2>2, <3>3 DEF l
    <2> QED
      BY <2>1, <2>2
  <1>10. Search(list'[k], objects, f.name) # pool!Nothing
    <2>1. IsList(l2)
      <3>1. Len(objects) \in Nat
        BY ObjectsFacts
      <3> QED
        BY <1>6, <3>1 DEF IsList
    <2>2. Len(l2) \in 1..Len(l2)
      BY <1>6
    <2>3. Has(l2, objects, f.name)
      BY <1>3, <1>6, <2>2, Zenon DEF Has
    <2>4. Search(l2, objects, f.name) # pool!Nothing
      BY <2>1, <2>3, SearchHas, Zenon
    <2> QED
      BY <1>8, <2>4, Zenon
  <1> QED
    BY <1>2, <1>4, <1>8, <1>9, <1>10, ReturnStep DEF f

LEMMA PushInternedKeeps ==
    ASSUME pool!NamesAreTexts, PoolInv, NEW t \in Threads, pool!PushInterned(t)
    PROVE  PoolInv' /\ Grows
  <1>1. /\ frames[t] # <<>> /\ pool!Top(t).kind = "string" /\ HasText(pool!Top(t))
        /\ pool!Return(t, pool!Top(t).object) /\ UNCHANGED objects
        /\ list' = [list EXCEPT !["string"] = Append(list["string"], pool!Top(t).object)]
    BY DEF pool!PushInterned, pool!In, pool!Top, HasText
  <1> QED
    BY <1>1, PushStep DEF pool!Kinds

LEMMA PushClassKeeps ==
    ASSUME pool!NamesAreTexts, PoolInv, NEW t \in Threads, pool!PushClass(t)
    PROVE  PoolInv' /\ Grows
  <1>1. /\ frames[t] # <<>> /\ pool!Top(t).kind = "class" /\ HasText(pool!Top(t))
        /\ pool!Return(t, pool!Top(t).object) /\ UNCHANGED objects
        /\ list' = [list EXCEPT !["class"] = Append(list["class"], pool!Top(t).object)]
    BY DEF pool!PushClass, pool!In, pool!Top, HasText
  <1> QED
    BY <1>1, PushStep DEF pool!Kinds

-----------------------------------------------------------------------------
(* The theorems                                                            *)

LEMMA InitInv == pool!Init => PoolInv
  <1> SUFFICES ASSUME pool!Init PROVE PoolInv
    OBVIOUS
  <1>1. pool!TypeOK
    BY DEF pool!Init, pool!TypeOK, pool!Kinds, pool!Nothing
  <1>2. FramesOK /\ OwnObjects /\ Listed /\ Known /\ Answered
    BY DEF pool!Init, FramesOK, OwnObjects, Listed, Known, Answered
  <1> QED
    BY <1>1, <1>2 DEF PoolInv

\* Every step keeps the invariant, and the lists grow.
LEMMA NextKeeps ==
    ASSUME pool!NamesAreTexts, PoolInv, pool!Next
    PROVE  PoolInv' /\ Grows
  <1>1. PICK t \in Threads :
            \/ pool!NewString(t) \/ pool!Intern(t) \/ pool!NewClassTypeVariable(t)
            \/ \E k \in pool!Kinds : pool!Found(t, k)
            \/ pool!MakeString(t) \/ pool!Construct(t) \/ pool!SetStringValue(t)
            \/ pool!CheckInterned(t) \/ pool!PushInterned(t)
            \/ pool!MakeClass(t) \/ pool!NameClass(t) \/ pool!PushClass(t)
    BY Zenon DEF pool!Next
  <1>2. CASE pool!NewString(t)
    BY <1>2, NewStringKeeps
  <1>3. CASE pool!Intern(t)
    BY <1>3, InternKeeps
  <1>4. CASE pool!NewClassTypeVariable(t)
    BY <1>4, NewClassTypeVariableKeeps
  <1>5. CASE \E k \in pool!Kinds : pool!Found(t, k)
    BY <1>5, FoundKeeps, Zenon
  <1>6. CASE pool!MakeString(t)
    BY <1>6, MakeStringKeeps
  <1>7. CASE pool!Construct(t)
    BY <1>7, ConstructKeeps
  <1>8. CASE pool!SetStringValue(t)
    BY <1>8, SetStringValueKeeps
  <1>9. CASE pool!CheckInterned(t)
    BY <1>9, CheckInternedKeeps
  <1>10. CASE pool!PushInterned(t)
    BY <1>10, PushInternedKeeps
  <1>11. CASE pool!MakeClass(t)
    BY <1>11, MakeClassKeeps
  <1>12. CASE pool!NameClass(t)
    BY <1>12, NameClassKeeps
  <1>13. CASE pool!PushClass(t)
    BY <1>13, PushClassKeeps
  <1> QED
    BY <1>1, <1>2, <1>3, <1>4, <1>5, <1>6, <1>7, <1>8, <1>9, <1>10, <1>11, <1>12, <1>13, Zenon

LEMMA PoolStutterKeeps ==
    ASSUME PoolInv, UNCHANGED pool!vars
    PROVE  PoolInv'
  <1>1. /\ objects' = objects /\ list' = list /\ frames' = frames
        /\ answer' = answer /\ returned' = returned
    BY DEF pool!vars
  <1>2. pool!TypeOK'
    BY <1>1, Zenon DEF PoolInv, pool!TypeOK
  <1>3. FramesOK'
    BY <1>1, Zenon DEF PoolInv, FramesOK
  <1>4. OwnObjects'
    BY <1>1 DEF PoolInv, OwnObjects, Making
  <1>5. Listed'
    BY <1>1, Zenon DEF PoolInv, Listed
  <1>6. Known'
    BY <1>1, TryFindSearches, Searched, Zenon DEF PoolInv, Known
  <1>7. Answered'
    BY <1>1, Searched, Zenon DEF PoolInv
  <1> QED
    BY <1>2, <1>3, <1>4, <1>5, <1>6, <1>7 DEF PoolInv

\* What a step does to the object of a name.
Canonical ==
    \A k \in pool!Kinds, x \in Texts :
        pool!TryFind(k, x) # pool!Nothing => pool!TryFind(k, x)' = pool!TryFind(k, x)

LEMMA StepIsCanonical ==
    ASSUME pool!NamesAreTexts, PoolInv, pool!Next
    PROVE  Canonical
  <1>1. pool!TypeOK' /\ Grows /\ pool!TypeOK /\ Listed
    BY NextKeeps DEF PoolInv
  <1>2. \A k \in pool!Kinds, x \in Texts : Search(list[k], objects, x) # pool!Nothing =>
            Search(list'[k], objects', x) = Search(list[k], objects, x)
    BY <1>1, FoundStays, Zenon
  <1> QED
    BY <1>2, TryFindSearches, Zenon DEF Canonical

\* The inductive invariant of the pool holds in every state of StringPool.
THEOREM PoolInvHolds == pool!Spec => []PoolInv
  <1>1. PoolInv /\ [pool!Next]_(pool!vars) => PoolInv'
    BY NextKeeps, PoolStutterKeeps, NamesAssumption
  <1> QED
    BY <1>1, InitInv, NamesAssumption, PTL DEF pool!Spec

-----------------------------------------------------------------------------
(* The fields and the lists together                                       *)

LEMMA UsesFields == SharedSpec => Spec
  <1>1. SharedInit => Init
    BY DEF SharedInit
  <1>2. [SharedNext]_allvars => [Next]_vars
    BY DEF SharedNext, UseFields, UseNames, allvars
  <1> QED
    BY <1>1, <1>2, PTL DEF SharedSpec, Spec

LEMMA UsesNames == SharedSpec => pool!Spec
  <1>1. SharedInit => pool!Init
    BY DEF SharedInit
  <1>2. [SharedNext]_allvars => [pool!Next]_(pool!vars)
    BY DEF SharedNext, UseFields, UseNames, allvars, poolvars, pool!vars
  <1> QED
    BY <1>1, <1>2, PTL DEF SharedSpec, pool!Spec

\* Type correctness of both: no field, operand stack or call names a Variable
\* that does not exist, and the lists hold objects that were made.
THEOREM SharedTypeOKHolds == SharedSpec => []SharedTypeOK
  <1>1. HeapInv => TypeOK
    BY DEF HeapInv, Typed
  <1>2. SharedSpec => []PoolInv
    BY UsesNames, PoolInvHolds, PTL
  <1>3. PoolInv => pool!TypeOK
    BY DEF PoolInv
  <1>4. SharedSpec => []TypeOK
    BY <1>1, UsesFields, HeapInvHolds, PTL
  <1>5. TypeOK /\ pool!TypeOK => SharedTypeOK
    BY DEF SharedTypeOK
  <1> QED
    BY <1>2, <1>3, <1>4, <1>5, PTL

\* GETFIELD and GETSTATIC: a read that begins when the field is settled gives
\* the Variable the field had then or one that is put while it reads.
THEOREM RegularHolds == SharedSpec => []Regular
  <1>1. HeapInv => Regular
    BY DEF HeapInv
  <1> QED
    BY <1>1, UsesFields, HeapInvHolds, PTL

\* compareAndSwapInt and getAndAddInt: no Variable gets ahead of what the
\* puts, exchanges and increments begun so far explain.
THEOREM NeverAheadHolds == SharedSpec => []NeverAhead
  <1>1. HeapInv => NeverAhead
    <2> SUFFICES ASSUME HeapInv, NEW v \in Variables PROVE value[v] <= ceiling
      BY DEF NeverAhead
    <2>1. /\ P \in Nat /\ ceiling \in Nat /\ value[v] \in Nat /\ value[v] + P <= ceiling
      BY PendingFacts, TypedFacts DEF HeapInv, Bounded, Variables
    <2> QED
      BY <2>1
  <1> QED
    BY <1>1, UsesFields, HeapInvHolds, PTL

\* Unsafe and PUTFIELD: the field at the offset that objectFieldOffset gives
\* holds what Java says until operations on it overlap or an exchange fails.
THEOREM ExactUnlessDisturbedHolds == SharedSpec => []ExactUnlessDisturbed
  <1>1. HeapInv => ExactUnlessDisturbed
    BY DEF HeapInv, Exact, ExactUnlessDisturbed, Holds
  <1> QED
    BY <1>1, UsesFields, HeapInvHolds, PTL

\* NewString and NewClassTypeVariable: a call that began after another one for
\* its name had returned gives the object that is found for the name.
THEOREM LaterCallsAgreeHolds == SharedSpec => []LaterCallsAgree
  <1>1. PoolInv => LaterCallsAgree
    BY DEF PoolInv, Answered, LaterCallsAgree, pool!LaterCallsAgree
  <1> QED
    BY <1>1, UsesNames, PoolInvHolds, PTL

\* The intern list and the list of Class objects: the object that is found for
\* a name is never replaced by another.
THEOREM CanonicalNeverChangesHolds == SharedSpec => CanonicalNeverChanges
  <1>1. PoolInv /\ [pool!Next]_(pool!vars) => [Canonical]_(pool!vars)
    BY StepIsCanonical, NamesAssumption
  <1>2. pool!Spec => [][Canonical]_(pool!vars)
    BY <1>1, PoolInvHolds, PTL DEF pool!Spec
  <1> QED
    BY <1>2, UsesNames DEF CanonicalNeverChanges, pool!CanonicalNeverChanges, Canonical

=============================================================================
