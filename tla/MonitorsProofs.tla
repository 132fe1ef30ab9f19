--------------------------- MODULE MonitorsProofs ---------------------------
(* Proofs about Monitors, for any threads, monitors and bound.             *)
EXTENDS Monitors, FiniteSetTheorems, SequenceTheorems, WellFoundedInduction, TLAPS

-----------------------------------------------------------------------------
(* Regions on a stack                                                      *)

Regioned(s, m) == {i \in 1..Len(s) : s[i].mon = m}
Count(s, m) == Cardinality(Regioned(s, m))

LEMMA CountIsNat ==
    ASSUME NEW s \in Seq(Region), NEW m
    PROVE  IsFiniteSet(Regioned(s, m)) /\ Count(s, m) \in Nat
  <1>1. Len(s) \in Nat /\ Regioned(s, m) \subseteq 1..Len(s)
    BY DEF Regioned
  <1>2. IsFiniteSet(1..Len(s))
    BY <1>1, FS_Interval
  <1> QED
    BY <1>1, <1>2, FS_Subset, FS_CardinalityType DEF Count

LEMMA CountEmpty ==
    ASSUME NEW m
    PROVE  Count(<<>>, m) = 0
  <1>1. Regioned(<<>>, m) = {}
    BY DEF Regioned
  <1> QED
    BY <1>1, FS_EmptySet DEF Count

LEMMA CountPositive ==
    ASSUME NEW s \in Seq(Region), NEW m, Count(s, m) > 0
    PROVE  \E i \in 1..Len(s) : s[i].mon = m
  <1>1. IsFiniteSet(Regioned(s, m)) /\ Cardinality(Regioned(s, m)) # 0
    BY CountIsNat DEF Count
  <1>2. Regioned(s, m) # {}
    BY <1>1, FS_EmptySet
  <1> QED
    BY <1>2 DEF Regioned

LEMMA CountAppend ==
    ASSUME NEW s \in Seq(Region), NEW r \in Region, NEW m
    PROVE  Count(Append(s, r), m) = Count(s, m) + IF r.mon = m THEN 1 ELSE 0
  <1> DEFINE n == Len(s) + 1
             q == Append(s, r)
  <1>1. /\ Len(s) \in Nat /\ Len(q) = n /\ q[n] = r /\ n \notin 1..Len(s)
        /\ \A i \in 1..Len(s) : q[i] = s[i]
        /\ 1..n = 1..Len(s) \cup {n}
    OBVIOUS
  <1> HIDE DEF n, q
  <1>2. IsFiniteSet(Regioned(s, m)) /\ Count(s, m) \in Nat /\ n \notin Regioned(s, m)
    BY <1>1, CountIsNat DEF Regioned
  <1>3. CASE r.mon = m
    <2>1. Regioned(q, m) = Regioned(s, m) \cup {n}
      BY <1>1, <1>3 DEF Regioned
    <2>2. Cardinality(Regioned(s, m) \cup {n}) = Cardinality(Regioned(s, m)) + 1
      BY <1>2, FS_AddElement
    <2> QED
      BY <1>3, <2>1, <2>2 DEF Count, q
  <1>4. CASE r.mon # m
    <2>1. Regioned(q, m) = Regioned(s, m)
      BY <1>1, <1>4 DEF Regioned
    <2> QED
      BY <1>2, <1>4, <2>1 DEF Count, q
  <1> QED
    BY <1>3, <1>4

\* A stack that is cut back to n regions loses the regions above, which are p
\* and those above p, and some below p that have no monitor.
Above(s, p, m) == {i \in (p + 1)..Len(s) : s[i].mon = m}

LEMMA CountCut ==
    ASSUME NEW s \in Seq(Region), NEW n \in Nat, NEW p \in (n + 1)..Len(s), NEW m,
           \A i \in (n + 1)..(p - 1) : s[i].mon # m
    PROVE  /\ SubSeq(s, 1, n) \in Seq(Region)
           /\ Len(SubSeq(s, 1, n)) = n
           /\ \A i \in 1..n : SubSeq(s, 1, n)[i] = s[i]
           /\ IsFiniteSet(Above(s, p, m)) /\ Cardinality(Above(s, p, m)) \in Nat
           /\ Count(s, m) = Count(SubSeq(s, 1, n), m) + Cardinality(Above(s, p, m))
                              + IF s[p].mon = m THEN 1 ELSE 0
  <1> DEFINE q == SubSeq(s, 1, n)
             A == Above(s, p, m)
  <1>1. /\ Len(s) \in Nat /\ n < p /\ p <= Len(s) /\ p \in Nat
        /\ q \in Seq(Region) /\ Len(q) = n /\ \A i \in 1..n : q[i] = s[i]
    OBVIOUS
  <1>2. IsFiniteSet(Regioned(q, m)) /\ Count(q, m) \in Nat
        /\ IsFiniteSet(Regioned(s, m)) /\ Count(s, m) \in Nat
    BY <1>1, CountIsNat
  <1> HIDE DEF q
  <1>3. A \subseteq Regioned(s, m)
    BY <1>1 DEF Above, Regioned
  <1>4. IsFiniteSet(A) /\ Cardinality(A) \in Nat
    BY <1>2, <1>3, FS_Subset, FS_CardinalityType
  <1>5. Regioned(q, m) \cap A = {}
    BY <1>1 DEF Above, Regioned
  <1> DEFINE B == Regioned(q, m) \cup A
  <1>6. IsFiniteSet(B) /\ Cardinality(B) = Count(q, m) + Cardinality(A)
    <2> HIDE DEF A
    <2>1. Cardinality(Regioned(q, m) \cap A) = 0
      BY <1>5, FS_EmptySet
    <2>2. /\ IsFiniteSet(Regioned(q, m) \cup A)
          /\ Cardinality(Regioned(q, m) \cup A) =
               Cardinality(Regioned(q, m)) + Cardinality(A) - Cardinality(Regioned(q, m) \cap A)
      BY <1>2, <1>4, FS_Union
    <2> QED
      BY <1>2, <1>4, <2>1, <2>2 DEF Count
  <1>7. ASSUME NEW i PROVE i \in Regioned(s, m) <=> (i \in B \/ (i = p /\ s[p].mon = m))
    BY <1>1 DEF Regioned, Above
  <1>8. p \notin B
    BY <1>1 DEF Regioned, Above
  <1> HIDE DEF B
  <1>9. CASE s[p].mon = m
    <2>1. Regioned(s, m) = B \cup {p}
      BY <1>7, <1>9
    <2>2. Cardinality(B \cup {p}) = Cardinality(B) + 1
      BY <1>6, <1>8, FS_AddElement
    <2> QED
      BY <1>1, <1>2, <1>4, <1>6, <1>9, <2>1, <2>2 DEF Count, q
  <1>10. CASE s[p].mon # m
    <2>1. Regioned(s, m) = B
      BY <1>7, <1>10
    <2> QED
      BY <1>1, <1>2, <1>4, <1>6, <1>10, <2>1 DEF Count, q
  <1> QED
    BY <1>9, <1>10

LEMMA FirstExists ==
    ASSUME NEW S \in SUBSET Nat, S # {}
    PROVE  \E i \in S : \A j \in S : i <= j
  <1> DEFINE Less == {ss \in Nat \X Nat : ss[1] < ss[2]}
  <1>1. IsWellFoundedOn(Less, Nat)
    <2>1. OpToRel(<, Nat) = {ss \in Nat \X Nat : ss[1] < ss[2]}
      BY DEF OpToRel
    <2> QED
      BY <2>1, NatLessThanWellFounded, Zenon
  <1>2. \A i, j \in Nat : i < j => <<i, j>> \in Less
    OBVIOUS
  <1> HIDE DEF Less
  <1>3. PICK x \in S : \A y \in S : ~(<<y, x>> \in Less)
    BY <1>1, WFMin, Zenon
  <1>4. ASSUME NEW y \in S PROVE x <= y
    <2>1. ~(y < x)
      BY <1>2, <1>3, Zenon
    <2> QED
      BY <2>1
  <1> QED
    BY <1>4, Zenon

\* A thread that executes anything executes a method.
LEMMA FrameIsMethod ==
    ASSUME NEW t \in Threads, stack[t] \in Seq(Region), stack[t] # <<>>,
           stack[t][1].kind = "method"
    PROVE  /\ Frame(t) \in 1..Len(stack[t]) /\ stack[t][Frame(t)].kind = "method"
           /\ \A i \in (Frame(t) + 1)..Len(stack[t]) : stack[t][i].kind # "method"
  <1> DEFINE s == stack[t]
             S == {k \in 0..(Len(s) - 1) : s[Len(s) - k].kind = "method"}
             P(f) == /\ s[f].kind = "method"
                     /\ \A i \in (f + 1)..Len(s) : s[i].kind # "method"
  <1>1. Len(s) \in Nat /\ Len(s) > 0 /\ DOMAIN s = 1..Len(s) /\ s[1].kind = "method"
    OBVIOUS
  <1> HIDE DEF s
  <1>2. S \in SUBSET Nat /\ Len(s) - 1 \in S
    <2>1. Len(s) - (Len(s) - 1) = 1
      BY <1>1
    <2> QED
      BY <1>1, <2>1
  <1>3. PICK k \in S : \A j \in S : k <= j
    <2> HIDE DEF S
    <2> QED
      BY <1>2, FirstExists
  <1>4. Len(s) - k \in 1..Len(s) /\ s[Len(s) - k].kind = "method"
    BY <1>1, <1>3
  <1>5. ASSUME NEW i \in (Len(s) - k + 1)..Len(s) PROVE s[i].kind # "method"
    <2>1. Len(s) - i \in 0..(Len(s) - 1) /\ Len(s) - (Len(s) - i) = i /\ Len(s) - i < k
      BY <1>1, <1>3
    <2>2. k \in Nat /\ Len(s) - i \in Nat
      BY <1>3, <2>1
    <2>3. Len(s) - i \notin S
      <3> SUFFICES ASSUME Len(s) - i \in S PROVE FALSE
        OBVIOUS
      <3> HIDE DEF S
      <3>1. k <= Len(s) - i
        BY <1>3
      <3> QED
        BY <2>1, <2>2, <3>1
    <2> QED
      BY <2>1, <2>3
  <1>6. \E f \in DOMAIN s : P(f)
    BY <1>1, <1>4, <1>5
  <1> DEFINE f == CHOOSE g \in DOMAIN s : P(g)
  <1>7. f \in DOMAIN s /\ P(f)
    BY <1>6, Zenon
  <1>8. Frame(t) = f
    BY DEF Frame, s
  <1> HIDE DEF f
  <1> QED
    BY <1>1, <1>7, <1>8 DEF s

-----------------------------------------------------------------------------
(* The invariant of one thread, and what a step of it has to keep          *)

\* Where one thread is.
Fine(s, p, w, l) ==
    /\ p \in {"run", "ended", "throw", "abort"} <=> w = Nothing
    /\ p = "lock" => w \in Region /\ w.mon # None
    /\ p \in {"sleep", "relock"} => \E m \in ObjectMonitors : w \in {Owned(m), Unowned(m)}
    /\ p = "ended" <=> s = <<>>
    /\ s # <<>> => s[1].kind = "method"
    /\ \A i \in 1..Len(s) : s[i].kind = "block" => s[i].mon \in ObjectMonitors
    /\ w.kind = "block" => w.mon \in ObjectMonitors

InsideOf(s, w, m) == Count(s, m) - IF w = Owned(m) THEN 1 ELSE 0
Balanced(h, s, w, l, m) == IF m \in l THEN h > InsideOf(s, w, m) ELSE h = InsideOf(s, w, m)

Locks ==
    /\ owner \in [Monitors -> Threads \cup {None}]
    /\ count \in [Monitors -> Nat]
    /\ \A m \in Monitors : owner[m] = None <=> count[m] = 0

LEMMA Facts ==
    ASSUME Inv
    PROVE  /\ Locks
           /\ stack \in [Threads -> Seq(Region)] /\ pc \in [Threads -> Pcs]
           /\ want \in [Threads -> Wants] /\ leaked \in [Threads -> SUBSET ObjectMonitors]
           /\ ops \in [Threads -> 0..MaxOps] /\ MaxOps \in Nat
           /\ \A t \in Threads :
                  /\ stack[t] \in Seq(Region) /\ want[t] \in Wants
                  /\ leaked[t] \subseteq ObjectMonitors
                  /\ Fine(stack[t], pc[t], want[t], leaked[t])
                  /\ \A m \in Monitors : Balanced(Holds(t, m), stack[t], want[t], leaked[t], m)
  <1>1. /\ Locks
        /\ stack \in [Threads -> Seq(Region)] /\ pc \in [Threads -> Pcs]
        /\ want \in [Threads -> Wants] /\ leaked \in [Threads -> SUBSET ObjectMonitors]
        /\ ops \in [Threads -> 0..MaxOps] /\ MaxOps \in Nat
    BY ConstantsAssumption DEF Inv, TypeOK, Locks
  <1>2. ASSUME NEW t \in Threads
        PROVE  /\ Fine(stack[t], pc[t], want[t], leaked[t])
               /\ \A m \in Monitors : Balanced(Holds(t, m), stack[t], want[t], leaked[t], m)
    <2>1. stack[t] \in Seq(Region) /\ DOMAIN stack[t] = 1..Len(stack[t])
      BY <1>1
    <2>2. Fine(stack[t], pc[t], want[t], leaked[t])
      BY <2>1 DEF Inv, TypeOK, Framed, Fine
    <2>3. \A m : Regions(t, m) = Count(stack[t], m)
      BY <2>1 DEF Regions, Count, Regioned
    <2>4. \A m \in Monitors : Balanced(Holds(t, m), stack[t], want[t], leaked[t], m)
      BY <2>3 DEF Inv, Balance, Balanced, Inside, InsideOf
    <2> QED
      BY <2>2, <2>4
  <1> QED
    BY <1>1, <1>2

\* A step of t that leaves t so, and the others as they are.
Becomes(t, s, p, w, l) ==
    /\ stack' = [stack EXCEPT ![t] = s] /\ pc' = [pc EXCEPT ![t] = p]
    /\ want' = [want EXCEPT ![t] = w] /\ leaked' = [leaked EXCEPT ![t] = l]
Others(t) == \A u \in Threads : u # t => \A m \in Monitors : Holds(u, m)' = Holds(u, m)

LEMMA InvKeeps ==
    ASSUME Inv, NEW t \in Threads, NEW s \in Seq(Region), NEW p \in Pcs, NEW w \in Wants,
           NEW l \in SUBSET ObjectMonitors,
           Becomes(t, s, p, w, l), Fine(s, p, w, l), Locks', Others(t),
           ops' \in [Threads -> 0..MaxOps],
           \A m \in Monitors : Balanced(Holds(t, m)', s, w, l, m)
    PROVE  Inv'
  <1>1. /\ stack \in [Threads -> Seq(Region)] /\ pc \in [Threads -> Pcs]
        /\ want \in [Threads -> Wants] /\ leaked \in [Threads -> SUBSET ObjectMonitors]
    BY Facts
  <1>2. /\ stack' \in [Threads -> Seq(Region)] /\ stack'[t] = s
        /\ \A u \in Threads : u # t => stack'[u] = stack[u]
    BY <1>1 DEF Becomes
  <1>3. /\ pc' \in [Threads -> Pcs] /\ pc'[t] = p
        /\ \A u \in Threads : u # t => pc'[u] = pc[u]
    BY <1>1 DEF Becomes
  <1>4. /\ want' \in [Threads -> Wants] /\ want'[t] = w
        /\ \A u \in Threads : u # t => want'[u] = want[u]
    BY <1>1 DEF Becomes
  <1>5. /\ leaked' \in [Threads -> SUBSET ObjectMonitors] /\ leaked'[t] = l
        /\ \A u \in Threads : u # t => leaked'[u] = leaked[u]
    BY <1>1 DEF Becomes
  <1>6. ASSUME NEW u \in Threads
        PROVE  /\ Fine(stack'[u], pc'[u], want'[u], leaked'[u])
               /\ \A m \in Monitors :
                      Balanced(Holds(u, m)', stack'[u], want'[u], leaked'[u], m)
    <2>1. CASE u = t
      BY <1>2, <1>3, <1>4, <1>5, <2>1
    <2>2. CASE u # t
      <3>1. /\ Fine(stack[u], pc[u], want[u], leaked[u])
            /\ \A m \in Monitors : Balanced(Holds(u, m), stack[u], want[u], leaked[u], m)
        BY Facts
      <3>2. \A m \in Monitors : Holds(u, m)' = Holds(u, m)
        BY <2>2 DEF Others
      <3> QED
        BY <1>2, <1>3, <1>4, <1>5, <2>2, <3>1, <3>2
    <2> QED
      BY <2>1, <2>2
  <1>7. ASSUME NEW u \in Threads
        PROVE  stack'[u] \in Seq(Region) /\ DOMAIN stack'[u] = 1..Len(stack'[u])
    BY <1>2
  <1>8. TypeOK'
    BY <1>2, <1>3, <1>4, <1>5, <1>6 DEF TypeOK, Fine, Locks
  <1>9. Framed'
    BY <1>6, <1>7 DEF Framed, Fine
  <1>10. Balance'
    <2>1. \A u \in Threads, m \in Monitors : Regions(u, m)' = Count(stack'[u], m)
      BY <1>7 DEF Regions, Count, Regioned
    <2>2. \A u \in Threads, m \in Monitors : Inside(u, m)' = InsideOf(stack'[u], want'[u], m)
      BY <2>1 DEF Inside, InsideOf, Owned
    <2> QED
      BY <1>6, <2>2 DEF Balance, Balanced
  <1> QED
    BY <1>8, <1>9, <1>10 DEF Inv

\* The mutex.
LEMMA EnterEffect ==
    ASSUME Inv, NEW t \in Threads, NEW m \in Monitors, Enter(t, m)
    PROVE  /\ Locks' /\ Others(t)
           /\ \A k \in Monitors : Holds(t, k)' = Holds(t, k) + IF k = m THEN 1 ELSE 0
  <1>1. Locks /\ None \notin Threads
    BY Facts, ConstantsAssumption
  <1>2. /\ owner' \in [Monitors -> Threads \cup {None}] /\ owner'[m] = t
        /\ \A k \in Monitors : k # m => owner'[k] = owner[k]
    BY <1>1 DEF Enter, Locks
  <1>3. /\ count' \in [Monitors -> Nat] /\ count'[m] = count[m] + 1
        /\ \A k \in Monitors : k # m => count'[k] = count[k]
    BY <1>1 DEF Enter, Locks
  <1>4. owner[m] \in {None, t} /\ count[m] \in Nat /\ (owner[m] = None <=> count[m] = 0)
    BY <1>1 DEF Enter, Locks
  <1>5. Locks'
    BY <1>1, <1>2, <1>3, <1>4 DEF Locks
  <1>6. Others(t)
    BY <1>1, <1>2, <1>3, <1>4 DEF Others, Holds
  <1>7. ASSUME NEW k \in Monitors
        PROVE  Holds(t, k)' = Holds(t, k) + IF k = m THEN 1 ELSE 0
    <2>1. CASE k = m
      BY <1>1, <1>2, <1>3, <1>4, <2>1 DEF Holds
    <2>2. CASE k # m
      <3>1. count[k] \in Nat
        BY <1>1 DEF Locks
      <3> QED
        BY <1>2, <1>3, <2>2, <3>1 DEF Holds
    <2> QED
      BY <2>1, <2>2
  <1> QED
    BY <1>5, <1>6, <1>7

LEMMA LeaveEffect ==
    ASSUME Inv, NEW t \in Threads, NEW m \in Monitors \cup {None}, Leave(t, m)
    PROVE  /\ Locks' /\ Others(t)
           /\ \A k \in Monitors :
                  Holds(t, k)' = Holds(t, k) - IF k = m /\ owner[m] = t THEN 1 ELSE 0
  <1>1. Locks /\ None \notin Threads /\ None \notin Monitors
    BY Facts, ConstantsAssumption
  <1>2. CASE m # None /\ owner[m] = t
    <2>1. /\ owner' \in [Monitors -> Threads \cup {None}]
          /\ owner'[m] = IF count[m] = 1 THEN None ELSE t
          /\ \A k \in Monitors : k # m => owner'[k] = owner[k]
      BY <1>1, <1>2 DEF Leave, Locks
    <2>2. count[m] \in Nat \ {0}
      BY <1>1, <1>2 DEF Locks
    <2>3. /\ count' \in [Monitors -> Nat] /\ count'[m] = count[m] - 1
          /\ \A k \in Monitors : k # m => count'[k] = count[k]
      BY <1>1, <1>2, <2>2 DEF Leave, Locks
    <2>4. Locks'
      BY <1>1, <2>1, <2>2, <2>3 DEF Locks
    <2>5. Others(t)
      BY <1>1, <1>2, <2>1, <2>2, <2>3 DEF Others, Holds
    <2>6. ASSUME NEW k \in Monitors
          PROVE  Holds(t, k)' = Holds(t, k) - IF k = m /\ owner[m] = t THEN 1 ELSE 0
      <3>1. CASE k = m
        BY <1>1, <1>2, <2>1, <2>2, <2>3, <3>1 DEF Holds
      <3>2. CASE k # m
        <4>1. count[k] \in Nat
          BY <1>1 DEF Locks
        <4> QED
          BY <2>1, <2>3, <3>2, <4>1 DEF Holds
      <3> QED
        BY <3>1, <3>2
    <2> QED
      BY <2>4, <2>5, <2>6
  <1>3. CASE ~(m # None /\ owner[m] = t)
    <2>1. owner' = owner /\ count' = count
      BY <1>3 DEF Leave
    <2>2. \A k \in Monitors : count[k] \in Nat
      BY <1>1 DEF Locks
    <2>3. \A k \in Monitors : Holds(t, k) \in Nat
      BY <2>2 DEF Holds
    <2>4. \A k \in Monitors : ~(k = m /\ owner[m] = t)
      BY <1>1, <1>3
    <2> QED
      BY <1>1, <2>1, <2>3, <2>4 DEF Locks, Others, Holds
  <1> QED
    BY <1>2, <1>3

LEMMA LockedOutside ==
    ASSUME Inv, NEW t \in Threads, UNCHANGED <<owner, count>>
    PROVE  /\ Locks' /\ Others(t)
           /\ \A k \in Monitors : Holds(t, k)' = Holds(t, k)
  <1>1. Locks /\ owner' = owner /\ count' = count
    BY Facts
  <1> QED
    BY <1>1 DEF Locks, Others, Holds

LEMMA HoldsIsNat ==
    ASSUME Inv, NEW t \in Threads, NEW m \in Monitors
    PROVE  Holds(t, m) \in Nat /\ (Holds(t, m) > 0 => owner[m] = t)
  <1>1. Locks
    BY Facts
  <1> QED
    BY <1>1 DEF Locks, Holds

LEMMA Same ==
    ASSUME NEW S, NEW T, NEW f \in [S -> T], NEW t \in S
    PROVE  f = [f EXCEPT ![t] = f[t]]
  OBVIOUS

LEMMA Appended ==
    ASSUME NEW q \in Seq(Region), NEW r \in Region
    PROVE  /\ Append(q, r) \in Seq(Region) /\ Len(Append(q, r)) = Len(q) + 1
           /\ Append(q, r) # <<>> /\ Append(q, r)[Len(Append(q, r))] = r
           /\ \A i \in 1..Len(q) : Append(q, r)[i] = q[i]
           /\ Len(q) \in Nat
  OBVIOUS

LEMMA WantKinds ==
    /\ Nothing \in Wants /\ \A m : Nothing # Owned(m) /\ Nothing # Unowned(m)
    /\ \A m \in ObjectMonitors : Owned(m) \in Wants /\ Unowned(m) \in Wants
    /\ \A r \in Region : r \in Wants /\ r # Nothing /\ \A m : r # Owned(m) /\ r # Unowned(m)
    /\ \A m, k : Owned(m) # Unowned(k) /\ (Owned(m) = Owned(k) <=> m = k)
    /\ \A m : Owned(m).kind # "block" /\ Unowned(m).kind # "block" /\ Nothing.kind # "block"
  <1>1. \A r \in Region : r.kind \in {"method", "block", "try"}
    BY DEF Region
  <1>2. \A m, k : Owned(m) = Owned(k) => m = k
    <2>1. \A m : Owned(m).mon = m
      BY DEF Owned
    <2> QED
      BY <2>1
  <1>3. \A m : Owned(m).kind = "owned" /\ Unowned(m).kind = "unowned"
    BY DEF Owned, Unowned
  <1>4. Nothing.kind = "nothing"
    BY DEF Nothing
  <1>5. \A m \in ObjectMonitors : Owned(m) \in Wants /\ Unowned(m) \in Wants
    BY DEF Wants
  <1>6. Nothing \in Wants /\ \A r \in Region : r \in Wants
    BY DEF Wants
  <1>7. \A m, k : Owned(m) # Unowned(k) /\ Nothing # Owned(m) /\ Nothing # Unowned(m)
    BY <1>3, <1>4
  <1>8. \A r \in Region : r # Nothing /\ \A m : r # Owned(m) /\ r # Unowned(m)
    BY <1>1, <1>3, <1>4
  <1> QED
    BY <1>2, <1>3, <1>4, <1>5, <1>6, <1>7, <1>8

-----------------------------------------------------------------------------
(* The steps                                                               *)

LEMMA EnterUnlockedKeeps ==
    ASSUME Inv, NEW t \in Threads, EnterUnlocked(t)
    PROVE  Inv'
  <1>1. PICK r \in {Method(None), Try} : stack' = [stack EXCEPT ![t] = Append(stack[t], r)]
    BY DEF EnterUnlocked
  <1>2. /\ pc[t] = "run" /\ ops[t] < MaxOps /\ ops' = [ops EXCEPT ![t] = ops[t] + 1]
        /\ UNCHANGED <<owner, count, pc, want, leaked>>
    BY DEF EnterUnlocked, Op
  <1> DEFINE s == Append(stack[t], r)
  <1>3. r \in Region /\ r.mon = None /\ r.kind # "block"
    BY DEF Method, Try, Region
  <1>4. /\ stack[t] \in Seq(Region) /\ want[t] \in Wants /\ leaked[t] \in SUBSET ObjectMonitors
        /\ Fine(stack[t], pc[t], want[t], leaked[t])
        /\ \A m \in Monitors : Balanced(Holds(t, m), stack[t], want[t], leaked[t], m)
    BY Facts
  <1>5. /\ s \in Seq(Region) /\ Len(s) = Len(stack[t]) + 1 /\ s # <<>>
        /\ s[Len(s)] = r /\ \A i \in 1..Len(stack[t]) : s[i] = stack[t][i]
    BY <1>3, <1>4
  <1>6. \A m \in Monitors : Count(s, m) = Count(stack[t], m)
    <2>1. \A m \in Monitors : r.mon # m
      BY <1>3, ConstantsAssumption
    <2> QED
      BY <1>3, <1>4, <2>1, CountAppend, CountIsNat
  <1> HIDE DEF s
  <1>7. Becomes(t, s, "run", want[t], leaked[t])
    <2>1. /\ pc = [pc EXCEPT ![t] = pc[t]] /\ want = [want EXCEPT ![t] = want[t]]
          /\ leaked = [leaked EXCEPT ![t] = leaked[t]]
      BY Facts, Same
    <2> QED
      BY <1>1, <1>2, <2>1 DEF Becomes, s
  <1>8. Fine(s, "run", want[t], leaked[t])
    <2>1. stack[t] # <<>> /\ stack[t][1].kind = "method" /\ Len(stack[t]) \in Nat /\ Len(stack[t]) > 0
      BY <1>2, <1>4 DEF Fine
    <2>2. s[1].kind = "method"
      BY <1>5, <2>1
    <2>3. \A i \in 1..Len(s) : s[i].kind = "block" => s[i].mon \in ObjectMonitors
      BY <1>3, <1>4, <1>5, <2>1 DEF Fine
    <2> QED
      BY <1>2, <1>4, <1>5, <2>2, <2>3 DEF Fine
  <1>9. /\ Locks' /\ Others(t) /\ \A k \in Monitors : Holds(t, k)' = Holds(t, k)
    BY <1>2, LockedOutside
  <1>10. \A m \in Monitors : Balanced(Holds(t, m)', s, want[t], leaked[t], m)
    BY <1>4, <1>6, <1>9 DEF Balanced, InsideOf
  <1>11. ops' \in [Threads -> 0..MaxOps]
    BY <1>2, Facts
  <1>12. "run" \in Pcs
    BY DEF Pcs
  <1> QED
    BY <1>4, <1>5, <1>7, <1>8, <1>9, <1>10, <1>11, <1>12, InvKeeps

\* A step that only changes pc and want, not to or from an owner's wait.
LEMMA WantKeeps ==
    ASSUME Inv, NEW t \in Threads, NEW p \in Pcs, NEW w \in Wants,
           UNCHANGED <<owner, count, stack, leaked>>,
           pc' = [pc EXCEPT ![t] = p], want' = [want EXCEPT ![t] = w],
           ops' \in [Threads -> 0..MaxOps],
           Fine(stack[t], p, w, leaked[t]),
           \A m : w = Owned(m) <=> want[t] = Owned(m)
    PROVE  Inv'
  <1>1. /\ stack[t] \in Seq(Region) /\ leaked[t] \in SUBSET ObjectMonitors
        /\ \A m \in Monitors : Balanced(Holds(t, m), stack[t], want[t], leaked[t], m)
    BY Facts
  <1>2. Becomes(t, stack[t], p, w, leaked[t])
    <2>1. stack = [stack EXCEPT ![t] = stack[t]] /\ leaked = [leaked EXCEPT ![t] = leaked[t]]
      BY Facts, Same
    <2> QED
      BY <2>1 DEF Becomes
  <1>3. /\ Locks' /\ Others(t) /\ \A k \in Monitors : Holds(t, k)' = Holds(t, k)
    BY LockedOutside
  <1>4. \A m \in Monitors : Balanced(Holds(t, m)', stack[t], w, leaked[t], m)
    BY <1>1, <1>3 DEF Balanced, InsideOf
  <1> QED
    BY <1>1, <1>2, <1>3, <1>4, InvKeeps

LEMMA LocksKeep ==
    ASSUME Inv, NEW t \in Threads, CallSynchronized(t) \/ MonitorEnter(t)
    PROVE  Inv'
  <1>1. PICK w \in Region : /\ want' = [want EXCEPT ![t] = w] /\ w.mon # None
                            /\ w.kind = "block" => w.mon \in ObjectMonitors
    <2>1. CASE CallSynchronized(t)
      <3>1. PICK m \in MethodMonitors : want' = [want EXCEPT ![t] = Method(m)]
        BY <2>1 DEF CallSynchronized
      <3>2. m \in Monitors /\ m # None
        BY ConstantsAssumption
      <3>3. Method(m) \in Region /\ Method(m).mon = m /\ Method(m).kind = "method"
        BY <3>2 DEF Method, Region
      <3> QED
        BY <3>1, <3>2, <3>3
    <2>2. CASE MonitorEnter(t)
      <3>1. PICK m \in ObjectMonitors : want' = [want EXCEPT ![t] = Block(m)]
        BY <2>2 DEF MonitorEnter
      <3>2. m \in Monitors /\ m # None
        BY ConstantsAssumption
      <3>3. Block(m) \in Region /\ Block(m).mon = m
        BY <3>2 DEF Block, Region
      <3> QED
        BY <3>1, <3>2, <3>3
    <2> QED
      BY <2>1, <2>2
  <1>2. /\ pc[t] = "run" /\ ops[t] < MaxOps /\ ops' = [ops EXCEPT ![t] = ops[t] + 1]
        /\ UNCHANGED <<owner, count, stack, leaked>> /\ pc' = [pc EXCEPT ![t] = "lock"]
    BY DEF CallSynchronized, MonitorEnter, Op
  <1>3. ops' \in [Threads -> 0..MaxOps]
    BY <1>2, Facts
  <1>4. want[t] = Nothing /\ Fine(stack[t], "run", want[t], leaked[t])
    BY <1>2, Facts DEF Fine
  <1>5. Fine(stack[t], "lock", w, leaked[t])
    BY <1>1, <1>4, WantKinds DEF Fine
  <1>6. w \in Wants /\ \A m : w = Owned(m) <=> want[t] = Owned(m)
    BY <1>4, WantKinds
  <1>7. "lock" \in Pcs
    BY DEF Pcs
  <1> QED
    BY <1>1, <1>2, <1>3, <1>5, <1>6, <1>7, WantKeeps

LEMMA LockedKeeps ==
    ASSUME Inv, NEW t \in Threads, Locked(t)
    PROVE  Inv'
  <1> DEFINE r == want[t]
             s == Append(stack[t], r)
  <1>1. /\ pc[t] = "lock" /\ Enter(t, r.mon) /\ stack' = [stack EXCEPT ![t] = s]
        /\ pc' = [pc EXCEPT ![t] = "run"] /\ want' = [want EXCEPT ![t] = Nothing]
        /\ UNCHANGED <<leaked, ops>>
    BY DEF Locked
  <1>2. /\ stack[t] \in Seq(Region) /\ leaked[t] \in SUBSET ObjectMonitors
        /\ Fine(stack[t], "lock", r, leaked[t])
        /\ \A m \in Monitors : Balanced(Holds(t, m), stack[t], r, leaked[t], m)
        /\ ops \in [Threads -> 0..MaxOps]
    BY <1>1, Facts
  <1>3. r \in Region /\ r.mon # None /\ (r.kind = "block" => r.mon \in ObjectMonitors)
    BY <1>2 DEF Fine
  <1>4. r.mon \in Monitors
    BY <1>3 DEF Region
  <1>5. \A m : r # Owned(m) /\ Nothing # Owned(m)
    BY <1>3, WantKinds
  <1> HIDE DEF r
  <1>6. /\ s \in Seq(Region) /\ Len(s) = Len(stack[t]) + 1 /\ s # <<>>
        /\ s[Len(s)] = r /\ \A i \in 1..Len(stack[t]) : s[i] = stack[t][i]
        /\ Len(stack[t]) \in Nat
    BY <1>2, <1>3, Appended
  <1>7. \A m : /\ Count(s, m) = Count(stack[t], m) + IF r.mon = m THEN 1 ELSE 0
               /\ Count(stack[t], m) \in Nat
    BY <1>2, <1>3, CountAppend, CountIsNat
  <1> HIDE DEF s
  <1>8. Becomes(t, s, "run", Nothing, leaked[t])
    <2>1. leaked = [leaked EXCEPT ![t] = leaked[t]]
      BY Facts, Same
    <2> QED
      BY <1>1, <2>1 DEF Becomes
  <1>9. Fine(s, "run", Nothing, leaked[t])
    <2>1. stack[t] # <<>> /\ stack[t][1].kind = "method" /\ Len(stack[t]) > 0
      BY <1>2, <1>6 DEF Fine
    <2>2. s[1].kind = "method"
      BY <1>6, <2>1
    <2>3. \A i \in 1..Len(s) : s[i].kind = "block" => s[i].mon \in ObjectMonitors
      BY <1>2, <1>3, <1>6 DEF Fine
    <2> QED
      BY <1>6, <2>2, <2>3, WantKinds DEF Fine
  <1>10. /\ Locks' /\ Others(t)
         /\ \A k \in Monitors : Holds(t, k)' = Holds(t, k) + IF k = r.mon THEN 1 ELSE 0
    BY <1>1, <1>4, EnterEffect
  <1>11. ASSUME NEW m \in Monitors PROVE Balanced(Holds(t, m)', s, Nothing, leaked[t], m)
    <2>1. Holds(t, m) \in Nat
      BY HoldsIsNat
    <2>2. IF m \in leaked[t] THEN Holds(t, m) > Count(stack[t], m)
                             ELSE Holds(t, m) = Count(stack[t], m)
      BY <1>2, <1>5, <1>7 DEF Balanced, InsideOf
    <2>3. IF m \in leaked[t] THEN Holds(t, m)' > Count(s, m) ELSE Holds(t, m)' = Count(s, m)
      BY <1>7, <1>10, <2>1, <2>2
    <2>4. InsideOf(s, Nothing, m) = Count(s, m)
      BY <1>5, <1>7 DEF InsideOf
    <2> QED
      BY <2>3, <2>4 DEF Balanced
  <1>12. "run" \in Pcs /\ Nothing \in Wants /\ ops' \in [Threads -> 0..MaxOps]
    BY <1>1, <1>2, WantKinds DEF Pcs
  <1> QED
    BY <1>2, <1>6, <1>8, <1>9, <1>10, <1>11, <1>12, InvKeeps

LEMMA BalancedAfterCut ==
    \A h, c, d, a, b \in Nat : c = b + a + d =>
        /\ h > c => h - d > b
        /\ h = c /\ a > 0 => h - d > b
        /\ h = c /\ a = 0 => h - d = b
  OBVIOUS

\* t leaves the regions above n of its stack; p is the one that is unlocked.
LEMMA CutKeeps ==
    ASSUME Inv, NEW t \in Threads, NEW n \in Nat, NEW p \in (n + 1)..Len(stack[t]),
           \A i \in (n + 1)..(p - 1) : stack[t][i].kind = "try",
           \A i \in (p + 1)..Len(stack[t]) : stack[t][i].kind # "method",
           NEW q \in Pcs, pc[t] \in {"run", "throw", "abort"},
           q \in {"run", "throw", "abort", "ended"}, q = "ended" <=> n = 0,
           Leave(t, stack[t][p].mon),
           stack' = [stack EXCEPT ![t] = SubSeq(stack[t], 1, n)],
           pc' = [pc EXCEPT ![t] = q], UNCHANGED <<want, ops>>,
           leaked' = [leaked EXCEPT ![t] = leaked[t] \cup LeftBehind(t, p)]
    PROVE  Inv'
  <1> DEFINE s == stack[t]
             r == SubSeq(s, 1, n)
             w == want[t]
             k == s[p].mon
             l == leaked[t] \cup LeftBehind(t, p)
  <1>1. /\ s \in Seq(Region) /\ w \in Wants /\ leaked[t] \in SUBSET ObjectMonitors
        /\ Fine(s, pc[t], w, leaked[t])
        /\ \A m \in Monitors : Balanced(Holds(t, m), s, w, leaked[t], m)
        /\ ops \in [Threads -> 0..MaxOps] /\ None \notin Monitors
    BY Facts, ConstantsAssumption
  <1>2. w = Nothing
    BY <1>1 DEF Fine
  <1>3. \A i \in 1..Len(s) :
            /\ s[i] \in Region /\ s[i].mon \in Monitors \cup {None}
            /\ s[i].kind = "try" => s[i].mon = None
            /\ s[i].kind \in {"method", "block", "try"}
    <2>1. \A x \in Region : /\ x.mon \in Monitors \cup {None}
                            /\ x.kind = "try" => x.mon = None
                            /\ x.kind \in {"method", "block", "try"}
      BY DEF Region
    <2>2. \A i \in 1..Len(s) : s[i] \in Region
      BY <1>1
    <2> QED
      BY <2>1, <2>2
  <1>4. p \in 1..Len(s) /\ Len(s) \in Nat /\ n < p /\ n <= Len(s)
    BY <1>1
  <1>5. k \in Monitors \cup {None}
    BY <1>3, <1>4
  <1>6. LeftBehind(t, p) =
            {s[j].mon : j \in {i \in (p + 1)..Len(s) : s[i].kind = "block"}}
    BY DEF LeftBehind
  <1>7. ASSUME NEW i \in (n + 1)..(p - 1) PROVE s[i].kind = "try" /\ i \in 1..Len(s)
    BY <1>4
  <1>8. ASSUME NEW i \in (p + 1)..Len(s) PROVE s[i].kind # "method" /\ i \in 1..Len(s)
    BY <1>4
  <1>9. /\ Leave(t, k) /\ stack' = [stack EXCEPT ![t] = r]
        /\ leaked' = [leaked EXCEPT ![t] = l] /\ want' = want /\ ops' = ops
    OBVIOUS
  <1>10. Becomes(t, r, q, w, l)
    <2>1. want = [want EXCEPT ![t] = want[t]]
      BY Facts, Same
    <2> QED
      BY <1>9, <2>1 DEF Becomes
  <1> HIDE DEF s, w, k, l
  <1>11. ASSUME NEW m \in Monitors
         PROVE  /\ r \in Seq(Region) /\ Len(r) = n /\ \A i \in 1..n : r[i] = s[i]
                /\ Cardinality(Above(s, p, m)) \in Nat
                /\ Count(s, m) = Count(r, m) + Cardinality(Above(s, p, m))
                                     + IF k = m THEN 1 ELSE 0
                /\ Count(r, m) \in Nat
                /\ Cardinality(Above(s, p, m)) > 0 <=> m \in LeftBehind(t, p)
    <2>1. \A i \in (n + 1)..(p - 1) : s[i].mon # m
      BY <1>1, <1>3, <1>7
    <2>2. /\ r \in Seq(Region) /\ Len(r) = n /\ \A i \in 1..n : r[i] = s[i]
          /\ IsFiniteSet(Above(s, p, m)) /\ Cardinality(Above(s, p, m)) \in Nat
          /\ Count(s, m) = Count(r, m) + Cardinality(Above(s, p, m))
                               + IF s[p].mon = m THEN 1 ELSE 0
      <3>1. p \in (n + 1)..Len(s)
        BY DEF s
      <3> QED
        BY <1>1, <2>1, <3>1, CountCut
    <2>3. Count(r, m) \in Nat
      BY <2>2, CountIsNat
    <2>4. Above(s, p, m) # {} <=> m \in LeftBehind(t, p)
      <3>1. \A i \in (p + 1)..Len(s) : s[i].mon = m => s[i].kind = "block"
        BY <1>1, <1>3, <1>8
      <3> QED
        BY <1>6, <3>1 DEF Above
    <2>5. Cardinality(Above(s, p, m)) > 0 <=> Above(s, p, m) # {}
      BY <2>2, FS_EmptySet
    <2> QED
      BY <2>2, <2>3, <2>4, <2>5 DEF k
  <1>12. r \in Seq(Region) /\ Len(r) = n /\ \A i \in 1..n : r[i] = s[i]
    <2> DEFINE m == CHOOSE x : x \notin {s[i].mon : i \in 1..Len(s)}
    <2> QED
      BY <1>1, <1>4
  <1> HIDE DEF r
  <1>13. Fine(r, q, w, l)
    <2>1. r = <<>> <=> n = 0
      BY <1>12
    <2>2. r # <<>> => r[1].kind = "method"
      <3> SUFFICES ASSUME n # 0 PROVE r[1].kind = "method"
        BY <2>1
      <3>1. r[1] = s[1] /\ s # <<>>
        BY <1>1, <1>4, <1>12
      <3> QED
        BY <1>1, <3>1 DEF Fine
    <2>3. \A i \in 1..Len(r) : r[i].kind = "block" => r[i].mon \in ObjectMonitors
      BY <1>1, <1>4, <1>12 DEF Fine
    <2> QED
      BY <1>2, <2>1, <2>2, <2>3, WantKinds DEF Fine
  <1>14. l \in SUBSET ObjectMonitors
    <2>1. \A i \in (p + 1)..Len(s) : s[i].kind = "block" => s[i].mon \in ObjectMonitors
      BY <1>1, <1>8 DEF Fine
    <2> QED
      BY <1>1, <1>6, <2>1 DEF l
  <1>15. /\ Locks' /\ Others(t)
         /\ \A m \in Monitors :
                Holds(t, m)' = Holds(t, m) - IF m = k /\ owner[k] = t THEN 1 ELSE 0
    BY <1>5, <1>9, LeaveEffect
  <1>16. ASSUME NEW m \in Monitors PROVE Balanced(Holds(t, m)', r, w, l, m)
    <2> DEFINE h == Holds(t, m)
               a == Cardinality(Above(s, p, m))
               b == Count(r, m)
               c == Count(s, m)
               d == IF k = m THEN 1 ELSE 0
    <2>1. h \in Nat /\ (h > 0 => owner[m] = t)
      BY HoldsIsNat
    <2>2. a \in Nat /\ b \in Nat /\ d \in Nat /\ c = b + a + d /\ (a > 0 <=> m \in LeftBehind(t, p))
      BY <1>11
    <2>3. c \in Nat /\ (d = 1 => c > 0)
      BY <2>2
    <2>4. InsideOf(s, w, m) = c /\ InsideOf(r, w, m) = b
      BY <1>2, <2>2, <2>3, WantKinds DEF InsideOf
    <2>5. IF m \in leaked[t] THEN h > c ELSE h = c
      BY <1>1, <2>4 DEF Balanced
    <2>6. Holds(t, m)' = h - IF m = k /\ owner[k] = t THEN 1 ELSE 0
      BY <1>15
    <2>7. k = m => d = 1 /\ owner[m] = t
      BY <2>1, <2>3, <2>5
    <2>8. Holds(t, m)' = h - d
      BY <2>6, <2>7
    <2> HIDE DEF h, a, b, c, d
    <2>9. CASE m \in leaked[t]
      <3>1. h - d > b
        BY <2>1, <2>2, <2>3, <2>5, <2>9, BalancedAfterCut
      <3> QED
        BY <2>4, <2>8, <2>9, <3>1 DEF Balanced, l
    <2>10. CASE m \notin leaked[t] /\ a > 0
      <3>1. h - d > b
        BY <2>1, <2>2, <2>3, <2>5, <2>10, BalancedAfterCut
      <3> QED
        BY <2>2, <2>4, <2>8, <2>10, <3>1 DEF Balanced, l
    <2>11. CASE m \notin leaked[t] /\ a = 0
      <3>1. h - d = b
        BY <2>1, <2>2, <2>3, <2>5, <2>11, BalancedAfterCut
      <3>2. m \notin l
        BY <2>2, <2>11 DEF l
      <3> QED
        BY <2>4, <2>8, <3>1, <3>2 DEF Balanced
    <2> QED
      BY <2>2, <2>9, <2>10, <2>11
  <1>17. ops' \in [Threads -> 0..MaxOps]
    BY <1>1, <1>9
  <1> QED
    BY <1>1, <1>10, <1>12, <1>13, <1>14, <1>15, <1>16, <1>17, InvKeeps

LEMMA LeaveRegionKeeps ==
    ASSUME Inv, NEW t \in Threads, LeaveRegion(t)
    PROVE  Inv'
  <1> DEFINE s == stack[t]
             p == Len(s)
             n == p - 1
             q == IF p = 1 THEN "ended" ELSE "run"
  <1>1. /\ pc[t] = "run" /\ Leave(t, s[p].mon) /\ stack' = [stack EXCEPT ![t] = SubSeq(s, 1, n)]
        /\ pc' = [pc EXCEPT ![t] = q] /\ UNCHANGED <<want, leaked, ops>>
    BY DEF LeaveRegion, Top, Below
  <1>2. s \in Seq(Region) /\ Fine(s, "run", want[t], leaked[t])
    BY <1>1, Facts
  <1>3. p \in Nat /\ p > 0 /\ n \in Nat /\ p \in (n + 1)..Len(s) /\ (q = "ended" <=> n = 0)
        /\ q \in {"run", "ended"}
    BY <1>2 DEF Fine
  <1>4. LeftBehind(t, p) = {}
    BY <1>3 DEF LeftBehind
  <1>5. leaked' = [leaked EXCEPT ![t] = leaked[t] \cup LeftBehind(t, p)]
    <2>1. leaked[t] \cup LeftBehind(t, p) = leaked[t]
      BY <1>4
    <2> QED
      BY <1>1, <2>1, Facts, Same
  <1>6. /\ \A i \in (n + 1)..(p - 1) : s[i].kind = "try"
        /\ \A i \in (p + 1)..Len(s) : s[i].kind # "method"
        /\ q \in Pcs
    BY <1>3 DEF Pcs
  <1> HIDE DEF p, n, q
  <1> QED
    BY <1>1, <1>3, <1>5, <1>6, CutKeeps

LEMMA FrameHere ==
    ASSUME Inv, NEW t \in Threads, pc[t] \in {"throw", "abort"}
    PROVE  /\ Frame(t) \in 1..Len(stack[t]) /\ Len(stack[t]) \in Nat
           /\ \A i \in (Frame(t) + 1)..Len(stack[t]) :
                  stack[t][i].kind \in {"block", "try"} /\ stack[t][i] \in Region
  <1>1. stack[t] \in Seq(Region) /\ Fine(stack[t], pc[t], want[t], leaked[t])
    BY Facts
  <1>2. stack[t] # <<>> /\ stack[t][1].kind = "method"
    BY <1>1 DEF Fine
  <1>3. /\ Frame(t) \in 1..Len(stack[t]) /\ stack[t][Frame(t)].kind = "method"
        /\ \A i \in (Frame(t) + 1)..Len(stack[t]) : stack[t][i].kind # "method"
    BY <1>1, <1>2, FrameIsMethod
  <1>4. \A x \in Region : x.kind \in {"method", "block", "try"}
    BY DEF Region
  <1>5. ASSUME NEW i \in (Frame(t) + 1)..Len(stack[t]) PROVE stack[t][i] \in Region
    BY <1>1, <1>3
  <1> QED
    BY <1>1, <1>3, <1>4, <1>5

LEMMA CatchKeeps ==
    ASSUME Inv, NEW t \in Threads, Catch(t)
    PROVE  Inv'
  <1> DEFINE s == stack[t]
  <1>1. PICK i \in Handlers(t) :
            /\ s[i].kind = "try" /\ stack' = [stack EXCEPT ![t] = Below(stack[t], i)]
            /\ leaked' = [leaked EXCEPT ![t] = leaked[t] \cup LeftBehind(t, i)]
    BY DEF Catch
  <1>2. /\ pc[t] = "throw" /\ pc' = [pc EXCEPT ![t] = "run"]
        /\ UNCHANGED <<owner, count, want, ops>>
    BY DEF Catch
  <1>3. /\ Frame(t) \in 1..Len(s) /\ Len(s) \in Nat
        /\ \A j \in (Frame(t) + 1)..Len(s) : s[j].kind \in {"block", "try"} /\ s[j] \in Region
    BY <1>2, FrameHere
  <1>4. i \in (Frame(t) + 1)..Len(s)
    BY DEF Handlers, InFrame
  <1>5. s[i].mon = None
    <2>1. \A x \in Region : x.kind = "try" => x.mon = None
      BY DEF Region
    <2> QED
      BY <1>1, <1>3, <1>4, <2>1
  <1>6. Leave(t, s[i].mon)
    BY <1>2, <1>5 DEF Leave
  <1> DEFINE n == i - 1
  <1>7. n \in Nat /\ n # 0 /\ i \in (n + 1)..Len(s) /\ stack' = [stack EXCEPT ![t] = SubSeq(s, 1, n)]
    BY <1>1, <1>3, <1>4 DEF Below
  <1>8. /\ \A j \in (n + 1)..(i - 1) : s[j].kind = "try"
        /\ \A j \in (i + 1)..Len(s) : s[j].kind # "method"
        /\ "run" \in Pcs
    BY <1>3, <1>4 DEF Pcs
  <1> HIDE DEF n
  <1> QED
    BY <1>1, <1>2, <1>6, <1>7, <1>8, CutKeeps

LEMMA CatchAndExitKeeps ==
    ASSUME Inv, NEW t \in Threads, CatchAndExit(t)
    PROVE  Inv'
  <1> DEFINE s == stack[t]
             n == Frame(t)
  <1>1. PICK i \in Handlers(t) :
            /\ s[i].kind = "block" /\ Leave(t, s[i].mon)
            /\ stack' = [stack EXCEPT ![t] = SubSeq(s, 1, n)]
            /\ leaked' = [leaked EXCEPT ![t] = leaked[t] \cup LeftBehind(t, i)]
    BY DEF CatchAndExit
  <1>2. pc[t] = "throw" /\ UNCHANGED <<pc, want, ops>>
    BY DEF CatchAndExit
  <1>3. /\ n \in 1..Len(s) /\ Len(s) \in Nat
        /\ \A j \in (n + 1)..Len(s) : s[j].kind \in {"block", "try"} /\ s[j] \in Region
    BY <1>2, FrameHere
  <1>4. /\ i \in (n + 1)..Len(s)
        /\ \A j \in (n + 1)..Len(s) : s[j].kind = "block" => i <= j
    BY DEF Handlers, InFrame
  <1> HIDE DEF n
  <1>5. \A j \in (n + 1)..(i - 1) : s[j].kind = "try"
    BY <1>3, <1>4
  <1>6. \A j \in (i + 1)..Len(s) : s[j].kind # "method"
    BY <1>3, <1>4
  <1>7. pc' = [pc EXCEPT ![t] = "throw"]
    BY <1>2, Facts, Same
  <1>8. "throw" \in Pcs /\ n \in Nat /\ n # 0
    BY <1>3 DEF Pcs
  <1> QED
    BY <1>1, <1>2, <1>4, <1>5, <1>6, <1>7, <1>8, CutKeeps

LEMMA UnwindKeeps ==
    ASSUME Inv, NEW t \in Threads, Unwind(t)
    PROVE  Inv'
  <1> DEFINE s == stack[t]
             p == Frame(t)
             n == p - 1
             q == IF p = 1 THEN "ended" ELSE pc[t]
  <1>1. /\ pc[t] \in {"throw", "abort"} /\ Leave(t, s[p].mon)
        /\ stack' = [stack EXCEPT ![t] = SubSeq(s, 1, n)]
        /\ leaked' = [leaked EXCEPT ![t] = leaked[t] \cup LeftBehind(t, p)]
        /\ pc' = [pc EXCEPT ![t] = q] /\ UNCHANGED <<want, ops>>
    BY DEF Unwind, Below
  <1>2. /\ p \in 1..Len(s) /\ Len(s) \in Nat
        /\ \A j \in (p + 1)..Len(s) : s[j].kind \in {"block", "try"} /\ s[j] \in Region
    BY <1>1, FrameHere
  <1> HIDE DEF p
  <1>3. /\ n \in Nat /\ p \in (n + 1)..Len(s) /\ (q = "ended" <=> n = 0)
        /\ q \in {"throw", "abort", "ended"} /\ q \in Pcs
    BY <1>1, <1>2 DEF Pcs
  <1>4. /\ \A i \in (n + 1)..(p - 1) : s[i].kind = "try"
        /\ \A i \in (p + 1)..Len(s) : s[i].kind # "method"
    BY <1>2
  <1> HIDE DEF n, q
  <1> QED
    BY <1>1, <1>3, <1>4, CutKeeps

LEMMA WaitKeeps ==
    ASSUME Inv, NEW t \in Threads, Wait(t)
    PROVE  Inv'
  <1>1. PICK m \in ObjectMonitors :
            /\ Leave(t, m)
            /\ want' = [want EXCEPT ![t] = IF owner[m] = t THEN Owned(m) ELSE Unowned(m)]
    BY DEF Wait
  <1>2. /\ pc[t] = "run" /\ ops[t] < MaxOps /\ ops' = [ops EXCEPT ![t] = ops[t] + 1]
        /\ pc' = [pc EXCEPT ![t] = "sleep"] /\ UNCHANGED <<stack, leaked>>
    BY DEF Wait, Op
  <1> DEFINE w == IF owner[m] = t THEN Owned(m) ELSE Unowned(m)
             s == stack[t]
  <1>3. m \in Monitors
    BY ConstantsAssumption
  <1>4. /\ s \in Seq(Region) /\ leaked[t] \in SUBSET ObjectMonitors
        /\ Fine(s, "run", want[t], leaked[t])
        /\ \A k \in Monitors : Balanced(Holds(t, k), s, want[t], leaked[t], k)
    BY <1>2, Facts
  <1>5. want[t] = Nothing
    BY <1>4 DEF Fine
  <1>6. /\ w \in Wants /\ w \in {Owned(m), Unowned(m)} /\ w # Nothing /\ w.kind # "block"
        /\ \A k : w = Owned(k) <=> k = m /\ owner[m] = t
    BY WantKinds
  <1>7. Becomes(t, s, "sleep", w, leaked[t])
    <2>1. stack = [stack EXCEPT ![t] = stack[t]] /\ leaked = [leaked EXCEPT ![t] = leaked[t]]
      BY Facts, Same
    <2> QED
      BY <1>1, <1>2, <2>1 DEF Becomes
  <1> HIDE DEF s, w
  <1>8. Fine(s, "sleep", w, leaked[t])
    BY <1>4, <1>6 DEF Fine
  <1>9. /\ Locks' /\ Others(t)
        /\ \A k \in Monitors :
               Holds(t, k)' = Holds(t, k) - IF k = m /\ owner[m] = t THEN 1 ELSE 0
    BY <1>1, <1>3, LeaveEffect
  <1>10. ASSUME NEW k \in Monitors PROVE Balanced(Holds(t, k)', s, w, leaked[t], k)
    <2>1. Holds(t, k) \in Nat /\ Count(s, k) \in Nat
      BY <1>4, HoldsIsNat, CountIsNat
    <2>2. InsideOf(s, want[t], k) = Count(s, k)
      BY <1>5, <2>1, WantKinds DEF InsideOf
    <2>3. InsideOf(s, w, k) = Count(s, k) - IF k = m /\ owner[m] = t THEN 1 ELSE 0
      BY <1>6 DEF InsideOf
    <2> QED
      BY <1>4, <1>9, <2>1, <2>2, <2>3 DEF Balanced
  <1>11. ops' \in [Threads -> 0..MaxOps] /\ "sleep" \in Pcs
    BY <1>2, Facts DEF Pcs
  <1> QED
    BY <1>4, <1>6, <1>7, <1>8, <1>9, <1>10, <1>11, InvKeeps

\* Threads that sleep are woken up.
LEMMA AwakenKeeps ==
    ASSUME Inv, NEW S, \A t \in S : t \in Threads /\ pc[t] = "sleep", Awaken(S),
           UNCHANGED <<owner, count, stack, want, leaked, ops>>
    PROVE  Inv'
  <1>1. /\ pc' = [t \in Threads |-> IF t \in S THEN "relock" ELSE pc[t]]
        /\ owner' = owner /\ count' = count /\ stack' = stack /\ want' = want
        /\ leaked' = leaked /\ ops' = ops
    BY DEF Awaken
  <1>2. pc' \in [Threads -> Pcs]
    BY <1>1, Facts DEF Pcs
  <1>3. TypeOK'
    <2>1. ASSUME NEW t \in Threads
          PROVE  /\ pc'[t] \in {"run", "ended", "throw", "abort"} <=> want[t] = Nothing
                 /\ pc'[t] = "lock" => want[t] \in Region /\ want[t].mon # None
                 /\ pc'[t] \in {"sleep", "relock"} =>
                        \E m \in ObjectMonitors : want[t] \in {Owned(m), Unowned(m)}
                 /\ pc'[t] = "ended" <=> stack[t] = <<>>
      <3>1. Fine(stack[t], pc[t], want[t], leaked[t])
        BY Facts
      <3>2. pc'[t] = IF t \in S THEN "relock" ELSE pc[t]
        BY <1>1
      <3>3. CASE t \in S
        <4>1. pc[t] = "sleep" /\ pc'[t] = "relock"
          BY <3>2, <3>3
        <4> QED
          BY <3>1, <4>1 DEF Fine
      <3>4. CASE t \notin S
        BY <3>1, <3>2, <3>4 DEF Fine
      <3> QED
        BY <3>3, <3>4
    <2> QED
      BY <1>1, <1>2, <2>1 DEF Inv, TypeOK
  <1>4. Framed' /\ Balance'
    BY <1>1 DEF Inv, Framed, Balance, Inside, Regions, Holds
  <1> QED
    BY <1>3, <1>4 DEF Inv

LEMMA AwakeningsKeep ==
    ASSUME Inv, NEW t \in Threads, TimesOut(t) \/ Notify(t) \/ NotifyAll(t)
    PROVE  Inv'
  <1>1. UNCHANGED <<owner, count, stack, want, leaked, ops>>
    BY DEF TimesOut, Notify, NotifyAll
  <1>2. \E S : /\ Awaken(S)
               /\ \A u \in S : u \in Threads /\ pc[u] = "sleep"
    <2>1. CASE TimesOut(t)
      <3>1. Awaken({t}) /\ \A u \in {t} : u \in Threads /\ pc[u] = "sleep"
        BY <2>1 DEF TimesOut
      <3> QED
        BY <3>1
    <2>2. CASE Notify(t)
      <3>1. PICK m \in ObjectMonitors : \E u \in Asleep(m) : Awaken({u})
        BY <2>2 DEF Notify
      <3>2. PICK u \in Asleep(m) : Awaken({u})
        BY <3>1
      <3>3. \A v \in {u} : v \in Threads /\ pc[v] = "sleep"
        BY DEF Asleep
      <3> QED
        BY <3>2, <3>3
    <2>3. CASE NotifyAll(t)
      <3>1. PICK m \in ObjectMonitors : Awaken(Asleep(m))
        BY <2>3 DEF NotifyAll
      <3>2. \A v \in Asleep(m) : v \in Threads /\ pc[v] = "sleep"
        BY DEF Asleep
      <3> QED
        BY <3>1, <3>2
    <2> QED
      BY <2>1, <2>2, <2>3
  <1>3. PICK S : Awaken(S) /\ \A u \in S : u \in Threads /\ pc[u] = "sleep"
    BY <1>2
  <1> QED
    BY <1>1, <1>3, AwakenKeeps

LEMMA RelockKeeps ==
    ASSUME Inv, NEW t \in Threads, Relock(t)
    PROVE  Inv'
  <1> DEFINE w == want[t]
             s == stack[t]
             m == w.mon
             l == IF w.kind = "unowned" THEN leaked[t] \cup {m} ELSE leaked[t]
  <1>1. /\ pc[t] = "relock" /\ Enter(t, m) /\ leaked' = [leaked EXCEPT ![t] = l]
        /\ pc' = [pc EXCEPT ![t] = "run"] /\ want' = [want EXCEPT ![t] = Nothing]
        /\ UNCHANGED <<stack, ops>>
    BY DEF Relock
  <1>2. /\ s \in Seq(Region) /\ leaked[t] \in SUBSET ObjectMonitors
        /\ Fine(s, "relock", w, leaked[t])
        /\ \A k \in Monitors : Balanced(Holds(t, k), s, w, leaked[t], k)
        /\ ops \in [Threads -> 0..MaxOps]
    BY <1>1, Facts
  <1>3. \E k \in ObjectMonitors : w \in {Owned(k), Unowned(k)}
    BY <1>2 DEF Fine
  <1>4. /\ m \in ObjectMonitors
        /\ \/ w = Owned(m) /\ w.kind = "owned"
           \/ w = Unowned(m) /\ w.kind = "unowned"
    BY <1>3 DEF Owned, Unowned
  <1>5. m \in Monitors
    BY <1>4, ConstantsAssumption
  <1>6. Becomes(t, s, "run", Nothing, l)
    <2>1. stack = [stack EXCEPT ![t] = stack[t]]
      BY Facts, Same
    <2> QED
      BY <1>1, <2>1 DEF Becomes
  <1> HIDE DEF s, w, m
  <1>7. Fine(s, "run", Nothing, l)
    BY <1>2, WantKinds DEF Fine
  <1>8. /\ Locks' /\ Others(t)
        /\ \A k \in Monitors : Holds(t, k)' = Holds(t, k) + IF k = m THEN 1 ELSE 0
    BY <1>1, <1>5, EnterEffect
  <1>9. ASSUME NEW k \in Monitors PROVE Balanced(Holds(t, k)', s, Nothing, l, k)
    <2>1. Holds(t, k) \in Nat /\ Count(s, k) \in Nat
      BY <1>2, HoldsIsNat, CountIsNat
    <2>2. InsideOf(s, Nothing, k) = Count(s, k)
      BY <2>1, WantKinds DEF InsideOf
    <2>3. CASE w = Owned(m) /\ w.kind = "owned"
      <3>1. InsideOf(s, w, k) = Count(s, k) - IF k = m THEN 1 ELSE 0
        BY <2>3, WantKinds DEF InsideOf
      <3>2. Balanced(Holds(t, k), s, w, leaked[t], k) /\ l = leaked[t]
        BY <1>2, <2>3
      <3> QED
        BY <1>8, <2>1, <2>2, <3>1, <3>2 DEF Balanced
    <2>4. CASE w = Unowned(m) /\ w.kind = "unowned"
      <3>1. InsideOf(s, w, k) = Count(s, k)
        BY <2>1, <2>4, WantKinds DEF InsideOf
      <3>2. Balanced(Holds(t, k), s, w, leaked[t], k) /\ l = leaked[t] \cup {m}
        BY <1>2, <2>4
      <3> QED
        BY <1>8, <2>1, <2>2, <3>1, <3>2 DEF Balanced
    <2> QED
      BY <1>4, <2>3, <2>4
  <1>10. l \in SUBSET ObjectMonitors /\ "run" \in Pcs /\ Nothing \in Wants
         /\ ops' \in [Threads -> 0..MaxOps]
    BY <1>1, <1>2, <1>4, WantKinds DEF Pcs
  <1> QED
    BY <1>2, <1>6, <1>7, <1>8, <1>9, <1>10, InvKeeps

LEMMA ThrowKeeps ==
    ASSUME Inv, NEW t \in Threads, Throw(t)
    PROVE  Inv'
  <1>1. PICK how \in {"throw", "abort"} : pc' = [pc EXCEPT ![t] = how]
    BY DEF Throw
  <1>2. /\ pc[t] = "run" /\ ops[t] < MaxOps /\ ops' = [ops EXCEPT ![t] = ops[t] + 1]
        /\ UNCHANGED <<owner, count, stack, want, leaked>>
    BY DEF Throw, Op
  <1>3. want[t] \in Wants /\ Fine(stack[t], "run", want[t], leaked[t])
    BY <1>2, Facts
  <1>4. Fine(stack[t], how, want[t], leaked[t])
    BY <1>3 DEF Fine
  <1>5. want' = [want EXCEPT ![t] = want[t]]
    BY <1>2, Facts, Same
  <1>6. ops' \in [Threads -> 0..MaxOps] /\ how \in Pcs
    BY <1>2, Facts DEF Pcs
  <1> QED
    BY <1>1, <1>2, <1>3, <1>4, <1>5, <1>6, WantKeeps

LEMMA StutterKeeps ==
    ASSUME Inv, UNCHANGED vars
    PROVE  Inv'
  BY DEF vars, Inv, TypeOK, Framed, Balance, Inside, Regions, Holds

LEMMA NextKeeps ==
    ASSUME Inv, [Next]_vars
    PROVE  Inv'
  <1>1. CASE Next
    <2>1. PICK t \in Threads :
              \/ EnterUnlocked(t) \/ CallSynchronized(t) \/ MonitorEnter(t)
              \/ Wait(t) \/ Notify(t) \/ NotifyAll(t) \/ Throw(t)
              \/ Goes(t)
      BY <1>1 DEF Next
    <2>2. CASE Goes(t)
      BY <2>2, LockedKeeps, LeaveRegionKeeps, AwakeningsKeep, RelockKeeps, CatchKeeps,
         CatchAndExitKeeps, UnwindKeeps DEF Goes
    <2> QED
      BY <2>1, <2>2, EnterUnlockedKeeps, LocksKeep, WaitKeeps, AwakeningsKeep, ThrowKeeps
  <1> QED
    BY <1>1, StutterKeeps

LEMMA InitInv == Init => Inv
  <1> SUFFICES ASSUME Init PROVE Inv
    OBVIOUS
  <1>1. Method(None) \in Region /\ Method(None).kind = "method" /\ Method(None).mon = None
    BY DEF Method, Region
  <1>2. None \notin Threads /\ None \notin Monitors /\ MaxOps \in Nat
    BY ConstantsAssumption
  <1>3. \A t \in Threads : stack[t] = <<Method(None)>>
    BY DEF Init
  <1>4. <<Method(None)>> \in Seq(Region) /\ <<Method(None)>> # <<>>
        /\ Len(<<Method(None)>>) = 1 /\ <<Method(None)>>[1] = Method(None)
    BY <1>1
  <1>5. Locks
    BY DEF Init, Locks
  <1>6. /\ stack \in [Threads -> Seq(Region)] /\ pc \in [Threads -> Pcs]
        /\ want \in [Threads -> Wants] /\ leaked \in [Threads -> SUBSET ObjectMonitors]
        /\ ops \in [Threads -> 0..MaxOps]
    BY <1>2, <1>4, WantKinds DEF Init, Pcs
  <1>7. ASSUME NEW t \in Threads
        PROVE  /\ pc[t] = "run" /\ want[t] = Nothing /\ leaked[t] = {} /\ stack[t] # <<>>
               /\ stack[t][1].kind = "method" /\ want[t].kind # "block"
               /\ \A i \in DOMAIN stack[t] : stack[t][i].kind # "block"
               /\ \A m \in Monitors : Holds(t, m) = 0 /\ Inside(t, m) = 0
    <2>1. \A m \in Monitors : Holds(t, m) = 0
      BY <1>2 DEF Init, Holds
    <2>2. ASSUME NEW m \in Monitors PROVE Inside(t, m) = 0
      <3>1. {i \in DOMAIN stack[t] : stack[t][i].mon = m} = {}
        BY <1>1, <1>2, <1>3, <1>4
      <3>2. Regions(t, m) = 0
        BY <3>1, FS_EmptySet DEF Regions
      <3>3. want[t] = Nothing
        BY DEF Init
      <3>4. want[t] # Owned(m)
        BY <3>3, WantKinds
      <3>5. Inside(t, m) = Regions(t, m) - 0
        BY <3>4 DEF Inside
      <3> QED
        BY <3>2, <3>5
    <2> QED
      BY <1>1, <1>3, <1>4, <2>1, <2>2, WantKinds DEF Init
  <1>8. TypeOK
    BY <1>5, <1>6, <1>7 DEF TypeOK, Locks
  <1>9. Framed /\ Balance
    BY <1>7 DEF Framed, Balance
  <1> QED
    BY <1>8, <1>9 DEF Inv

-----------------------------------------------------------------------------
(* The theorems                                                            *)

\* MONITORENTER, MONITOREXIT, synchronized methods, waits and throws: a thread
\* has locked a monitor as often as it is in regions guarded by it, and more
\* often exactly when it has leaked the monitor.
THEOREM InvHolds == Spec => []Inv
  <1>1. Inv /\ [Next]_vars => Inv'
    BY NextKeeps
  <1> QED
    BY <1>1, InitInv, PTL DEF Spec

\* Synchronized methods: a monitor that only they lock is locked only while
\* its owner is in one of them, whatever is thrown.
THEOREM MethodsUnlockHolds == Spec => []MethodsUnlock
  <1>1. Inv => MethodsUnlock
    <2> SUFFICES ASSUME Inv, NEW m \in Monitors \ ObjectMonitors, owner[m] # None
                 PROVE  \E i \in DOMAIN stack[owner[m]] : stack[owner[m]][i].mon = m
      BY DEF MethodsUnlock
    <2> DEFINE t == owner[m]
    <2>1. t \in Threads /\ count[m] \in Nat /\ count[m] # 0
      BY Facts DEF Locks
    <2> HIDE DEF t
    <2>2. /\ stack[t] \in Seq(Region) /\ leaked[t] \subseteq ObjectMonitors
          /\ Fine(stack[t], pc[t], want[t], leaked[t])
          /\ Balanced(Holds(t, m), stack[t], want[t], leaked[t], m)
      BY <2>1, Facts
    <2>3. Holds(t, m) \in Nat /\ Holds(t, m) > 0
      BY <2>1 DEF Holds, t
    <2>4. want[t] # Owned(m)
      <3> SUFFICES ASSUME want[t] = Owned(m) PROVE FALSE
        OBVIOUS
      <3>1. pc[t] \in Pcs
        BY <2>1, Facts
      <3>2. want[t] # Nothing /\ want[t] \notin Region
        BY WantKinds
      <3>3. pc[t] \in {"sleep", "relock"}
        BY <2>2, <3>1, <3>2 DEF Fine, Pcs
      <3>4. PICK k \in ObjectMonitors : want[t] \in {Owned(k), Unowned(k)}
        BY <2>2, <3>3 DEF Fine
      <3> QED
        BY <3>4, WantKinds
    <2>5. Count(stack[t], m) > 0
      <3>1. Holds(t, m) = InsideOf(stack[t], want[t], m)
        BY <2>2 DEF Balanced
      <3>2. InsideOf(stack[t], want[t], m) = Count(stack[t], m)
        BY <2>2, <2>4, CountIsNat DEF InsideOf
      <3> QED
        BY <2>3, <3>1, <3>2
    <2>6. \E i \in 1..Len(stack[t]) : stack[t][i].mon = m
      BY <2>2, <2>5, CountPositive
    <2> QED
      BY <2>2, <2>6 DEF t
  <1> QED
    BY <1>1, InvHolds, PTL

\* Two threads are never inside one monitor.
Exclusive == \A m \in Monitors, u, v \in Threads : Inside(u, m) > 0 /\ Inside(v, m) > 0 => u = v

LEMMA InvExcludes == Inv => Exclusive
  <1> SUFFICES ASSUME Inv, NEW m \in Monitors, NEW u \in Threads, NEW v \in Threads,
                      Inside(u, m) > 0, Inside(v, m) > 0
               PROVE  u = v
    BY DEF Exclusive
  <1>1. ASSUME NEW t \in Threads, Inside(t, m) > 0 PROVE owner[m] = t
    <2>1. Holds(t, m) \in Nat /\ (Holds(t, m) > 0 => owner[m] = t)
      BY HoldsIsNat
    <2>2. stack[t] \in Seq(Region) /\ DOMAIN stack[t] = 1..Len(stack[t])
      BY Facts
    <2>3. Regions(t, m) \in Nat
      BY <2>2, CountIsNat DEF Regions, Count, Regioned
    <2>4. Inside(t, m) \in Int
      BY <2>3 DEF Inside
    <2>5. Holds(t, m) >= Inside(t, m)
      BY <2>1, <2>4 DEF Inv, Balance
    <2> QED
      BY <1>1, <2>1, <2>4, <2>5
  <1> QED
    BY <1>1

\* A step is of one thread.
LEMMA OneSteps ==
    ASSUME Inv, NEW t \in Threads,
           \/ EnterUnlocked(t) \/ CallSynchronized(t) \/ MonitorEnter(t)
           \/ Wait(t) \/ Notify(t) \/ NotifyAll(t) \/ Throw(t) \/ Goes(t)
    PROVE  \A u \in Threads \ {t}, m \in Monitors : Inside(u, m)' = Inside(u, m)
  <1>1. stack \in [Threads -> Seq(Region)] /\ want \in [Threads -> Wants]
    BY Facts
  <1>2. \A u \in Threads \ {t} : stack'[u] = stack[u]
    BY <1>1 DEF EnterUnlocked, CallSynchronized, MonitorEnter, Wait, Notify, NotifyAll, Throw,
       Goes, Locked, LeaveRegion, TimesOut, Relock, Catch, CatchAndExit, Unwind
  <1>3. \A u \in Threads \ {t} : want'[u] = want[u]
    BY <1>1 DEF EnterUnlocked, CallSynchronized, MonitorEnter, Wait, Notify, NotifyAll, Throw,
       Goes, Locked, LeaveRegion, TimesOut, Relock, Catch, CatchAndExit, Unwind
  <1> QED
    BY <1>2, <1>3 DEF Inside, Regions, Owned

\* Locks, waits and throws implement Exclusion: a thread gets inside a monitor
\* only when nobody else is, and has left before the next one gets inside.
THEOREM MutualExclusionHolds == Spec => MutualExclusion
  <1> DEFINE in == [m \in Monitors |-> {t \in Threads : Inside(t, m) > 0}]
  <1>1. Init => Guarded!Init
    <2> SUFFICES ASSUME Init PROVE in = [m \in Monitors |-> {}]
      BY DEF Guarded!Init
    <2>1. \A t \in Threads, m \in Monitors : ~(Inside(t, m) > 0)
      <3> SUFFICES ASSUME NEW t \in Threads, NEW m \in Monitors PROVE ~(Inside(t, m) > 0)
        OBVIOUS
      <3>1. Inv
        BY InitInv
      <3>2. owner[m] = None /\ None \notin Threads
        BY ConstantsAssumption DEF Init
      <3>3. stack[t] \in Seq(Region) /\ DOMAIN stack[t] = 1..Len(stack[t])
        BY <3>1, Facts
      <3>4. Regions(t, m) \in Nat
        BY <3>3, CountIsNat DEF Regions, Count, Regioned
      <3>5. Inside(t, m) \in Int /\ leaked[t] = {}
        BY <3>4 DEF Inside, Init
      <3>6. Holds(t, m) = 0
        BY <3>2 DEF Holds
      <3> QED
        BY <3>1, <3>5, <3>6 DEF Inv, Balance
    <2> QED
      BY <2>1
  <1>2. Inv /\ Exclusive /\ Exclusive' /\ [Next]_vars => [Guarded!Next]_in
    <2> SUFFICES ASSUME Inv, Exclusive, Exclusive', [Next]_vars PROVE [Guarded!Next]_in
      OBVIOUS
    <2>1. CASE Next
      <3>1. PICK t \in Threads :
              \/ EnterUnlocked(t) \/ CallSynchronized(t) \/ MonitorEnter(t)
              \/ Wait(t) \/ Notify(t) \/ NotifyAll(t) \/ Throw(t) \/ Goes(t)
        BY <2>1 DEF Next
      <3>2. \A u \in Threads \ {t}, m \in Monitors : Inside(u, m)' = Inside(u, m)
        BY <3>1, OneSteps
      <3>3. in' = [m \in Monitors |-> {u \in Threads : Inside(u, m)' > 0}]
        OBVIOUS
      <3>4. ASSUME NEW m \in Monitors
            PROVE  \/ in'[m] = in[m]
                   \/ in[m] = {} /\ in'[m] = {t}
                   \/ in[m] = {t} /\ in'[m] = {}
        <4>1. \A u \in Threads : /\ u \in in[m] <=> Inside(u, m) > 0
                                 /\ u \in in'[m] <=> Inside(u, m)' > 0
          OBVIOUS
        <4>2. \A u \in Threads \ {t} : u \in in'[m] <=> u \in in[m]
          BY <3>2, <4>1
        <4>3. in[m] \subseteq Threads /\ in'[m] \subseteq Threads
          OBVIOUS
        <4>4. \A u, v \in in[m] : u = v
          BY <4>1, <4>3 DEF Exclusive
        <4>5. \A u, v \in in'[m] : u = v
          BY <4>1, <4>3 DEF Exclusive
        <4> HIDE DEF in
        <4> QED
          BY <4>2, <4>3, <4>4, <4>5
      <3>5. in' \in [Monitors -> SUBSET Threads]
        BY <3>3
      <3> QED
        BY <3>1, <3>4, <3>5 DEF Guarded!Next, Guarded!Step
    <2>2. CASE UNCHANGED vars
      BY <2>2 DEF vars, Inside, Regions
    <2> QED
      BY <2>1, <2>2
  <1>3. Inv => Exclusive
    BY InvExcludes
  <1> QED
    BY <1>1, <1>2, <1>3, InvHolds, PTL DEF Spec, MutualExclusion, Guarded!Spec
=============================================================================
