------------------------- MODULE OperandStackProofs -------------------------
(***************************************************************************)
(* Proofs about OperandStack: TypeOK is inductive, and the frame implements*)
(* SlotStack, for any values and any depth of the stack.                   *)
(***************************************************************************)
EXTENDS OperandStack, FiniteSetTheorems, SequenceTheorems, WellFoundedInduction, TLAPS

-----------------------------------------------------------------------------
(* Induction over the natural numbers, for sets                            *)

LEMMA SetInduction ==
    ASSUME NEW S, 0 \in S, \A n \in Nat : n \in S => n + 1 \in S
    PROVE  Nat \subseteq S
  <1>1. OpToRel(<, Nat) = {ss \in Nat \X Nat : ss[1] < ss[2]}
    BY DEF OpToRel
  <1> DEFINE Less == {ss \in Nat \X Nat : ss[1] < ss[2]}
             T == Nat \ S
  <1>2. IsWellFoundedOn(Less, Nat)
    BY <1>1, NatLessThanWellFounded, Zenon
  <1>3. \A i, j \in Nat : i < j => <<i, j>> \in Less
    OBVIOUS
  <1> SUFFICES ASSUME T # {} PROVE FALSE
    OBVIOUS
  <1> HIDE DEF Less
  <1>4. PICK x \in T : \A y \in T : ~(<<y, x>> \in Less)
    BY <1>2, WFMin, Zenon
  <1>5. x \in Nat /\ x # 0 /\ x - 1 \in Nat /\ x - 1 < x
    BY <1>4
  <1>6. x - 1 \notin T
    BY <1>3, <1>4, <1>5, Zenon
  <1>7. x - 1 + 1 \in S
    BY <1>5, <1>6
  <1> QED
    BY <1>4, <1>5, <1>7

-----------------------------------------------------------------------------
(* Words                                                                   *)

Word == [val : Value, half : {1, 2}]

LEMMA HalvesFacts ==
    ASSUME NEW v \in Value
    PROVE  /\ Halves(v) \in Seq(Word)
           /\ Len(Halves(v)) = IF v \in Big THEN 2 ELSE 1
           /\ Halves(v)[1] = [val |-> v, half |-> 1]
           /\ v \in Big => Halves(v)[2] = [val |-> v, half |-> 2]
  <1>1. [val |-> v, half |-> 1] \in Word /\ [val |-> v, half |-> 2] \in Word
    BY DEF Word
  <1>2. CASE v \in Big
    BY <1>1, <1>2 DEF Halves
  <1>3. CASE v \notin Big
    BY <1>1, <1>3 DEF Halves
  <1> QED
    BY <1>2, <1>3

\* The recursion of WordsOf has a solution.
UpTo(values, n, f) ==
    f = [i \in 0..n |-> IF i = 0 THEN <<>> ELSE f[i - 1] \o Halves(values[i])]

LEMMA UpToExists ==
    ASSUME NEW values
    PROVE  \A n \in Nat : \E f : UpTo(values, n, f)
  <1> DEFINE S == {n \in Nat : \E f : UpTo(values, n, f)}
  <1>1. 0 \in S
    <2> DEFINE f == [i \in 0..0 |-> <<>>]
    <2>1. UpTo(values, 0, f)
      BY DEF UpTo
    <2> QED
      BY <2>1
  <1>2. ASSUME NEW n \in Nat, n \in S PROVE n + 1 \in S
    <2>1. PICK f : UpTo(values, n, f)
      BY <1>2
    <2> DEFINE g == [i \in 0..(n + 1) |-> IF i = n + 1 THEN f[n] \o Halves(values[n + 1]) ELSE f[i]]
    <2>2. \A i \in 0..(n + 1) :
             g[i] = IF i = 0 THEN <<>> ELSE g[i - 1] \o Halves(values[i])
      <3> TAKE i \in 0..(n + 1)
      <3>1. CASE i = n + 1
        <4>1. g[n + 1] = f[n] \o Halves(values[n + 1])
          <5>1. n + 1 \in 0..(n + 1)
            OBVIOUS
          <5> QED
            BY <5>1
        <4>2. g[n] = f[n]
          OBVIOUS
        <4>3. i # 0 /\ i - 1 = n
          BY <3>1
        <4> QED
          BY <3>1, <4>1, <4>2, <4>3
      <3>2. CASE i # n + 1
        <4>1. i \in 0..n /\ g[i] = f[i] /\ (i # 0 => i - 1 \in 0..n /\ g[i - 1] = f[i - 1])
          BY <3>2
        <4>2. f[i] = IF i = 0 THEN <<>> ELSE f[i - 1] \o Halves(values[i])
          BY <2>1, <4>1 DEF UpTo
        <4> QED
          BY <4>1, <4>2
      <3> QED
        BY <3>1, <3>2
    <2>3. g = [i \in 0..(n + 1) |-> g[i]]
      OBVIOUS
    <2> HIDE DEF g
    <2>4. UpTo(values, n + 1, g)
      BY <2>2, <2>3 DEF UpTo
    <2> QED
      BY <2>4
  <1> HIDE DEF S
  <1>3. Nat \subseteq S
    BY <1>1, <1>2, SetInduction
  <1> QED
    BY <1>3 DEF S

\* Two solutions agree as far as both go and the values are the same.
LEMMA UpToAgree ==
    ASSUME NEW s, NEW t, NEW n \in Nat, NEW m \in Nat, NEW f, NEW g, n <= m,
           UpTo(s, n, f), UpTo(t, m, g), \A i \in 1..n : s[i] = t[i]
    PROVE  \A i \in 0..n : f[i] = g[i]
  <1> DEFINE S == {i \in Nat : i <= n => f[i] = g[i]}
  <1>1. 0 \in S
    BY DEF UpTo
  <1>2. ASSUME NEW i \in Nat, i \in S PROVE i + 1 \in S
    <2> SUFFICES ASSUME i + 1 <= n PROVE f[i + 1] = g[i + 1]
      OBVIOUS
    <2>1. f[i] = g[i] /\ s[i + 1] = t[i + 1]
      BY <1>2
    <2>2. f[i + 1] = f[i] \o Halves(s[i + 1])
      <3>1. i + 1 \in 0..n /\ i + 1 # 0 /\ (i + 1) - 1 = i
        OBVIOUS
      <3> QED
        BY <3>1 DEF UpTo
    <2>3. g[i + 1] = g[i] \o Halves(t[i + 1])
      <3>1. i + 1 \in 0..m /\ i + 1 # 0 /\ (i + 1) - 1 = i
        OBVIOUS
      <3> QED
        BY <3>1 DEF UpTo
    <2> QED
      BY <2>1, <2>2, <2>3
  <1> HIDE DEF S
  <1>3. Nat \subseteq S
    BY <1>1, <1>2, SetInduction
  <1> QED
    BY <1>3 DEF S

LEMMA WordsOfUpTo ==
    ASSUME NEW s \in Seq(Value)
    PROVE  \E f : UpTo(s, Len(s), f) /\ WordsOf(s) = f[Len(s)]
  <1> DEFINE F == CHOOSE f : UpTo(s, Len(s), f)
  <1>1. UpTo(s, Len(s), F)
    BY UpToExists
  <1>2. WordsOf(s) = F[Len(s)]
    BY DEF WordsOf, UpTo
  <1> QED
    BY <1>1, <1>2

LEMMA WordsOfEmpty == WordsOf(<<>>) = <<>>
  <1>1. <<>> \in Seq(Value) /\ Len(<<>>) = 0
    OBVIOUS
  <1>2. PICK f : UpTo(<<>>, Len(<<>>), f) /\ WordsOf(<<>>) = f[Len(<<>>)]
    BY <1>1, WordsOfUpTo
  <1> QED
    BY <1>1, <1>2 DEF UpTo

LEMMA WordsOfAppend ==
    ASSUME NEW s \in Seq(Value), NEW v \in Value
    PROVE  WordsOf(s \o <<v>>) = WordsOf(s) \o Halves(v)
  <1> DEFINE t == s \o <<v>>
             n == Len(s)
  <1>1. t \in Seq(Value) /\ Len(t) = n + 1 /\ n \in Nat /\ t[n + 1] = v
        /\ \A i \in 1..n : s[i] = t[i]
    OBVIOUS
  <1> HIDE DEF t, n
  <1>2. PICK f : UpTo(s, n, f) /\ WordsOf(s) = f[n]
    BY WordsOfUpTo DEF n
  <1>3. PICK g : UpTo(t, n + 1, g) /\ WordsOf(t) = g[n + 1]
    BY <1>1, WordsOfUpTo
  <1>4. f[n] = g[n]
    BY <1>1, <1>2, <1>3, UpToAgree
  <1>5. g[n + 1] = g[n] \o Halves(t[n + 1])
    <2>1. n + 1 \in 0..(n + 1) /\ n + 1 # 0 /\ (n + 1) - 1 = n
      BY <1>1
    <2> QED
      BY <1>3, <2>1 DEF UpTo
  <1> QED
    BY <1>1, <1>2, <1>3, <1>4, <1>5 DEF t

\* Every sequence is empty or ends with an element.
LEMMA LastElement ==
    ASSUME NEW s \in Seq(Value), NEW n \in Nat, Len(s) = n + 1
    PROVE  \E r \in Seq(Value), v \in Value : Len(r) = n /\ s = r \o <<v>>
  <1> DEFINE r == SubSeq(s, 1, n)
             v == s[n + 1]
  <1>1. r \in Seq(Value) /\ Len(r) = n /\ v \in Value /\ \A i \in 1..n : r[i] = s[i]
    OBVIOUS
  <1> HIDE DEF r
  <1>2. Len(r \o <<v>>) = Len(s) /\ r \o <<v>> \in Seq(Value)
    BY <1>1
  <1>3. \A i \in 1..Len(s) : s[i] = (r \o <<v>>)[i]
    BY <1>1
  <1>4. s = r \o <<v>>
    BY <1>2, <1>3, SeqEqual
  <1> QED
    BY <1>1, <1>4

LEMMA WordsOfType ==
    \A s \in Seq(Value) : WordsOf(s) \in Seq(Word)
  <1> DEFINE S == {n \in Nat : \A s \in Seq(Value) : Len(s) = n => WordsOf(s) \in Seq(Word)}
  <1>1. 0 \in S
    <2>1. \A s \in Seq(Value) : Len(s) = 0 => s = <<>>
      OBVIOUS
    <2> QED
      BY <2>1, WordsOfEmpty
  <1>2. ASSUME NEW n \in Nat, n \in S PROVE n + 1 \in S
    <2> SUFFICES ASSUME NEW s \in Seq(Value), Len(s) = n + 1
                 PROVE  WordsOf(s) \in Seq(Word)
      OBVIOUS
    <2>1. PICK r \in Seq(Value), v \in Value : Len(r) = n /\ s = r \o <<v>>
      BY LastElement
    <2>2. WordsOf(r) \in Seq(Word) /\ WordsOf(s) = WordsOf(r) \o Halves(v)
      BY <1>2, <2>1, WordsOfAppend
    <2>3. Halves(v) \in Seq(Word)
      BY HalvesFacts
    <2> QED
      BY <2>2, <2>3
  <1> HIDE DEF S
  <1>3. Nat \subseteq S
    BY <1>1, <1>2, SetInduction
  <1> QED
    BY <1>3 DEF S

LEMMA WordsOfConcat ==
    ASSUME NEW s \in Seq(Value)
    PROVE  \A t \in Seq(Value) : WordsOf(s \o t) = WordsOf(s) \o WordsOf(t)
  <1> DEFINE S == {n \in Nat : \A t \in Seq(Value) :
                      Len(t) = n => WordsOf(s \o t) = WordsOf(s) \o WordsOf(t)}
  <1>1. 0 \in S
    <2>1. \A t \in Seq(Value) : Len(t) = 0 => t = <<>>
      OBVIOUS
    <2>2. WordsOf(s) \in Seq(Word) /\ s \o <<>> = s
      BY WordsOfType
    <2>3. WordsOf(s) \o <<>> = WordsOf(s)
      BY <2>2
    <2> QED
      BY <2>1, <2>2, <2>3, WordsOfEmpty
  <1>2. ASSUME NEW n \in Nat, n \in S PROVE n + 1 \in S
    <2> SUFFICES ASSUME NEW t \in Seq(Value), Len(t) = n + 1
                 PROVE  WordsOf(s \o t) = WordsOf(s) \o WordsOf(t)
      OBVIOUS
    <2>1. PICK r \in Seq(Value), v \in Value : Len(r) = n /\ t = r \o <<v>>
      BY LastElement
    <2>2. WordsOf(s \o r) = WordsOf(s) \o WordsOf(r)
      BY <1>2, <2>1
    <2>3. s \o t = (s \o r) \o <<v>>
      BY <2>1, ConcatAssociative
    <2>4. s \o r \in Seq(Value)
      OBVIOUS
    <2>5. WordsOf(s \o t) = WordsOf(s \o r) \o Halves(v)
          /\ WordsOf(t) = WordsOf(r) \o Halves(v)
      BY <2>1, <2>3, <2>4, WordsOfAppend
    <2>6. WordsOf(s) \in Seq(Word) /\ WordsOf(r) \in Seq(Word) /\ Halves(v) \in Seq(Word)
      BY WordsOfType, HalvesFacts
    <2>7. (WordsOf(s) \o WordsOf(r)) \o Halves(v) = WordsOf(s) \o (WordsOf(r) \o Halves(v))
      BY <2>6, ConcatAssociative
    <2> QED
      BY <2>2, <2>5, <2>7
  <1> HIDE DEF S
  <1>3. Nat \subseteq S
    BY <1>1, <1>2, SetInduction
  <1> QED
    BY <1>3 DEF S

LEMMA WordsOfOne ==
    ASSUME NEW v \in Value
    PROVE  WordsOf(<<v>>) = Halves(v)
  <1>1. <<>> \o <<v>> = <<v>> /\ <<>> \in Seq(Value)
    OBVIOUS
  <1>2. WordsOf(<<>> \o <<v>>) = <<>> \o Halves(v)
    BY <1>1, WordsOfAppend, WordsOfEmpty
  <1>3. Halves(v) \in Seq(Word)
    BY HalvesFacts
  <1>4. <<>> \o Halves(v) = Halves(v)
    BY <1>3
  <1> QED
    BY <1>1, <1>2, <1>4

-----------------------------------------------------------------------------
(* Where values end                                                        *)

Ends(u, i) == i = 0 \/ u[i].half = 2 \/ u[i].val \in Small

\* Behind a sequence of words, the two words of a value of two words end at
\* the second, and the word of a small one at it.
LEMMA EndsOfHalves ==
    ASSUME NEW p \in Seq(Word), NEW v \in Value, NEW u, u = p \o Halves(v)
    PROVE  /\ u \in Seq(Word)
           /\ Len(u) = Len(p) + Len(Halves(v))
           /\ \A i \in 1..Len(p) : u[i] = p[i]
           /\ \A i \in (Len(p) + 1)..Len(u) : Ends(u, i) <=> i = Len(u)
  <1> DEFINE h == Halves(v)
  <1>1. /\ h \in Seq(Word)
        /\ Len(h) = IF v \in Big THEN 2 ELSE 1
        /\ h[1] = [val |-> v, half |-> 1]
        /\ v \in Big => h[2] = [val |-> v, half |-> 2]
    BY HalvesFacts
  <1> HIDE DEF h
  <1>2. u \in Seq(Word) /\ Len(u) = Len(p) + Len(h) /\ Len(p) \in Nat /\ Len(h) \in Nat
    BY <1>1 DEF h
  <1>3. \A i \in 1..Len(p) : u[i] = p[i]
    BY <1>1 DEF h
  <1>4. \A j \in 1..Len(h) : u[Len(p) + j] = h[j]
    BY <1>1 DEF h
  <1>5. CASE v \in Big
    <2>1. Len(u) = Len(p) + 2 /\ u[Len(p) + 1].half = 1 /\ u[Len(p) + 1].val = v
          /\ u[Len(p) + 2].half = 2
      BY <1>1, <1>2, <1>4, <1>5
    <2>2. v \notin Small
      BY <1>5, ConstantsAssumption
    <2>3. \A i \in (Len(p) + 1)..Len(u) : i = Len(p) + 1 \/ i = Len(p) + 2
      BY <1>2, <2>1
    <2>4. ~Ends(u, Len(p) + 1) /\ Ends(u, Len(p) + 2)
      BY <1>2, <2>1, <2>2 DEF Ends
    <2>5. \A i \in (Len(p) + 1)..Len(u) : Ends(u, i) <=> i = Len(u)
      BY <1>2, <2>1, <2>3, <2>4
    <2> QED
      BY <1>2, <1>3, <2>5 DEF h
  <1>6. CASE v \notin Big
    <2>1. Len(u) = Len(p) + 1 /\ u[Len(p) + 1].val = v /\ v \in Small
      BY <1>1, <1>2, <1>4, <1>6 DEF Value
    <2>2. Ends(u, Len(p) + 1)
      BY <2>1 DEF Ends
    <2>3. \A i \in (Len(p) + 1)..Len(u) : i = Len(p) + 1
      BY <1>2, <2>1
    <2>4. \A i \in (Len(p) + 1)..Len(u) : Ends(u, i) <=> i = Len(u)
      BY <2>1, <2>2, <2>3
    <2> QED
      BY <1>2, <1>3, <2>4 DEF h
  <1> QED
    BY <1>5, <1>6

\* The words of a sequence of values end with the end of a value.
LEMMA EndsLast ==
    ASSUME NEW s \in Seq(Value)
    PROVE  Ends(WordsOf(s), Len(WordsOf(s)))
  <1>1. CASE s = <<>>
    <2>1. Len(WordsOf(s)) = 0
      BY <1>1, WordsOfEmpty
    <2> QED
      BY <2>1 DEF Ends
  <1>2. CASE s # <<>>
    <2>1. Len(s) - 1 \in Nat /\ Len(s) = (Len(s) - 1) + 1
      BY <1>2
    <2>2. PICK r \in Seq(Value), v \in Value : s = r \o <<v>>
      BY <2>1, LastElement
    <2>3. WordsOf(s) = WordsOf(r) \o Halves(v) /\ WordsOf(r) \in Seq(Word)
      BY <2>2, WordsOfAppend, WordsOfType
    <2> DEFINE u == WordsOf(s)
               p == WordsOf(r)
    <2>4. u = p \o Halves(v) /\ p \in Seq(Word)
      BY <2>3
    <2> HIDE DEF u, p
    <2>5. /\ Len(u) = Len(p) + Len(Halves(v))
          /\ \A i \in (Len(p) + 1)..Len(u) : Ends(u, i) <=> i = Len(u)
      BY <2>4, EndsOfHalves
    <2>6. Len(p) \in Nat
      BY <2>4
    <2>7. Len(Halves(v)) = 1 \/ Len(Halves(v)) = 2
      BY HalvesFacts
    <2>8. Len(u) \in (Len(p) + 1)..Len(u)
      <3> DEFINE h == Len(Halves(v))
      <3>1. h \in {1, 2}
        BY <2>7
      <3> HIDE DEF h
      <3>2. Len(u) = Len(p) + h
        BY <2>5 DEF h
      <3> QED
        BY <2>6, <3>1, <3>2
    <2>9. Ends(u, Len(u))
      BY <2>5, <2>8
    <2> QED
      BY <2>9 DEF u
  <1> QED
    BY <1>1, <1>2

\* The ends in the words of t, behind p: as many as values.
EndsIn(p, t) == {i \in (Len(p) + 1)..Len(p \o WordsOf(t)) : Ends(p \o WordsOf(t), i)}

LEMMA EndsCount ==
    ASSUME NEW p \in Seq(Word)
    PROVE  \A t \in Seq(Value) :
              IsFiniteSet(EndsIn(p, t)) /\ Cardinality(EndsIn(p, t)) = Len(t)
  <1> DEFINE S == {n \in Nat : \A t \in Seq(Value) : Len(t) = n =>
                      IsFiniteSet(EndsIn(p, t)) /\ Cardinality(EndsIn(p, t)) = n}
  <1>1. 0 \in S
    <2> SUFFICES ASSUME NEW t \in Seq(Value), Len(t) = 0
                 PROVE  IsFiniteSet(EndsIn(p, t)) /\ Cardinality(EndsIn(p, t)) = 0
      OBVIOUS
    <2>1. t = <<>>
      OBVIOUS
    <2>2. p \o WordsOf(t) = p
      BY <2>1, WordsOfEmpty
    <2>3. EndsIn(p, t) = {}
      BY <2>2 DEF EndsIn
    <2> QED
      BY <2>3, FS_EmptySet
  <1>2. ASSUME NEW n \in Nat, n \in S PROVE n + 1 \in S
    <2> SUFFICES ASSUME NEW t \in Seq(Value), Len(t) = n + 1
                 PROVE  IsFiniteSet(EndsIn(p, t)) /\ Cardinality(EndsIn(p, t)) = n + 1
      OBVIOUS
    <2>1. PICK r \in Seq(Value), v \in Value : Len(r) = n /\ t = r \o <<v>>
      BY LastElement
    <2> DEFINE w == WordsOf(r)
               q == p \o w
               u == p \o WordsOf(t)
    <2>2. w \in Seq(Word) /\ Halves(v) \in Seq(Word)
      BY WordsOfType, HalvesFacts
    <2>3. q \in Seq(Word) /\ Len(q) = Len(p) + Len(w) /\ Len(w) \in Nat /\ Len(p) \in Nat
      BY <2>2
    <2>4. u = q \o Halves(v)
      <3>1. WordsOf(t) = w \o Halves(v)
        BY <2>1, WordsOfAppend
      <3> DEFINE h == Halves(v)
      <3> HIDE DEF w, h
      <3>2. (p \o w) \o h = p \o (w \o h)
        BY <2>2, ConcatAssociative, SMTT(20) DEF h
      <3> QED
        BY <3>1, <3>2 DEF h
    <2>5. /\ Len(u) = Len(q) + Len(Halves(v))
          /\ \A i \in 1..Len(q) : u[i] = q[i]
          /\ \A i \in (Len(q) + 1)..Len(u) : Ends(u, i) <=> i = Len(u)
      BY <2>3, <2>4, EndsOfHalves, ZenonT(40)
    <2>6. Len(Halves(v)) = 1 \/ Len(Halves(v)) = 2
      BY HalvesFacts
    <2>7. EndsIn(p, r) = {i \in (Len(p) + 1)..Len(q) : Ends(q, i)}
      BY DEF EndsIn
    <2>8. EndsIn(p, t) = {i \in (Len(p) + 1)..Len(u) : Ends(u, i)}
      BY DEF EndsIn
    <2> HIDE DEF w, q, u
    <2>9. \A i \in 1..Len(q) : Ends(u, i) <=> Ends(q, i)
      BY <2>3, <2>5 DEF Ends
    <2>10. Len(q) \in Nat /\ Len(p) <= Len(q) /\ Len(u) \in Nat /\ Len(q) < Len(u)
      <3> DEFINE h == Len(Halves(v))
      <3>1. h \in {1, 2}
        BY <2>6
      <3> HIDE DEF h
      <3>2. Len(u) = Len(q) + h
        BY <2>5 DEF h
      <3> QED
        BY <2>3, <3>1, <3>2
    <2>11. \A i : i \in EndsIn(p, t) <=> i \in EndsIn(p, r) \/ i = Len(u)
      BY <2>3, <2>5, <2>7, <2>8, <2>9, <2>10
    <2>12. EndsIn(p, t) = EndsIn(p, r) \cup {Len(u)} /\ Len(u) \notin EndsIn(p, r)
      BY <2>7, <2>10, <2>11
    <2>13. IsFiniteSet(EndsIn(p, r)) /\ Cardinality(EndsIn(p, r)) = n
      BY <1>2, <2>1
    <2> QED
      <3> DEFINE E == EndsIn(p, r)
      <3>1. IsFiniteSet(E) /\ Cardinality(E) = n /\ Len(u) \notin E
        BY <2>12, <2>13
      <3> HIDE DEF E
      <3>2. IsFiniteSet(E \cup {Len(u)}) /\ Cardinality(E \cup {Len(u)}) = n + 1
        BY <3>1, FS_AddElement
      <3> QED
        BY <2>12, <3>2 DEF E
  <1> HIDE DEF S
  <1>3. Nat \subseteq S
    BY <1>1, <1>2, SetInduction
  <1> QED
    BY <1>3 DEF S

TopEnds(u, n) == {i \in (Len(u) - n + 1)..Len(u) : Ends(u, i)}

\* u is the words of the values s and t: those of t are the upper n words, no
\* value is cut there, and as many values end in them as t has.
AreWords(u, n, s, t) ==
    /\ u \in Seq(Word) /\ Len(u) \in Nat /\ n \in 0..Len(u)
    /\ SubSeq(u, 1, Len(u) - n) = WordsOf(s)
    /\ SubSeq(u, Len(u) - n + 1, Len(u)) = WordsOf(t)
    /\ Ends(u, Len(u) - n)
    /\ Cardinality(TopEnds(u, n)) = Len(t)

LEMMA Split ==
    ASSUME NEW s \in Seq(Value), NEW t \in Seq(Value)
    PROVE  AreWords(WordsOf(s \o t), Len(WordsOf(t)), s, t)
  <1> DEFINE u == WordsOf(s \o t)
             n == Len(WordsOf(t))
  <1> DEFINE p == WordsOf(s)
             w == WordsOf(t)
  <1>1. p \in Seq(Word) /\ w \in Seq(Word) /\ u = p \o w
    BY WordsOfType, WordsOfConcat
  <1>2. Ends(p, Len(p))
    BY EndsLast
  <1>3. Cardinality({i \in (Len(p) + 1)..Len(u) : Ends(u, i)}) = Len(t)
    BY <1>1, EndsCount DEF EndsIn
  <1>4. n = Len(w)
    OBVIOUS
  <1> HIDE DEF p, w, u, n
  <1>5. /\ u \in Seq(Word) /\ Len(u) \in Nat /\ Len(p) \in Nat /\ Len(w) \in Nat
        /\ n = Len(w)
        /\ Len(u) = Len(p) + Len(w)
        /\ \A i \in 1..Len(p) : u[i] = p[i]
        /\ \A i \in 1..Len(w) : u[Len(p) + i] = w[i]
    BY <1>1, <1>4
  <1>6. Len(u) - n = Len(p) /\ Len(u) - n + 1 = Len(p) + 1 /\ n \in 0..Len(u)
    BY <1>5
  <1>7. SubSeq(u, 1, Len(p)) = p
    BY <1>1, <1>5
  <1>8. SubSeq(u, Len(p) + 1, Len(u)) = w
    BY <1>1, <1>5
  <1>9. Ends(u, Len(p))
    BY <1>2, <1>5, SMTT(20) DEF Ends
  <1>10. Cardinality(TopEnds(u, n)) = Len(t)
    BY <1>3, <1>6 DEF TopEnds
  <1> QED
    <2>1. AreWords(u, n, s, t)
      BY <1>1, <1>5, <1>6, <1>7, <1>8, <1>9, <1>10 DEF p, w, AreWords
    <2> QED
      BY <2>1 DEF u, n

-----------------------------------------------------------------------------
(* The upper operands                                                      *)

Top(n) == SubSeq(operands, Depth - n + 1, Depth)
AnyValue == Value \cup {Nullptr}

LEMMA TopFacts ==
    ASSUME TypeOK, ~astray, NEW n \in Nat, junk + n <= Depth
    PROVE  /\ Top(n) \in Seq(Value) /\ Len(Top(n)) = n
           /\ Depth \in Nat /\ n <= Depth
           /\ \A i \in 1..n : Nth(i) \in Value /\ Top(n)[n + 1 - i] = Nth(i)
  <1>1. operands \in Seq(Value) /\ Depth \in Nat /\ junk \in 0..Depth
    BY DEF TypeOK, Depth
  <1>2. n <= Depth
    BY <1>1
  <1>3. Top(n) \in Seq(Value) /\ Len(Top(n)) = n
        /\ \A j \in 1..n : Top(n)[j] = operands[Depth - n + j]
    BY <1>1, <1>2 DEF Top, Depth
  <1>4. \A i \in 1..n : Nth(i) = operands[Depth + 1 - i]
    BY <1>1, <1>2 DEF Nth
  <1>5. ASSUME NEW i \in 1..n
        PROVE  Nth(i) \in Value /\ Top(n)[n + 1 - i] = Nth(i)
    <2>1. Depth + 1 - i \in 1..Depth /\ n + 1 - i \in 1..n
          /\ Depth - n + (n + 1 - i) = Depth + 1 - i
      BY <1>1, <1>2
    <2>2. Top(n)[n + 1 - i] = operands[Depth + 1 - i]
      BY <1>3, <2>1
    <2> QED
      BY <1>1, <1>4, <2>1, <2>2 DEF Depth
  <1> QED
    BY <1>1, <1>2, <1>3, <1>5

LEMMA TopShort ==
    ASSUME TypeOK, ~astray, NEW n \in Nat, junk + n <= Depth
    PROVE  /\ n = 1 => Top(n) = <<Nth(1)>>
           /\ n = 2 => Top(n) = <<Nth(2), Nth(1)>>
           /\ n = 3 => Top(n) = <<Nth(3), Nth(2), Nth(1)>>
           /\ n = 4 => Top(n) = <<Nth(4), Nth(3), Nth(2), Nth(1)>>
  <1>1. /\ Top(n) \in Seq(Value) /\ Len(Top(n)) = n
        /\ \A i \in 1..n : Nth(i) \in Value /\ Top(n)[n + 1 - i] = Nth(i)
    BY TopFacts
  <1>2. CASE n = 1
    <2>1. Nth(1) \in Value /\ Top(n)[1] = Nth(1)
      BY <1>1, <1>2
    <2> QED
      BY <1>1, <1>2, <2>1
  <1>3. CASE n = 2
    <2>1. Nth(1) \in Value /\ Nth(2) \in Value /\ Top(n)[2] = Nth(1) /\ Top(n)[1] = Nth(2)
      BY <1>1, <1>3
    <2> QED
      BY <1>1, <1>3, <2>1
  <1>4. CASE n = 3
    <2>1. Top(n)[3] = Nth(1) /\ Top(n)[2] = Nth(2) /\ Top(n)[1] = Nth(3)
      BY <1>1, <1>4
    <2> QED
      BY <1>1, <1>4, <2>1
  <1>5. CASE n = 4
    <2>1. Top(n)[4] = Nth(1) /\ Top(n)[3] = Nth(2) /\ Top(n)[2] = Nth(3)
          /\ Top(n)[1] = Nth(4)
      BY <1>1, <1>5
    <2> QED
      BY <1>1, <1>5, <2>1
  <1> QED
    BY <1>2, <1>3, <1>4, <1>5

\* What the shapes say of the upper operands.
LEMMA Shapes ==
    /\ Shaped(<<1>>) =>
          junk + 1 <= Depth /\ Nth(1) \in Small
    /\ Shaped(<<2>>) =>
          junk + 1 <= Depth /\ Nth(1) \in Big
    /\ Shaped(<<1, 1>>) =>
          junk + 2 <= Depth /\ Nth(1) \in Small /\ Nth(2) \in Small
    /\ Shaped(<<2, 2>>) =>
          junk + 2 <= Depth /\ Nth(1) \in Big /\ Nth(2) \in Big
    /\ Shaped(<<2, 1>>) =>
          junk + 2 <= Depth /\ Nth(1) \in Big /\ Nth(2) \in Small
    /\ Shaped(<<1, 2>>) =>
          junk + 2 <= Depth /\ Nth(1) \in Small /\ Nth(2) \in Big
    /\ Shaped(<<1, 1, 1>>) =>
          junk + 3 <= Depth /\ Nth(1) \in Small /\ Nth(2) \in Small /\ Nth(3) \in Small
    /\ Shaped(<<1, 1, 1, 1>>) =>
          junk + 4 <= Depth /\ Nth(1) \in Small /\ Nth(2) \in Small /\ Nth(3) \in Small
          /\ Nth(4) \in Small
    /\ Shaped(<<2, 1, 1>>) =>
          junk + 3 <= Depth /\ Nth(1) \in Big /\ Nth(2) \in Small /\ Nth(3) \in Small
    /\ Shaped(<<1, 1, 2>>) =>
          junk + 3 <= Depth /\ Nth(1) \in Small /\ Nth(2) \in Small /\ Nth(3) \in Big
  <1>1. ASSUME Shaped(<< 1 >>)
        PROVE  junk + 1 <= Depth /\ Nth(1) \in Small
    <2>1. PICK h : h = <<1>>
      OBVIOUS
    <2>2. Len(h) = 1 /\ DOMAIN h = 1..1 /\ h[1] = 1
      BY <2>1
    <2>3. Shaped(h)
      BY <1>1, <2>1
    <2> QED
      BY <2>2, <2>3 DEF Shaped
  <1>2. ASSUME Shaped(<< 2 >>)
        PROVE  junk + 1 <= Depth /\ Nth(1) \in Big
    <2>1. PICK h : h = <<2>>
      OBVIOUS
    <2>2. Len(h) = 1 /\ DOMAIN h = 1..1 /\ h[1] = 2
      BY <2>1
    <2>3. Shaped(h)
      BY <1>2, <2>1
    <2> QED
      BY <2>2, <2>3 DEF Shaped
  <1>3. ASSUME Shaped(<<1, 1>>)
        PROVE  junk + 2 <= Depth /\ Nth(1) \in Small /\ Nth(2) \in Small
    <2>1. PICK h : h = <<1, 1>>
      OBVIOUS
    <2>2. Len(h) = 2 /\ DOMAIN h = 1..2 /\ h[1] = 1 /\ h[2] = 1
      BY <2>1
    <2>3. Shaped(h)
      BY <1>3, <2>1
    <2> QED
      BY <2>2, <2>3 DEF Shaped
  <1>4. ASSUME Shaped(<<2, 2>>)
        PROVE  junk + 2 <= Depth /\ Nth(1) \in Big /\ Nth(2) \in Big
    <2>1. PICK h : h = <<2, 2>>
      OBVIOUS
    <2>2. Len(h) = 2 /\ DOMAIN h = 1..2 /\ h[1] = 2 /\ h[2] = 2
      BY <2>1
    <2>3. Shaped(h)
      BY <1>4, <2>1
    <2> QED
      BY <2>2, <2>3 DEF Shaped
  <1>5. ASSUME Shaped(<<2, 1>>)
        PROVE  junk + 2 <= Depth /\ Nth(1) \in Big /\ Nth(2) \in Small
    <2>1. PICK h : h = <<2, 1>>
      OBVIOUS
    <2>2. Len(h) = 2 /\ DOMAIN h = 1..2 /\ h[1] = 2 /\ h[2] = 1
      BY <2>1
    <2>3. Shaped(h)
      BY <1>5, <2>1
    <2> QED
      BY <2>2, <2>3 DEF Shaped
  <1>6. ASSUME Shaped(<<1, 2>>)
        PROVE  junk + 2 <= Depth /\ Nth(1) \in Small /\ Nth(2) \in Big
    <2>1. PICK h : h = <<1, 2>>
      OBVIOUS
    <2>2. Len(h) = 2 /\ DOMAIN h = 1..2 /\ h[1] = 1 /\ h[2] = 2
      BY <2>1
    <2>3. Shaped(h)
      BY <1>6, <2>1
    <2> QED
      BY <2>2, <2>3 DEF Shaped
  <1>7. ASSUME Shaped(<<1, 1, 1>>)
        PROVE  junk + 3 <= Depth /\ Nth(1) \in Small /\ Nth(2) \in Small /\ Nth(3) \in Small
    <2>1. PICK h : h = <<1, 1, 1>>
      OBVIOUS
    <2>2. Len(h) = 3 /\ DOMAIN h = 1..3 /\ h[1] = 1 /\ h[2] = 1 /\ h[3] = 1
      BY <2>1
    <2>3. Shaped(h)
      BY <1>7, <2>1
    <2> QED
      BY <2>2, <2>3 DEF Shaped
  <1>8. ASSUME Shaped(<<1, 1, 1, 1>>)
        PROVE  junk + 4 <= Depth /\ Nth(1) \in Small /\ Nth(2) \in Small
               /\ Nth(3) \in Small /\ Nth(4) \in Small
    <2>1. PICK h : h = <<1, 1, 1, 1>>
      OBVIOUS
    <2>2. Len(h) = 4 /\ DOMAIN h = 1..4 /\ h[1] = 1 /\ h[2] = 1 /\ h[3] = 1 /\ h[4] = 1
      BY <2>1
    <2>3. Shaped(h)
      BY <1>8, <2>1
    <2> QED
      BY <2>2, <2>3 DEF Shaped
  <1>9. ASSUME Shaped(<<2, 1, 1>>)
        PROVE  junk + 3 <= Depth /\ Nth(1) \in Big /\ Nth(2) \in Small /\ Nth(3) \in Small
    <2>1. PICK h : h = <<2, 1, 1>>
      OBVIOUS
    <2>2. Len(h) = 3 /\ DOMAIN h = 1..3 /\ h[1] = 2 /\ h[2] = 1 /\ h[3] = 1
      BY <2>1
    <2>3. Shaped(h)
      BY <1>9, <2>1
    <2> QED
      BY <2>2, <2>3 DEF Shaped
  <1>10. ASSUME Shaped(<<1, 1, 2>>)
        PROVE  junk + 3 <= Depth /\ Nth(1) \in Small /\ Nth(2) \in Small /\ Nth(3) \in Big
    <2>1. PICK h : h = <<1, 1, 2>>
      OBVIOUS
    <2>2. Len(h) = 3 /\ DOMAIN h = 1..3 /\ h[1] = 1 /\ h[2] = 1 /\ h[3] = 2
      BY <2>1
    <2>3. Shaped(h)
      BY <1>10, <2>1
    <2> QED
      BY <2>2, <2>3 DEF Shaped
  <1> QED
    BY <1>1, <1>2, <1>3, <1>4, <1>5, <1>6, <1>7, <1>8, <1>9, <1>10

LEMMA ConcatAny ==
    ASSUME NEW a \in Seq(AnyValue), NEW b \in Seq(AnyValue)
    PROVE  /\ a \o b \in Seq(AnyValue) /\ Len(b) \in Nat
           /\ Len(a \o b) = Len(a) + Len(b)
  OBVIOUS

LEMMA NthAny ==
    ASSUME TypeOK, NEW i \in Nat, i # 0
    PROVE  Nth(i) \in AnyValue
  <1>1. operands \in Seq(AnyValue) /\ Depth \in Nat
    BY DEF TypeOK, AnyValue, Depth
  <1>2. CASE i <= Depth
    <2>1. Depth + 1 - i \in 1..Len(operands)
      BY <1>1, <1>2 DEF Depth
    <2> QED
      BY <1>1, <1>2, <2>1 DEF Nth
  <1>3. CASE ~(i <= Depth)
    BY <1>3 DEF Nth, AnyValue
  <1> QED
    BY <1>2, <1>3

\* The upper n operands are replaced, by values as long as the frame follows
\* the specification.
LEMMA ReplaceKeepsType ==
    ASSUME TypeOK, ~astray, NEW n \in Nat, NEW res \in Seq(AnyValue),
           operands' = Under(n) \o res, junk' \in 0..(Depth - n + Len(res)),
           astray' \in BOOLEAN, ~astray' => res \in Seq(Value)
    PROVE  TypeOK'
  <1>1. operands \in Seq(Value) /\ Depth \in Nat /\ junk \in 0..Depth
    BY DEF TypeOK, Depth
  <1>2. Under(n) \in Seq(Value) /\ Len(Under(n)) = IF n <= Depth THEN Depth - n ELSE 0
    BY <1>1 DEF Under, Depth
  <1>3. Under(n) \in Seq(AnyValue)
    BY <1>2, SeqMonotonic DEF AnyValue
  <1>4. operands' \in Seq(AnyValue) /\ Len(operands') = Len(Under(n)) + Len(res)
        /\ Len(res) \in Nat
    BY <1>3, ConcatAny
  <1>5. junk' \in 0..Len(operands')
    BY <1>1, <1>2, <1>4
  <1>6. ASSUME ~astray' PROVE operands' \in Seq(Value)
    <2>1. res \in Seq(Value) /\ operands' = Under(n) \o res
      BY <1>6
    <2> DEFINE a == Under(n)
    <2>2. a \in Seq(Value)
      BY <1>2
    <2> HIDE DEF a
    <2>3. a \o res \in Seq(Value)
      BY <2>1, <2>2
    <2> QED
      BY <2>1, <2>3 DEF a
  <1> QED
    BY <1>4, <1>5, <1>6 DEF TypeOK, Depth, AnyValue

LEMMA ReplacesKeepsType ==
    ASSUME TypeOK, ~astray, NEW n \in Nat, NEW res \in Seq(Value), Replaces(n, res)
    PROVE  TypeOK'
  <1>1. res \in Seq(AnyValue) /\ Len(res) \in Nat
    BY SeqMonotonic DEF AnyValue
  <1>2. junk \in 0..Depth /\ Depth \in Nat /\ junk + n <= Depth /\ junk' = junk
    BY DEF Replaces, TypeOK, Depth
  <1>3. junk' \in 0..(Depth - n + Len(res))
    BY <1>1, <1>2
  <1>4. operands' = Under(n) \o res /\ astray' = astray /\ astray \in BOOLEAN
    BY DEF Replaces, TypeOK
  <1> QED
    BY <1>1, <1>3, <1>4, ReplaceKeepsType

LEMMA GivesFacts ==
    \A res \in Gives : res \in Seq(Value) /\ Len(res) = 1 /\ \E v \in Value : res = <<v>>
  <1> TAKE res \in Gives
  <1>1. PICK v \in Value : res = <<v>>
    BY DEF Gives
  <1>2. <<v>> \in Seq(Value) /\ Len(<<v>>) = 1
    OBVIOUS
  <1> QED
    BY <1>1, <1>2

-----------------------------------------------------------------------------
(* The operands that the specification has too                             *)

LEMMA SameValues ==
    ASSUME NEW a \in Seq(Value), NEW b \in Seq(Value), Len(a) = Len(b),
           \A i \in 1..Len(a) : a[i] = b[i]
    PROVE  a = b
  OBVIOUS

LEMMA Part ==
    ASSUME NEW o \in Seq(Value), NEW j \in Nat, NEW k \in Nat, j <= k, k <= Len(o)
    PROVE  /\ SubSeq(o, j + 1, k) \in Seq(Value) /\ Len(SubSeq(o, j + 1, k)) = k - j
           /\ \A i \in 1..(k - j) : SubSeq(o, j + 1, k)[i] = o[j + i]
  OBVIOUS

LEMMA Whole ==
    ASSUME NEW a \in Seq(Value), NEW b \in Seq(Value), NEW u \in Seq(Value),
           Len(u) = Len(a) + Len(b),
           \A i \in 1..Len(a) : u[i] = a[i],
           \A i \in 1..Len(b) : u[Len(a) + i] = b[i]
    PROVE  u = a \o b
  <1>1. a \o b \in Seq(Value) /\ Len(a \o b) = Len(u) /\ Len(u) \in Nat /\ Len(a) \in Nat
        /\ Len(b) \in Nat
    OBVIOUS
  <1>2. ASSUME NEW i \in 1..Len(u) PROVE u[i] = (a \o b)[i]
    <2>1. CASE i <= Len(a)
      BY <1>1, <2>1
    <2>2. CASE ~(i <= Len(a))
      <3> DEFINE k == i - Len(a)
      <3>1. k \in 1..Len(b) /\ Len(a) + k = i
        BY <1>1, <2>2
      <3>2. u[Len(a) + k] = b[k]
        BY <3>1
      <3> QED
        BY <1>1, <2>2, <3>1, <3>2
    <2> QED
      BY <2>1, <2>2
  <1> DEFINE v == a \o b
  <1>3. v \in Seq(Value) /\ Len(v) = Len(u) /\ \A i \in 1..Len(u) : u[i] = v[i]
    BY <1>1, <1>2
  <1> HIDE DEF v
  <1>4. u = v
    BY <1>3, SameValues
  <1> QED
    BY <1>4 DEF v

\* x is the values of m and t, and u what they are when t is copied below m.
IsCopied(t, m, x, u) ==
    /\ t \in Seq(Value) /\ m \in Seq(Value) /\ u \in Seq(Value)
    /\ x = m \o t /\ u = t \o (m \o t)

LEMMA Copied10 ==
    ASSUME NEW a \in Value
    PROVE  IsCopied(<<a>>, <<>>, <<a>>, <<a, a>>)
  <1>1. PICK t, m, x, u : t = <<a>> /\ m = <<>> /\ x = <<a>> /\ u = <<a, a>>
    OBVIOUS
  <1>2. t \in Seq(Value) /\ Len(t) = 1 /\ t[1] = a
    BY <1>1
  <1>3. m \in Seq(Value) /\ Len(m) = 0
    BY <1>1
  <1>4. x \in Seq(Value) /\ Len(x) = 1 /\ x[1] = a
    BY <1>1
  <1>5. u \in Seq(Value) /\ Len(u) = 2 /\ u[1] = a /\ u[2] = a
    BY <1>1
  <1>6. x = m \o t
    <2>1. Len(x) = Len(m) + Len(t) /\ Len(m) = 0 /\ Len(t) = 1
      BY <1>2, <1>3, <1>4
    <2>2. \A i \in 1..0 : x[i] = m[i]
      OBVIOUS
    <2>3. \A i \in 1..1 : x[0 + i] = t[i]
      <3>1. \A i \in 1..1 : i = 1
        OBVIOUS
      <3> QED
        BY <1>2, <1>3, <1>4, <3>1
    <2>4. x \in Seq(Value) /\ m \in Seq(Value) /\ t \in Seq(Value)
      BY <1>2, <1>3, <1>4
    <2>5. (\A i \in 1..Len(m) : x[i] = m[i]) /\ \A i \in 1..Len(t) : x[Len(m) + i] = t[i]
      BY <2>1, <2>2, <2>3
    <2> QED
      BY <2>1, <2>4, <2>5, Whole
  <1>7. u = t \o x
    <2>1. Len(u) = Len(t) + Len(x) /\ Len(t) = 1 /\ Len(x) = 1
      BY <1>2, <1>4, <1>5
    <2>2. \A i \in 1..1 : u[i] = t[i]
      <3>1. \A i \in 1..1 : i = 1
        OBVIOUS
      <3> QED
        BY <1>2, <1>4, <1>5, <3>1
    <2>3. \A i \in 1..1 : u[1 + i] = x[i]
      <3>1. \A i \in 1..1 : i = 1
        OBVIOUS
      <3> QED
        BY <1>2, <1>4, <1>5, <3>1
    <2>4. u \in Seq(Value) /\ t \in Seq(Value) /\ x \in Seq(Value)
      BY <1>2, <1>4, <1>5
    <2>5. (\A i \in 1..Len(t) : u[i] = t[i]) /\ \A i \in 1..Len(x) : u[Len(t) + i] = x[i]
      BY <2>1, <2>2, <2>3
    <2> QED
      BY <2>1, <2>4, <2>5, Whole
  <1>8. IsCopied(t, m, x, u)
    BY <1>2, <1>3, <1>5, <1>6, <1>7 DEF IsCopied
  <1> QED
    BY <1>1, <1>8

LEMMA Copied11 ==
    ASSUME NEW a \in Value, NEW c \in Value
    PROVE  IsCopied(<<a>>, <<c>>, <<c, a>>, <<a, c, a>>)
  <1>1. PICK t, m, x, u : t = <<a>> /\ m = <<c>> /\ x = <<c, a>> /\ u = <<a, c, a>>
    OBVIOUS
  <1>2. t \in Seq(Value) /\ Len(t) = 1 /\ t[1] = a
    BY <1>1
  <1>3. m \in Seq(Value) /\ Len(m) = 1 /\ m[1] = c
    BY <1>1
  <1>4. x \in Seq(Value) /\ Len(x) = 2 /\ x[1] = c /\ x[2] = a
    BY <1>1
  <1>5. u \in Seq(Value) /\ Len(u) = 3 /\ u[1] = a /\ u[2] = c /\ u[3] = a
    BY <1>1
  <1>6. x = m \o t
    <2>1. Len(x) = Len(m) + Len(t) /\ Len(m) = 1 /\ Len(t) = 1
      BY <1>2, <1>3, <1>4
    <2>2. \A i \in 1..1 : x[i] = m[i]
      <3>1. \A i \in 1..1 : i = 1
        OBVIOUS
      <3> QED
        BY <1>2, <1>3, <1>4, <3>1
    <2>3. \A i \in 1..1 : x[1 + i] = t[i]
      <3>1. \A i \in 1..1 : i = 1
        OBVIOUS
      <3> QED
        BY <1>2, <1>3, <1>4, <3>1
    <2>4. x \in Seq(Value) /\ m \in Seq(Value) /\ t \in Seq(Value)
      BY <1>2, <1>3, <1>4
    <2>5. (\A i \in 1..Len(m) : x[i] = m[i]) /\ \A i \in 1..Len(t) : x[Len(m) + i] = t[i]
      BY <2>1, <2>2, <2>3
    <2> QED
      BY <2>1, <2>4, <2>5, Whole
  <1>7. u = t \o x
    <2>1. Len(u) = Len(t) + Len(x) /\ Len(t) = 1 /\ Len(x) = 2
      BY <1>2, <1>4, <1>5
    <2>2. \A i \in 1..1 : u[i] = t[i]
      <3>1. \A i \in 1..1 : i = 1
        OBVIOUS
      <3> QED
        BY <1>2, <1>4, <1>5, <3>1
    <2>3. \A i \in 1..2 : u[1 + i] = x[i]
      <3>1. \A i \in 1..2 : i = 1 \/ i = 2
        OBVIOUS
      <3> QED
        BY <1>2, <1>4, <1>5, <3>1
    <2>4. u \in Seq(Value) /\ t \in Seq(Value) /\ x \in Seq(Value)
      BY <1>2, <1>4, <1>5
    <2>5. (\A i \in 1..Len(t) : u[i] = t[i]) /\ \A i \in 1..Len(x) : u[Len(t) + i] = x[i]
      BY <2>1, <2>2, <2>3
    <2> QED
      BY <2>1, <2>4, <2>5, Whole
  <1>8. IsCopied(t, m, x, u)
    BY <1>2, <1>3, <1>5, <1>6, <1>7 DEF IsCopied
  <1> QED
    BY <1>1, <1>8

LEMMA Copied12 ==
    ASSUME NEW a \in Value, NEW c \in Value, NEW d \in Value
    PROVE  IsCopied(<<a>>, <<c, d>>, <<c, d, a>>, <<a, c, d, a>>)
  <1>1. PICK t, m, x, u : t = <<a>> /\ m = <<c, d>> /\ x = <<c, d, a>> /\ u = <<a, c, d, a>>
    OBVIOUS
  <1>2. t \in Seq(Value) /\ Len(t) = 1 /\ t[1] = a
    BY <1>1
  <1>3. m \in Seq(Value) /\ Len(m) = 2 /\ m[1] = c /\ m[2] = d
    BY <1>1
  <1>4. x \in Seq(Value) /\ Len(x) = 3 /\ x[1] = c /\ x[2] = d /\ x[3] = a
    BY <1>1
  <1>5. u \in Seq(Value) /\ Len(u) = 4 /\ u[1] = a /\ u[2] = c /\ u[3] = d /\ u[4] = a
    BY <1>1
  <1>6. x = m \o t
    <2>1. Len(x) = Len(m) + Len(t) /\ Len(m) = 2 /\ Len(t) = 1
      BY <1>2, <1>3, <1>4
    <2>2. \A i \in 1..2 : x[i] = m[i]
      <3>1. \A i \in 1..2 : i = 1 \/ i = 2
        OBVIOUS
      <3> QED
        BY <1>2, <1>3, <1>4, <3>1
    <2>3. \A i \in 1..1 : x[2 + i] = t[i]
      <3>1. \A i \in 1..1 : i = 1
        OBVIOUS
      <3> QED
        BY <1>2, <1>3, <1>4, <3>1
    <2>4. x \in Seq(Value) /\ m \in Seq(Value) /\ t \in Seq(Value)
      BY <1>2, <1>3, <1>4
    <2>5. (\A i \in 1..Len(m) : x[i] = m[i]) /\ \A i \in 1..Len(t) : x[Len(m) + i] = t[i]
      BY <2>1, <2>2, <2>3
    <2> QED
      BY <2>1, <2>4, <2>5, Whole
  <1>7. u = t \o x
    <2>1. Len(u) = Len(t) + Len(x) /\ Len(t) = 1 /\ Len(x) = 3
      BY <1>2, <1>4, <1>5
    <2>2. \A i \in 1..1 : u[i] = t[i]
      <3>1. \A i \in 1..1 : i = 1
        OBVIOUS
      <3> QED
        BY <1>2, <1>4, <1>5, <3>1
    <2>3. \A i \in 1..3 : u[1 + i] = x[i]
      <3>1. \A i \in 1..3 : i = 1 \/ i = 2 \/ i = 3
        OBVIOUS
      <3> QED
        BY <1>2, <1>4, <1>5, <3>1
    <2>4. u \in Seq(Value) /\ t \in Seq(Value) /\ x \in Seq(Value)
      BY <1>2, <1>4, <1>5
    <2>5. (\A i \in 1..Len(t) : u[i] = t[i]) /\ \A i \in 1..Len(x) : u[Len(t) + i] = x[i]
      BY <2>1, <2>2, <2>3
    <2> QED
      BY <2>1, <2>4, <2>5, Whole
  <1>8. IsCopied(t, m, x, u)
    BY <1>2, <1>3, <1>5, <1>6, <1>7 DEF IsCopied
  <1> QED
    BY <1>1, <1>8

LEMMA Copied20 ==
    ASSUME NEW a \in Value, NEW b \in Value
    PROVE  IsCopied(<<a, b>>, <<>>, <<a, b>>, <<a, b, a, b>>)
  <1>1. PICK t, m, x, u : t = <<a, b>> /\ m = <<>> /\ x = <<a, b>> /\ u = <<a, b, a, b>>
    OBVIOUS
  <1>2. t \in Seq(Value) /\ Len(t) = 2 /\ t[1] = a /\ t[2] = b
    BY <1>1
  <1>3. m \in Seq(Value) /\ Len(m) = 0
    BY <1>1
  <1>4. x \in Seq(Value) /\ Len(x) = 2 /\ x[1] = a /\ x[2] = b
    BY <1>1
  <1>5. u \in Seq(Value) /\ Len(u) = 4 /\ u[1] = a /\ u[2] = b /\ u[3] = a /\ u[4] = b
    BY <1>1
  <1>6. x = m \o t
    <2>1. Len(x) = Len(m) + Len(t) /\ Len(m) = 0 /\ Len(t) = 2
      BY <1>2, <1>3, <1>4
    <2>2. \A i \in 1..0 : x[i] = m[i]
      OBVIOUS
    <2>3. \A i \in 1..2 : x[0 + i] = t[i]
      <3>1. \A i \in 1..2 : i = 1 \/ i = 2
        OBVIOUS
      <3> QED
        BY <1>2, <1>3, <1>4, <3>1
    <2>4. x \in Seq(Value) /\ m \in Seq(Value) /\ t \in Seq(Value)
      BY <1>2, <1>3, <1>4
    <2>5. (\A i \in 1..Len(m) : x[i] = m[i]) /\ \A i \in 1..Len(t) : x[Len(m) + i] = t[i]
      BY <2>1, <2>2, <2>3
    <2> QED
      BY <2>1, <2>4, <2>5, Whole
  <1>7. u = t \o x
    <2>1. Len(u) = Len(t) + Len(x) /\ Len(t) = 2 /\ Len(x) = 2
      BY <1>2, <1>4, <1>5
    <2>2. \A i \in 1..2 : u[i] = t[i]
      <3>1. \A i \in 1..2 : i = 1 \/ i = 2
        OBVIOUS
      <3> QED
        BY <1>2, <1>4, <1>5, <3>1
    <2>3. \A i \in 1..2 : u[2 + i] = x[i]
      <3>1. \A i \in 1..2 : i = 1 \/ i = 2
        OBVIOUS
      <3> QED
        BY <1>2, <1>4, <1>5, <3>1
    <2>4. u \in Seq(Value) /\ t \in Seq(Value) /\ x \in Seq(Value)
      BY <1>2, <1>4, <1>5
    <2>5. (\A i \in 1..Len(t) : u[i] = t[i]) /\ \A i \in 1..Len(x) : u[Len(t) + i] = x[i]
      BY <2>1, <2>2, <2>3
    <2> QED
      BY <2>1, <2>4, <2>5, Whole
  <1>8. IsCopied(t, m, x, u)
    BY <1>2, <1>3, <1>5, <1>6, <1>7 DEF IsCopied
  <1> QED
    BY <1>1, <1>8

LEMMA Copied21 ==
    ASSUME NEW a \in Value, NEW b \in Value, NEW c \in Value
    PROVE  IsCopied(<<a, b>>, <<c>>, <<c, a, b>>, <<a, b, c, a, b>>)
  <1>1. PICK t, m, x, u : t = <<a, b>> /\ m = <<c>> /\ x = <<c, a, b>>
        /\ u = <<a, b, c, a, b>>
    OBVIOUS
  <1>2. t \in Seq(Value) /\ Len(t) = 2 /\ t[1] = a /\ t[2] = b
    BY <1>1
  <1>3. m \in Seq(Value) /\ Len(m) = 1 /\ m[1] = c
    BY <1>1
  <1>4. x \in Seq(Value) /\ Len(x) = 3 /\ x[1] = c /\ x[2] = a /\ x[3] = b
    BY <1>1
  <1>5. u \in Seq(Value) /\ Len(u) = 5 /\ u[1] = a /\ u[2] = b /\ u[3] = c /\ u[4] = a
        /\ u[5] = b
    BY <1>1
  <1>6. x = m \o t
    <2>1. Len(x) = Len(m) + Len(t) /\ Len(m) = 1 /\ Len(t) = 2
      BY <1>2, <1>3, <1>4
    <2>2. \A i \in 1..1 : x[i] = m[i]
      <3>1. \A i \in 1..1 : i = 1
        OBVIOUS
      <3> QED
        BY <1>2, <1>3, <1>4, <3>1
    <2>3. \A i \in 1..2 : x[1 + i] = t[i]
      <3>1. \A i \in 1..2 : i = 1 \/ i = 2
        OBVIOUS
      <3> QED
        BY <1>2, <1>3, <1>4, <3>1
    <2>4. x \in Seq(Value) /\ m \in Seq(Value) /\ t \in Seq(Value)
      BY <1>2, <1>3, <1>4
    <2>5. (\A i \in 1..Len(m) : x[i] = m[i]) /\ \A i \in 1..Len(t) : x[Len(m) + i] = t[i]
      BY <2>1, <2>2, <2>3
    <2> QED
      BY <2>1, <2>4, <2>5, Whole
  <1>7. u = t \o x
    <2>1. Len(u) = Len(t) + Len(x) /\ Len(t) = 2 /\ Len(x) = 3
      BY <1>2, <1>4, <1>5
    <2>2. \A i \in 1..2 : u[i] = t[i]
      <3>1. \A i \in 1..2 : i = 1 \/ i = 2
        OBVIOUS
      <3> QED
        BY <1>2, <1>4, <1>5, <3>1
    <2>3. \A i \in 1..3 : u[2 + i] = x[i]
      <3>1. \A i \in 1..3 : i = 1 \/ i = 2 \/ i = 3
        OBVIOUS
      <3> QED
        BY <1>2, <1>4, <1>5, <3>1
    <2>4. u \in Seq(Value) /\ t \in Seq(Value) /\ x \in Seq(Value)
      BY <1>2, <1>4, <1>5
    <2>5. (\A i \in 1..Len(t) : u[i] = t[i]) /\ \A i \in 1..Len(x) : u[Len(t) + i] = x[i]
      BY <2>1, <2>2, <2>3
    <2> QED
      BY <2>1, <2>4, <2>5, Whole
  <1>8. IsCopied(t, m, x, u)
    BY <1>2, <1>3, <1>5, <1>6, <1>7 DEF IsCopied
  <1> QED
    BY <1>1, <1>8

LEMMA Copied22 ==
    ASSUME NEW a \in Value, NEW b \in Value, NEW c \in Value, NEW d \in Value
    PROVE  IsCopied(<<a, b>>, <<c, d>>, <<c, d, a, b>>, <<a, b, c, d, a, b>>)
  <1>1. PICK t, m, x, u : t = <<a, b>> /\ m = <<c, d>> /\ x = <<c, d, a, b>>
        /\ u = <<a, b, c, d, a, b>>
    OBVIOUS
  <1>2. t \in Seq(Value) /\ Len(t) = 2 /\ t[1] = a /\ t[2] = b
    BY <1>1
  <1>3. m \in Seq(Value) /\ Len(m) = 2 /\ m[1] = c /\ m[2] = d
    BY <1>1
  <1>4. x \in Seq(Value) /\ Len(x) = 4 /\ x[1] = c /\ x[2] = d /\ x[3] = a /\ x[4] = b
    BY <1>1
  <1>5. u \in Seq(Value) /\ Len(u) = 6 /\ u[1] = a /\ u[2] = b /\ u[3] = c /\ u[4] = d
        /\ u[5] = a /\ u[6] = b
    BY <1>1
  <1>6. x = m \o t
    <2>1. Len(x) = Len(m) + Len(t) /\ Len(m) = 2 /\ Len(t) = 2
      BY <1>2, <1>3, <1>4
    <2>2. \A i \in 1..2 : x[i] = m[i]
      <3>1. \A i \in 1..2 : i = 1 \/ i = 2
        OBVIOUS
      <3> QED
        BY <1>2, <1>3, <1>4, <3>1
    <2>3. \A i \in 1..2 : x[2 + i] = t[i]
      <3>1. \A i \in 1..2 : i = 1 \/ i = 2
        OBVIOUS
      <3> QED
        BY <1>2, <1>3, <1>4, <3>1
    <2>4. x \in Seq(Value) /\ m \in Seq(Value) /\ t \in Seq(Value)
      BY <1>2, <1>3, <1>4
    <2>5. (\A i \in 1..Len(m) : x[i] = m[i]) /\ \A i \in 1..Len(t) : x[Len(m) + i] = t[i]
      BY <2>1, <2>2, <2>3
    <2> QED
      BY <2>1, <2>4, <2>5, Whole
  <1>7. u = t \o x
    <2>1. Len(u) = Len(t) + Len(x) /\ Len(t) = 2 /\ Len(x) = 4
      BY <1>2, <1>4, <1>5
    <2>2. \A i \in 1..2 : u[i] = t[i]
      <3>1. \A i \in 1..2 : i = 1 \/ i = 2
        OBVIOUS
      <3> QED
        BY <1>2, <1>4, <1>5, <3>1
    <2>3. \A i \in 1..4 : u[2 + i] = x[i]
      <3>1. \A i \in 1..4 : i = 1 \/ i = 2 \/ i = 3 \/ i = 4
        OBVIOUS
      <3> QED
        BY <1>2, <1>4, <1>5, <3>1
    <2>4. u \in Seq(Value) /\ t \in Seq(Value) /\ x \in Seq(Value)
      BY <1>2, <1>4, <1>5
    <2>5. (\A i \in 1..Len(t) : u[i] = t[i]) /\ \A i \in 1..Len(x) : u[Len(t) + i] = x[i]
      BY <2>1, <2>2, <2>3
    <2> QED
      BY <2>1, <2>4, <2>5, Whole
  <1>8. IsCopied(t, m, x, u)
    BY <1>2, <1>3, <1>5, <1>6, <1>7 DEF IsCopied
  <1> QED
    BY <1>1, <1>8


LEMMA Upper ==
    ASSUME NEW o \in Seq(Value), NEW j \in Nat, NEW k \in Nat, j <= k, k <= Len(o)
    PROVE  SubSeq(o, j + 1, Len(o)) = SubSeq(o, j + 1, k) \o SubSeq(o, k + 1, Len(o))
  <1> DEFINE a == SubSeq(o, j + 1, k)
             b == SubSeq(o, k + 1, Len(o))
             u == SubSeq(o, j + 1, Len(o))
  <1>1. a \in Seq(Value) /\ Len(a) = k - j /\ \A i \in 1..(k - j) : a[i] = o[j + i]
    BY Part
  <1>2. Len(o) \in Nat /\ j <= Len(o)
    OBVIOUS
  <1>3. b \in Seq(Value) /\ Len(b) = Len(o) - k
        /\ \A i \in 1..(Len(o) - k) : b[i] = o[k + i]
    BY <1>2, Part
  <1>4. u \in Seq(Value) /\ Len(u) = Len(o) - j
        /\ \A i \in 1..(Len(o) - j) : u[i] = o[j + i]
    BY <1>2, Part
  <1> HIDE DEF a, b, u
  <1>5. Len(u) = Len(a) + Len(b)
    BY <1>1, <1>2, <1>3, <1>4
  <1>6. \A i \in 1..Len(a) : u[i] = a[i]
    BY <1>1, <1>2, <1>4, SMTT(20)
  <1>7. ASSUME NEW i \in 1..Len(b) PROVE u[Len(a) + i] = b[i]
    <2> DEFINE l == k - j + i
    <2>1. l \in 1..(Len(o) - j) /\ j + l = k + i /\ Len(a) + i = l
      BY <1>1, <1>2, <1>3
    <2> HIDE DEF l
    <2> QED
      BY <1>3, <1>4, <2>1
  <1>8. u = a \o b
    BY <1>1, <1>3, <1>4, <1>5, <1>6, <1>7, Whole
  <1> QED
    BY <1>8 DEF a, b, u

LEMMA UpperOfConcat ==
    ASSUME NEW o \in Seq(Value), NEW r \in Seq(Value), NEW j \in Nat, NEW k \in Nat,
           j <= k, k <= Len(o)
    PROVE  SubSeq(SubSeq(o, 1, k) \o r, j + 1, Len(SubSeq(o, 1, k) \o r))
              = SubSeq(o, j + 1, k) \o r
  <1> DEFINE a == SubSeq(o, 1, k)
             b == SubSeq(o, j + 1, k)
  <1>1. a \in Seq(Value) /\ Len(a) = k
    OBVIOUS
  <1>2. b \in Seq(Value) /\ Len(b) = k - j /\ \A i \in 1..(k - j) : b[i] = o[j + i]
    BY Part
  <1>3. \A i \in 1..k : a[i] = o[i]
    OBVIOUS
  <1> HIDE DEF a, b
  <1> DEFINE x == a \o r
             l == SubSeq(x, j + 1, Len(x))
  <1>4. x \in Seq(Value) /\ Len(x) = k + Len(r) /\ Len(r) \in Nat
        /\ (\A i \in 1..k : x[i] = a[i]) /\ \A i \in 1..Len(r) : x[k + i] = r[i]
    BY <1>1
  <1>5. Len(x) \in Nat /\ j <= Len(x)
    <2> HIDE DEF x
    <2> QED
      BY <1>4
  <1> HIDE DEF x
  <1>6. l \in Seq(Value) /\ Len(l) = Len(x) - j
        /\ \A i \in 1..(Len(x) - j) : l[i] = x[j + i]
    BY <1>4, <1>5, Part, SMTT(20)
  <1> HIDE DEF l
  <1>7. Len(l) = Len(b) + Len(r)
    BY <1>2, <1>4, <1>6
  <1>8. \A i \in 1..Len(b) : l[i] = b[i]
    BY <1>2, <1>3, <1>4, <1>6
  <1>9. ASSUME NEW i \in 1..Len(r) PROVE l[Len(b) + i] = r[i]
    <2> DEFINE n == k - j + i
    <2>1. n \in 1..(Len(x) - j) /\ j + n = k + i /\ Len(b) + i = n
      BY <1>2, <1>4
    <2> HIDE DEF n
    <2> QED
      BY <1>4, <1>6, <2>1
  <1>10. l = b \o r
    BY <1>2, <1>6, <1>7, <1>8, <1>9, Whole
  <1> QED
    BY <1>10 DEF a, b, x, l

\* They are those of below, and the upper n ones, which a step may replace.
LEMMA LiveSplit ==
    ASSUME TypeOK, ~astray, NEW n \in Nat, junk + n <= Depth,
           NEW res \in Seq(Value), operands' = Under(n) \o res, junk' = junk
    PROVE  \E s \in Seq(Value) : Live = s \o Top(n) /\ Live' = s \o res
  <1>1. operands \in Seq(Value) /\ Depth \in Nat /\ junk \in Nat /\ Depth = Len(operands)
    BY DEF TypeOK, Depth
  <1> DEFINE k == Depth - n
             s == SubSeq(operands, junk + 1, k)
  <1>2. k \in Nat /\ junk <= k /\ k <= Len(operands)
    BY <1>1
  <1>3. s \in Seq(Value)
    BY <1>1, <1>2, Part
  <1>4. SubSeq(operands, junk + 1, Len(operands)) = s \o SubSeq(operands, k + 1, Len(operands))
    <2> HIDE DEF k
    <2> QED
      BY <1>1, <1>2, Upper
  <1>5. Live = s \o Top(n)
    BY <1>1, <1>4 DEF Live, Top
  <1>6. Live' = SubSeq(operands', junk + 1, Len(operands'))
        /\ operands' = SubSeq(operands, 1, k) \o res
    BY DEF Live, Under, Depth
  <1>7. SubSeq(SubSeq(operands, 1, k) \o res, junk + 1, Len(SubSeq(operands, 1, k) \o res)) = s \o res
    <2> HIDE DEF k
    <2> QED
      BY <1>1, <1>2, UpperOfConcat, ZenonT(40)
  <1> QED
    BY <1>3, <1>5, <1>6, <1>7

-----------------------------------------------------------------------------
(* Steps of SlotStack                                                      *)

LEMMA Associative ==
    /\ \A a, b, c \in Seq(Word) : (a \o b) \o c = a \o (b \o c)
    /\ \A a, b, c \in Seq(Value) : (a \o b) \o c = a \o (b \o c)
  <1>1. ASSUME NEW a \in Seq(Word), NEW b \in Seq(Word), NEW c \in Seq(Word)
        PROVE  (a \o b) \o c = a \o (b \o c)
    BY ConcatAssociative
  <1>2. ASSUME NEW a \in Seq(Value), NEW b \in Seq(Value), NEW c \in Seq(Value)
        PROVE  (a \o b) \o c = a \o (b \o c)
    BY ConcatAssociative
  <1> QED
    BY <1>1, <1>2

\* What the upper values are for SlotStack.
LEMMA Covered ==
    ASSUME NEW s \in Seq(Value), NEW t \in Seq(Value), NEW n,
           n = Len(WordsOf(t)), Live = s \o t
    PROVE  /\ n \in 0..Slots!Depth /\ Slots!Depth \in Nat
           /\ Slots!Values(n, Len(t)) /\ Slots!Boundary(Slots!Depth - n)
           /\ Slots!Below(n) = WordsOf(s) /\ Slots!Over(n) = WordsOf(t)
           /\ Slots!Depth = Len(WordsOf(s)) + n
  <1>1. PICK u : u = WordsOf(s \o t) /\ u = WordsOf(Live)
    OBVIOUS
  <1>2. AreWords(u, n, s, t)
    BY <1>1, Split
  <1>3. /\ Len(u) \in Nat /\ n \in 0..Len(u)
        /\ SubSeq(u, 1, Len(u) - n) = WordsOf(s)
        /\ SubSeq(u, Len(u) - n + 1, Len(u)) = WordsOf(t)
        /\ Ends(u, Len(u) - n)
        /\ Cardinality(TopEnds(u, n)) = Len(t)
    BY <1>2 DEF AreWords
  <1>4. Slots!Depth = Len(u)
    BY <1>1 DEF Slots!Depth
  <1>5. ASSUME NEW i PROVE Slots!Boundary(i) <=> Ends(u, i)
    BY <1>1 DEF Slots!Boundary, Ends
  <1>6. Slots!Boundary(Slots!Depth - n)
    BY <1>3, <1>4, <1>5
  <1>7. Slots!Values(n, Len(t))
    <2>1. TopEnds(u, n) = {i \in (Slots!Depth - n + 1)..Slots!Depth : Slots!Boundary(i)}
      BY <1>4, <1>5 DEF TopEnds
    <2>2. \A S : Slots!Cardinality(S) = Cardinality(S)
      BY DEF Slots!Cardinality, Cardinality
    <2>3. Slots!Cardinality(TopEnds(u, n)) = Len(t)
      BY <1>3, <2>2
    <2> QED
      BY <1>6, <2>1, <2>3, Zenon DEF Slots!Values
  <1>8. Slots!Below(n) = WordsOf(s) /\ Slots!Over(n) = WordsOf(t)
    BY <1>1, <1>3, <1>4 DEF Slots!Below, Slots!Over
  <1>9. Len(SubSeq(u, 1, Len(u) - n)) = Len(u) - n
    BY <1>2, <1>3 DEF AreWords
  <1> QED
    BY <1>3, <1>4, <1>6, <1>7, <1>8, <1>9

\* What replaces them.
LEMMA Replaced ==
    ASSUME NEW s \in Seq(Value), NEW res \in Seq(Value), Live' = s \o res
    PROVE  /\ WordsOf(Live)' = WordsOf(s) \o WordsOf(res)
           /\ WordsOf(Live') = WordsOf(s) \o WordsOf(res)
  <1>1. WordsOf(Live') = WordsOf(s \o res)
    OBVIOUS
  <1> QED
    BY <1>1, WordsOfConcat

LEMMA Pair ==
    \A v, w \in Value : <<v>> \in Seq(Value) /\ <<w>> \in Seq(Value)
    /\ <<v, w>> = <<v>> \o <<w>>
  <1> TAKE v, w \in Value
  <1>1. /\ <<v>> \in Seq(Value) /\ Len(<<v>>) = 1 /\ <<v>>[1] = v
        /\ <<w>> \in Seq(Value) /\ Len(<<w>>) = 1 /\ <<w>>[1] = w
    OBVIOUS
  <1>2. PICK a, b, u : a = <<v>> /\ b = <<w>> /\ u = <<v, w>>
    OBVIOUS
  <1>3. u \in Seq(Value) /\ Len(u) = 2 /\ u[1] = v /\ u[2] = w
    BY <1>2
  <1>4. u = a \o b
    <2>1. Len(u) = Len(a) + Len(b) /\ u[1] = a[1] /\ u[Len(a) + 1] = b[1]
      BY <1>1, <1>2, <1>3
    <2>2. (\A i \in 1..Len(a) : u[i] = a[i]) /\ \A i \in 1..Len(b) : u[Len(a) + i] = b[i]
      <3>1. Len(a) = 1 /\ Len(b) = 1 /\ \A i \in 1..1 : i = 1
        BY <1>1, <1>2
      <3> QED
        BY <2>1, <3>1
    <2>3. a \in Seq(Value) /\ b \in Seq(Value)
      BY <1>1, <1>2
    <2> QED
      BY <1>3, <2>1, <2>2, <2>3, Whole
  <1> QED
    BY <1>1, <1>2, <1>4

LEMMA Lengths ==
    /\ WordsOf(<<>>) = <<>> /\ Len(WordsOf(<<>>)) = 0
    /\ \A v \in Value : /\ WordsOf(<<v>>) = Slots!Words(v)
                        /\ v \in Big => Len(WordsOf(<<v>>)) = 2
                        /\ v \notin Big => Len(WordsOf(<<v>>)) = 1
    /\ \A v, w \in Value \ Big : Len(WordsOf(<<v, w>>)) = 2
  <1>1. WordsOf(<<>>) = <<>> /\ Len(WordsOf(<<>>)) = 0
    BY WordsOfEmpty
  <1>2. ASSUME NEW v \in Value
        PROVE  /\ WordsOf(<<v>>) = Halves(v) /\ Halves(v) \in Seq(Word)
               /\ WordsOf(<<v>>) = Slots!Words(v)
               /\ v \in Big => Len(WordsOf(<<v>>)) = 2
               /\ v \notin Big => Len(WordsOf(<<v>>)) = 1
    <2>1. WordsOf(<<v>>) = Halves(v)
      BY WordsOfOne
    <2>2. Halves(v) = Slots!Words(v)
      BY DEF Halves, Slots!Words
    <2> QED
      BY <2>1, <2>2, HalvesFacts
  <1>3. ASSUME NEW v \in Value, NEW w \in Value, v \notin Big, w \notin Big
        PROVE  Len(WordsOf(<<v, w>>)) = 2
    <2>1. <<v>> \in Seq(Value) /\ <<w>> \in Seq(Value) /\ <<v, w>> = <<v>> \o <<w>>
      BY Pair
    <2>2. WordsOf(<<v, w>>) = WordsOf(<<v>>) \o WordsOf(<<w>>)
      BY <2>1, WordsOfConcat
    <2>3. PICK a, b : a = WordsOf(<<v>>) /\ b = WordsOf(<<w>>)
      OBVIOUS
    <2>4. a \in Seq(Word) /\ b \in Seq(Word) /\ Len(a) = 1 /\ Len(b) = 1
      BY <1>2, <1>3, <2>3
    <2>5. Len(a \o b) = 2
      BY <2>4, SMTT(20)
    <2> QED
      BY <2>2, <2>3, <2>5
  <1> QED
    BY <1>1, <1>2, <1>3

LEMMA ComputeStep ==
    ASSUME TypeOK, ~astray, NEW k \in 0..3, NEW res \in Seq(Value),
           res = <<>> \/ (\E v \in Value : res = <<v>>),
           Replaces(k, res), Computes(k, Len(res))
    PROVE  Slots!Next
  <1>1. junk + k <= Depth /\ operands' = Under(k) \o res /\ junk' = junk
        /\ astray' = astray /\ k \in Nat
    BY DEF Replaces
  <1>2. PICK s \in Seq(Value) : Live = s \o Top(k) /\ Live' = s \o res
    BY <1>1, LiveSplit
  <1>3. PICK t \in Seq(Value) : t = Top(k) /\ Len(t) = k
    BY <1>1, TopFacts
  <1>4. PICK n : n = Len(WordsOf(t))
    OBVIOUS
  <1>5. n \in 0..Slots!Depth /\ Slots!Values(n, k) /\ Slots!Below(n) = WordsOf(s)
    BY <1>2, <1>3, <1>4, Covered
  <1>6. WordsOf(Live)' = Slots!Below(n) \o WordsOf(res)
    BY <1>2, <1>5, Replaced
  <1>7. WordsOf(s) \in Seq(Word)
    BY WordsOfType
  <1>8. /\ Len(res) = 0 \/ Len(res) = 1
        /\ Len(res) = 0 => WordsOf(Live)' = Slots!Below(n)
        /\ Len(res) # 0 => \E v \in Slots!Value : WordsOf(Live)' = Slots!Below(n) \o Slots!Words(v)
    <2>1. CASE res = <<>>
      BY <1>5, <1>6, <1>7, <2>1, Lengths
    <2>2. CASE \E v \in Value : res = <<v>>
      <3>1. PICK v \in Value : res = <<v>>
        BY <2>2
      <3>2. Len(res) = 1 /\ v \in Slots!Value
        BY <3>1 DEF Slots!Value, Value
      <3>3. WordsOf(res) = Slots!Words(v)
        BY <3>1, Lengths
      <3>4. WordsOf(Live)' = Slots!Below(n) \o Slots!Words(v)
        BY <1>6, <3>3
      <3> QED
        BY <3>2, <3>4
    <2> QED
      BY <2>1, <2>2
  <1>9. Slots!Compute(k, Len(res))
    BY <1>5, <1>8 DEF Slots!Compute, Computes
  <1>10. Len(res) \in 0..1
    BY <1>8
  <1> QED
    BY <1>1, <1>9, <1>10 DEF Slots!Next

LEMMA DropStep ==
    ASSUME ~astray, NEW s \in Seq(Value), NEW t \in Seq(Value), NEW k \in 1..2,
           Live = s \o t, Live' = s \o <<>>, Len(WordsOf(t)) = k, Drops(k), astray' = astray
    PROVE  Slots!Next
  <1>1. <<>> \in Seq(Value)
    OBVIOUS
  <1>2. k \in 0..Slots!Depth /\ Slots!Depth \in Nat /\ Slots!Boundary(Slots!Depth - k)
        /\ Slots!Below(k) = WordsOf(s)
    BY Covered
  <1>3. WordsOf(Live)' = WordsOf(s) \o WordsOf(<<>>)
    BY <1>1, Replaced
  <1>4. WordsOf(s) \in Seq(Word)
    BY WordsOfType
  <1>5. WordsOf(Live)' = Slots!Below(k)
    BY <1>2, <1>3, <1>4, Lengths
  <1>6. Slots!Drop(k)
    BY <1>2, <1>5 DEF Slots!Drop, Drops
  <1> QED
    BY <1>6 DEF Slots!Next

LEMMA CopyStep ==
    ASSUME ~astray, NEW s \in Seq(Value), NEW m \in Seq(Value), NEW t \in Seq(Value),
           NEW k \in 1..2, NEW d \in 0..2,
           Live = s \o (m \o t), Live' = s \o (t \o (m \o t)),
           Len(WordsOf(t)) = k, Len(WordsOf(m)) = d, Copies(k, d), astray' = astray
    PROVE  Slots!Next
  <1>1. /\ m \o t \in Seq(Value) /\ s \o m \in Seq(Value)
        /\ Live = (s \o m) \o t /\ t \o (m \o t) \in Seq(Value)
    <2>1. m \o t \in Seq(Value) /\ s \o m \in Seq(Value)
      OBVIOUS
    <2>2. (s \o m) \o t = s \o (m \o t)
      BY Associative, Zenon
    <2>3. t \o (m \o t) \in Seq(Value)
      BY <2>1
    <2> QED
      BY <2>1, <2>2, <2>3
  <1>2. PICK wt, wm, ws : wt = WordsOf(t) /\ wm = WordsOf(m) /\ ws = WordsOf(s)
    OBVIOUS
  <1>3. wt \in Seq(Word) /\ wm \in Seq(Word) /\ ws \in Seq(Word) /\ Len(wt) = k
        /\ Len(wm) = d
    BY <1>2, WordsOfType
  <1>4. WordsOf(m \o t) = wm \o wt
    BY <1>2, WordsOfConcat
  <1>5. PICK n : n = k + d
    OBVIOUS
  <1>6. n = Len(WordsOf(m \o t))
    BY <1>3, <1>4, <1>5
  <1>7. n \in 0..Slots!Depth /\ Slots!Depth \in Nat /\ Slots!Boundary(Slots!Depth - n)
        /\ Slots!Below(n) = ws /\ Slots!Over(n) = wm \o wt
    BY <1>1, <1>2, <1>4, <1>6, Covered
  <1>8. Slots!Boundary(Slots!Depth - k) /\ Slots!Over(k) = wt
    BY <1>1, <1>2, Covered, ZenonT(40)
  <1>9. WordsOf(Live)' = ws \o WordsOf(t \o (m \o t))
    BY <1>1, <1>2, Replaced
  <1>10. WordsOf(t \o (m \o t)) = wt \o (wm \o wt)
    BY <1>1, <1>2, <1>4, WordsOfConcat
  <1>11. ws \o (wt \o (wm \o wt)) = (ws \o wt) \o (wm \o wt)
    <2>1. wm \o wt \in Seq(Word)
      BY <1>3
    <2>2. PICK y : y = wm \o wt
      OBVIOUS
    <2>3. (ws \o wt) \o y = ws \o (wt \o y)
      BY <1>3, <2>1, <2>2, Associative, ZenonT(40)
    <2> QED
      BY <2>2, <2>3
  <1>12. WordsOf(Live)' = Slots!Below(n) \o Slots!Over(k) \o Slots!Over(n)
    BY <1>7, <1>8, <1>9, <1>10, <1>11
  <1>13. Slots!Depth - k - d = Slots!Depth - n /\ k + d <= Slots!Depth
    BY <1>5, <1>7
  <1>14. Slots!Copy(k, d)
    <2>1. Slots!Boundary(Slots!Depth - k - d)
      BY <1>7, <1>13
    <2>2. WordsOf(Live)' = Slots!Below(k + d) \o Slots!Over(k) \o Slots!Over(k + d)
      BY <1>5, <1>12
    <2> QED
      BY <1>8, <1>13, <2>1, <2>2 DEF Slots!Copy, Copies
  <1> QED
    BY <1>14 DEF Slots!Next

LEMMA CompareStep ==
    ASSUME ~astray, NEW s \in Seq(Value), NEW t \in Seq(Value), NEW res \in Small,
           Live = s \o t, Live' = s \o <<res>>, Len(t) = 2,
           Len(WordsOf(t)) \in {2, 4}, inst' = [op |-> "compare"], astray' = astray
    PROVE  Slots!Next
  <1>1. PICK n : n = Len(WordsOf(t))
    OBVIOUS
  <1>2. n \in 0..Slots!Depth /\ Slots!Depth \in Nat /\ Slots!Values(n, 2)
        /\ Slots!Below(n) = WordsOf(s)
    BY <1>1, Covered
  <1>3. res \in Value /\ <<res>> \in Seq(Value)
    BY DEF Value
  <1>4. WordsOf(Live)' = Slots!Below(n) \o Slots!Words(res)
    BY <1>2, <1>3, Replaced, Lengths
  <1>5. n \in 2..4 /\ n <= Slots!Depth
    BY <1>1, <1>2
  <1>6. Slots!Compare
    BY <1>2, <1>4, <1>5 DEF Slots!Compare
  <1> QED
    BY <1>6 DEF Slots!Next

LEMMA InstanceOfStep ==
    ASSUME ~astray, NEW s \in Seq(Value), NEW t \in Seq(Value), NEW res \in Small,
           Live = s \o t, Live' = s \o <<res>>, Len(WordsOf(t)) = 1,
           inst' = [op |-> "instanceof"], astray' = astray
    PROVE  Slots!Next
  <1>1. Slots!Boundary(Slots!Depth - 1) /\ Slots!Below(1) = WordsOf(s)
    BY Covered
  <1>2. res \in Value /\ <<res>> \in Seq(Value)
    BY DEF Value
  <1>3. WordsOf(Live)' = Slots!Below(1) \o Slots!Words(res)
    BY <1>1, <1>2, Replaced, Lengths
  <1>4. Slots!InstanceOf
    BY <1>1, <1>3 DEF Slots!InstanceOf
  <1> QED
    BY <1>4 DEF Slots!Next

LEMMA CatchStep ==
    ASSUME ~astray, NEW res \in Small, Live' = <<res>>, inst' = [op |-> "catch"], astray' = astray
    PROVE  Slots!Next
  <1>1. res \in Value
    BY DEF Value
  <1>2. WordsOf(Live') = Slots!Words(res)
    BY <1>1, Lengths
  <1>3. Slots!Catch
    BY <1>2 DEF Slots!Catch
  <1> QED
    BY <1>3 DEF Slots!Next

LEMMA FirstWord ==
    /\ \A h, w \in Seq(Word) : Len(h) = 2 =>
          /\ (h \o w)[1] = h[1] /\ Len(h \o w) = 2 + Len(w) /\ Len(w) \in Nat
    /\ \A u \in Seq(Word) : \A n \in 1..Len(u) :
          /\ SubSeq(u, Len(u) - n + 1, Len(u))[1] = u[Len(u) - n + 1]
          /\ Len(u) - n + 1 # 0
  <1>1. ASSUME NEW h \in Seq(Word), NEW w \in Seq(Word), Len(h) = 2
        PROVE  /\ (h \o w)[1] = h[1] /\ Len(h \o w) = 2 + Len(w) /\ Len(w) \in Nat
    <2>1. Len(h) \in Nat /\ Len(w) \in Nat /\ 1 \in 1..(Len(h) + Len(w))
      BY <1>1
    <2>2. /\ Len(h \o w) = Len(h) + Len(w)
          /\ \A i \in 1..(Len(h) + Len(w)) :
                (h \o w)[i] = IF i <= Len(h) THEN h[i] ELSE w[i - Len(h)]
      BY ConcatProperties
    <2> QED
      BY <1>1, <2>1, <2>2
  <1>2. ASSUME NEW u \in Seq(Word), NEW n \in 1..Len(u)
        PROVE  /\ SubSeq(u, Len(u) - n + 1, Len(u))[1] = u[Len(u) - n + 1]
               /\ Len(u) - n + 1 # 0
    OBVIOUS
  <1> QED
    BY <1>1, <1>2

\* The first word of a value of two words ends none.
LEMMA FirstHalf ==
    ASSUME NEW s \in Seq(Value), NEW b \in Big, NEW r \in Seq(Value), NEW t \in Seq(Value),
           t = <<b>> \o r, Live = s \o t, NEW n, n = Len(WordsOf(t))
    PROVE  ~Slots!Boundary(Slots!Depth - n + 1) /\ n \in 1..Slots!Depth
           /\ Slots!Depth \in Nat
  <1>1. b \in Value /\ <<b>> \in Seq(Value)
    BY DEF Value
  <1>2. PICK h, w : h = Halves(b) /\ w = WordsOf(r)
    OBVIOUS
  <1>3. /\ h \in Seq(Word) /\ w \in Seq(Word) /\ Len(h) = 2
        /\ h[1] = [val |-> b, half |-> 1]
    BY <1>1, <1>2, HalvesFacts, WordsOfType
  <1>4. WordsOf(t) = h \o w
    BY <1>1, <1>2, WordsOfConcat, WordsOfOne
  <1>5. PICK o : o = h \o w
    OBVIOUS
  <1>6. o[1] = [val |-> b, half |-> 1] /\ Len(o) = 2 + Len(w) /\ Len(w) \in Nat
    BY <1>3, <1>5, FirstWord
  <1>7. n = Len(o) /\ n \in 0..Slots!Depth /\ Slots!Depth \in Nat /\ Slots!Over(n) = o
    BY <1>4, <1>5, Covered
  <1>8. PICK u : u = WordsOf(Live) /\ u = WordsOf(s \o t)
    OBVIOUS
  <1>9. Slots!Depth = Len(u) /\ SubSeq(u, Len(u) - n + 1, Len(u)) = o
    BY <1>7, <1>8 DEF Slots!Depth, Slots!Over
  <1>10. u \in Seq(Word) /\ n \in 1..Len(u)
    <2>1. s \o t \in Seq(Value)
      OBVIOUS
    <2>2. u \in Seq(Word)
      BY <1>8, <2>1, WordsOfType
    <2>3. Len(u) \in Nat /\ n \in 0..Len(u) /\ n # 0
      BY <1>6, <1>7, <1>9
    <2>4. n \in 1..Len(u)
      BY <2>3
    <2> QED
      BY <2>2, <2>4
  <1>11. u[Len(u) - n + 1] = [val |-> b, half |-> 1] /\ Len(u) - n + 1 # 0
    BY <1>6, <1>9, <1>10, FirstWord
  <1>12. ~Slots!Boundary(Len(u) - n + 1)
    <2>1. PICK i : i = Len(u) - n + 1
      OBVIOUS
    <2>2. u[i].val = b /\ u[i].half = 1 /\ b \notin Small /\ i # 0
      BY <1>11, <2>1, ConstantsAssumption
    <2>3. ~Slots!Boundary(i)
      BY <1>8, <2>2 DEF Slots!Boundary
    <2> QED
      BY <2>1, <2>3
  <1> QED
    BY <1>7, <1>9, <1>10, <1>12

LEMMA LastLive ==
    ASSUME NEW a \in Seq(Value), NEW v \in Value, operands' = a \o <<v>>, junk' = Len(a)
    PROVE  Live' = <<v>>
  <1>1. <<v>> \in Seq(Value) /\ Len(<<v>>) = 1 /\ <<v>>[1] = v
    OBVIOUS
  <1>2. PICK o : o = a \o <<v>>
    OBVIOUS
  <1>3. o \in Seq(Value) /\ Len(o) = Len(a) + 1 /\ Len(a) \in Nat /\ o[Len(a) + 1] = v
    BY <1>1, <1>2
  <1>4. PICK l : l = SubSeq(o, Len(a) + 1, Len(o))
    OBVIOUS
  <1>5. l \in Seq(Value) /\ Len(l) = 1 /\ l[1] = v
    BY <1>3, <1>4
  <1>6. l = <<v>>
    <2>1. \A i \in 1..Len(l) : l[i] = <<v>>[i]
      BY <1>1, <1>5
    <2> QED
      BY <1>1, <1>5, <2>1, SameValues
  <1>7. Live' = SubSeq(o, Len(a) + 1, Len(o))
    BY <1>2 DEF Live, Depth
  <1> QED
    BY <1>4, <1>6, <1>7

-----------------------------------------------------------------------------
(* Instructions                                                            *)

\* One that computes.
LEMMA Computing ==
    ASSUME TypeOK, ~astray, NEW k \in 0..3, NEW res \in {<<>>} \cup Gives,
           Replaces(k, res), Computes(k, Len(res))
    PROVE  TypeOK' /\ Slots!Next
  <1>1. res \in Seq(Value) /\ (res = <<>> \/ \E v \in Value : res = <<v>>)
    <2>1. CASE res = <<>>
      BY <2>1
    <2>2. CASE res \in Gives
      BY <2>2, GivesFacts
    <2> QED
      BY <2>1, <2>2
  <1>2. TypeOK'
    BY <1>1, ReplacesKeepsType
  <1>3. Slots!Next
    BY <1>1, ComputeStep
  <1> QED
    BY <1>2, <1>3

LEMMA ComputingSteps ==
    ASSUME TypeOK, ~astray,
           Push \/ Consume \/ Unary \/ Operator \/ ConsumeTwo \/ ArrayStore \/ Invoke
    PROVE  TypeOK' /\ Slots!Next
  <1>1. Len(<<>>) = 0 /\ <<>> \in {<<>>} \cup Gives
    OBVIOUS
  <1>2. CASE Push
    <2>1. PICK res \in Gives : Computes(0, 1) /\ Replaces(0, res)
      BY <1>2 DEF Push
    <2>2. Len(res) = 1
      BY GivesFacts
    <2>3. Computes(0, Len(res)) /\ res \in {<<>>} \cup Gives /\ 0 \in 0..3
      BY <2>1, <2>2
    <2> QED
      BY <2>1, <2>3, Computing
  <1>3. CASE Consume
    BY <1>1, <1>3, Computing DEF Consume
  <1>4. CASE Unary
    <2>1. PICK res \in Gives : Computes(1, 1) /\ Replaces(1, res)
      BY <1>4 DEF Unary
    <2>2. Len(res) = 1
      BY GivesFacts
    <2>3. Computes(1, Len(res)) /\ res \in {<<>>} \cup Gives /\ 1 \in 0..3
      BY <2>1, <2>2
    <2> QED
      BY <2>1, <2>3, Computing
  <1>5. CASE Operator
    <2>1. PICK res \in Gives : Computes(2, 1) /\ Replaces(2, res)
      BY <1>5 DEF Operator
    <2>2. Len(res) = 1
      BY GivesFacts
    <2>3. Computes(2, Len(res)) /\ res \in {<<>>} \cup Gives /\ 2 \in 0..3
      BY <2>1, <2>2
    <2> QED
      BY <2>1, <2>3, Computing
  <1>6. CASE ConsumeTwo
    BY <1>1, <1>6, Computing DEF ConsumeTwo
  <1>7. CASE ArrayStore
    BY <1>1, <1>7, Computing DEF ArrayStore
  <1>8. CASE Invoke
    BY <1>8, Computing DEF Invoke
  <1> QED
    BY <1>2, <1>3, <1>4, <1>5, <1>6, <1>7, <1>8

\* One that moves upper operands about and keeps to the specification.
LEMMA Moving ==
    ASSUME TypeOK, ~astray, NEW n \in Nat, NEW res \in Seq(Value), junk + n <= Depth,
           operands' = Under(n) \o res, junk' = junk, astray' = astray
    PROVE  /\ TypeOK'
           /\ \E s \in Seq(Value) : Live = s \o Top(n) /\ Live' = s \o res
  <1>1. TypeOK'
    <2>1. res \in Seq(AnyValue) /\ Len(res) \in Nat
      BY SeqMonotonic DEF AnyValue
    <2>2. junk \in 0..Depth /\ Depth \in Nat
      BY DEF TypeOK, Depth
    <2>3. junk' \in 0..(Depth - n + Len(res))
      BY <2>1, <2>2
    <2>4. astray' \in BOOLEAN
      BY DEF TypeOK
    <2> QED
      BY <2>1, <2>3, <2>4, ReplaceKeepsType
  <1> QED
    BY <1>1, LiveSplit

\* One that drops the upper n operands.
LEMMA Dropping ==
    ASSUME TypeOK, ~astray, NEW n \in Nat, Replaces(n, <<>>), NEW k \in 1..2,
           Len(WordsOf(Top(n))) = k, Drops(k)
    PROVE  TypeOK' /\ Slots!Next
  <1>1. /\ junk + n <= Depth /\ operands' = Under(n) \o <<>> /\ junk' = junk
        /\ astray' = astray
        /\ <<>> \in Seq(Value)
    BY DEF Replaces
  <1>2. PICK s \in Seq(Value) : TypeOK' /\ Live = s \o Top(n) /\ Live' = s \o <<>>
    BY <1>1, Moving
  <1>3. PICK t \in Seq(Value) : t = Top(n)
    BY <1>1, TopFacts
  <1>4. Slots!Next
    BY <1>1, <1>2, <1>3, DropStep
  <1> QED
    BY <1>2, <1>4

\* One that copies the upper operands, t, below the next ones, m.
LEMMA Copying ==
    ASSUME TypeOK, ~astray, NEW n \in Nat, junk + n <= Depth, NEW t, NEW m, NEW res,
           IsCopied(t, m, Top(n), res), operands' = Under(n) \o res,
           Copies(Len(WordsOf(t)), Len(WordsOf(m))),
           Len(WordsOf(t)) \in 1..2, Len(WordsOf(m)) \in 0..2,
           junk' = junk, astray' = astray
    PROVE  TypeOK' /\ Slots!Next
  <1>1. /\ m \in Seq(Value) /\ t \in Seq(Value) /\ res \in Seq(Value)
        /\ Top(n) = m \o t /\ res = t \o (m \o t)
    BY DEF IsCopied
  <1>2. PICK s \in Seq(Value) : TypeOK' /\ Live = s \o Top(n) /\ Live' = s \o res
    BY <1>1, Moving
  <1>3. Live = s \o (m \o t) /\ Live' = s \o (t \o (m \o t))
    BY <1>1, <1>2
  <1>4. Slots!Next
    BY <1>1, <1>3, CopyStep
  <1> QED
    BY <1>2, <1>4

\* The top operand, or the two top ones, are one or two words.
LEMMA TopWords ==
    ASSUME TypeOK, ~astray
    PROVE  /\ Shaped(<<1>>) => Len(WordsOf(Top(1))) = 1
           /\ Shaped(<<2>>) => Len(WordsOf(Top(1))) = 2
           /\ Shaped(<<1, 1>>) => Len(WordsOf(Top(2))) = 2
           /\ Small \subseteq Value /\ Big \subseteq Value /\ Small \cap Big = {}
  <1>1. Small \subseteq Value /\ Big \subseteq Value /\ Small \cap Big = {}
    BY ConstantsAssumption DEF Value
  <1>2. ASSUME Shaped(<< 1 >>) PROVE Len(WordsOf(Top(1))) = 1
    <2>1. junk + 1 <= Depth /\ Nth(1) \in Small
      BY <1>2, Shapes
    <2>2. Top(1) = <<Nth(1)>>
      BY <2>1, TopShort
    <2> QED
      BY <1>1, <2>1, <2>2, Lengths
  <1>3. ASSUME Shaped(<< 2 >>) PROVE Len(WordsOf(Top(1))) = 2
    <2>1. junk + 1 <= Depth /\ Nth(1) \in Big
      BY <1>3, Shapes
    <2>2. Top(1) = <<Nth(1)>>
      BY <2>1, TopShort
    <2> QED
      BY <1>1, <2>1, <2>2, Lengths
  <1>4. ASSUME Shaped(<<1, 1>>) PROVE Len(WordsOf(Top(2))) = 2
    <2>1. junk + 2 <= Depth /\ Nth(1) \in Small /\ Nth(2) \in Small
      BY <1>4, Shapes
    <2>2. Top(2) = <<Nth(2), Nth(1)>>
      BY <2>1, TopShort
    <2>3. /\ Nth(2) \in Value /\ Nth(1) \in Value /\ Nth(2) \notin Big /\ Nth(1) \notin Big
      BY <1>1, <2>1
    <2> QED
      BY <2>2, <2>3, Lengths
  <1> QED
    BY <1>1, <1>2, <1>3, <1>4

LEMMA DropSteps ==
    ASSUME TypeOK, ~astray, Pop \/ Pop2
    PROVE  TypeOK' /\ Slots!Next
  <1>1. CASE Pop
    <2>1. Drops(1) /\ Replaces(1, <<>>) /\ Len(WordsOf(Top(1))) = 1
      BY <1>1, TopWords DEF Pop
    <2> QED
      BY <2>1, Dropping
  <1>2. CASE Pop2
    <2>1. Drops(2) /\ (Shaped(<<2>>) \/ Shaped(<<1, 1>>))
      BY <1>2 DEF Pop2
    <2>2. CASE Shaped(<<2>>)
      <3>1. Nth(1) \in Big
        BY <2>2, Shapes
      <3>2. Replaces(1, <<>>) /\ Len(WordsOf(Top(1))) = 2
        BY <1>2, <2>2, <3>1, TopWords DEF Pop2
      <3> QED
        BY <2>1, <3>2, Dropping
    <2>3. CASE Shaped(<<1, 1>>)
      <3>1. Nth(1) \notin Big
        BY <2>3, Shapes, ConstantsAssumption
      <3>2. Replaces(2, <<>>) /\ Len(WordsOf(Top(2))) = 2
        BY <1>2, <2>3, <3>1, TopWords DEF Pop2
      <3> QED
        BY <2>1, <3>2, Dropping
    <2> QED
      BY <2>1, <2>2, <2>3
  <1> QED
    BY <1>1, <1>2

\* One of those whose upper operands have the shape given.
LEMMA DupStep ==
    ASSUME TypeOK, ~astray, Dup
    PROVE  TypeOK' /\ Slots!Next
  <1>1. Copies(1, 0) /\ (Shaped(<<1>>))
    BY DEF Dup
  <1>2. CASE Shaped(<<1>>)
    <2>1. junk + 1 <= Depth /\ Nth(1) \in Small
      BY <1>2, Shapes
    <2>2. Nth(1) \in Value /\ Nth(1) \notin Big
      BY <2>1, TopWords
    <2>3. Replaces(1, <<Nth(1), Nth(1)>>)
      BY <1>2, <2>2 DEF Dup
    <2>4. operands' = Under(1) \o <<Nth(1), Nth(1)>> /\ junk' = junk /\ astray' = astray
      BY <2>3 DEF Replaces
    <2>5. Top(1) = <<Nth(1)>>
      BY <2>1, TopShort
    <2>6. IsCopied(<<Nth(1)>>, <<>>, Top(1),
                   <<Nth(1), Nth(1)>>)
      BY <2>2, <2>5, Copied10
    <2>7. Len(WordsOf(<<Nth(1)>>)) = 1 /\ Len(WordsOf(<<>>)) = 0
      BY <2>2, Lengths
    <2>8. Copies(Len(WordsOf(<<Nth(1)>>)), Len(WordsOf(<<>>)))
      BY <1>1, <2>7, Zenon
    <2>9. Len(WordsOf(<<Nth(1)>>)) \in 1..2 /\ Len(WordsOf(<<>>)) \in 0..2
      BY <2>7
    <2> QED
      BY <2>1, <2>4, <2>6, <2>8, <2>9, Copying
  <1> QED
    BY <1>1, <1>2

LEMMA DupX1Step ==
    ASSUME TypeOK, ~astray, DupX1
    PROVE  TypeOK' /\ Slots!Next
  <1>1. Copies(1, 1) /\ (Shaped(<<1, 1>>))
    BY DEF DupX1
  <1>2. CASE Shaped(<<1, 1>>)
    <2>1. junk + 2 <= Depth /\ Nth(1) \in Small /\ Nth(2) \in Small
      BY <1>2, Shapes
    <2>2. Nth(1) \in Value /\ Nth(1) \notin Big /\ Nth(2) \in Value /\ Nth(2) \notin Big
      BY <2>1, TopWords
    <2>3. Replaces(2, <<Nth(1), Nth(2), Nth(1)>>)
      BY <1>2, <2>2 DEF DupX1
    <2>4. operands' = Under(2) \o <<Nth(1), Nth(2), Nth(1)>> /\ junk' = junk
          /\ astray' = astray
      BY <2>3 DEF Replaces
    <2>5. Top(2) = <<Nth(2), Nth(1)>>
      BY <2>1, TopShort
    <2>6. IsCopied(<<Nth(1)>>, <<Nth(2)>>, Top(2),
                   <<Nth(1), Nth(2), Nth(1)>>)
      BY <2>2, <2>5, Copied11
    <2>7. Len(WordsOf(<<Nth(1)>>)) = 1 /\ Len(WordsOf(<<Nth(2)>>)) = 1
      BY <2>2, Lengths
    <2>8. Copies(Len(WordsOf(<<Nth(1)>>)), Len(WordsOf(<<Nth(2)>>)))
      BY <1>1, <2>7, Zenon
    <2>9. Len(WordsOf(<<Nth(1)>>)) \in 1..2 /\ Len(WordsOf(<<Nth(2)>>)) \in 0..2
      BY <2>7
    <2> QED
      BY <2>1, <2>4, <2>6, <2>8, <2>9, Copying
  <1> QED
    BY <1>1, <1>2

LEMMA Dup2Step ==
    ASSUME TypeOK, ~astray, Dup2
    PROVE  TypeOK' /\ Slots!Next
  <1>1. Copies(2, 0) /\ (Shaped(<<2>>) \/ Shaped(<<1, 1>>))
    BY DEF Dup2
  <1>2. CASE Shaped(<<2>>)
    <2>1. junk + 1 <= Depth /\ Nth(1) \in Big
      BY <1>2, Shapes
    <2>2. Nth(1) \in Value /\ Nth(1) \in Big
      BY <2>1, TopWords
    <2>3. Replaces(1, <<Nth(1), Nth(1)>>)
      BY <1>2, <2>2 DEF Dup2
    <2>4. operands' = Under(1) \o <<Nth(1), Nth(1)>> /\ junk' = junk /\ astray' = astray
      BY <2>3 DEF Replaces
    <2>5. Top(1) = <<Nth(1)>>
      BY <2>1, TopShort
    <2>6. IsCopied(<<Nth(1)>>, <<>>, Top(1),
                   <<Nth(1), Nth(1)>>)
      BY <2>2, <2>5, Copied10
    <2>7. Len(WordsOf(<<Nth(1)>>)) = 2 /\ Len(WordsOf(<<>>)) = 0
      BY <2>2, Lengths
    <2>8. Copies(Len(WordsOf(<<Nth(1)>>)), Len(WordsOf(<<>>)))
      BY <1>1, <2>7, Zenon
    <2>9. Len(WordsOf(<<Nth(1)>>)) \in 1..2 /\ Len(WordsOf(<<>>)) \in 0..2
      BY <2>7
    <2> QED
      BY <2>1, <2>4, <2>6, <2>8, <2>9, Copying
  <1>3. CASE Shaped(<<1, 1>>)
    <2>1. junk + 2 <= Depth /\ Nth(1) \in Small /\ Nth(2) \in Small
      BY <1>3, Shapes
    <2>2. Nth(1) \in Value /\ Nth(1) \notin Big /\ Nth(2) \in Value /\ Nth(2) \notin Big
      BY <2>1, TopWords
    <2>3. Replaces(2, <<Nth(2), Nth(1), Nth(2), Nth(1)>>)
      BY <1>3, <2>2 DEF Dup2
    <2>4. operands' = Under(2) \o <<Nth(2), Nth(1), Nth(2), Nth(1)>> /\ junk' = junk
          /\ astray' = astray
      BY <2>3 DEF Replaces
    <2>5. Top(2) = <<Nth(2), Nth(1)>>
      BY <2>1, TopShort
    <2>6. IsCopied(<<Nth(2), Nth(1)>>, <<>>, Top(2),
                   <<Nth(2), Nth(1), Nth(2), Nth(1)>>)
      BY <2>2, <2>5, Copied20
    <2>7. Len(WordsOf(<<Nth(2), Nth(1)>>)) = 2 /\ Len(WordsOf(<<>>)) = 0
      BY <2>2, Lengths
    <2>8. Copies(Len(WordsOf(<<Nth(2), Nth(1)>>)), Len(WordsOf(<<>>)))
      BY <1>1, <2>7, Zenon
    <2>9. Len(WordsOf(<<Nth(2), Nth(1)>>)) \in 1..2 /\ Len(WordsOf(<<>>)) \in 0..2
      BY <2>7
    <2> QED
      BY <2>1, <2>4, <2>6, <2>8, <2>9, Copying
  <1> QED
    BY <1>1, <1>2, <1>3

LEMMA Dup2X1Step ==
    ASSUME TypeOK, ~astray, Dup2X1
    PROVE  TypeOK' /\ Slots!Next
  <1>1. Copies(2, 1) /\ (Shaped(<<1, 1, 1>>) \/ Shaped(<<2, 1>>))
    BY DEF Dup2X1
  <1>2. CASE Shaped(<<1, 1, 1>>)
    <2>1. junk + 3 <= Depth /\ Nth(1) \in Small /\ Nth(2) \in Small /\ Nth(3) \in Small
      BY <1>2, Shapes
    <2>2. Nth(1) \in Value /\ Nth(1) \notin Big /\ Nth(2) \in Value /\ Nth(2) \notin Big
          /\ Nth(3) \in Value /\ Nth(3) \notin Big
      BY <2>1, TopWords
    <2>3. Replaces(3, <<Nth(2), Nth(1), Nth(3), Nth(2), Nth(1)>>)
      BY <1>2, <2>2 DEF Dup2X1
    <2>4. operands' = Under(3) \o <<Nth(2), Nth(1), Nth(3), Nth(2), Nth(1)>>
          /\ junk' = junk /\ astray' = astray
      BY <2>3 DEF Replaces
    <2>5. Top(3) = <<Nth(3), Nth(2), Nth(1)>>
      BY <2>1, TopShort
    <2>6. IsCopied(<<Nth(2), Nth(1)>>, <<Nth(3)>>, Top(3),
                   <<Nth(2), Nth(1), Nth(3), Nth(2), Nth(1)>>)
      BY <2>2, <2>5, Copied21
    <2>7. Len(WordsOf(<<Nth(2), Nth(1)>>)) = 2 /\ Len(WordsOf(<<Nth(3)>>)) = 1
      BY <2>2, Lengths
    <2>8. Copies(Len(WordsOf(<<Nth(2), Nth(1)>>)), Len(WordsOf(<<Nth(3)>>)))
      BY <1>1, <2>7, Zenon
    <2>9. Len(WordsOf(<<Nth(2), Nth(1)>>)) \in 1..2 /\ Len(WordsOf(<<Nth(3)>>)) \in 0..2
      BY <2>7
    <2> QED
      BY <2>1, <2>4, <2>6, <2>8, <2>9, Copying
  <1>3. CASE Shaped(<<2, 1>>)
    <2>1. junk + 2 <= Depth /\ Nth(1) \in Big /\ Nth(2) \in Small
      BY <1>3, Shapes
    <2>2. Nth(1) \in Value /\ Nth(1) \in Big /\ Nth(2) \in Value /\ Nth(2) \notin Big
      BY <2>1, TopWords
    <2>3. Replaces(2, <<Nth(1), Nth(2), Nth(1)>>)
      BY <1>3, <2>2 DEF Dup2X1
    <2>4. operands' = Under(2) \o <<Nth(1), Nth(2), Nth(1)>> /\ junk' = junk
          /\ astray' = astray
      BY <2>3 DEF Replaces
    <2>5. Top(2) = <<Nth(2), Nth(1)>>
      BY <2>1, TopShort
    <2>6. IsCopied(<<Nth(1)>>, <<Nth(2)>>, Top(2),
                   <<Nth(1), Nth(2), Nth(1)>>)
      BY <2>2, <2>5, Copied11
    <2>7. Len(WordsOf(<<Nth(1)>>)) = 2 /\ Len(WordsOf(<<Nth(2)>>)) = 1
      BY <2>2, Lengths
    <2>8. Copies(Len(WordsOf(<<Nth(1)>>)), Len(WordsOf(<<Nth(2)>>)))
      BY <1>1, <2>7, Zenon
    <2>9. Len(WordsOf(<<Nth(1)>>)) \in 1..2 /\ Len(WordsOf(<<Nth(2)>>)) \in 0..2
      BY <2>7
    <2> QED
      BY <2>1, <2>4, <2>6, <2>8, <2>9, Copying
  <1> QED
    BY <1>1, <1>2, <1>3


\* What is below the upper n operands.
LEMMA LiveBelow ==
    ASSUME TypeOK, ~astray, NEW n \in Nat, junk + n <= Depth
    PROVE  \E s \in Seq(Value) : Live = s \o Top(n) /\ Len(s) = Depth - n - junk
  <1>1. operands \in Seq(Value) /\ Depth \in Nat /\ junk \in Nat /\ Depth = Len(operands)
    BY DEF TypeOK, Depth
  <1>2. PICK k : k = Depth - n
    OBVIOUS
  <1>3. k \in Nat /\ junk <= k /\ k <= Len(operands)
    BY <1>1, <1>2
  <1>4. PICK s : s = SubSeq(operands, junk + 1, k)
    OBVIOUS
  <1>5. s \in Seq(Value) /\ Len(s) = k - junk
    BY <1>1, <1>3, <1>4, Part
  <1>6. SubSeq(operands, junk + 1, Len(operands)) = s \o SubSeq(operands, k + 1, Len(operands))
    BY <1>1, <1>3, <1>4, Upper
  <1>7. Live = s \o Top(n)
    BY <1>1, <1>2, <1>6 DEF Live, Top
  <1> QED
    BY <1>2, <1>5, <1>7

LEMMA TwoLengths ==
    ASSUME NEW v \in Value, NEW w \in Value
    PROVE  Len(WordsOf(<<v, w>>)) = Len(WordsOf(<<v>>)) + Len(WordsOf(<<w>>))
  <1>1. <<v>> \in Seq(Value) /\ <<w>> \in Seq(Value) /\ <<v, w>> = <<v>> \o <<w>>
    BY Pair
  <1>2. WordsOf(<<v, w>>) = WordsOf(<<v>>) \o WordsOf(<<w>>)
    BY <1>1, WordsOfConcat
  <1>3. PICK a, b : a = WordsOf(<<v>>) /\ b = WordsOf(<<w>>)
    OBVIOUS
  <1>4. a \in Seq(Word) /\ b \in Seq(Word)
    BY <1>1, <1>3, WordsOfType
  <1>5. Len(a \o b) = Len(a) + Len(b)
    BY <1>4
  <1> QED
    BY <1>2, <1>3, <1>5

\* The form that the code takes of a value of two words for two of one.
LEMMA StrayKeepsType ==
    ASSUME TypeOK, ~astray, astray' = TRUE, junk' = junk,
           operands' = Under(3) \o <<Nth(1), Nth(3), Nth(2), Nth(1)>>
    PROVE  TypeOK'
  <1>1. Nth(1) \in AnyValue /\ Nth(2) \in AnyValue /\ Nth(3) \in AnyValue
    BY NthAny
  <1>2. PICK res : res = <<Nth(1), Nth(3), Nth(2), Nth(1)>>
    OBVIOUS
  <1>3. res \in Seq(AnyValue) /\ Len(res) = 4
    BY <1>1, <1>2
  <1>4. junk' \in 0..(Depth - 3 + Len(res))
    BY <1>3 DEF TypeOK, Depth
  <1>5. operands' = Under(3) \o res /\ 3 \in Nat /\ astray' \in BOOLEAN /\ ~(~astray')
    BY <1>2
  <1> QED
    BY <1>3, <1>4, <1>5, ReplaceKeepsType

LEMMA DupX2Step ==
    ASSUME TypeOK, ~astray, DupX2
    PROVE  TypeOK' /\ Slots!Next
  <1>1. /\ Copies(1, 2) /\ junk' = junk /\ astray' = Shaped(<<1, 2>>)
        /\ Shaped(<<1, 1, 1>>) \/ Shaped(<<1, 2>>)
    BY DEF DupX2
  <1>2. astray \in BOOLEAN
    BY DEF TypeOK
  <1>3. CASE Shaped(<<1, 1, 1>>)
    <2>1. junk + 3 <= Depth /\ Nth(1) \in Small /\ Nth(2) \in Small /\ Nth(3) \in Small
      BY <1>3, Shapes
    <2>2. Nth(1) \in Value /\ Nth(1) \notin Big /\ Nth(2) \in Value /\ Nth(2) \notin Big
          /\ Nth(3) \in Value /\ Nth(3) \notin Big
      BY <2>1, TopWords
    <2>3. ~Shaped(<<1, 2>>)
      BY <2>2, Shapes, ConstantsAssumption
    <2>4. operands' = Under(3) \o <<Nth(1), Nth(3), Nth(2), Nth(1)>>
      BY <2>2 DEF DupX2
    <2>5. Top(3) = <<Nth(3), Nth(2), Nth(1)>>
      BY <2>1, TopShort
    <2>6. IsCopied(<<Nth(1)>>, <<Nth(3), Nth(2)>>, Top(3),
                   <<Nth(1), Nth(3), Nth(2), Nth(1)>>)
      BY <2>2, <2>5, Copied12
    <2>7. Len(WordsOf(<<Nth(1)>>)) = 1 /\ Len(WordsOf(<<Nth(3), Nth(2)>>)) = 2
      BY <2>2, Lengths
    <2>8. astray' = astray
      <3>1. Shaped(<<1, 2>>) \in BOOLEAN
        BY DEF Shaped
      <3>2. astray' = FALSE
        BY <1>1, <2>3, <3>1
      <3> QED
        BY <1>2, <3>2
    <2>9. Copies(Len(WordsOf(<<Nth(1)>>)), Len(WordsOf(<<Nth(3), Nth(2)>>)))
      BY <1>1, <2>7, Zenon
    <2>10. Len(WordsOf(<<Nth(1)>>)) \in 1..2 /\ Len(WordsOf(<<Nth(3), Nth(2)>>)) \in 0..2
      BY <2>7
    <2> QED
      BY <1>1, <2>1, <2>4, <2>6, <2>8, <2>9, <2>10, Copying
  <1>4. CASE Shaped(<<1, 2>>)
    <2>1. junk + 2 <= Depth /\ Nth(1) \in Small /\ Nth(2) \in Big
      BY <1>4, Shapes
    <2>2. Nth(1) \in Value /\ Nth(2) \in Value /\ Nth(2) \in Big /\ Nth(1) \notin Big
      BY <2>1, TopWords
    <2>3. astray' = TRUE
      BY <1>1, <1>4
    <2>4. operands' = Under(3) \o <<Nth(1), Nth(3), Nth(2), Nth(1)>>
      BY <2>2 DEF DupX2
    <2>5. TypeOK'
      BY <1>1, <2>3, <2>4, StrayKeepsType
    <2>6. PICK s \in Seq(Value) : Live = s \o Top(2)
      BY <2>1, LiveBelow
    <2>7. PICK b, v, r, t : b = Nth(2) /\ v = Nth(1) /\ r = <<v>> /\ t = <<b, v>>
      OBVIOUS
    <2>8. t \in Seq(Value) /\ r \in Seq(Value) /\ t = <<b>> \o r /\ b \in Big /\ v \in Value
      <3>1. b \in Value /\ v \in Value /\ b \in Big
        BY <2>2, <2>7
      <3>2. <<v>> \in Seq(Value) /\ <<b, v>> = <<b>> \o <<v>>
        BY <3>1, Pair
      <3>3. <<b, v>> \in Seq(Value)
        BY <3>1
      <3> QED
        BY <2>7, <3>1, <3>2, <3>3
    <2>9. Live = s \o t
      BY <2>1, <2>6, <2>7, TopShort
    <2>10. Len(WordsOf(<<b>>)) = 2 /\ Len(WordsOf(<<v>>)) = 1
      BY <2>2, <2>7, Lengths
    <2>11. Len(WordsOf(t)) = 3
      <3>1. b \in Value /\ v \in Value
        BY <2>2, <2>7
      <3>2. Len(WordsOf(<<b, v>>)) = Len(WordsOf(<<b>>)) + Len(WordsOf(<<v>>))
        BY <3>1, TwoLengths
      <3>3. PICK x, y : x = Len(WordsOf(<<b>>)) /\ y = Len(WordsOf(<<v>>))
        OBVIOUS
      <3>4. x = 2 /\ y = 1
        BY <2>10, <3>3
      <3>5. Len(WordsOf(<<b, v>>)) = x + y
        BY <3>2, <3>3
      <3>6. Len(WordsOf(<<b, v>>)) = 3
        BY <3>4, <3>5
      <3> QED
        BY <2>7, <3>6, Zenon
    <2>12. ~Slots!Boundary(Slots!Depth - 3 + 1) /\ 3 \in 1..Slots!Depth
          /\ Slots!Depth \in Nat
      BY <2>8, <2>9, <2>11, FirstHalf
    <2>13. Slots!Depth - 3 + 1 = Slots!Depth - 2 /\ Slots!Depth >= 3
      BY <2>12
    <2>14. Slots!Stray
      BY <1>1, <2>3, <2>12, <2>13 DEF Slots!Stray, Copies
    <2> QED
      BY <2>5, <2>14 DEF Slots!Next
  <1> QED
    BY <1>1, <1>3, <1>4

LEMMA Dup2X2Step ==
    ASSUME TypeOK, ~astray, Dup2X2
    PROVE  TypeOK' /\ Slots!Next
  <1>1. /\ Copies(2, 2) /\ junk' = junk /\ astray' = Shaped(<<2, 2>>)
        /\ Shaped(<<1, 1, 1, 1>>) \/ Shaped(<<2, 1, 1>>) \/ Shaped(<<1, 1, 2>>) \/ Shaped(<<2, 2>>)
    BY DEF Dup2X2
  <1>2. astray \in BOOLEAN
    BY DEF TypeOK
  <1>3. CASE Shaped(<<1, 1, 1, 1>>)
    <2>1. junk + 4 <= Depth /\ Nth(1) \in Small /\ Nth(2) \in Small /\ Nth(3) \in Small
          /\ Nth(4) \in Small
      BY <1>3, Shapes
    <2>2. Nth(1) \in Value /\ Nth(1) \notin Big /\ Nth(2) \in Value /\ Nth(2) \notin Big
          /\ Nth(3) \in Value /\ Nth(3) \notin Big /\ Nth(4) \in Value /\ Nth(4) \notin Big
      BY <2>1, TopWords
    <2>3. ~Shaped(<<2, 2>>)
      BY <2>2, Shapes, ConstantsAssumption
    <2>4. operands' = Under(4) \o <<Nth(2), Nth(1), Nth(4), Nth(3), Nth(2), Nth(1)>>
      BY <2>2 DEF Dup2X2
    <2>5. Top(4) = <<Nth(4), Nth(3), Nth(2), Nth(1)>>
      BY <2>1, TopShort
    <2>6. IsCopied(<<Nth(2), Nth(1)>>, <<Nth(4), Nth(3)>>, Top(4),
                   <<Nth(2), Nth(1), Nth(4), Nth(3), Nth(2), Nth(1)>>)
      BY <2>2, <2>5, Copied22
    <2>7. Len(WordsOf(<<Nth(2), Nth(1)>>)) = 2 /\ Len(WordsOf(<<Nth(4), Nth(3)>>)) = 2
      BY <2>2, Lengths
    <2>8. astray' = astray
      <3>1. Shaped(<<2, 2>>) \in BOOLEAN
        BY DEF Shaped
      <3>2. astray' = FALSE
        BY <1>1, <2>3, <3>1
      <3> QED
        BY <1>2, <3>2
    <2>9. Copies(Len(WordsOf(<<Nth(2), Nth(1)>>)), Len(WordsOf(<<Nth(4), Nth(3)>>)))
      BY <1>1, <2>7, Zenon
    <2>10. Len(WordsOf(<<Nth(2), Nth(1)>>)) \in 1..2
          /\ Len(WordsOf(<<Nth(4), Nth(3)>>)) \in 0..2
      BY <2>7
    <2> QED
      BY <1>1, <2>1, <2>4, <2>6, <2>8, <2>9, <2>10, Copying
  <1>4. CASE Shaped(<<2, 1, 1>>)
    <2>1. junk + 3 <= Depth /\ Nth(1) \in Big /\ Nth(2) \in Small /\ Nth(3) \in Small
      BY <1>4, Shapes
    <2>2. Nth(1) \in Value /\ Nth(1) \in Big /\ Nth(2) \in Value /\ Nth(2) \notin Big
          /\ Nth(3) \in Value /\ Nth(3) \notin Big
      BY <2>1, TopWords
    <2>3. ~Shaped(<<2, 2>>)
      BY <2>2, Shapes, ConstantsAssumption
    <2>4. operands' = Under(3) \o <<Nth(1), Nth(3), Nth(2), Nth(1)>>
      BY <2>2 DEF Dup2X2
    <2>5. Top(3) = <<Nth(3), Nth(2), Nth(1)>>
      BY <2>1, TopShort
    <2>6. IsCopied(<<Nth(1)>>, <<Nth(3), Nth(2)>>, Top(3),
                   <<Nth(1), Nth(3), Nth(2), Nth(1)>>)
      BY <2>2, <2>5, Copied12
    <2>7. Len(WordsOf(<<Nth(1)>>)) = 2 /\ Len(WordsOf(<<Nth(3), Nth(2)>>)) = 2
      BY <2>2, Lengths
    <2>8. astray' = astray
      <3>1. Shaped(<<2, 2>>) \in BOOLEAN
        BY DEF Shaped
      <3>2. astray' = FALSE
        BY <1>1, <2>3, <3>1
      <3> QED
        BY <1>2, <3>2
    <2>9. Copies(Len(WordsOf(<<Nth(1)>>)), Len(WordsOf(<<Nth(3), Nth(2)>>)))
      BY <1>1, <2>7, Zenon
    <2>10. Len(WordsOf(<<Nth(1)>>)) \in 1..2 /\ Len(WordsOf(<<Nth(3), Nth(2)>>)) \in 0..2
      BY <2>7
    <2> QED
      BY <1>1, <2>1, <2>4, <2>6, <2>8, <2>9, <2>10, Copying
  <1>5. CASE Shaped(<<1, 1, 2>>)
    <2>1. junk + 3 <= Depth /\ Nth(1) \in Small /\ Nth(2) \in Small /\ Nth(3) \in Big
      BY <1>5, Shapes
    <2>2. Nth(1) \in Value /\ Nth(1) \notin Big /\ Nth(2) \in Value /\ Nth(2) \notin Big
          /\ Nth(3) \in Value /\ Nth(3) \in Big
      BY <2>1, TopWords
    <2>3. ~Shaped(<<2, 2>>)
      BY <2>2, Shapes, ConstantsAssumption
    <2>4. operands' = Under(3) \o <<Nth(2), Nth(1), Nth(3), Nth(2), Nth(1)>>
      BY <2>2 DEF Dup2X2
    <2>5. Top(3) = <<Nth(3), Nth(2), Nth(1)>>
      BY <2>1, TopShort
    <2>6. IsCopied(<<Nth(2), Nth(1)>>, <<Nth(3)>>, Top(3),
                   <<Nth(2), Nth(1), Nth(3), Nth(2), Nth(1)>>)
      BY <2>2, <2>5, Copied21
    <2>7. Len(WordsOf(<<Nth(2), Nth(1)>>)) = 2 /\ Len(WordsOf(<<Nth(3)>>)) = 2
      BY <2>2, Lengths
    <2>8. astray' = astray
      <3>1. Shaped(<<2, 2>>) \in BOOLEAN
        BY DEF Shaped
      <3>2. astray' = FALSE
        BY <1>1, <2>3, <3>1
      <3> QED
        BY <1>2, <3>2
    <2>9. Copies(Len(WordsOf(<<Nth(2), Nth(1)>>)), Len(WordsOf(<<Nth(3)>>)))
      BY <1>1, <2>7, Zenon
    <2>10. Len(WordsOf(<<Nth(2), Nth(1)>>)) \in 1..2 /\ Len(WordsOf(<<Nth(3)>>)) \in 0..2
      BY <2>7
    <2> QED
      BY <1>1, <2>1, <2>4, <2>6, <2>8, <2>9, <2>10, Copying
  <1>6. CASE Shaped(<<2, 2>>)
    <2>1. junk + 2 <= Depth /\ Nth(1) \in Big /\ Nth(2) \in Big
      BY <1>6, Shapes
    <2>2. Nth(1) \in Value /\ Nth(2) \in Value /\ Nth(2) \in Big /\ Nth(1) \in Big
      BY <2>1, TopWords
    <2>3. astray' = TRUE
      BY <1>1, <1>6
    <2>4. operands' = Under(3) \o <<Nth(1), Nth(3), Nth(2), Nth(1)>>
      BY <2>2 DEF Dup2X2
    <2>5. TypeOK'
      BY <1>1, <2>3, <2>4, StrayKeepsType
    <2>6. PICK s \in Seq(Value) : Live = s \o Top(2)
      BY <2>1, LiveBelow
    <2>7. PICK b, v, r, t : b = Nth(2) /\ v = Nth(1) /\ r = <<v>> /\ t = <<b, v>>
      OBVIOUS
    <2>8. t \in Seq(Value) /\ r \in Seq(Value) /\ t = <<b>> \o r /\ b \in Big /\ v \in Value
      <3>1. b \in Value /\ v \in Value /\ b \in Big
        BY <2>2, <2>7
      <3>2. <<v>> \in Seq(Value) /\ <<b, v>> = <<b>> \o <<v>>
        BY <3>1, Pair
      <3>3. <<b, v>> \in Seq(Value)
        BY <3>1
      <3> QED
        BY <2>7, <3>1, <3>2, <3>3
    <2>9. Live = s \o t
      BY <2>1, <2>6, <2>7, TopShort
    <2>10. Len(WordsOf(<<b>>)) = 2 /\ Len(WordsOf(<<v>>)) = 2
      BY <2>2, <2>7, Lengths
    <2>11. Len(WordsOf(t)) = 4
      <3>1. b \in Value /\ v \in Value
        BY <2>2, <2>7
      <3>2. Len(WordsOf(<<b, v>>)) = Len(WordsOf(<<b>>)) + Len(WordsOf(<<v>>))
        BY <3>1, TwoLengths
      <3>3. PICK x, y : x = Len(WordsOf(<<b>>)) /\ y = Len(WordsOf(<<v>>))
        OBVIOUS
      <3>4. x = 2 /\ y = 2
        BY <2>10, <3>3
      <3>5. Len(WordsOf(<<b, v>>)) = x + y
        BY <3>2, <3>3
      <3>6. Len(WordsOf(<<b, v>>)) = 4
        BY <3>4, <3>5
      <3> QED
        BY <2>7, <3>6, Zenon
    <2>12. ~Slots!Boundary(Slots!Depth - 4 + 1) /\ 4 \in 1..Slots!Depth
          /\ Slots!Depth \in Nat
      BY <2>8, <2>9, <2>11, FirstHalf
    <2>13. Slots!Depth - 4 + 1 = Slots!Depth - 3 /\ Slots!Depth >= 4
      BY <2>12
    <2>14. ~Slots!Boundary(Slots!Depth - 2 + 1)
      <3>1. PICK s2 : s2 = s \o <<b>>
        OBVIOUS
      <3>2. b \in Value /\ <<b>> \in Seq(Value) /\ v \in Big
        BY <2>2, <2>7
      <3>3. s2 \in Seq(Value) /\ s2 \o r = s \o (<<b>> \o r)
        BY <2>8, <3>1, <3>2, Associative
      <3>4. Live = s2 \o r
        BY <2>8, <2>9, <3>3
      <3>5. r = <<v>> \o <<>> /\ <<>> \in Seq(Value)
        BY <2>7, <2>8
      <3>6. Len(WordsOf(r)) = 2
        BY <2>7, <2>10
      <3> QED
        BY <2>8, <3>2, <3>3, <3>4, <3>5, <3>6, FirstHalf
    <2>15. Slots!Depth - 2 + 1 = Slots!Depth - 1
      BY <2>12
    <2>16. Slots!Stray
      BY <1>1, <2>3, <2>12, <2>13, <2>14, <2>15 DEF Slots!Stray, Copies
    <2> QED
      BY <2>5, <2>16 DEF Slots!Next
  <1> QED
    BY <1>1, <1>3, <1>4, <1>5, <1>6

-----------------------------------------------------------------------------
(* Comparisons, instanceof and handlers                                    *)

LEMMA SomeWords ==
    ASSUME NEW s \in Seq(Value), Len(s) # 0
    PROVE  Len(WordsOf(s)) \in Nat /\ Len(WordsOf(s)) >= 1
  <1>1. PICK r \in Seq(Value), v \in Value : Len(r) = Len(s) - 1 /\ s = r \o <<v>>
    <2>1. PICK n : n = Len(s) - 1
      OBVIOUS
    <2>2. n \in Nat /\ Len(s) = n + 1
      BY <2>1
    <2> QED
      BY <2>1, <2>2, LastElement
  <1>2. PICK w, h : w = WordsOf(r) /\ h = Halves(v)
    OBVIOUS
  <1>3. w \in Seq(Word) /\ h \in Seq(Word) /\ (Len(h) = 1 \/ Len(h) = 2)
    BY <1>2, WordsOfType, HalvesFacts
  <1>4. WordsOf(s) = w \o h
    BY <1>1, <1>2, WordsOfAppend
  <1>5. Len(w \o h) \in Nat /\ Len(w \o h) >= 1
    <2>1. PICK x, y : x = Len(w) /\ y = Len(h)
      OBVIOUS
    <2>2. Len(w \o h) = x + y
      BY <1>3, <2>1
    <2>3. x \in Nat /\ (y = 1 \/ y = 2)
      BY <1>3, <2>1
    <2> QED
      BY <2>2, <2>3
  <1> QED
    BY <1>4, <1>5

\* Two values on what is below: the second is on the first.
LEMMA OnTop ==
    ASSUME NEW a \in Seq(Value), NEW v \in Value, NEW w \in Value
    PROVE  /\ a \o <<v>> \in Seq(Value) /\ Len(a \o <<v>>) = Len(a) + 1
           /\ a \o <<v, w>> = (a \o <<v>>) \o <<w>>
  <1>1. <<v>> \in Seq(Value) /\ <<w>> \in Seq(Value) /\ <<v, w>> = <<v>> \o <<w>>
        /\ Len(<<v>>) = 1
    BY Pair
  <1>2. a \o (<<v>> \o <<w>>) = (a \o <<v>>) \o <<w>>
    BY <1>1, Associative
  <1>3. a \o <<v>> \in Seq(Value) /\ Len(a \o <<v>>) = Len(a) + Len(<<v>>)
    BY <1>1, ConcatProperties
  <1> QED
    BY <1>1, <1>2, <1>3

LEMMA UnderType ==
    ASSUME TypeOK, ~astray, NEW n \in Nat, junk + n <= Depth
    PROVE  /\ Under(n) \in Seq(Value) /\ Len(Under(n)) = Depth - n
           /\ Depth \in Nat /\ junk \in Nat
  <1>1. operands \in Seq(Value) /\ Depth \in Nat /\ junk \in 0..Depth
        /\ Depth = Len(operands)
    BY DEF TypeOK, Depth
  <1> QED
    BY <1>1 DEF Under

LEMMA CompareSteps ==
    ASSUME TypeOK, ~astray, Compare
    PROVE  TypeOK' /\ Slots!Next
  <1>1. inst' = [op |-> "compare"] /\ (Shaped(<<1, 1>>) \/ Shaped(<<2, 2>>))
    BY DEF Compare
  <1>2. junk + 2 <= Depth
    BY <1>1, Shapes
  <1>3. PICK t \in Seq(Value) : t = Top(2) /\ Len(t) = 2
    BY <1>2, TopFacts
  <1>4. Len(WordsOf(t)) \in {2, 4}
    <2>1. Top(2) = <<Nth(2), Nth(1)>>
      BY <1>2, TopShort
    <2>2. CASE Shaped(<<1, 1>>)
      BY <1>3, <2>2, TopWords
    <2>3. CASE Shaped(<<2, 2>>)
      <3>1. Nth(2) \in Big /\ Nth(1) \in Big /\ Nth(2) \in Value /\ Nth(1) \in Value
        BY <2>3, Shapes, TopWords
      <3>2. Len(WordsOf(<<Nth(2)>>)) = 2 /\ Len(WordsOf(<<Nth(1)>>)) = 2
        BY <3>1, Lengths
      <3>3. Len(WordsOf(<<Nth(2), Nth(1)>>)) = Len(WordsOf(<<Nth(2)>>)) + Len(WordsOf(<<Nth(1)>>))
        BY <3>1, TwoLengths
      <3>4. PICK x, y : x = Len(WordsOf(<<Nth(2)>>)) /\ y = Len(WordsOf(<<Nth(1)>>))
        OBVIOUS
      <3>5. x = 2 /\ y = 2
        BY <3>2, <3>4
      <3>6. Len(WordsOf(t)) = x + y
        BY <1>3, <2>1, <3>3, <3>4
      <3> QED
        BY <3>5, <3>6
    <2> QED
      BY <1>1, <2>2, <2>3
  <1>5. PICK res \in Small :
          \/ operands' = Under(2) \o <<res>> /\ UNCHANGED <<junk, astray>>
          \/ \E nanv \in Small :
                /\ operands' = Under(2) \o <<nanv, res>>
                /\ IF junk + 2 = Depth
                   THEN junk' = junk + 1 /\ UNCHANGED astray
                   ELSE astray' = TRUE /\ UNCHANGED junk
    BY DEF Compare
  <1>6. res \in Value /\ <<res>> \in Seq(Value)
    BY DEF Value
  <1>7. CASE operands' = Under(2) \o <<res>> /\ UNCHANGED <<junk, astray>>
    <2>1. PICK s \in Seq(Value) : TypeOK' /\ Live = s \o Top(2) /\ Live' = s \o <<res>>
      BY <1>2, <1>6, <1>7, Moving
    <2>2. Slots!Next
      BY <1>1, <1>3, <1>4, <1>7, <2>1, CompareStep
    <2> QED
      BY <2>1, <2>2
  <1>8. ASSUME NEW nanv \in Small, operands' = Under(2) \o <<nanv, res>>,
               IF junk + 2 = Depth
               THEN junk' = junk + 1 /\ UNCHANGED astray
               ELSE astray' = TRUE /\ UNCHANGED junk
        PROVE  TypeOK' /\ Slots!Next
    <2>1. Under(2) \in Seq(Value) /\ Len(Under(2)) = Depth - 2 /\ Depth \in Nat
          /\ junk \in Nat
      BY <1>2, UnderType
    <2>2. nanv \in Value
      BY DEF Value
    <2>3. TypeOK'
      <3>1. PICK both : both = <<nanv, res>>
        OBVIOUS
      <3>2. both \in Seq(Value) /\ Len(both) = 2
        BY <1>6, <2>2, <3>1
      <3>3. both \in Seq(AnyValue)
        BY <3>2, SeqMonotonic DEF AnyValue
      <3>4. junk' \in 0..(Depth - 2 + Len(both))
        BY <1>2, <1>8, <2>1, <3>2
      <3>5. astray' \in BOOLEAN
        BY <1>8 DEF TypeOK
      <3>6. operands' = Under(2) \o both
        BY <1>8, <3>1
      <3> QED
        BY <3>2, <3>3, <3>4, <3>5, <3>6, ReplaceKeepsType
    <2>4. PICK s \in Seq(Value) : Live = s \o t /\ Len(s) = Depth - 2 - junk
      BY <1>2, <1>3, LiveBelow
    <2>5. CASE junk + 2 = Depth
      <3>1. junk' = junk + 1 /\ astray' = astray
        BY <1>8, <2>5
      <3>2. PICK a : a = Under(2)
        OBVIOUS
      <3>3. a \o <<nanv>> \in Seq(Value) /\ Len(a \o <<nanv>>) = Len(a) + 1
            /\ a \o <<nanv, res>> = (a \o <<nanv>>) \o <<res>>
        <4>1. a \in Seq(Value)
          BY <2>1, <3>2
        <4> QED
          BY <1>6, <2>2, <4>1, OnTop
      <3>4. Len(a) = junk
        BY <2>1, <2>5, <3>2
      <3>5. operands' = (a \o <<nanv>>) \o <<res>> /\ junk' = Len(a \o <<nanv>>)
        BY <1>8, <3>1, <3>2, <3>3, <3>4
      <3>6. Live' = <<res>>
        BY <1>6, <3>3, <3>5, LastLive
      <3>7. s = <<>>
        BY <2>1, <2>4, <2>5
      <3>8. <<>> \o <<res>> = <<res>>
        BY <1>6
      <3>9. Live' = s \o <<res>>
        BY <3>6, <3>7, <3>8
      <3>10. Slots!Next
        BY <1>1, <1>3, <1>4, <2>4, <3>1, <3>9, CompareStep
      <3> QED
        BY <2>3, <3>10
    <2>6. CASE junk + 2 # Depth
      <3>1. astray' = TRUE
        BY <1>8, <2>6
      <3>2. PICK n : n = Len(WordsOf(t))
        OBVIOUS
      <3>3. Slots!Values(n, 2) /\ Slots!Depth = Len(WordsOf(s)) + n /\ Slots!Depth \in Nat
        BY <1>3, <2>4, <3>2, Covered
      <3>4. Len(WordsOf(s)) \in Nat /\ Len(WordsOf(s)) >= 1
        BY <1>2, <2>1, <2>4, <2>6, SomeWords
      <3>5. n \in 2..4 /\ n < Slots!Depth
        BY <1>4, <3>2, <3>3, <3>4
      <3>6. Slots!Stray
        BY <1>1, <3>1, <3>3, <3>5 DEF Slots!Stray
      <3> QED
        BY <2>3, <3>6 DEF Slots!Next
    <2> QED
      BY <2>5, <2>6
  <1> QED
    BY <1>5, <1>7, <1>8

LEMMA InstanceOfSteps ==
    ASSUME TypeOK, ~astray, InstanceOf
    PROVE  TypeOK' /\ Slots!Next
  <1>1. inst' = [op |-> "instanceof"] /\ Shaped(<<1>>)
    BY DEF InstanceOf
  <1>2. junk + 1 <= Depth /\ Len(WordsOf(Top(1))) = 1
    BY <1>1, Shapes, TopWords
  <1>3. CASE (\E res \in Small : operands' = Under(1) \o <<res>>)
        /\ UNCHANGED <<junk, astray>>
    <2>1. PICK res \in Small : operands' = Under(1) \o <<res>>
      BY <1>3
    <2>2. <<res>> \in Seq(Value)
      BY DEF Value
    <2>3. PICK s \in Seq(Value) : TypeOK' /\ Live = s \o Top(1) /\ Live' = s \o <<res>>
      BY <1>2, <1>3, <2>1, <2>2, Moving
    <2>4. PICK t \in Seq(Value) : t = Top(1)
      BY <1>2, TopFacts
    <2>5. Slots!Next
      BY <1>1, <1>2, <1>3, <2>3, <2>4, InstanceOfStep
    <2> QED
      BY <2>3, <2>5
  <1>4. CASE operands' = Under(1) /\ astray' = TRUE /\ UNCHANGED junk
    <2>1. Under(1) \in Seq(Value) /\ Depth \in Nat /\ junk \in Nat
      BY <1>2, UnderType
    <2>2. <<>> \in Seq(AnyValue) /\ Len(<<>>) = 0 /\ Under(1) \o <<>> = Under(1)
      BY <2>1
    <2>3. operands' = Under(1) \o <<>> /\ junk' \in 0..(Depth - 1 + Len(<<>>))
      BY <1>2, <1>4, <2>1, <2>2
    <2>4. TypeOK'
      BY <1>4, <2>2, <2>3, ReplaceKeepsType
    <2>5. Slots!Stray
      BY <1>1, <1>4 DEF Slots!Stray
    <2> QED
      BY <2>4, <2>5 DEF Slots!Next
  <1> QED
    BY <1>3, <1>4 DEF InstanceOf

LEMMA UnresolvedStep ==
    ASSUME TypeOK, ~astray, Unresolved
    PROVE  TypeOK' /\ Slots!Next
  <1>1. /\ inst' = [op |-> "unresolved"] /\ astray' = TRUE /\ junk' = junk
        /\ operands \in Seq(Value) /\ Depth \in Nat /\ junk \in 0..Depth
    BY DEF Unresolved, TypeOK, Depth
  <1>2. ASSUME NEW n \in Nat, junk + n <= Depth, NEW res \in Seq(AnyValue),
               operands' = Under(n) \o res
        PROVE  TypeOK'
    <2>1. Len(res) \in Nat
      BY <1>2
    <2>2. junk' \in 0..(Depth - n + Len(res))
      BY <1>1, <1>2, <2>1
    <2> QED
      BY <1>1, <1>2, <2>2, ReplaceKeepsType
  <1>3. ASSUME NEW n \in Nat, junk + n <= Depth, operands' = Under(n)
        PROVE  TypeOK'
    <2>1. Under(n) \in Seq(Value)
      BY <1>3, UnderType
    <2>2. <<>> \in Seq(AnyValue) /\ Under(n) \o <<>> = Under(n)
      BY <2>1
    <2> QED
      BY <1>2, <1>3, <2>2
  <1>4. ASSUME NEW n \in Nat, junk + n <= Depth, operands' = Append(Under(n), Nullptr)
        PROVE  TypeOK'
    <2>1. Under(n) \in Seq(Value)
      BY <1>4, UnderType
    <2>2. Append(Under(n), Nullptr) = Under(n) \o <<Nullptr>>
      BY <2>1
    <2>3. <<Nullptr>> \in Seq(AnyValue)
      BY DEF AnyValue
    <2> QED
      BY <1>2, <1>4, <2>2, <2>3
  <1>5. ASSUME operands' = operands
        PROVE  TypeOK'
    <2>1. Depth' = Depth
      BY <1>5 DEF Depth
    <2> QED
      BY <1>1, <1>5, <2>1 DEF TypeOK
  <1>6. TypeOK'
    <2>1. CASE \E n \in 1..3 : junk + n <= Depth /\ operands' = Under(n)
      BY <1>3, <2>1
    <2>2. CASE \E n \in 0..1 : junk + n <= Depth /\ operands' = Append(Under(n), Nullptr)
      BY <1>4, <2>2
    <2> QED
      BY <1>5, <2>1, <2>2 DEF Unresolved
  <1>7. Slots!Stray
    BY <1>1 DEF Slots!Stray
  <1> QED
    BY <1>6, <1>7 DEF Slots!Next

LEMMA HandlerStep ==
    ASSUME TypeOK, ~astray, Handler
    PROVE  TypeOK' /\ Slots!Next
  <1>1. PICK v \in Small, matches \in 1..2, popped \in 0..(Depth - junk) :
          /\ operands' = Under(popped) \o [i \in 1..matches |-> v]
          /\ junk' = Depth - popped + matches - 1
    BY DEF Handler
  <1>2. inst' = [op |-> "catch"] /\ astray' = astray
    BY DEF Handler
  <1>3. Depth \in Nat /\ junk \in 0..Depth /\ popped \in Nat /\ junk + popped <= Depth
    BY DEF TypeOK, Depth
  <1>4. PICK a \in Seq(Value) : a = Under(popped) /\ Len(a) = Depth - popped
    BY <1>3, UnderType
  <1>5. v \in Value
    BY DEF Value
  <1>6. PICK f : f = [i \in 1..matches |-> v]
    OBVIOUS
  <1>7. f \in Seq(Value) /\ Len(f) = matches /\ (matches = 1 \/ matches = 2)
        /\ \A i \in 1..matches : f[i] = v
    BY <1>5, <1>6
  <1>8. TypeOK'
    <2>1. f \in Seq(AnyValue)
      BY <1>7, SeqMonotonic DEF AnyValue
    <2>2. junk' \in 0..(Depth - popped + Len(f))
      BY <1>1, <1>3, <1>7
    <2>3. operands' = Under(popped) \o f /\ astray' \in BOOLEAN
      BY <1>1, <1>2, <1>6 DEF TypeOK
    <2> QED
      BY <1>3, <1>7, <2>1, <2>2, <2>3, ReplaceKeepsType
  <1>9. Live' = <<v>>
    <2>1. CASE matches = 1
      <3>1. f = <<v>>
        BY <1>6, <2>1
      <3>2. operands' = a \o <<v>> /\ junk' = Len(a)
        BY <1>1, <1>3, <1>4, <1>6, <2>1, <3>1
      <3> QED
        BY <1>4, <1>5, <3>2, LastLive
    <2>2. CASE matches = 2
      <3>1. f = <<v, v>>
        BY <1>6, <2>2
      <3>2. /\ a \o <<v>> \in Seq(Value) /\ Len(a \o <<v>>) = Len(a) + 1
            /\ a \o <<v, v>> = (a \o <<v>>) \o <<v>>
        BY <1>4, <1>5, OnTop
      <3>3. operands' = (a \o <<v>>) \o <<v>> /\ junk' = Len(a \o <<v>>)
        <4>1. Len(a) + 1 = Depth - popped + 2 - 1
          BY <1>3, <1>4
        <4>2. junk' = Len(a \o <<v>>)
          BY <1>1, <2>2, <3>2, <4>1
        <4>3. operands' = a \o <<v, v>>
          BY <1>1, <1>4, <1>6, <3>1
        <4> QED
          BY <3>2, <4>2, <4>3
      <3> QED
        BY <1>5, <3>2, <3>3, LastLive
    <2> QED
      BY <1>7, <2>1, <2>2
  <1>10. Slots!Next
    BY <1>2, <1>9, CatchStep
  <1> QED
    BY <1>8, <1>10

-----------------------------------------------------------------------------
(* The theorems                                                            *)

LEMMA InitFacts == Init => TypeOK /\ Slots!Init
  <1> SUFFICES ASSUME Init PROVE TypeOK /\ Slots!Init
    OBVIOUS
  <1>1. operands = <<>> /\ junk = 0 /\ astray = FALSE /\ inst = [op |-> "none"] /\ Depth = 0
    BY DEF Init, Depth
  <1>2. TypeOK
    <2>1. <<>> \in Seq(Value \cup {Nullptr}) /\ <<>> \in Seq(Value)
      OBVIOUS
    <2>2. junk \in 0..Depth
      BY <1>1
    <2> QED
      BY <1>1, <2>1, <2>2 DEF TypeOK
  <1>3. Live = <<>>
    BY <1>1 DEF Live
  <1>4. WordsOf(Live) = <<>>
    BY <1>3, WordsOfEmpty
  <1> QED
    BY <1>1, <1>2, <1>4 DEF Slots!Init

LEMMA NextFacts ==
    ASSUME TypeOK, [Next]_vars
    PROVE  TypeOK' /\ [Slots!Next]_<<WordsOf(Live), inst, astray>>
  <1>1. CASE UNCHANGED vars
    <2>1. operands' = operands /\ junk' = junk /\ inst' = inst /\ astray' = astray
      BY <1>1 DEF vars
    <2>2. TypeOK'
      BY <2>1 DEF TypeOK, Depth
    <2>3. Live' = Live
      BY <2>1 DEF Live, Depth
    <2>4. WordsOf(Live)' = WordsOf(Live)
      BY <2>3
    <2> QED
      BY <2>1, <2>2, <2>4
  <1>2. CASE Next
    <2>1. ~astray
      BY <1>2 DEF Next
    <2>2. CASE Push \/ Consume \/ Unary \/ Operator \/ ConsumeTwo \/ ArrayStore \/ Invoke
      BY <2>1, <2>2, ComputingSteps
    <2>3. CASE Compare
      BY <2>1, <2>3, CompareSteps
    <2>4. CASE InstanceOf
      BY <2>1, <2>4, InstanceOfSteps
    <2>5. CASE Pop \/ Pop2
      BY <2>1, <2>5, DropSteps
    <2>6. CASE Dup
      BY <2>1, <2>6, DupStep
    <2>7. CASE DupX1
      BY <2>1, <2>7, DupX1Step
    <2>8. CASE DupX2
      BY <2>1, <2>8, DupX2Step
    <2>9. CASE Dup2
      BY <2>1, <2>9, Dup2Step
    <2>10. CASE Dup2X1
      BY <2>1, <2>10, Dup2X1Step
    <2>11. CASE Dup2X2
      BY <2>1, <2>11, Dup2X2Step
    <2>12. CASE Handler
      BY <2>1, <2>12, HandlerStep
    <2>13. CASE Unresolved
      BY <2>1, <2>13, UnresolvedStep
    <2> QED
      BY <1>2, <2>2, <2>3, <2>4, <2>5, <2>6, <2>7, <2>8, <2>9, <2>10, <2>11, <2>12, <2>13
      DEF Next
  <1> QED
    BY <1>1, <1>2

\* The stack holds values or nullptr, junk counts operands that are there, and
\* nullptr is only on a stack that has not followed the specification.
THEOREM TypeOKHolds == Spec => []TypeOK
  <1>1. Init => TypeOK
    BY InitFacts
  <1>2. TypeOK /\ [Next]_vars => TypeOK'
    BY NextFacts
  <1> QED
    BY <1>1, <1>2, PTL DEF Spec

\* A frame behaves as the Java VM specification has it, word for word, except
\* where SlotStack lets it stray, which includes every instruction that goes on
\* although it has not found what it names: dup instructions tell values of one
\* and two words apart although the code keeps one operand for each.
THEOREM FollowsJvmHolds == Spec => FollowsJvm
  <1>1. Init => Slots!Init
    BY InitFacts
  <1>2. TypeOK /\ [Next]_vars => [Slots!Next]_<<WordsOf(Live), inst, astray>>
    BY NextFacts
  <1> QED
    BY <1>1, <1>2, TypeOKHolds, PTL DEF Spec, FollowsJvm, Slots!Spec
=============================================================================
