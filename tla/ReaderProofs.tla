---------------------------- MODULE ReaderProofs ----------------------------
(***************************************************************************)
(* Proofs about ClassReader, as Program uses it: that the bytes of every   *)
(* class file are read as what ClassFormat wrote.                          *)
(***************************************************************************)
EXTENDS Program, SequenceTheorems, FiniteSetTheorems, WellFoundedInduction, TLAPS

-----------------------------------------------------------------------------
(* Induction over the natural numbers, for sets                            *)

LEMMA MinFacts ==
    ASSUME NEW S \in SUBSET Nat, S # {}
    PROVE  Min(S) \in S /\ \A i \in S : Min(S) <= i
  <1>1. OpToRel(<, Nat) = {ss \in Nat \X Nat : ss[1] < ss[2]}
    BY DEF OpToRel
  <1> DEFINE Less == {ss \in Nat \X Nat : ss[1] < ss[2]}
  <1>2. IsWellFoundedOn(Less, Nat)
    BY <1>1, NatLessThanWellFounded, Zenon
  <1>3. \A i, j \in Nat : i < j => <<i, j>> \in Less
    OBVIOUS
  <1> HIDE DEF Less
  <1>4. PICK x \in S : \A y \in S : ~(<<y, x>> \in Less)
    BY <1>2, WFMin, Zenon
  <1>5. ASSUME NEW y \in S PROVE x <= y
    <2>1. x \in Nat /\ y \in Nat
      OBVIOUS
    <2>2. ~(y < x)
      BY <1>3, <1>4, <2>1, Zenon
    <2> QED
      BY <2>1, <2>2
  <1> QED
    BY <1>5, Zenon DEF Min

LEMMA SetInduction ==
    ASSUME NEW S, 0 \in S, \A n \in Nat : n \in S => n + 1 \in S
    PROVE  Nat \subseteq S
  <1> DEFINE T == Nat \ S
             x == Min(T)
  <1> SUFFICES ASSUME T # {} PROVE FALSE
    OBVIOUS
  <1>1. x \in T /\ \A i \in T : x <= i
    BY MinFacts
  <1> HIDE DEF x
  <1>2. x \in Nat /\ x # 0 /\ x - 1 \in Nat /\ ~(x <= x - 1)
    BY <1>1
  <1>3. x - 1 \in S
    BY <1>1, <1>2
  <1>4. (x - 1) + 1 \in S
    BY <1>2, <1>3
  <1> QED
    BY <1>1, <1>2, <1>4

-----------------------------------------------------------------------------
(* Powers of two                                                           *)

\* The recursion of Pow has a solution.
PowTo(n, f) == f = [i \in 0..n |-> IF i = 0 THEN 1 ELSE 2 * f[i - 1]]

LEMMA PowToExists == \A n \in Nat : \E f : PowTo(n, f)
  <1> DEFINE S == {n \in Nat : \E f : PowTo(n, f)}
  <1>1. 0 \in S
    <2> DEFINE f == [i \in 0..0 |-> 1]
    <2>1. PowTo(0, f)
      BY DEF PowTo
    <2> QED
      BY <2>1
  <1>2. ASSUME NEW n \in Nat, n \in S PROVE n + 1 \in S
    <2>1. PICK f : PowTo(n, f)
      BY <1>2
    <2> DEFINE g == [i \in 0..(n + 1) |-> IF i = n + 1 THEN 2 * f[n] ELSE f[i]]
    <2>2. \A i \in 0..(n + 1) : g[i] = IF i = 0 THEN 1 ELSE 2 * g[i - 1]
      <3> TAKE i \in 0..(n + 1)
      <3>1. CASE i = n + 1
        <4>1. g[i] = 2 * f[n] /\ i - 1 = n /\ i # 0 /\ g[n] = f[n]
          BY <3>1
        <4> QED
          BY <4>1
      <3>2. CASE i # n + 1
        <4>1. i \in 0..n /\ g[i] = f[i] /\ (i # 0 => i - 1 \in 0..n /\ g[i - 1] = f[i - 1])
          BY <3>2
        <4>2. f[i] = IF i = 0 THEN 1 ELSE 2 * f[i - 1]
          BY <2>1, <4>1 DEF PowTo
        <4> QED
          BY <4>1, <4>2
      <3> QED
        BY <3>1, <3>2
    <2>3. g = [i \in 0..(n + 1) |-> g[i]]
      OBVIOUS
    <2> HIDE DEF g
    <2>4. PowTo(n + 1, g)
      BY <2>2, <2>3 DEF PowTo
    <2> QED
      BY <2>4
  <1> HIDE DEF S
  <1>3. Nat \subseteq S
    BY <1>1, <1>2, SetInduction
  <1> QED
    BY <1>3 DEF S

LEMMA PowToAgree ==
    ASSUME NEW n \in Nat, NEW m \in Nat, NEW f, NEW g, n <= m, PowTo(n, f), PowTo(m, g)
    PROVE  \A i \in 0..n : f[i] = g[i]
  <1> DEFINE S == {i \in Nat : i <= n => f[i] = g[i]}
  <1>1. 0 \in S
    BY DEF PowTo
  <1>2. ASSUME NEW i \in Nat, i \in S PROVE i + 1 \in S
    <2> SUFFICES ASSUME i + 1 <= n PROVE f[i + 1] = g[i + 1]
      OBVIOUS
    <2>1. i + 1 \in 0..n /\ i + 1 \in 0..m /\ i + 1 # 0 /\ (i + 1) - 1 = i /\ f[i] = g[i]
      BY <1>2
    <2>2. f[i + 1] = 2 * f[i] /\ g[i + 1] = 2 * g[i]
      BY <2>1 DEF PowTo
    <2> QED
      BY <2>1, <2>2
  <1> HIDE DEF S
  <1>3. Nat \subseteq S
    BY <1>1, <1>2, SetInduction
  <1> QED
    BY <1>3 DEF S

Doubling(f) == f = [n \in Nat |-> IF n = 0 THEN 1 ELSE 2 * f[n - 1]]

LEMMA PowDoubles == Doubling(Pow) /\ Doubling(Java!Pow)
  <1> DEFINE upTo(n) == CHOOSE f : PowTo(n, f)
             p == [n \in Nat |-> upTo(n)[n]]
  <1>1. ASSUME NEW n \in Nat PROVE p[n] = IF n = 0 THEN 1 ELSE 2 * p[n - 1]
    <2>1. PowTo(n, upTo(n))
      BY PowToExists
    <2>2. CASE n = 0
      <3> HIDE DEF upTo
      <3>1. upTo(n)[n] = 1
        BY <2>1, <2>2 DEF PowTo
      <3> QED
        BY <2>2, <3>1
    <2>3. CASE n # 0
      <3>1. n - 1 \in Nat /\ n \in 0..n /\ n - 1 \in 0..(n - 1) /\ n - 1 <= n
        BY <2>3
      <3>2. PowTo(n - 1, upTo(n - 1))
        BY <3>1, PowToExists
      <3> HIDE DEF upTo
      <3>3. upTo(n)[n] = 2 * upTo(n)[n - 1]
        BY <2>1, <2>3, <3>1 DEF PowTo
      <3>4. upTo(n - 1)[n - 1] = upTo(n)[n - 1]
        BY <2>1, <3>1, <3>2, PowToAgree
      <3> QED
        BY <2>3, <3>1, <3>3, <3>4
    <2> QED
      BY <2>2, <2>3
  <1>2. p = [n \in Nat |-> p[n]]
    OBVIOUS
  <1> HIDE DEF p
  <1>3. p = [n \in Nat |-> IF n = 0 THEN 1 ELSE 2 * p[n - 1]]
    BY <1>1, <1>2
  <1> QED
    BY <1>3, Zenon DEF Doubling, Pow, Java!Pow

LEMMA PowFacts ==
    /\ Pow[0] = 1
    /\ \A n \in Nat : Pow[n] \in Nat \ {0} /\ Pow[n + 1] = 2 * Pow[n]
  <1>1. /\ Pow[0] = 1
        /\ \A n \in Nat : n # 0 => Pow[n] = 2 * Pow[n - 1]
    BY PowDoubles DEF Doubling
  <1>2. \A n \in Nat : Pow[n + 1] = 2 * Pow[n]
    <2> TAKE n \in Nat
    <2>1. n + 1 \in Nat /\ n + 1 # 0 /\ (n + 1) - 1 = n
      OBVIOUS
    <2> QED
      BY <1>1, <2>1
  <1> DEFINE S == {n \in Nat : Pow[n] \in Nat \ {0}}
  <1>3. 0 \in S
    BY <1>1
  <1>4. ASSUME NEW n \in Nat, n \in S PROVE n + 1 \in S
    BY <1>2, <1>4
  <1> HIDE DEF S
  <1>5. Nat \subseteq S
    BY <1>3, <1>4, SetInduction
  <1> QED
    BY <1>1, <1>2, <1>5 DEF S

\* Pow turns sums into products.
LEMMA PowOfSum == \A m, n \in Nat : Pow[m + n] = Pow[m] * Pow[n]
  <1> SUFFICES ASSUME NEW m \in Nat PROVE \A n \in Nat : Pow[m + n] = Pow[m] * Pow[n]
    OBVIOUS
  <1> DEFINE S == {n \in Nat : Pow[m + n] = Pow[m] * Pow[n]}
  <1>1. 0 \in S
    BY PowFacts
  <1>2. ASSUME NEW n \in Nat, n \in S PROVE n + 1 \in S
    <2>1. Pow[m + n] = Pow[m] * Pow[n] /\ Pow[m] \in Nat /\ Pow[n] \in Nat
      BY <1>2, PowFacts
    <2>2. Pow[m + (n + 1)] = 2 * Pow[m + n]
      <3>1. m + n \in Nat /\ m + (n + 1) = (m + n) + 1
        OBVIOUS
      <3> QED
        BY <3>1, PowFacts
    <2>3. Pow[n + 1] = 2 * Pow[n]
      BY PowFacts
    <2>4. 2 * (Pow[m] * Pow[n]) = Pow[m] * (2 * Pow[n])
      BY <2>1
    <2> QED
      BY <2>1, <2>2, <2>3, <2>4
  <1> HIDE DEF S
  <1>3. Nat \subseteq S
    BY <1>1, <1>2, SetInduction
  <1> QED
    BY <1>3 DEF S

LEMMA SamePow == Java!Pow = Pow
  BY Zenon DEF Pow, Java!Pow

-----------------------------------------------------------------------------
(* Division                                                                *)

LEMMA Divides ==
    ASSUME NEW n \in Int, NEW m \in Nat \ {0}
    PROVE  n \div m \in Int /\ n % m \in 0..(m - 1) /\ n = (m * (n \div m)) + (n % m)
  OBVIOUS

LEMMA DivisionIsUnique ==
    ASSUME NEW m \in Nat \ {0}, NEW q \in Int, NEW p \in Int, NEW r \in 0..(m - 1),
           NEW s \in 0..(m - 1), (m * q) + r = (m * p) + s
    PROVE  q = p /\ r = s
  OBVIOUS

LEMMA Quotients ==
    ASSUME NEW n \in Int, NEW m \in Nat \ {0}, NEW q \in Int, NEW r \in 0..(m - 1),
           n = (m * q) + r
    PROVE  n \div m = q /\ n % m = r
  <1>1. PICK p \in Int, s \in 0..(m - 1) : p = n \div m /\ s = n % m
    BY Divides
  <1>2. (m * q) + r = (m * p) + s
    BY <1>1, Divides
  <1> QED
    BY <1>1, <1>2, DivisionIsUnique

LEMMA MultiplesVanish ==
    ASSUME NEW n \in Int, NEW m \in Nat \ {0}, NEW k \in Int
    PROVE  (n + (m * k)) % m = n % m /\ (n + (m * k)) \div m = (n \div m) + k
  <1>1. PICK q \in Int, r \in 0..(m - 1) : q = n \div m /\ r = n % m /\ n = (m * q) + r
    BY Divides
  <1>2. n + (m * k) = (m * (q + k)) + r
    BY <1>1
  <1>3. n + (m * k) \in Int /\ q + k \in Int
    BY <1>1
  <1> QED
    BY <1>1, <1>2, <1>3, Quotients

\* Numbers with the same remainder are a multiple apart.
LEMMA SameRemainder ==
    ASSUME NEW n \in Int, NEW k \in Int, NEW m \in Nat \ {0}, n % m = k % m
    PROVE  \E q \in Int : n = k + (m * q)
  <1>1. PICK p \in Int, r \in 0..(m - 1) : r = n % m /\ n = (m * p) + r
    BY Divides
  <1>2. PICK q \in Int, s \in 0..(m - 1) : s = k % m /\ k = (m * q) + s
    BY Divides
  <1>3. n = (m * p) + r /\ k = (m * q) + r /\ r \in Int
    BY <1>1, <1>2
  <1>4. p - q \in Int /\ n = k + (m * (p - q))
    BY <1>3
  <1> QED
    BY <1>4

-----------------------------------------------------------------------------
(* Bytes                                                                   *)

\* The bytes s are in the file f, from offset p.
At(f, p, s) == p \in Nat /\ p + Len(s) <= Len(f) /\ \A i \in 1..Len(s) : f[p + i] = s[i]

LEMMA ConcatFacts ==
    ASSUME NEW S, NEW s \in Seq(S), NEW t \in Seq(S)
    PROVE  /\ s \o t \in Seq(S) /\ Len(s \o t) = Len(s) + Len(t)
           /\ \A i \in 1..Len(s) : (s \o t)[i] = s[i]
           /\ \A i \in 1..Len(t) : (s \o t)[Len(s) + i] = t[i]
  <1>1. Len(s) \in Nat /\ Len(t) \in Nat
    OBVIOUS
  <1>2. \A i \in 1..Len(t) : /\ Len(s) + i \in 1..(Len(s) + Len(t))
                             /\ ~(Len(s) + i <= Len(s)) /\ (Len(s) + i) - Len(s) = i
    BY <1>1
  <1>3. \A i \in 1..Len(s) : i \in 1..(Len(s) + Len(t)) /\ i <= Len(s)
    BY <1>1
  <1>4. /\ s \o t \in Seq(S) /\ Len(s \o t) = Len(s) + Len(t)
        /\ \A i \in 1..(Len(s) + Len(t)) : (s \o t)[i] = IF i <= Len(s) THEN s[i] ELSE t[i - Len(s)]
    BY ConcatProperties, Zenon
  <1>5. \A i \in 1..Len(s) : (s \o t)[i] = s[i]
    BY <1>3, <1>4, Zenon
  <1>6. ASSUME NEW i \in 1..Len(t) PROVE (s \o t)[Len(s) + i] = t[i]
    <2>1. (s \o t)[Len(s) + i] = t[(Len(s) + i) - Len(s)]
      BY <1>2, <1>4, Zenon
    <2>2. (Len(s) + i) - Len(s) = i
      BY <1>2
    <2> QED
      BY <2>1, <2>2, Zenon
  <1> QED
    BY <1>4, <1>5, <1>6, Zenon

LEMMA AtParts ==
    ASSUME NEW f \in Seq(Nat), NEW p, NEW s \in Seq(Nat), NEW t \in Seq(Nat), At(f, p, s \o t)
    PROVE  At(f, p, s) /\ At(f, p + Len(s), t)
  <1>1. /\ Len(s) \in Nat /\ Len(t) \in Nat /\ Len(f) \in Nat /\ p \in Nat
        /\ p + Len(s) + Len(t) <= Len(f) /\ Len(s \o t) = Len(s) + Len(t)
    BY ConcatFacts DEF At
  <1>2. \A i \in 1..Len(s) : f[p + i] = s[i]
    <2> SUFFICES ASSUME NEW i \in 1..Len(s) PROVE f[p + i] = s[i]
      OBVIOUS
    <2>1. i \in 1..Len(s \o t)
      BY <1>1
    <2> QED
      BY <2>1, ConcatFacts, Zenon DEF At
  <1>3. ASSUME NEW i \in 1..Len(t) PROVE f[(p + Len(s)) + i] = t[i]
    <2>0. i \in Nat /\ 1 <= i /\ i <= Len(t)
      BY <1>1
    <2>1. Len(s) + i \in 1..Len(s \o t)
      BY <1>1, <2>0, SMT
    <2>2. f[p + (Len(s) + i)] = (s \o t)[Len(s) + i]
      BY <2>1, Zenon DEF At
    <2>4. (s \o t)[Len(s) + i] = t[i]
      BY ConcatFacts
    <2>3. p + (Len(s) + i) = (p + Len(s)) + i
      BY <1>1
    <2> QED
      BY <2>2, <2>3, <2>4, Zenon
  <1>4. p + Len(s) \in Nat /\ (p + Len(s)) + Len(t) <= Len(f) /\ p + Len(s) <= Len(f)
    BY <1>1
  <1> QED
    BY <1>1, <1>2, <1>3, <1>4, Zenon DEF At

LEMMA U1Is ==
    ASSUME NEW n \in Nat
    PROVE  /\ Format!U1(n) \in Seq(Nat) /\ Len(Format!U1(n)) = 1
           /\ \A f, p : At(f, p, Format!U1(n)) => U1(f, p) = n
  <1>1. ASSUME NEW f, NEW p, At(f, p, <<n>>) PROVE f[p + 1] = n
    BY <1>1, SMT DEF At
  <1> QED
    BY <1>1, SMT DEF U1, Format!U1

\* A factor may be replaced by what it is.
LEMMA FactorIs ==
    ASSUME NEW n, NEW m, NEW k, m = k, NEW q, NEW r, n = (m * q) + r
    PROVE  n = (k * q) + r
  OBVIOUS

LEMMA U2Splits ==
    ASSUME NEW n \in Word
    PROVE  \E q, r \in Nat : n = (256 * q) + r /\ Format!U2(n) = <<q, r>>
  <1>1. n \in Int /\ n >= 0
    BY SMT DEF Word
  <1>2. PICK m \in Nat \ {0} : m = 256
    BY SMT
  <1>3. n \div m \in Int /\ n % m \in 0..(m - 1) /\ n = (m * (n \div m)) + (n % m)
    BY <1>1, Divides, Zenon
  <1>4. PICK q, r : q = n \div m /\ r = n % m
    OBVIOUS
  <1>5. q \in Int /\ r \in 0..(m - 1) /\ n = (m * q) + r
    BY <1>3, <1>4, Zenon
  <1>6. q \in Nat /\ r \in Nat /\ n = (256 * q) + r
    <2>1. n = (256 * q) + r
      <3> DEFINE k == 256
      <3>1. m = k
        BY <1>2, SMT
      <3> HIDE DEF k
      <3>2. n = (k * q) + r
        BY <1>5, <3>1, FactorIs, Zenon
      <3> QED
        BY <3>2, SMT DEF k
    <2>2. r \in Nat /\ r < 256
      BY <1>2, <1>5
    <2> QED
      BY <1>1, <1>5, <2>1, <2>2
  <1>7. Format!U2(n) = <<q, r>>
    BY <1>2, <1>4, SMT DEF Format!U2
  <1> QED
    BY <1>6, <1>7, SMT

LEMMA U2Is ==
    ASSUME NEW n \in Word
    PROVE  /\ Format!U2(n) \in Seq(Nat) /\ Len(Format!U2(n)) = 2
           /\ \A f, p : At(f, p, Format!U2(n)) => U2(f, p) = n
  <1>1. PICK q, r \in Nat : n = (256 * q) + r /\ Format!U2(n) = <<q, r>>
    BY U2Splits
  <1>2. ASSUME NEW f, NEW p, At(f, p, <<q, r>>) PROVE U2(f, p) = n
    <2>1. f[p + 1] = q /\ f[p + 2] = r
      BY <1>2, SMT DEF At
    <2> QED
      BY <1>1, <2>1, SMT DEF U2
  <1>3. <<q, r>> \in Seq(Nat) /\ Len(<<q, r>>) = 2
    BY SMT
  <1>4. Format!U2(n) = <<q, r>>
    BY <1>1, Zenon
  <1> QED
    BY <1>2, <1>3, <1>4, Zenon

\* A number of four bytes.

LEMMA U4Splits ==
    ASSUME NEW n, IsLong(n)
    PROVE  \E q, r \in Word : n = (65536 * q) + r /\ Format!U4(n) = Format!U2(q) \o Format!U2(r)
  <1>1. n \in Int /\ n \div 65536 \in Word
    BY SMT DEF IsLong
  <1>2. PICK m \in Nat \ {0} : m = 65536
    BY SMT
  <1>3. n % m \in 0..(m - 1) /\ n = (m * (n \div m)) + (n % m)
    BY <1>1, Divides, SMT
  <1>4. PICK q, r : q = n \div m /\ r = n % m
    OBVIOUS
  <1>5. r \in 0..(m - 1) /\ n = (m * q) + r
    BY <1>3, <1>4, Zenon
  <1>6. q \in Word
    BY <1>1, <1>2, <1>4, SMT
  <1>7. r \in Word /\ q \in Int
    <2>1. r \in 0..(m - 1)
      BY <1>5, Zenon
    <2>2. r \in Int /\ 0 <= r /\ r <= m - 1
      BY <2>1
    <2>3. r \in Int /\ 0 <= r /\ r <= 65535
      BY <1>2, <2>2, SMT
    <2>4. \A i \in Int : 0 <= i /\ i <= 65535 => i \in Word
      BY SMT DEF Word
    <2>5. \A i \in Word : i \in Int
      BY SMTT(40) DEF Word
    <2> QED
      BY <1>6, <2>3, <2>4, <2>5, SMT
  <1>8. n = (65536 * q) + r
    <2> DEFINE k == 65536
    <2>1. m = k
      BY <1>2, SMT
    <2> HIDE DEF k
    <2>2. n = (k * q) + r
      BY <1>5, <2>1, FactorIs, Zenon
    <2> QED
      BY <2>2, SMT DEF k
  <1>9. Format!U4(n) = Format!U2(q) \o Format!U2(r)
    BY <1>2, <1>4, SMT DEF Format!U4
  <1> QED
    BY <1>6, <1>7, <1>8, <1>9, SMT

LEMMA U4Is ==
    ASSUME NEW n, IsLong(n)
    PROVE  /\ Format!U4(n) \in Seq(Nat) /\ Len(Format!U4(n)) = 4
           /\ \A f \in Seq(Nat) : \A p : At(f, p, Format!U4(n)) => U4(f, p) = n
  <1>1. PICK q, r \in Word : n = (65536 * q) + r /\ Format!U4(n) = Format!U2(q) \o Format!U2(r)
    BY U4Splits
  <1>0. Format!U4(n) = Format!U2(q) \o Format!U2(r)
    BY <1>1, SMT
  <1>2. /\ Format!U2(q) \in Seq(Nat) /\ Len(Format!U2(q)) = 2
        /\ Format!U2(r) \in Seq(Nat) /\ Len(Format!U2(r)) = 2
    BY U2Is
  <1>3. ASSUME NEW f \in Seq(Nat), NEW p, At(f, p, Format!U4(n)) PROVE U4(f, p) = n
    <2>0. At(f, p, Format!U2(q) \o Format!U2(r))
      BY <1>0, <1>3, Zenon
    <2>1. At(f, p, Format!U2(q)) /\ At(f, p + Len(Format!U2(q)), Format!U2(r))
      BY <1>2, <2>0, AtParts, Zenon
    <2>2. U2(f, p) = q /\ U2(f, p + Len(Format!U2(q))) = r
      BY <2>1, U2Is, Zenon
    <2> QED
      BY <1>1, <1>2, <2>2, SMT DEF U4
  <1>4. /\ Format!U2(q) \o Format!U2(r) \in Seq(Nat)
        /\ Len(Format!U2(q) \o Format!U2(r)) = Len(Format!U2(q)) + Len(Format!U2(r))
    BY <1>2, ConcatFacts, Zenon
  <1>5. Format!U4(n) \in Seq(Nat) /\ Len(Format!U4(n)) = 4
    BY <1>0, <1>2, <1>4, SMT
  <1> QED
    BY <1>3, <1>5, Zenon

-----------------------------------------------------------------------------
(* Sequences of sequences                                                  *)

\* The first i of the sequences ss, put together, for each i up to n.
JoinsTo(n, pre, ss, S) ==
    /\ pre \in [0..n -> Seq(S)] /\ pre[0] = <<>>
    /\ \A i \in 1..n : pre[i] = pre[i - 1] \o ss[i]
Joins(pre, ss, S) == JoinsTo(Len(ss), pre, ss, S)

LEMMA JoinsExist ==
    ASSUME NEW S, NEW ss \in Seq(Seq(S))
    PROVE  \E pre : Joins(pre, ss, S)
  <1> DEFINE T == {n \in Nat : n <= Len(ss) => \E f : JoinsTo(n, f, ss, S)}
  <1>0. Len(ss) \in Nat /\ \A i \in 1..Len(ss) : ss[i] \in Seq(S)
    OBVIOUS
  <1>1. 0 \in T
    <2> DEFINE f == [i \in 0..0 |-> <<>>]
    <2>1. f \in [0..0 -> Seq(S)] /\ f[0] = <<>> /\ \A i \in 1..0 : f[i] = f[i - 1] \o ss[i]
      OBVIOUS
    <2> QED
      BY <2>1 DEF JoinsTo
  <1>2. ASSUME NEW n \in Nat, n \in T PROVE n + 1 \in T
    <2>0. n + 1 \in Nat
      OBVIOUS
    <2> SUFFICES ASSUME n + 1 <= Len(ss) PROVE \E f : JoinsTo(n + 1, f, ss, S)
      BY <2>0, Zenon
    <2>1. n <= Len(ss) /\ n + 1 \in 1..Len(ss)
      BY <1>0
    <2>2. PICK f : JoinsTo(n, f, ss, S)
      BY <1>2, <2>1
    <2> DEFINE g == [i \in 0..(n + 1) |-> IF i = n + 1 THEN f[n] \o ss[i] ELSE f[i]]
    <2>3. f[n] \in Seq(S) /\ ss[n + 1] \in Seq(S)
      BY <1>0, <2>1, <2>2 DEF JoinsTo
    <2>4. f[n] \o ss[n + 1] \in Seq(S)
      BY <2>3
    <2>5. \A i \in 0..n : f[i] \in Seq(S)
      BY <2>2 DEF JoinsTo
    <2>6. g \in [0..(n + 1) -> Seq(S)]
      <3>1. ASSUME NEW i \in 0..(n + 1) PROVE g[i] \in Seq(S)
        <4>1. CASE i = n + 1
          BY <2>4, <4>1
        <4>2. CASE i # n + 1
          BY <2>5, <4>2
        <4> QED
          BY <4>1, <4>2
      <3> QED
        BY <3>1
    <2>7. g[0] = <<>>
      BY <2>2 DEF JoinsTo
    <2>8. ASSUME NEW i \in 1..(n + 1) PROVE g[i] = g[i - 1] \o ss[i]
      <3>1. CASE i = n + 1
        <4>0. i \in 0..(n + 1)
          OBVIOUS
        <4>1. g[i] = f[n] \o ss[i]
          BY <3>1, <4>0, Zenon
        <4>2. i - 1 = n /\ g[n] = f[n]
          BY <3>1
        <4> QED
          BY <3>1, <4>1, <4>2
      <3>2. CASE i # n + 1
        <4>1. i \in 1..n /\ g[i] = f[i] /\ g[i - 1] = f[i - 1]
          BY <3>2
        <4> QED
          BY <2>2, <4>1 DEF JoinsTo
      <3> QED
        BY <3>1, <3>2
    <2> HIDE DEF g
    <2> QED
      BY <2>6, <2>7, <2>8 DEF JoinsTo
  <1> HIDE DEF T
  <1>3. Nat \subseteq T
    BY <1>1, <1>2, SetInduction
  <1>4. \E f : JoinsTo(Len(ss), f, ss, S)
    BY <1>0, <1>3 DEF T
  <1> QED
    BY <1>4 DEF Joins

LEMMA FlattenIs ==
    ASSUME NEW S, NEW ss \in Seq(Seq(S)), NEW pre, Joins(pre, ss, S)
    PROVE  FlattenSeq(ss) = pre[Len(ss)] /\ Format!FlattenSeq(ss) = pre[Len(ss)]
  <1>0. Len(ss) \in Nat /\ \A i \in 1..Len(ss) : ss[i] \in Seq(S)
    OBVIOUS
  <1>1. CASE Len(ss) = 0
    <2>1. ss = <<>>
      BY <1>1
    <2> QED
      BY <1>1, <2>1, Zenon DEF FlattenSeq, Format!FlattenSeq, Joins, JoinsTo
  <1>2. CASE Len(ss) # 0
    <2> DEFINE n == Len(ss)
               g == [i \in 1..n |-> pre[i]]
               flat == CHOOSE f : f = [i \in 1..n |-> IF i = 1 THEN ss[i] ELSE f[i - 1] \o ss[i]]
               Rule(f) == f = [i \in 1..n |-> IF i = 1 THEN ss[i] ELSE f[i - 1] \o ss[i]]
    <2>1. ASSUME NEW i \in 1..n PROVE g[i] = IF i = 1 THEN ss[i] ELSE g[i - 1] \o ss[i]
      <3>1. pre[i] = pre[i - 1] \o ss[i] /\ pre[0] = <<>> /\ ss[i] \in Seq(S)
        BY <1>0 DEF Joins, JoinsTo
      <3>2. CASE i = 1
        <4>1. i - 1 = 0
          BY <3>2
        <4>2. <<>> \o ss[i] = ss[i]
          BY <3>1
        <4> QED
          BY <3>1, <3>2, <4>1, <4>2
      <3>3. CASE i # 1
        <4>1. i - 1 \in 1..n
          BY <1>0, <3>3
        <4> QED
          BY <3>1, <3>3, <4>1
      <3> QED
        BY <3>2, <3>3
    <2>2. g = [i \in 1..n |-> g[i]]
      OBVIOUS
    <2>3. n \in 1..n /\ g[n] = pre[n]
      BY <1>0, <1>2
    <2> HIDE DEF g
    <2>4. Rule(g)
      BY <2>1, <2>2
    <2>5. flat = CHOOSE f : Rule(f)
      BY Zenon
    <2> HIDE DEF Rule, flat
    <2>6. Rule(flat)
      BY <2>4, <2>5, Zenon
    <2>7. \A i \in 1..n : flat[i] = IF i = 1 THEN ss[i] ELSE flat[i - 1] \o ss[i]
      BY <2>6 DEF Rule
    <2> DEFINE T == {k \in Nat : k + 1 <= n => flat[k + 1] = g[k + 1]}
    <2>8. 0 \in T
      <3>1. 0 + 1 \in 1..n /\ 0 + 1 = 1
        BY <1>0, <1>2
      <3> QED
        BY <2>1, <2>7, <3>1
    <2>9. ASSUME NEW k \in Nat, k \in T PROVE k + 1 \in T
      <3> SUFFICES ASSUME (k + 1) + 1 <= n PROVE flat[(k + 1) + 1] = g[(k + 1) + 1]
        OBVIOUS
      <3>1. (k + 1) + 1 \in 1..n /\ ((k + 1) + 1) - 1 = k + 1 /\ (k + 1) + 1 # 1
        BY <1>0
      <3>2. flat[k + 1] = g[k + 1]
        BY <1>0, <2>9
      <3> QED
        BY <2>1, <2>7, <3>1, <3>2
    <2> HIDE DEF T
    <2>10. Nat \subseteq T
      BY <2>8, <2>9, SetInduction
    <2>11. n - 1 \in T /\ (n - 1) + 1 = n
      BY <1>0, <1>2, <2>10
    <2>12. flat[n] = g[n]
      BY <1>0, <2>11 DEF T
    <2>13. FlattenSeq(ss) = flat[n] /\ Format!FlattenSeq(ss) = flat[n]
      BY <1>2, Zenon DEF FlattenSeq, Format!FlattenSeq, flat
    <2> QED
      BY <2>3, <2>12, <2>13
  <1> QED
    BY <1>1, <1>2

LEMMA FlattenFacts ==
    ASSUME NEW S, NEW ss \in Seq(Seq(S))
    PROVE  /\ FlattenSeq(ss) \in Seq(S) /\ Format!FlattenSeq(ss) = FlattenSeq(ss)
           /\ \E pre : Joins(pre, ss, S) /\ FlattenSeq(ss) = pre[Len(ss)]
  <1>1. PICK pre : Joins(pre, ss, S)
    BY JoinsExist
  <1>2. FlattenSeq(ss) = pre[Len(ss)] /\ Format!FlattenSeq(ss) = pre[Len(ss)]
    BY <1>1, FlattenIs
  <1>3. pre[Len(ss)] \in Seq(S)
    BY <1>1 DEF Joins, JoinsTo
  <1> QED
    BY <1>1, <1>2, <1>3

Joined(pre, ss, S, i, j) ==
    /\ pre[j] \in Seq(S) /\ pre[i] \in Seq(S) /\ ss[i] \in Seq(S)
    /\ pre[i] = pre[j] \o ss[i]
    /\ Len(pre[i]) = Len(pre[j]) + Len(ss[i])
    /\ Len(pre[j]) \in Nat /\ Len(ss[i]) \in Nat

LEMMA JoinsGrow ==
    ASSUME NEW S, NEW ss \in Seq(Seq(S)), NEW pre, Joins(pre, ss, S)
    PROVE  \A i \in 1..Len(ss) : Joined(pre, ss, S, i, i - 1)
  <1> SUFFICES ASSUME NEW i \in 1..Len(ss) PROVE Joined(pre, ss, S, i, i - 1)
    OBVIOUS
  <1>0. PICK j : j = i - 1
    OBVIOUS
  <1>1. j \in 0..Len(ss) /\ i \in 0..Len(ss)
    BY <1>0
  <1>2. pre[j] \in Seq(S) /\ pre[i] \in Seq(S) /\ pre[i] = pre[j] \o ss[i]
    BY <1>0, <1>1 DEF Joins, JoinsTo
  <1>3. ss[i] \in Seq(S)
    OBVIOUS
  <1>4. ASSUME NEW s \in Seq(S), NEW t \in Seq(S) PROVE Len(s \o t) = Len(s) + Len(t)
    OBVIOUS
  <1>5. Len(pre[j] \o ss[i]) = Len(pre[j]) + Len(ss[i])
    BY <1>2, <1>3, <1>4, Zenon
  <1>6. Len(pre[j]) \in Nat /\ Len(ss[i]) \in Nat
    BY <1>2, <1>3
  <1> QED
    BY <1>0, <1>2, <1>3, <1>5, <1>6, Zenon DEF Joined

\* What is said of all elements is said of all in the flat sequence.
LEMMA FlattenElements ==
    ASSUME NEW S, NEW ss \in Seq(Seq(S)), NEW R, \A i \in 1..Len(ss) : ss[i] \in Seq(R)
    PROVE  FlattenSeq(ss) \in Seq(R)
  <1>1. ss \in Seq(Seq(R))
    <2>1. ss = [i \in 1..Len(ss) |-> ss[i]] /\ Len(ss) \in Nat
      OBVIOUS
    <2>2. [i \in 1..Len(ss) |-> ss[i]] \in Seq(Seq(R))
      BY <2>1
    <2> QED
      BY <2>1, <2>2, Zenon
  <1> QED
    BY <1>1, FlattenFacts, Zenon

LEMMA FixedLengths ==
    ASSUME NEW S, NEW ss \in Seq(Seq(S)), NEW k \in Nat, \A i \in 1..Len(ss) : Len(ss[i]) = k
    PROVE  Len(FlattenSeq(ss)) = k * Len(ss)
  <1>1. PICK pre : Joins(pre, ss, S) /\ FlattenSeq(ss) = pre[Len(ss)]
    BY FlattenFacts
  <1> DEFINE T == {i \in Nat : i <= Len(ss) => Len(pre[i]) = k * i}
  <1>2. 0 \in T
    BY <1>1 DEF Joins, JoinsTo
  <1>3. ASSUME NEW i \in Nat, i \in T PROVE i + 1 \in T
    <2> SUFFICES ASSUME i + 1 <= Len(ss) PROVE Len(pre[i + 1]) = k * (i + 1)
      OBVIOUS
    <2>1. i + 1 \in 1..Len(ss) /\ i = (i + 1) - 1 /\ i <= Len(ss)
      OBVIOUS
    <2>2. Joined(pre, ss, S, i + 1, (i + 1) - 1)
      BY <1>1, <2>1, JoinsGrow, Zenon
    <2>3. Len(pre[i]) = k * i /\ Len(ss[i + 1]) = k
      BY <1>3, <2>1
    <2>4. k * (i + 1) = (k * i) + k
      OBVIOUS
    <2> QED
      BY <2>1, <2>2, <2>3, <2>4 DEF Joined
  <1> HIDE DEF T
  <1>4. Nat \subseteq T
    BY <1>2, <1>3, SetInduction
  <1>5. Len(ss) \in T /\ Len(ss) \in Nat
    BY <1>4
  <1> QED
    BY <1>1, <1>5 DEF T

LEMMA AtJoins ==
    ASSUME NEW f \in Seq(Nat), NEW p, NEW ss \in Seq(Seq(Nat)), NEW pre, Joins(pre, ss, Nat),
           At(f, p, pre[Len(ss)])
    PROVE  \A i \in 1..Len(ss) : At(f, p + Len(pre[i - 1]), ss[i])
  <1> DEFINE n == Len(ss)
             T == {k \in Nat : k <= n => At(f, p, pre[n - k])}
  <1>0. n \in Nat
    OBVIOUS
  <1>1. 0 \in T
    <2>1. n - 0 = n
      BY <1>0
    <2> QED
      BY <2>1
  <1>2. ASSUME NEW k \in Nat, k \in T PROVE k + 1 \in T
    <2> SUFFICES ASSUME k + 1 <= n PROVE At(f, p, pre[n - (k + 1)])
      OBVIOUS
    <2>1. n - k \in 1..n /\ n - (k + 1) = (n - k) - 1 /\ k <= n
      BY <1>0
    <2>0. Joined(pre, ss, Nat, n - k, (n - k) - 1)
      BY <2>1, JoinsGrow, Zenon
    <2>2. /\ pre[n - (k + 1)] \in Seq(Nat) /\ ss[n - k] \in Seq(Nat)
          /\ pre[n - k] = pre[n - (k + 1)] \o ss[n - k]
      BY <2>0, <2>1, Zenon DEF Joined
    <2>3. At(f, p, pre[n - k])
      BY <1>2, <2>1
    <2>4. At(f, p, pre[n - (k + 1)] \o ss[n - k])
      BY <2>2, <2>3
    <2> QED
      BY <2>2, <2>4, AtParts, Zenon
  <1> HIDE DEF T
  <1>3. Nat \subseteq T
    BY <1>1, <1>2, SetInduction
  <1>4. ASSUME NEW i \in 1..n PROVE At(f, p + Len(pre[i - 1]), ss[i])
    <2>1. n - i \in T /\ n - i <= n /\ n - (n - i) = i
      BY <1>0, <1>3
    <2>2. At(f, p, pre[i])
      BY <2>1 DEF T
    <2>3. pre[i - 1] \in Seq(Nat) /\ ss[i] \in Seq(Nat) /\ pre[i] = pre[i - 1] \o ss[i]
      <3>1. Joined(pre, ss, Nat, i, i - 1)
        BY JoinsGrow, Zenon
      <3> QED
        BY <3>1, Zenon DEF Joined
    <2>4. At(f, p, pre[i - 1] \o ss[i])
      BY <2>2, <2>3
    <2> QED
      BY <2>3, <2>4, AtParts, Zenon
  <1> QED
    BY <1>4

-----------------------------------------------------------------------------
(* Tables                                                                  *)

\* What read gives for the bytes s in file f, wherever they are.
Gives(f, read, s, x) == \A q \in Nat : At(f, q, s) => read[q] = [at |-> q + Len(s), item |-> x]
GivesAll(f, read, ss, items) ==
    Len(items) = Len(ss) /\ \A i \in 1..Len(ss) : Gives(f, read, ss[i], items[i])

LEMMA ManyIs ==
    ASSUME NEW f \in Seq(Nat), NEW p \in Nat, NEW ss \in Seq(Seq(Nat)), At(f, p, FlattenSeq(ss)),
           NEW S, NEW items \in Seq(S), NEW read, GivesAll(f, read, ss, items)
    PROVE  Many(read, Len(ss), p) = [at |-> p + Len(FlattenSeq(ss)), item |-> items]
  <1>1. PICK pre : Joins(pre, ss, Nat) /\ FlattenSeq(ss) = pre[Len(ss)]
    BY FlattenFacts
  <1> DEFINE n == Len(ss)
             Start == [at |-> p, item |-> <<>>]
             Rule(g) == g = [i \in 0..n |->
                 IF i = 0 THEN [at |-> p, item |-> <<>>]
                 ELSE LET last == g[i - 1]
                          next == read[last.at]
                      IN  [at |-> next.at, item |-> Append(last.item, next.item)]]
             St(i) == [at |-> p + Len(pre[i]), item |-> SubSeq(items, 1, i)]
             h == [i \in 0..n |-> St(i)]
             after == CHOOSE g : Rule(g)
  <1>0. n \in Nat /\ Len(items) = n /\ \A i \in 1..n : Gives(f, read, ss[i], items[i])
    BY DEF GivesAll
  <1>2. St(0) = [at |-> p, item |-> <<>>]
    <2>1. pre[0] = <<>> /\ SubSeq(items, 1, 0) = <<>>
      BY <1>1 DEF Joins, JoinsTo
    <2> QED
      BY <2>1
  <1>3. ASSUME NEW i \in 1..n
        PROVE  /\ read[p + Len(pre[i - 1])] = [at |-> p + Len(pre[i]), item |-> items[i]]
               /\ SubSeq(items, 1, i) = Append(SubSeq(items, 1, i - 1), items[i])
    <2>1. At(f, p + Len(pre[i - 1]), ss[i])
      BY <1>1, AtJoins
    <2>2. Len(pre[i]) = Len(pre[i - 1]) + Len(ss[i]) /\ Len(pre[i - 1]) \in Nat /\ Len(ss[i]) \in Nat
      <3>1. Joined(pre, ss, Nat, i, i - 1)
        BY <1>1, JoinsGrow, Zenon
      <3> QED
        BY <3>1, Zenon DEF Joined
    <2>3. p + Len(pre[i - 1]) \in Nat
      BY <2>2
    <2>4. read[p + Len(pre[i - 1])] = [at |-> (p + Len(pre[i - 1])) + Len(ss[i]), item |-> items[i]]
      BY <1>0, <2>1, <2>3, Zenon DEF Gives
    <2>5. (p + Len(pre[i - 1])) + Len(ss[i]) = p + Len(pre[i])
      <3>1. \A k, l, m : k = l + m /\ l \in Nat /\ m \in Nat => (p + l) + m = p + k
        OBVIOUS
      <3> QED
        BY <2>2, <3>1, Zenon
    <2>6. SubSeq(items, 1, i) = Append(SubSeq(items, 1, i - 1), items[i])
      BY <1>0
    <2> QED
      BY <2>4, <2>5, <2>6, Zenon
  <1>4. ASSUME NEW i \in 0..n
        PROVE  h[i] = IF i = 0 THEN [at |-> p, item |-> <<>>]
                      ELSE [at |-> read[h[i - 1].at].at,
                            item |-> Append(h[i - 1].item, read[h[i - 1].at].item)]
    <2>1. CASE i = 0
      BY <1>2, <2>1
    <2>2. CASE i # 0
      <3>1. i \in 1..n /\ i - 1 \in 0..n
        BY <1>0, <2>2
      <3>2. h[i - 1] = [at |-> p + Len(pre[i - 1]), item |-> SubSeq(items, 1, i - 1)]
        BY <3>1
      <3>3. h[i] = [at |-> p + Len(pre[i]), item |-> SubSeq(items, 1, i)]
        OBVIOUS
      <3> HIDE DEF h
      <3>4. h[i - 1].at = p + Len(pre[i - 1]) /\ h[i - 1].item = SubSeq(items, 1, i - 1)
        BY <3>2
      <3>5. read[h[i - 1].at] = [at |-> p + Len(pre[i]), item |-> items[i]]
        BY <1>3, <3>1, <3>4, Zenon
      <3>6. read[h[i - 1].at].at = p + Len(pre[i]) /\ read[h[i - 1].at].item = items[i]
        BY <3>5
      <3>7. SubSeq(items, 1, i) = Append(SubSeq(items, 1, i - 1), items[i])
        BY <1>3, <3>1, Zenon
      <3> QED
        BY <2>2, <3>3, <3>4, <3>6, <3>7, Zenon
    <2> QED
      BY <2>1, <2>2
  <1>5. h = [i \in 0..n |-> h[i]] /\ h[n] = [at |-> p + Len(pre[n]), item |-> SubSeq(items, 1, n)]
    BY <1>0
  <1>6. SubSeq(items, 1, n) = items
    BY <1>0
  <1> HIDE DEF h
  <1>7. Rule(h)
    BY <1>4, <1>5, Zenon
  <1>8. Many(read, n, p) = after[n]
    BY Zenon DEF Many
  <1>9. Rule(after)
    <2> HIDE DEF Rule
    <2> QED
      BY <1>7, Zenon
  <1>10. \A i \in 0..n : after[i] = IF i = 0 THEN [at |-> p, item |-> <<>>]
                      ELSE [at |-> read[after[i - 1].at].at,
                            item |-> Append(after[i - 1].item, read[after[i - 1].at].item)]
    <2> HIDE DEF after
    <2> QED
      BY <1>9, Zenon
  <1> HIDE DEF after
  <1> DEFINE T == {i \in Nat : i <= n => after[i] = h[i]}
  <1>11. 0 \in T
    <2>1. 0 \in 0..n
      BY <1>0
    <2> QED
      BY <1>4, <1>10, <2>1
  <1>12. ASSUME NEW i \in Nat, i \in T PROVE i + 1 \in T
    <2> SUFFICES ASSUME i + 1 <= n PROVE after[i + 1] = h[i + 1]
      OBVIOUS
    <2>1. i + 1 \in 0..n /\ i + 1 # 0 /\ (i + 1) - 1 = i /\ i <= n
      BY <1>0
    <2>2. after[i] = h[i]
      BY <1>12, <2>1, Zenon
    <2> QED
      BY <1>4, <1>10, <2>1, <2>2, ZenonT(60)
  <1> HIDE DEF T
  <1>13. Nat \subseteq T
    BY <1>11, <1>12, SetInduction
  <1>14. after[n] = h[n]
    BY <1>0, <1>13 DEF T
  <1> QED
    BY <1>1, <1>5, <1>6, <1>8, <1>14

LEMMA TableFacts ==
    ASSUME NEW ss \in Seq(Seq(Nat)), Len(ss) \in Word
    PROVE  /\ Format!Table(ss) = Format!U2(Len(ss)) \o FlattenSeq(ss)
           /\ Format!Table(ss) \in Seq(Nat) /\ FlattenSeq(ss) \in Seq(Nat)
           /\ Len(Format!Table(ss)) = 2 + Len(FlattenSeq(ss))
  <1>1. FlattenSeq(ss) \in Seq(Nat) /\ Format!FlattenSeq(ss) = FlattenSeq(ss)
    BY FlattenFacts, Zenon
  <1>2. Format!Table(ss) = Format!U2(Len(ss)) \o FlattenSeq(ss)
    BY <1>1, Zenon DEF Format!Table
  <1>3. Format!U2(Len(ss)) \in Seq(Nat) /\ Len(Format!U2(Len(ss))) = 2
    BY U2Is, Zenon
  <1>4. Format!U2(Len(ss)) \o FlattenSeq(ss) \in Seq(Nat)
        /\ Len(Format!U2(Len(ss)) \o FlattenSeq(ss)) = Len(Format!U2(Len(ss))) + Len(FlattenSeq(ss))
    BY <1>1, <1>3, ConcatFacts, Zenon
  <1>5. Len(Format!U2(Len(ss)) \o FlattenSeq(ss)) = 2 + Len(FlattenSeq(ss))
    BY <1>3, <1>4, Zenon
  <1> QED
    BY <1>1, <1>2, <1>4, <1>5, Zenon

LEMMA CountedIs ==
    ASSUME NEW f \in Seq(Nat), NEW p \in Nat, NEW ss \in Seq(Seq(Nat)), Len(ss) \in Word,
           At(f, p, Format!Table(ss)), NEW S, NEW items \in Seq(S),
           NEW read, GivesAll(f, read, ss, items)
    PROVE  Counted(read, f, p) = [at |-> p + Len(Format!Table(ss)), item |-> items]
  <1>1. Format!U2(Len(ss)) \in Seq(Nat) /\ Len(Format!U2(Len(ss))) = 2
    BY U2Is, Zenon
  <1>2. /\ Format!Table(ss) = Format!U2(Len(ss)) \o FlattenSeq(ss) /\ FlattenSeq(ss) \in Seq(Nat)
        /\ Len(Format!Table(ss)) = 2 + Len(FlattenSeq(ss))
    BY TableFacts, Zenon
  <1>3. At(f, p, Format!U2(Len(ss)) \o FlattenSeq(ss))
    BY <1>2, Zenon
  <1>4. At(f, p, Format!U2(Len(ss))) /\ At(f, p + 2, FlattenSeq(ss))
    BY <1>1, <1>2, <1>3, AtParts, Zenon
  <1>5. U2(f, p) = Len(ss)
    BY <1>4, U2Is, Zenon
  <1>6. p + 2 \in Nat /\ \A k \in Nat : (p + 2) + k = p + (2 + k)
    OBVIOUS
  <1>7. Many(read, Len(ss), p + 2) = [at |-> (p + 2) + Len(FlattenSeq(ss)), item |-> items]
    <2>1. PICK q : q = p + 2
      OBVIOUS
    <2>2. q \in Nat /\ At(f, q, FlattenSeq(ss))
      BY <1>4, <1>6, <2>1, Zenon
    <2>3. Many(read, Len(ss), q) = [at |-> q + Len(FlattenSeq(ss)), item |-> items]
      BY <2>2, ManyIs
    <2> QED
      BY <2>1, <2>3, Zenon
  <1>8. Len(FlattenSeq(ss)) \in Nat
    BY <1>2
  <1>9. (p + 2) + Len(FlattenSeq(ss)) = p + Len(Format!Table(ss))
    BY <1>2, <1>6, <1>8, Zenon
  <1> QED
    BY <1>5, <1>7, <1>9, Zenon DEF Counted

LEMMA FlattenAppend ==
    ASSUME NEW S, NEW ss \in Seq(Seq(S)), NEW t \in Seq(S)
    PROVE  FlattenSeq(Append(ss, t)) = FlattenSeq(ss) \o t
  <1> DEFINE us == Append(ss, t)
             n == Len(ss)
  <1>1. /\ us \in Seq(Seq(S)) /\ Len(us) = n + 1 /\ n \in Nat /\ us[n + 1] = t
        /\ \A i \in 1..n : us[i] = ss[i]
    OBVIOUS
  <1> HIDE DEF us
  <1>2. PICK pre : Joins(pre, us, S) /\ FlattenSeq(us) = pre[n + 1]
    BY <1>1, FlattenFacts
  <1>3. /\ pre \in [0..(n + 1) -> Seq(S)] /\ pre[0] = <<>>
        /\ \A i \in 1..(n + 1) : pre[i] = pre[i - 1] \o us[i]
    BY <1>1, <1>2, Zenon DEF Joins, JoinsTo
  <1> DEFINE q == [i \in 0..n |-> pre[i]]
  <1>4. Joins(q, ss, S)
    <2>1. \A i \in 0..n : pre[i] \in Seq(S)
      <3>1. \A i \in 0..n : i \in 0..(n + 1)
        BY <1>1
      <3>2. \A i \in 0..(n + 1) : pre[i] \in Seq(S)
        BY <1>3, Zenon
      <3> QED
        BY <3>1, <3>2, Zenon
    <2>2. q \in [0..n -> Seq(S)]
      BY <2>1, Zenon
    <2>3. q[0] = <<>>
      BY <1>1, <1>3
    <2>4. ASSUME NEW i \in 1..n PROVE q[i] = q[i - 1] \o ss[i]
      <3>1. i \in 1..(n + 1) /\ i \in 0..n /\ i - 1 \in 0..n
        BY <1>1
      <3>2. pre[i] = pre[i - 1] \o us[i]
        BY <1>3, <3>1, Zenon
      <3>3. us[i] = ss[i]
        BY <1>1, Zenon
      <3> QED
        BY <3>1, <3>2, <3>3, Zenon
    <2> HIDE DEF q
    <2> QED
      BY <2>2, <2>3, <2>4, Zenon DEF Joins, JoinsTo
  <1>5. FlattenSeq(ss) = q[n]
    BY <1>4, FlattenIs, Zenon
  <1>6. q[n] = pre[n]
    BY <1>1
  <1>7. n + 1 \in 1..(n + 1) /\ (n + 1) - 1 = n
    BY <1>1
  <1>8. pre[n + 1] = pre[(n + 1) - 1] \o us[n + 1]
    BY <1>3, <1>7, Zenon
  <1> HIDE DEF q, n
  <1> QED
    BY <1>1, <1>2, <1>5, <1>6, <1>7, <1>8, Zenon DEF us

LEMMA FlattenFew ==
    /\ FlattenSeq(<<>>) = <<>>
    /\ \A S : \A s \in Seq(S) : FlattenSeq(<<s>>) = s
    /\ \A S : \A s, t \in Seq(S) : FlattenSeq(<<s, t>>) = s \o t
  <1>1. FlattenSeq(<<>>) = <<>>
    BY SMT DEF FlattenSeq
  <1>2. ASSUME NEW S, NEW s \in Seq(S) PROVE FlattenSeq(<<s>>) = s
    <2>1. <<>> \in Seq(Seq(S)) /\ Append(<<>>, s) = <<s>> /\ <<>> \o s = s
      OBVIOUS
    <2>2. FlattenSeq(Append(<<>>, s)) = FlattenSeq(<<>>) \o s
      BY <2>1, FlattenAppend, Zenon
    <2> QED
      BY <1>1, <2>1, <2>2, Zenon
  <1>3. ASSUME NEW S, NEW s \in Seq(S), NEW t \in Seq(S) PROVE FlattenSeq(<<s, t>>) = s \o t
    <2>0. Append(<<s>>, t) = <<s, t>>
      <3>1. ASSUME NEW a, NEW b PROVE Append(<<a>>, b) = <<a, b>>
        <4>1. <<a>> \in Seq({a, b}) /\ <<a, b>> \in Seq({a, b}) /\ Len(<<a, b>>) = 2
          OBVIOUS
        <4>2. /\ Append(<<a>>, b) \in Seq({a, b}) /\ Len(Append(<<a>>, b)) = 2
              /\ Append(<<a>>, b)[1] = a /\ Append(<<a>>, b)[2] = b
          BY <4>1
        <4>3. <<a, b>>[1] = a /\ <<a, b>>[2] = b
          OBVIOUS
        <4>4. \A i \in 1..2 : i = 1 \/ i = 2
          OBVIOUS
        <4>5. \A i \in 1..Len(Append(<<a>>, b)) : Append(<<a>>, b)[i] = <<a, b>>[i]
          BY <4>2, <4>3, <4>4, Zenon
        <4> QED
          BY <4>1, <4>2, <4>5, SeqEqual, Zenon
      <3> QED
        BY <3>1, Zenon
    <2>1. <<s>> \in Seq(Seq(S)) /\ Append(<<s>>, t) = <<s, t>>
      <3>1. \A T : \A x \in T : <<x>> \in Seq(T)
        OBVIOUS
      <3> QED
        BY <2>0, <3>1, Zenon
    <2>2. FlattenSeq(Append(<<s>>, t)) = FlattenSeq(<<s>>) \o t
      BY <2>1, FlattenAppend, Zenon
    <2> QED
      BY <1>2, <2>1, <2>2, Zenon
  <1> QED
    BY <1>1, <1>2, <1>3, Zenon

\* A sequence whose elements are all in the set is kept.
LEMMA KeepsAll ==
    ASSUME NEW S, NEW s \in Seq(S)
    PROVE  Kept(s, S) = s
  <1> DEFINE ss == [i \in 1..Len(s) |-> <<s[i]>>]
             pre == [i \in 0..Len(s) |-> SubSeq(s, 1, i)]
  <1>1. Len(s) \in Nat /\ \A i \in 1..Len(s) : s[i] \in S
    OBVIOUS
  <1>2. [i \in 1..Len(s) |-> IF s[i] \in S THEN <<s[i]>> ELSE <<>>] = ss
    BY <1>1, Zenon
  <1>3. ss \in Seq(Seq(S)) /\ Len(ss) = Len(s)
    <2>1. \A i \in 1..Len(s) : <<s[i]>> \in Seq(S)
      BY <1>1
    <2> QED
      BY <1>1, <2>1
  <1>4. Joins(pre, ss, S)
    <2>1. \A i \in 0..Len(s) : SubSeq(s, 1, i) \in Seq(S)
      BY <1>1
    <2>2. pre \in [0..Len(s) -> Seq(S)]
      BY <2>1, Zenon
    <2>3. pre[0] = <<>>
      BY <1>1
    <2>4. ASSUME NEW i \in 1..Len(s) PROVE pre[i] = pre[i - 1] \o ss[i]
      <3>1. i \in 0..Len(s) /\ i - 1 \in 0..Len(s)
        BY <1>1
      <3>2. SubSeq(s, 1, i) = SubSeq(s, 1, i - 1) \o <<s[i]>>
        BY <1>1
      <3> QED
        BY <3>1, <3>2, Zenon
    <2> HIDE DEF pre, ss
    <2> QED
      BY <1>3, <2>2, <2>3, <2>4, Zenon DEF Joins, JoinsTo
  <1>5. pre[Len(s)] = s
    BY <1>1
  <1> HIDE DEF pre
  <1>6. FlattenSeq(ss) = pre[Len(ss)]
    BY <1>3, <1>4, FlattenIs, Zenon
  <1>7. FlattenSeq(ss) = s
    BY <1>3, <1>5, <1>6, Zenon
  <1> QED
    BY <1>2, <1>7, Zenon DEF Kept

LEMMA KeptFew ==
    ASSUME NEW S
    PROVE  /\ Kept(<<>>, S) = <<>>
           /\ \A a \in S : Kept(<<a>>, S) = <<a>>
           /\ \A a, b : a \notin S /\ b \in S => Kept(<<a, b>>, S) = <<b>>
           /\ \A a, b : a \in S /\ b \notin S => Kept(<<a, b>>, S) = <<a>>
           /\ \A a : a \notin S => Kept(<<a>>, S) = <<>>
  <1>1. Kept(<<>>, S) = <<>>
    <2>1. [i \in 1..Len(<<>>) |-> IF <<>>[i] \in S THEN <<<<>>[i]>> ELSE <<>>] = <<>>
      OBVIOUS
    <2> QED
      BY <2>1, FlattenFew, Zenon DEF Kept
  <1>2. ASSUME NEW a PROVE Kept(<<a>>, S) = IF a \in S THEN <<a>> ELSE <<>>
    <2> DEFINE t == IF a \in S THEN <<a>> ELSE <<>>
    <2>1. [i \in 1..Len(<<a>>) |-> IF <<a>>[i] \in S THEN <<<<a>>[i]>> ELSE <<>>] = <<t>>
      OBVIOUS
    <2>2. t \in Seq(S)
      OBVIOUS
    <2> HIDE DEF t
    <2>3. FlattenSeq(<<t>>) = t
      BY <2>2, FlattenFew, Zenon
    <2> QED
      BY <2>1, <2>3, Zenon DEF Kept, t
  <1>3. ASSUME NEW a, NEW b
        PROVE Kept(<<a, b>>, S) = (IF a \in S THEN <<a>> ELSE <<>>) \o (IF b \in S THEN <<b>> ELSE <<>>)
    <2> DEFINE t == IF a \in S THEN <<a>> ELSE <<>>
               u == IF b \in S THEN <<b>> ELSE <<>>
    <2>1. [i \in 1..Len(<<a, b>>) |-> IF <<a, b>>[i] \in S THEN <<<<a, b>>[i]>> ELSE <<>>] = <<t, u>>
      OBVIOUS
    <2>2. t \in Seq(S) /\ u \in Seq(S)
      OBVIOUS
    <2> HIDE DEF t, u
    <2>3. FlattenSeq(<<t, u>>) = t \o u
      BY <2>2, FlattenFew, Zenon
    <2> QED
      BY <2>1, <2>3, Zenon DEF Kept, t, u
  <1>4. \A a, b : <<>> \o <<b>> = <<b>> /\ <<a>> \o <<>> = <<a>>
    OBVIOUS
  <1> QED
    BY <1>1, <1>2, <1>3, <1>4, Zenon

\* The first part of what is there, and the rest.
LEMMA AtThen ==
    ASSUME NEW f \in Seq(Nat), NEW p, NEW s \in Seq(Nat), NEW t \in Seq(Nat), NEW k, Len(s) = k
    PROVE  At(f, p, s \o t) => At(f, p, s) /\ At(f, p + k, t)
  BY AtParts, Zenon

LEMMA LenThen ==
    ASSUME NEW s \in Seq(Nat), NEW t \in Seq(Nat), NEW k, Len(s) = k
    PROVE  s \o t \in Seq(Nat) /\ Len(s \o t) = k + Len(t)
  BY ConcatFacts, Zenon

-----------------------------------------------------------------------------
(* Constants                                                               *)

Writable(c) ==
    \/ c.tag = 1 /\ c.text \in Texts /\ c = Format!Utf8(c.text)
    \/ ConstantFits(c)

ItemOf(cs, c) ==
    CASE c.tag = 1 -> Item(1, 0, 0, c.text)
      [] c.tag \in 3..6 -> Item(c.tag, c.number, 0, NoText)
      [] c.tag \in {7, 8, 16} -> Item(c.tag, Format!Index(cs, Format!Utf8(c.text)), 0, NoText)
      [] c.tag = 12 -> Item(12, Format!Index(cs, Format!Utf8(c.text)),
                            Format!Index(cs, Format!Utf8(c.desc)), NoText)
      [] c.tag \in {9, 10, 11} -> Item(c.tag, Format!Index(cs, Format!Name(7, c.class)),
                                       Format!Index(cs, Format!NameAndType(c.text, c.desc)), NoText)
      [] c.tag = 15 -> Item(15, c.number, Format!Index(cs, c.ref), NoText)
      [] c.tag = 18 -> Item(18, 0, Format!Index(cs, Format!NameAndType(c.text, c.desc)), NoText)

\* The number of a constant, if it has one, is its place.
LEMMA IndexFacts ==
    ASSUME NEW S, NEW cs, Format!Places(cs) \in Seq(S), NEW c
    PROVE  /\ Format!Index(cs, c) \in 0..Len(Format!Places(cs))
           /\ (\E j \in 1..Len(Format!Places(cs)) : Format!Places(cs)[j] = c)
              => /\ Format!Index(cs, c) \in 1..Len(Format!Places(cs))
                 /\ Format!Places(cs)[Format!Index(cs, c)] = c
  <1> DEFINE P == Format!Places(cs)
             I == {j \in 1..Len(P) : P[j] = c}
  <1>1. Format!Index(cs, c) = IF I # {} THEN Format!Min(I) ELSE 0
    BY Zenon DEF Format!Index, Format!SelectInSeq
  <1>2. Format!Min(I) = Min(I)
    BY Zenon DEF Format!Min, Min
  <1>3. Len(P) \in Nat
    OBVIOUS
  <1>4. I \in SUBSET Nat /\ \A j \in I : j \in 1..Len(P) /\ P[j] = c
    BY <1>3
  <1>5. (\E j \in 1..Len(P) : P[j] = c) => I # {}
    OBVIOUS
  <1> HIDE DEF I, P
  <1>6. I # {} => Min(I) \in I
    BY <1>4, MinFacts, Zenon
  <1>7. CASE I = {}
    <2>1. Format!Index(cs, c) = 0
      BY <1>1, <1>7, Zenon
    <2> QED
      BY <1>3, <1>5, <1>7, <2>1 DEF P
  <1>8. CASE I # {}
    <2>1. Format!Index(cs, c) \in 1..Len(P) /\ P[Format!Index(cs, c)] = c
      BY <1>1, <1>2, <1>4, <1>6, <1>8, Zenon
    <2> QED
      BY <1>3, <2>1 DEF P
  <1> QED
    BY <1>7, <1>8, Zenon

LEMMA IndexIsWord ==
    ASSUME NEW S, NEW cs, Format!Places(cs) \in Seq(S), 1 + Len(Format!Places(cs)) \in Word, NEW c
    PROVE  Format!Index(cs, c) \in Word
  <1>1. Format!Index(cs, c) \in 0..Len(Format!Places(cs)) /\ Len(Format!Places(cs)) \in Nat
    BY IndexFacts
  <1> QED
    BY <1>1, SMT DEF Word

\* A constant of a tag and two bytes, or four.
Short(s, tag, i) ==
    /\ s \in Seq(Nat) /\ Len(s) = 3
    /\ \A f \in Seq(Nat) : \A p : At(f, p, s) => U1(f, p) = tag /\ U2(f, p + 1) = i
Pair(s, tag, i, j) ==
    /\ s \in Seq(Nat) /\ Len(s) = 5
    /\ \A f \in Seq(Nat) : \A p : At(f, p, s) => U1(f, p) = tag /\ U2(f, p + 1) = i /\ U2(f, p + 3) = j

LEMMA ShortIs ==
    ASSUME NEW tag \in Nat, NEW i \in Word
    PROVE  Short(Format!U1(tag) \o Format!U2(i), tag, i)
  <1>0. PICK s : s = Format!U1(tag) \o Format!U2(i)
    OBVIOUS
  <1>1. Format!U1(tag) \in Seq(Nat) /\ Len(Format!U1(tag)) = 1
    BY U1Is, Zenon
  <1>2. Format!U2(i) \in Seq(Nat) /\ Len(Format!U2(i)) = 2
    BY U2Is, Zenon
  <1>3. s \in Seq(Nat) /\ Len(s) = 3
    <2>1. s \in Seq(Nat) /\ Len(s) = 1 + Len(Format!U2(i))
      BY <1>0, <1>1, <1>2, LenThen, Zenon
    <2> QED
      BY <1>2, <2>1
  <1>4. ASSUME NEW f \in Seq(Nat), NEW p, At(f, p, s) PROVE U1(f, p) = tag /\ U2(f, p + 1) = i
    <2>0. At(f, p, Format!U1(tag) \o Format!U2(i))
      BY <1>0, <1>4, Zenon
    <2>1. At(f, p, Format!U1(tag)) /\ At(f, p + 1, Format!U2(i))
      BY <1>1, <1>2, <2>0, AtThen, Zenon
    <2> QED
      BY <2>1, U1Is, U2Is, Zenon
  <1>5. Short(s, tag, i)
    BY <1>3, <1>4, Zenon DEF Short
  <1> QED
    BY <1>0, <1>5, Zenon

LEMMA PairIs ==
    ASSUME NEW tag \in Nat, NEW i \in Word, NEW j \in Word
    PROVE  Pair(Format!U1(tag) \o Format!U2(i) \o Format!U2(j), tag, i, j)
  <1>0. PICK t : t = Format!U1(tag) \o Format!U2(i)
    OBVIOUS
  <1>1. Short(t, tag, i)
    BY <1>0, ShortIs, Zenon
  <1>2. Format!U2(j) \in Seq(Nat) /\ Len(Format!U2(j)) = 2
    BY U2Is, Zenon
  <1>3. t \o Format!U2(j) \in Seq(Nat) /\ Len(t \o Format!U2(j)) = 5
    <2>1. t \o Format!U2(j) \in Seq(Nat) /\ Len(t \o Format!U2(j)) = 3 + Len(Format!U2(j))
      BY <1>1, <1>2, LenThen, Zenon DEF Short
    <2> QED
      BY <1>2, <2>1
  <1>4. ASSUME NEW f \in Seq(Nat), NEW p, At(f, p, t \o Format!U2(j))
        PROVE  U1(f, p) = tag /\ U2(f, p + 1) = i /\ U2(f, p + 3) = j
    <2>1. At(f, p, t) /\ At(f, p + 3, Format!U2(j))
      BY <1>1, <1>2, <1>4, AtThen, Zenon DEF Short
    <2> QED
      BY <1>1, <2>1, U2Is, Zenon DEF Short
  <1>5. Pair(t \o Format!U2(j), tag, i, j)
    BY <1>3, <1>4, Zenon DEF Pair
  <1> QED
    BY <1>0, <1>5, Zenon

ReadsItem(s, x) ==
    s \in Seq(Nat) /\ \A f \in Seq(Nat) : \A p : At(f, p, s) => ReadItem(f, p) = [at |-> p + Len(s), item |-> x]

LEMMA PositionFacts ==
    \A f, p, s : At(f, p, s) => /\ p \in Nat
                                /\ \A k, n \in Nat : (p + k) + n = p + (k + n) /\ p + k \in Nat
  BY DEF At

\* What tag it is, it is no other.
LEMMA OneTag ==
    \A t : /\ t = 1 => /\ t \notin {3, 4} /\ t \notin {5, 6} /\ t \notin 3..6 /\ t \notin {7, 8, 16} /\ t # 12
                       /\ t \notin {9, 10, 11} /\ t # 15 /\ t # 18 /\ t \notin {9, 10, 11, 12, 18}
           /\ t \in {3, 4} => /\ t # 1 /\ t \notin {5, 6} /\ t \in 3..6 /\ t \notin {7, 8, 16} /\ t # 12
                              /\ t \notin {9, 10, 11} /\ t # 15 /\ t # 18
                              /\ t \notin {9, 10, 11, 12, 18}
           /\ t \in {5, 6} => /\ t # 1 /\ t \notin {3, 4} /\ t \in 3..6 /\ t \notin {7, 8, 16} /\ t # 12
                              /\ t \notin {9, 10, 11} /\ t # 15 /\ t # 18
                              /\ t \notin {9, 10, 11, 12, 18}
           /\ t \in {7, 8, 16} => /\ t # 1 /\ t \notin {3, 4} /\ t \notin {5, 6} /\ t \notin 3..6 /\ t # 12
                                  /\ t \notin {9, 10, 11} /\ t # 15 /\ t # 18
                                  /\ t \notin {9, 10, 11, 12, 18}
           /\ t \in {9, 10, 11, 12, 18} => /\ t # 1 /\ t \notin {3, 4} /\ t \notin {5, 6} /\ t \notin 3..6
                                           /\ t \notin {7, 8, 16} /\ t # 15
           /\ t \in {9, 10, 11} => t # 12 /\ t # 18 /\ t \in {9, 10, 11, 12, 18}
           /\ t = 12 => t \notin {9, 10, 11} /\ t # 18 /\ t \in {9, 10, 11, 12, 18}
           /\ t = 18 => t \notin {9, 10, 11} /\ t # 12 /\ t \in {9, 10, 11, 12, 18}
           /\ t = 15 => /\ t # 1 /\ t \notin {3, 4} /\ t \notin {5, 6} /\ t \notin 3..6
                        /\ t \notin {7, 8, 16} /\ t # 12 /\ t \notin {9, 10, 11} /\ t # 18
                        /\ t \notin {9, 10, 11, 12, 18}
  BY SMT

LEMMA WiderSeq ==
    ASSUME NEW R, NEW S, R \subseteq S, NEW s \in Seq(R)
    PROVE  s \in Seq(S)
  OBVIOUS

LEMMA EncodingFacts ==
    ASSUME NEW x \in Texts
    PROVE  Encoding[x] \in Seq(Nat) /\ Len(Encoding[x]) \in Word
  <1>1. Encoding[x] \in Few(Byte)
    BY FilesAssumption, Zenon
  <1>2. Encoding[x] \in Seq(Byte) /\ Len(Encoding[x]) \in Word
    BY <1>1, SMT DEF Few
  <1>3. Byte \subseteq Nat
    BY SMT DEF Byte
  <1>4. Encoding[x] \in Seq(Nat)
    BY <1>2, <1>3, WiderSeq, Zenon
  <1> QED
    BY <1>2, <1>4, Zenon

\* The bytes that SubSeq takes out of a file.
LEMMA BytesTaken ==
    ASSUME NEW f \in Seq(Nat), NEW p, NEW e \in Seq(Nat), At(f, p, e)
    PROVE  SubSeq(f, p + 1, p + Len(e)) = e
  <1>1. /\ p \in Nat /\ Len(e) \in Nat /\ p + Len(e) <= Len(f) /\ Len(f) \in Nat
        /\ \A i \in 1..Len(e) : f[p + i] = e[i]
    BY DEF At
  <1>2. /\ SubSeq(f, p + 1, p + Len(e)) \in Seq(Nat)
        /\ Len(SubSeq(f, p + 1, p + Len(e))) = Len(e)
        /\ \A i \in 1..Len(e) : SubSeq(f, p + 1, p + Len(e))[i] = f[p + i]
    BY <1>1
  <1>3. \A i \in 1..Len(SubSeq(f, p + 1, p + Len(e))) : SubSeq(f, p + 1, p + Len(e))[i] = e[i]
    BY <1>1, <1>2, Zenon
  <1> QED
    BY <1>2, <1>3, SeqEqual, Zenon

SameJoined(a, b, c) == (a \o b) \o c = a \o (b \o c)

LEMMA Associates ==
    ASSUME NEW S, NEW a \in Seq(S), NEW b \in Seq(S), NEW c \in Seq(S)
    PROVE  SameJoined(a, b, c)
  <1>1. (a \o b) \o c = a \o (b \o c)
    OBVIOUS
  <1> QED
    BY <1>1, Zenon DEF SameJoined

LEMMA Utf8Is ==
    ASSUME NEW cs, NEW c, c.tag = 1, c.text \in Texts
    PROVE  ReadsItem(Format!Constant(cs, c), ItemOf(cs, c))
  <1>1. PICK e : e = Encoding[c.text] /\ e \in Seq(Nat) /\ Len(e) \in Word /\ Len(e) \in Nat
    <2>1. Encoding[c.text] \in Seq(Nat) /\ Len(Encoding[c.text]) \in Word
      BY EncodingFacts, Zenon
    <2>2. Len(Encoding[c.text]) \in Nat
      BY <2>1
    <2> QED
      BY <2>1, <2>2, Zenon
  <1>2. PICK h : h = Format!U1(1) \o Format!U2(Len(e))
    OBVIOUS
  <1>3. /\ h \in Seq(Nat) /\ Len(h) = 3
        /\ \A f \in Seq(Nat) : \A p : At(f, p, h) => U1(f, p) = 1 /\ U2(f, p + 1) = Len(e)
    BY <1>1, <1>2, ShortIs DEF Short
  <1>4. /\ Format!Constant(cs, c) = Format!U1(c.tag) \o (Format!U2(Len(e)) \o e)
        /\ ItemOf(cs, c) = Item(1, 0, 0, c.text)
    BY <1>1, OneTag, Zenon DEF Format!Constant, ItemOf
  <1>5. Format!Constant(cs, c) = h \o e
    <2>1. Format!U1(1) \in Seq(Nat) /\ Format!U2(Len(e)) \in Seq(Nat)
      BY <1>1, U1Is, U2Is
    <2>2. SameJoined(Format!U1(1), Format!U2(Len(e)), e)
      BY <1>1, <2>1, Associates, Zenon
    <2> QED
      BY <1>2, <1>4, <2>2, Zenon DEF SameJoined
  <1>6. h \o e \in Seq(Nat) /\ Len(h \o e) = 3 + Len(e)
    BY <1>1, <1>3, LenThen, ZenonT(60)
  <1>7. ASSUME NEW f \in Seq(Nat), NEW p, At(f, p, h \o e)
        PROVE  ReadItem(f, p) = [at |-> p + Len(h \o e), item |-> Item(1, 0, 0, c.text)]
    <2>1. At(f, p, h) /\ At(f, p + 3, e)
      BY <1>1, <1>3, <1>7, AtThen, Zenon
    <2>2. U1(f, p) = 1 /\ U2(f, p + 1) = Len(e)
      BY <1>3, <2>1, Zenon
    <2>3. p \in Nat
      BY <2>1, PositionFacts, Zenon
    <2>4. SubSeq(f, p + 4, p + 3 + Len(e)) = e
      <3>1. (p + 3) + 1 = p + 4
        BY <2>3
      <3> QED
        BY <1>1, <2>1, <3>1, BytesTaken, Zenon
    <2>5. FromUtf8(e) = c.text
      BY <1>1, EncodingAssumption, Zenon DEF FromUtf8
    <2>6. ReadItem(f, p) = [at |-> p + 3 + Len(e),
              item |-> Item(1, 0, 0, FromUtf8(SubSeq(f, p + 4, p + 3 + Len(e))))]
      BY <2>2, OneTag, Zenon DEF ReadItem
    <2>7. p + 3 + Len(e) = p + Len(h \o e)
      <3>1. \A k \in Nat : p + 3 + k = p + (3 + k)
        BY <2>3
      <3> QED
        BY <1>1, <1>6, <3>1, Zenon
    <2> QED
      BY <2>4, <2>5, <2>6, <2>7, Zenon
  <1> QED
    BY <1>4, <1>5, <1>6, <1>7, Zenon DEF ReadsItem

LEMMA NamesItem ==
    ASSUME NEW cs, NEW c, c.tag \in {7, 8, 16}, Format!Index(cs, Format!Utf8(c.text)) \in Word
    PROVE  ReadsItem(Format!Constant(cs, c), ItemOf(cs, c))
  <1>1. PICK i \in Word : i = Format!Index(cs, Format!Utf8(c.text))
    OBVIOUS
  <1>2. PICK s : s = Format!U1(c.tag) \o Format!U2(i)
    OBVIOUS
  <1>3. Format!Constant(cs, c) = s /\ ItemOf(cs, c) = Item(c.tag, i, 0, NoText)
    BY <1>1, <1>2, OneTag, Zenon DEF Format!Constant, ItemOf
  <1>4. /\ s \in Seq(Nat) /\ Len(s) = 3
        /\ \A f \in Seq(Nat) : \A p : At(f, p, s) => U1(f, p) = c.tag /\ U2(f, p + 1) = i
    <2>1. c.tag \in Nat
      OBVIOUS
    <2>2. Short(s, c.tag, i)
      BY <1>2, <2>1, ShortIs, Zenon
    <2> QED
      BY <2>2, Zenon DEF Short
  <1>5. ASSUME NEW f \in Seq(Nat), NEW p, At(f, p, s)
        PROVE  ReadItem(f, p) = [at |-> p + Len(s), item |-> Item(c.tag, i, 0, NoText)]
    <2>1. U1(f, p) = c.tag /\ U2(f, p + 1) = i
      BY <1>4, <1>5, Zenon
    <2>2. ReadItem(f, p) = [at |-> p + 1 + 2, item |-> Item(c.tag, i, 0, NoText)]
      BY <2>1, OneTag, Zenon DEF ReadItem
    <2>3. p + 1 + 2 = p + Len(s)
      BY <1>4, <1>5, PositionFacts
    <2> QED
      BY <2>2, <2>3, Zenon
  <1> QED
    BY <1>3, <1>4, <1>5, Zenon DEF ReadsItem

LEMMA PairsItem ==
    ASSUME NEW tag \in {9, 10, 11, 12, 18}, NEW i \in Word, NEW j \in Word
    PROVE  ReadsItem(Format!U1(tag) \o (Format!U2(i) \o Format!U2(j)), Item(tag, i, j, NoText))
  <1>0. tag \in Nat
    OBVIOUS
  <1>1. PICK s : s = Format!U1(tag) \o Format!U2(i) \o Format!U2(j)
    OBVIOUS
  <1>2. Format!U1(tag) \o (Format!U2(i) \o Format!U2(j)) = s
    <2>1. Format!U1(tag) \in Seq(Nat) /\ Format!U2(i) \in Seq(Nat) /\ Format!U2(j) \in Seq(Nat)
      BY <1>0, U1Is, U2Is, Zenon
    <2>2. SameJoined(Format!U1(tag), Format!U2(i), Format!U2(j))
      BY <2>1, Associates, Zenon
    <2> QED
      BY <1>1, <2>2, Zenon DEF SameJoined
  <1>3. Pair(s, tag, i, j)
    BY <1>0, <1>1, PairIs, Zenon
  <1>4. s \in Seq(Nat) /\ Len(s) = 5
    BY <1>3, Zenon DEF Pair
  <1>5. ASSUME NEW f \in Seq(Nat), NEW p, At(f, p, s)
        PROVE  ReadItem(f, p) = [at |-> p + Len(s), item |-> Item(tag, i, j, NoText)]
    <2>1. U1(f, p) = tag /\ U2(f, p + 1) = i /\ U2(f, p + 3) = j
      BY <1>3, <1>5, Zenon DEF Pair
    <2>2. ReadItem(f, p) = [at |-> p + 1 + 4, item |-> Item(tag, i, j, NoText)]
      BY <2>1, OneTag, Zenon DEF ReadItem
    <2>3. p + 1 + 4 = p + Len(s)
      BY <1>4, <1>5, PositionFacts
    <2> QED
      BY <2>2, <2>3, Zenon
  <1> QED
    BY <1>2, <1>4, <1>5, Zenon DEF ReadsItem

LEMMA ReferencesItem ==
    ASSUME NEW cs, NEW c, \A k : Format!Index(cs, k) \in Word,
           c.tag \in {9, 10, 11} \/ c.tag = 12 \/ c.tag = 18
    PROVE  ReadsItem(Format!Constant(cs, c), ItemOf(cs, c))
  <1>1. CASE c.tag \in {9, 10, 11}
    <2>1. PICK i, j \in Word : /\ i = Format!Index(cs, Format!Name(7, c.class))
                               /\ j = Format!Index(cs, Format!NameAndType(c.text, c.desc))
      OBVIOUS
    <2>2. Format!Constant(cs, c) = Format!U1(c.tag) \o (Format!U2(i) \o Format!U2(j))
      BY <1>1, <2>1, OneTag, Zenon DEF Format!Constant
    <2>3. ItemOf(cs, c) = Item(c.tag, i, j, NoText) /\ c.tag \in {9, 10, 11, 12, 18}
      BY <1>1, <2>1, OneTag, Zenon DEF ItemOf
    <2> QED
      BY <2>2, <2>3, PairsItem, Zenon
  <1>2. CASE c.tag = 12
    <2>1. PICK i, j \in Word : /\ i = Format!Index(cs, Format!Utf8(c.text))
                               /\ j = Format!Index(cs, Format!Utf8(c.desc))
      OBVIOUS
    <2>2. Format!Constant(cs, c) = Format!U1(c.tag) \o (Format!U2(i) \o Format!U2(j))
      BY <1>2, <2>1, OneTag, Zenon DEF Format!Constant
    <2>3. ItemOf(cs, c) = Item(c.tag, i, j, NoText) /\ c.tag \in {9, 10, 11, 12, 18}
      BY <1>2, <2>1, OneTag, Zenon DEF ItemOf
    <2> QED
      BY <2>2, <2>3, PairsItem, Zenon
  <1>3. CASE c.tag = 18
    <2>0. 0 \in Word
      BY SMT DEF Word
    <2>1. PICK j \in Word : j = Format!Index(cs, Format!NameAndType(c.text, c.desc))
      OBVIOUS
    <2>2. Format!Constant(cs, c) = Format!U1(c.tag) \o (Format!U2(0) \o Format!U2(j))
      BY <1>3, <2>1, OneTag, Zenon DEF Format!Constant
    <2>3. ItemOf(cs, c) = Item(c.tag, 0, j, NoText) /\ c.tag \in {9, 10, 11, 12, 18}
      BY <1>3, <2>1, OneTag, Zenon DEF ItemOf
    <2> QED
      BY <2>0, <2>2, <2>3, PairsItem, Zenon
  <1> QED
    BY <1>1, <1>2, <1>3, Zenon

LEMMA HandleItem ==
    ASSUME NEW cs, NEW c, \A k : Format!Index(cs, k) \in Word, c.tag = 15, c.number \in Nat
    PROVE  ReadsItem(Format!Constant(cs, c), ItemOf(cs, c))
  <1>1. PICK i \in Word : i = Format!Index(cs, c.ref)
    OBVIOUS
  <1>2. PICK a, s : a = Format!U1(c.tag) /\ s = Format!U1(c.number) \o Format!U2(i)
    OBVIOUS
  <1>3. Format!Constant(cs, c) = a \o s /\ ItemOf(cs, c) = Item(15, c.number, i, NoText)
    BY <1>1, <1>2, OneTag, Zenon DEF Format!Constant, ItemOf
  <1>4. Short(s, c.number, i)
    BY <1>2, ShortIs, Zenon
  <1>5. /\ a \in Seq(Nat) /\ Len(a) = 1 /\ s \in Seq(Nat) /\ Len(s) = 3
        /\ \A f, p : At(f, p, a) => U1(f, p) = 15
    <2>1. c.tag \in Nat
      OBVIOUS
    <2> QED
      BY <1>2, <1>4, <2>1, U1Is, Zenon DEF Short
  <1>6. a \o s \in Seq(Nat) /\ Len(a \o s) = 4
    <2>1. a \o s \in Seq(Nat) /\ Len(a \o s) = 1 + Len(s)
      BY <1>5, LenThen, Zenon
    <2> QED
      BY <1>5, <2>1
  <1>7. ASSUME NEW f \in Seq(Nat), NEW p, At(f, p, a \o s)
        PROVE  ReadItem(f, p) = [at |-> p + Len(a \o s), item |-> Item(15, c.number, i, NoText)]
    <2>1. At(f, p, a) /\ At(f, p + 1, s)
      BY <1>5, <1>7, AtThen, Zenon
    <2>2. p \in Nat /\ (p + 1) + 1 = p + 2 /\ p + 1 + 3 = p + 4
      BY <2>1, PositionFacts
    <2>3. U1(f, p) = 15 /\ U1(f, p + 1) = c.number /\ U2(f, p + 2) = i
      BY <1>4, <1>5, <2>1, <2>2, Zenon DEF Short
    <2>4. ReadItem(f, p) = [at |-> p + 1 + 3, item |-> Item(15, c.number, i, NoText)]
      BY <2>3, OneTag, Zenon DEF ReadItem
    <2> QED
      BY <1>6, <2>2, <2>4, Zenon
  <1> QED
    BY <1>3, <1>6, <1>7, Zenon DEF ReadsItem

LEMMA NumbersItem ==
    ASSUME NEW cs, NEW c, c.tag \in 3..6, IsLong(c.number)
    PROVE  ReadsItem(Format!Constant(cs, c), ItemOf(cs, c))
  <1>1. PICK a, b : a = Format!U1(c.tag) /\ b = Format!U4(c.number)
    OBVIOUS
  <1>2. /\ a \in Seq(Nat) /\ Len(a) = 1
        /\ \A f, p : At(f, p, a) => U1(f, p) = c.tag
    <2>1. c.tag \in Nat
      OBVIOUS
    <2> QED
      BY <1>1, <2>1, U1Is, Zenon
  <1>3. /\ b \in Seq(Nat) /\ Len(b) = 4
        /\ \A f \in Seq(Nat) : \A p : At(f, p, b) => U4(f, p) = c.number
    BY <1>1, U4Is, Zenon
  <1>4. CASE c.tag \in {3, 4}
    <2>1. Format!Constant(cs, c) = a \o b /\ ItemOf(cs, c) = Item(c.tag, c.number, 0, NoText)
      BY <1>1, <1>4, OneTag, Zenon DEF Format!Constant, ItemOf
    <2>2. a \o b \in Seq(Nat) /\ Len(a \o b) = 5
      <3>1. a \o b \in Seq(Nat) /\ Len(a \o b) = 1 + Len(b)
        BY <1>2, <1>3, LenThen, Zenon
      <3> QED
        BY <1>3, <3>1
    <2>3. ASSUME NEW f \in Seq(Nat), NEW p, At(f, p, a \o b)
          PROVE  ReadItem(f, p) = [at |-> p + Len(a \o b), item |-> Item(c.tag, c.number, 0, NoText)]
      <3>1. At(f, p, a) /\ At(f, p + 1, b)
        BY <1>2, <1>3, <2>3, AtThen, Zenon
      <3>2. p + 1 + 4 = p + 5
        BY <3>1, PositionFacts
      <3>3. U1(f, p) = c.tag /\ U4(f, p + 1) = c.number
        BY <1>2, <1>3, <3>1, Zenon
      <3>4. ReadItem(f, p) = [at |-> p + 1 + 4, item |-> Item(c.tag, c.number, 0, NoText)]
        BY <1>4, <3>3, OneTag, Zenon DEF ReadItem
      <3> QED
        BY <2>2, <3>2, <3>4, Zenon
    <2> QED
      BY <2>1, <2>2, <2>3, Zenon DEF ReadsItem
  <1>5. CASE c.tag \in {5, 6}
    <2>0. PICK z : z = Format!U4(0)
      OBVIOUS
    <2>1. Format!Constant(cs, c) = a \o (z \o b) /\ ItemOf(cs, c) = Item(c.tag, c.number, 0, NoText)
      BY <1>1, <1>5, <2>0, OneTag, Zenon DEF Format!Constant, ItemOf
    <2>2. z \in Seq(Nat) /\ Len(z) = 4
      <3>1. IsLong(0)
        BY SMT DEF IsLong, Word
      <3> QED
        BY <2>0, <3>1, U4Is, Zenon
    <2>3. z \o b \in Seq(Nat) /\ Len(z \o b) = 8
      <3>1. z \o b \in Seq(Nat) /\ Len(z \o b) = 4 + Len(b)
        BY <1>3, <2>2, LenThen, Zenon
      <3> QED
        BY <1>3, <3>1
    <2>4. a \o (z \o b) \in Seq(Nat) /\ Len(a \o (z \o b)) = 9
      <3>1. a \o (z \o b) \in Seq(Nat) /\ Len(a \o (z \o b)) = 1 + Len(z \o b)
        BY <1>2, <2>3, LenThen, Zenon
      <3> QED
        BY <2>3, <3>1
    <2>5. ASSUME NEW f \in Seq(Nat), NEW p, At(f, p, a \o (z \o b))
          PROVE  ReadItem(f, p) = [at |-> p + Len(a \o (z \o b)),
                                   item |-> Item(c.tag, c.number, 0, NoText)]
      <3>1. At(f, p, a) /\ At(f, p + 1, z \o b)
        BY <1>2, <2>3, <2>5, AtThen, Zenon
      <3>2. At(f, (p + 1) + 4, b)
        BY <1>3, <2>2, <3>1, AtThen, Zenon
      <3>3. p + 1 + 8 = p + 9 /\ (p + 1) + 4 = p + 5
        <4>1. p \in Nat
          BY <3>1, PositionFacts, Zenon
        <4> QED
          BY <4>1
      <3>4. U1(f, p) = c.tag /\ U4(f, p + 5) = c.number
        BY <1>2, <1>3, <3>1, <3>2, <3>3, Zenon
      <3>5. ReadItem(f, p) = [at |-> p + 1 + 8, item |-> Item(c.tag, c.number, 0, NoText)]
        BY <1>5, <3>4, OneTag, Zenon DEF ReadItem
      <3> QED
        BY <2>4, <3>3, <3>5, Zenon
    <2> QED
      BY <2>1, <2>4, <2>5, Zenon DEF ReadsItem
  <1> QED
    BY <1>4, <1>5

\* Each constant is read as it was written.
LEMMA ConstantIs ==
    ASSUME NEW cs, NEW c, \A k : Format!Index(cs, k) \in Word, Writable(c)
    PROVE  ReadsItem(Format!Constant(cs, c), ItemOf(cs, c))
  <1>1. CASE c.tag = 1 /\ c.text \in Texts
    BY <1>1, Utf8Is, Zenon
  <1>2. CASE c.tag \in {7, 8, 16}
    <2>1. Format!Index(cs, Format!Utf8(c.text)) \in Word
      OBVIOUS
    <2> QED
      BY <1>2, <2>1, NamesItem
  <1>3. CASE c.tag \in {9, 10, 11} \/ c.tag = 12 \/ c.tag = 18
    BY <1>3, ReferencesItem, Zenon
  <1>4. CASE c.tag = 15 /\ c.number \in Byte
    <2>1. c.number \in Nat
      BY <1>4, SMT DEF Byte
    <2> QED
      BY <1>4, <2>1, HandleItem, SMT
  <1>5. CASE c.tag \in 3..6 /\ IsLong(c.number)
    BY <1>5, NumbersItem, Zenon
  <1> QED
    BY <1>1, <1>2, <1>3, <1>4, <1>5, SMT DEF Writable, ConstantFits

-----------------------------------------------------------------------------
(* The constant pool                                                       *)

\* One step of the loop over the items, and the loop.
PoolStep(f, last, i) ==
    LET next == ReadItem(f, last.at)
    IN  IF Len(last.item) >= i THEN last
        ELSE [at |-> next.at,
              item |-> last.item \o (IF next.item.tag \in {5, 6}
                                     THEN <<next.item, NoItem>> ELSE <<next.item>>)]
PoolTo(f, at, n, g) == g = [i \in 0..n |->
    IF i = 0 THEN [at |-> at + 2, item |-> <<>>] ELSE PoolStep(f, g[i - 1], i)]

LEMMA PoolToExists ==
    ASSUME NEW f, NEW at
    PROVE  \A n \in Nat : \E g : PoolTo(f, at, n, g)
  <1> DEFINE S == {n \in Nat : \E g : PoolTo(f, at, n, g)}
  <1>1. 0 \in S
    <2> DEFINE g == [i \in 0..0 |-> [at |-> at + 2, item |-> <<>>]]
    <2>1. PoolTo(f, at, 0, g)
      BY DEF PoolTo
    <2> QED
      BY <2>1
  <1>2. ASSUME NEW n \in Nat, n \in S PROVE n + 1 \in S
    <2>1. PICK h : PoolTo(f, at, n, h)
      BY <1>2
    <2> DEFINE g == [i \in 0..(n + 1) |-> IF i = n + 1 THEN PoolStep(f, h[n], i) ELSE h[i]]
    <2>2. ASSUME NEW i \in 0..(n + 1)
          PROVE  g[i] = IF i = 0 THEN [at |-> at + 2, item |-> <<>>] ELSE PoolStep(f, g[i - 1], i)
      <3>1. CASE i = n + 1
        <4>1. g[i] = PoolStep(f, h[n], i)
          BY <3>1, Zenon
        <4>2. i - 1 = n /\ i # 0 /\ n \in 0..(n + 1) /\ n # n + 1
          BY <3>1
        <4>3. g[n] = h[n]
          BY <4>2, Zenon
        <4> QED
          BY <4>1, <4>2, <4>3, Zenon
      <3>2. CASE i # n + 1
        <4>1. i \in 0..n /\ (i # 0 => i - 1 \in 0..(n + 1) /\ i - 1 # n + 1)
          BY <3>2
        <4>2. h[i] = IF i = 0 THEN [at |-> at + 2, item |-> <<>>] ELSE PoolStep(f, h[i - 1], i)
          BY <2>1, <4>1, Zenon DEF PoolTo
        <4>3. g[i] = h[i] /\ (i # 0 => g[i - 1] = h[i - 1])
          BY <3>2, <4>1, Zenon
        <4> QED
          BY <4>2, <4>3, Zenon
      <3> QED
        BY <3>1, <3>2
    <2>3. g = [i \in 0..(n + 1) |-> g[i]]
      OBVIOUS
    <2> HIDE DEF g
    <2>4. PoolTo(f, at, n + 1, g)
      BY <2>2, <2>3, Zenon DEF PoolTo
    <2>5. n + 1 \in Nat
      OBVIOUS
    <2> QED
      BY <2>4, <2>5, Zenon
  <1> HIDE DEF S
  <1>3. Nat \subseteq S
    BY <1>1, <1>2, SetInduction
  <1> QED
    BY <1>3 DEF S

LEMMA ReadPoolIs ==
    ASSUME NEW f, NEW at, NEW n \in Nat, U2(f, at) = n + 1
    PROVE  \E g : PoolTo(f, at, n, g) /\ ReadPool(f, at) = g[n]
  <1> DEFINE after == CHOOSE g : PoolTo(f, at, n, g)
  <1>1. U2(f, at) - 1 = n
    OBVIOUS
  <1>2. ReadPool(f, at) = after[n]
    BY <1>1, Zenon DEF ReadPool, PoolTo, PoolStep
  <1>3. PoolTo(f, at, n, after)
    BY PoolToExists, Zenon
  <1> QED
    BY <1>2, <1>3, Zenon

Second == Format!Utf8(NoText)
Block(c) == IF c.tag \in {5, 6} THEN <<c, Second>> ELSE <<c>>
Blocks(cs) == [i \in 1..Len(cs) |-> Block(cs[i])]
WithSecond(C) == C \cup {Second}

\* What is read at the places ps.
PoolOf(cs, ps) == [j \in 1..Len(ps) |-> IF ps[j] = Second THEN NoItem ELSE ItemOf(cs, ps[j])]

LEMMA BlocksFacts ==
    ASSUME NEW C, NEW cs \in Seq(C)
    PROVE  /\ Blocks(cs) \in Seq(Seq(WithSecond(C))) /\ Len(Blocks(cs)) = Len(cs)
           /\ Format!Places(cs) = FlattenSeq(Blocks(cs))
           /\ Format!Places(cs) \in Seq(WithSecond(C))
  <1>1. Len(cs) \in Nat /\ \A i \in 1..Len(cs) : cs[i] \in C
    OBVIOUS
  <1>2. ASSUME NEW i \in 1..Len(cs) PROVE Block(cs[i]) \in Seq(WithSecond(C))
    <2>1. cs[i] \in WithSecond(C) /\ Second \in WithSecond(C)
      BY <1>1 DEF WithSecond
    <2>2. \A S : \A a, b \in S : <<a>> \in Seq(S) /\ <<a, b>> \in Seq(S)
      OBVIOUS
    <2> QED
      BY <2>1, <2>2, Zenon DEF Block
  <1>3. Blocks(cs) \in Seq(Seq(WithSecond(C))) /\ Len(Blocks(cs)) = Len(cs)
    BY <1>1, <1>2 DEF Blocks
  <1>4. Format!Places(cs) = Format!FlattenSeq(Blocks(cs))
    BY Zenon DEF Format!Places, Blocks, Block, Second
  <1> QED
    BY <1>3, <1>4, FlattenFacts, Zenon

LEMMA NoneIsSecond ==
    ASSUME NEW c, Writable(c)
    PROVE  c # Second
  <1>1. Second.tag = 1 /\ Second.text = NoText
    BY DEF Second, Format!Utf8
  <1>2. CASE c.tag = 1 /\ c.text \in Texts
    BY <1>1, <1>2, EncodingAssumption
  <1>3. CASE c.tag # 1
    BY <1>1, <1>3
  <1>4. ConstantFits(c) => c.tag # 1
    BY SMT DEF ConstantFits
  <1> QED
    BY <1>2, <1>3, <1>4, Zenon DEF Writable

IsItem(r, t) == r \in Items1 /\ r.tag = t

LEMMA ItemIs ==
    \A t, i, j \in Nat, x \in Names : IsItem(Item(t, i, j, x), t)
  BY SMT DEF Item, Items1, IsItem

LEMMA ItemFacts ==
    ASSUME NEW cs, NEW c, \A k : Format!Index(cs, k) \in Word, Writable(c)
    PROVE  IsItem(ItemOf(cs, c), c.tag)
  <1>2. /\ NoText \in Names /\ 0 \in Nat /\ 1 \in Nat /\ 12 \in Nat /\ 15 \in Nat /\ 18 \in Nat
        /\ \A k : Format!Index(cs, k) \in Nat
    BY SMT DEF Names, Word
  <1>3. CASE c.tag = 1 /\ c.text \in Texts
    <2>1. ItemOf(cs, c) = Item(1, 0, 0, c.text)
      BY <1>3, OneTag, Zenon DEF ItemOf
    <2>2. c.text \in Names
      BY <1>3 DEF Names
    <2> QED
      BY <1>2, <1>3, <2>1, <2>2, ItemIs, Zenon
  <1>4. CASE c.tag \in 3..6 /\ c.number \in Nat
    <2>0. c.tag \in {3, 4} \/ c.tag \in {5, 6}
      BY <1>4, SMT
    <2>1. ItemOf(cs, c) = Item(c.tag, c.number, 0, NoText)
      BY <1>4, <2>0, OneTag, Zenon DEF ItemOf
    <2>2. c.tag \in Nat
      BY <1>4
    <2> QED
      BY <1>2, <1>4, <2>1, <2>2, ItemIs, Zenon
  <1>5. CASE c.tag \in {7, 8, 16}
    <2>1. ItemOf(cs, c) = Item(c.tag, Format!Index(cs, Format!Utf8(c.text)), 0, NoText)
      BY <1>5, OneTag, Zenon DEF ItemOf
    <2>2. c.tag \in Nat
      BY <1>5
    <2> QED
      BY <1>2, <2>1, <2>2, ItemIs, Zenon
  <1>6. CASE c.tag = 12
    <2>1. ItemOf(cs, c) = Item(12, Format!Index(cs, Format!Utf8(c.text)),
                               Format!Index(cs, Format!Utf8(c.desc)), NoText)
      BY <1>6, OneTag, Zenon DEF ItemOf
    <2> QED
      BY <1>2, <1>6, <2>1, ItemIs, Zenon
  <1>7. CASE c.tag \in {9, 10, 11}
    <2>1. ItemOf(cs, c) = Item(c.tag, Format!Index(cs, Format!Name(7, c.class)),
                               Format!Index(cs, Format!NameAndType(c.text, c.desc)), NoText)
      BY <1>7, OneTag, Zenon DEF ItemOf
    <2>2. c.tag \in Nat
      BY <1>7
    <2> QED
      BY <1>2, <2>1, <2>2, ItemIs, Zenon
  <1>8. CASE c.tag = 15 /\ c.number \in Nat
    <2>1. ItemOf(cs, c) = Item(15, c.number, Format!Index(cs, c.ref), NoText)
      BY <1>8, OneTag, Zenon DEF ItemOf
    <2> QED
      BY <1>2, <1>8, <2>1, ItemIs, Zenon
  <1>9. CASE c.tag = 18
    <2>1. ItemOf(cs, c) = Item(18, 0, Format!Index(cs, Format!NameAndType(c.text, c.desc)), NoText)
      BY <1>9, OneTag, Zenon DEF ItemOf
    <2> QED
      BY <1>2, <1>9, <2>1, ItemIs, Zenon
  <1>10. ConstantFits(c) => \/ c.tag \in 3..6 /\ c.number \in Nat
                            \/ c.tag = 15 /\ c.number \in Nat
                            \/ c.tag \in {7, 8, 16} \/ c.tag \in {9, 10, 11} \/ c.tag = 12 \/ c.tag = 18
    <2>1. Byte \subseteq Nat
      BY SMT DEF Byte
    <2>2. \A n : IsLong(n) => n \in Nat
      BY SMT DEF IsLong
    <2>3. c.tag \in {12, 18} => c.tag = 12 \/ c.tag = 18
      OBVIOUS
    <2> QED
      BY <2>1, <2>2, <2>3, Zenon DEF ConstantFits
  <1> QED
    BY <1>3, <1>4, <1>5, <1>6, <1>7, <1>8, <1>9, <1>10, Zenon DEF Writable

\* Constants that can be written, and what is read of some of them.
Fit(cs, C) ==
    /\ cs \in Seq(C) /\ \A c \in C : Writable(c)
    /\ 1 + Len(Format!Places(cs)) \in Word
Bytes(cs) == [i \in 1..Len(cs) |-> Format!Constant(cs, cs[i])]
Reached(cs, at, pre, w, k) == [at |-> at + Len(pre[k]), item |-> PoolOf(cs, w[k])]
SamePool(cs, ps, c) ==
    PoolOf(cs, ps \o Block(c))
        = PoolOf(cs, ps) \o (IF c.tag \in {5, 6} THEN <<ItemOf(cs, c), NoItem>> ELSE <<ItemOf(cs, c)>>)

LEMMA FitFacts ==
    ASSUME NEW C, NEW cs, Fit(cs, C)
    PROVE  /\ \A k : Format!Index(cs, k) \in Word
           /\ Bytes(cs) \in Seq(Seq(Nat)) /\ Len(Bytes(cs)) = Len(cs) /\ Len(cs) \in Nat
           /\ \A i \in 1..Len(cs) : ReadsItem(Bytes(cs)[i], ItemOf(cs, cs[i]))
  <1>1. cs \in Seq(C) /\ \A c \in C : Writable(c)
    BY Zenon DEF Fit
  <1>2. Format!Places(cs) \in Seq(WithSecond(C))
    BY <1>1, BlocksFacts, Zenon
  <1>3. \A k : Format!Index(cs, k) \in Word
    <2>1. 1 + Len(Format!Places(cs)) \in Word
      BY Zenon DEF Fit
    <2> QED
      BY <1>2, <2>1, IndexIsWord, Zenon
  <1>4. Len(cs) \in Nat /\ \A i \in 1..Len(cs) : cs[i] \in C
    BY <1>1
  <1>5. \A i \in 1..Len(cs) : ReadsItem(Format!Constant(cs, cs[i]), ItemOf(cs, cs[i]))
    BY <1>1, <1>3, <1>4, ConstantIs, Zenon
  <1>6. \A i \in 1..Len(cs) : Format!Constant(cs, cs[i]) \in Seq(Nat)
    BY <1>5, Zenon DEF ReadsItem
  <1>7. Bytes(cs) \in Seq(Seq(Nat)) /\ Len(Bytes(cs)) = Len(cs)
    <2>1. [i \in 1..Len(cs) |-> Format!Constant(cs, cs[i])] \in [1..Len(cs) -> Seq(Nat)]
      BY <1>6, Zenon
    <2> QED
      BY <1>4, <2>1 DEF Bytes
  <1>8. \A i \in 1..Len(cs) : Bytes(cs)[i] = Format!Constant(cs, cs[i])
    BY Zenon DEF Bytes
  <1> QED
    BY <1>3, <1>4, <1>5, <1>7, <1>8, Zenon

LEMMA PoolOfGrows ==
    ASSUME NEW C, NEW cs, NEW ps \in Seq(WithSecond(C)), NEW c \in C, Writable(c)
    PROVE  SamePool(cs, ps, c)
  <1>0. c # Second
    BY NoneIsSecond
  <1> DEFINE Of(x) == IF x = Second THEN NoItem ELSE ItemOf(cs, x)
  <1>1. Of(c) = ItemOf(cs, c) /\ Of(Second) = NoItem
    BY <1>0
  <1>2. \A s : PoolOf(cs, s) = [j \in 1..Len(s) |-> Of(s[j])]
    BY Zenon DEF PoolOf
  <1> HIDE DEF Of
  <1>3. Len(ps) \in Nat
    OBVIOUS
  <1>4. CASE c.tag \in {5, 6}
    <2>1. Block(c) = <<c, Second>>
      BY <1>4, Zenon DEF Block
    <2>2. [j \in 1..Len(ps \o <<c, Second>>) |-> Of((ps \o <<c, Second>>)[j])]
              = [j \in 1..Len(ps) |-> Of(ps[j])] \o <<Of(c), Of(Second)>>
      BY <1>3
    <2> QED
      BY <1>1, <1>2, <1>4, <2>1, <2>2, Zenon DEF SamePool
  <1>5. CASE c.tag \notin {5, 6}
    <2>1. Block(c) = <<c>>
      BY <1>5, Zenon DEF Block
    <2>2. [j \in 1..Len(ps \o <<c>>) |-> Of((ps \o <<c>>)[j])]
              = [j \in 1..Len(ps) |-> Of(ps[j])] \o <<Of(c)>>
      BY <1>3
    <2> QED
      BY <1>1, <1>2, <1>5, <2>1, <2>2, Zenon DEF SamePool
  <1> QED
    BY <1>4, <1>5, Zenon

\* What is read when one constant more has been.
LEMMA ReachesNext ==
    ASSUME NEW C, NEW cs, Fit(cs, C), NEW f \in Seq(Nat), NEW at,
           At(f, at, FlattenSeq(Bytes(cs))),
           NEW pre, Joins(pre, Bytes(cs), Nat), FlattenSeq(Bytes(cs)) = pre[Len(cs)],
           NEW w, Joins(w, Blocks(cs), WithSecond(C)),
           NEW k \in 1..Len(cs), NEW j, j = k - 1, NEW i \in Nat, Len(w[j]) < i
    PROVE  PoolStep(f, Reached(cs, at, pre, w, j), i) = Reached(cs, at, pre, w, k)
  <1>1. /\ Bytes(cs) \in Seq(Seq(Nat)) /\ Len(Bytes(cs)) = Len(cs) /\ Len(cs) \in Nat
        /\ \A l : Format!Index(cs, l) \in Word
        /\ ReadsItem(Bytes(cs)[k], ItemOf(cs, cs[k]))
    BY FitFacts, Zenon
  <1>2. cs \in Seq(C) /\ cs[k] \in C /\ Writable(cs[k])
    BY SMT DEF Fit
  <1>3. Blocks(cs) \in Seq(Seq(WithSecond(C))) /\ Len(Blocks(cs)) = Len(cs)
    BY <1>2, BlocksFacts, Zenon
  <1>4. Joined(pre, Bytes(cs), Nat, k, j)
    BY <1>1, JoinsGrow, Zenon
  <1>5. Joined(w, Blocks(cs), WithSecond(C), k, j)
    BY <1>3, JoinsGrow, Zenon
  <1>6. Len(PoolOf(cs, w[j])) = Len(w[j]) /\ Len(w[j]) \in Nat
    <2>1. Len(w[j]) \in Nat
      BY <1>5, Zenon DEF Joined
    <2> QED
      BY <2>1 DEF PoolOf
  <1>7. ~(Len(PoolOf(cs, w[j])) >= i)
    BY <1>6
  <1>8. At(f, at + Len(pre[j]), Bytes(cs)[k])
    <2>1. At(f, at, pre[Len(Bytes(cs))])
      BY <1>1, Zenon
    <2>2. At(f, at + Len(pre[k - 1]), Bytes(cs)[k])
      BY <1>1, <2>1, AtJoins, Zenon
    <2> QED
      BY <2>2, Zenon
  <1>9. ReadItem(f, at + Len(pre[j])) = [at |-> at + Len(pre[j]) + Len(Bytes(cs)[k]),
                                        item |-> ItemOf(cs, cs[k])]
    BY <1>1, <1>8, Zenon DEF ReadsItem
  <1>10. at + Len(pre[j]) + Len(Bytes(cs)[k]) = at + Len(pre[k])
    <2>1. /\ Len(pre[k]) = Len(pre[j]) + Len(Bytes(cs)[k])
          /\ Len(pre[j]) \in Nat /\ Len(Bytes(cs)[k]) \in Nat
      BY <1>4, Zenon DEF Joined
    <2>2. at \in Nat
      BY Zenon DEF At
    <2>3. \A a, b \in Nat : at + a + b = at + (a + b)
      BY <2>2
    <2> QED
      BY <2>1, <2>3, ZenonT(60)
  <1>11. IsItem(ItemOf(cs, cs[k]), cs[k].tag)
    BY <1>1, <1>2, ItemFacts, Zenon
  <1>12. PoolOf(cs, w[k]) = PoolOf(cs, w[j]) \o (IF cs[k].tag \in {5, 6}
             THEN <<ItemOf(cs, cs[k]), NoItem>> ELSE <<ItemOf(cs, cs[k])>>)
    <2>1. w[k] = w[j] \o Block(cs[k]) /\ w[j] \in Seq(WithSecond(C))
      <3>1. k \in 1..Len(cs) /\ Blocks(cs)[k] = Block(cs[k])
        BY Zenon DEF Blocks
      <3> QED
        BY <1>5, <3>1, Zenon DEF Joined
    <2>2. SamePool(cs, w[j], cs[k])
      BY <1>2, <2>1, PoolOfGrows, Zenon
    <2> QED
      BY <2>1, <2>2, Zenon DEF SamePool
  <1>13. PICK last : last = Reached(cs, at, pre, w, j)
    OBVIOUS
  <1>14. last.at = at + Len(pre[j]) /\ last.item = PoolOf(cs, w[j])
    BY <1>13 DEF Reached
  <1>15. PICK next : next = ReadItem(f, last.at)
    OBVIOUS
  <1>16. /\ next.at = at + Len(pre[k]) /\ next.item = ItemOf(cs, cs[k])
         /\ next.item.tag = cs[k].tag
    <2>1. next = [at |-> at + Len(pre[k]), item |-> ItemOf(cs, cs[k])]
      BY <1>9, <1>10, <1>14, <1>15, Zenon
    <2> QED
      BY <1>11, <2>1 DEF IsItem
  <1>17. PoolStep(f, last, i) = [at |-> next.at, item |-> last.item \o (IF next.item.tag \in {5, 6}
                                     THEN <<next.item, NoItem>> ELSE <<next.item>>)]
    BY <1>7, <1>14, <1>15, Zenon DEF PoolStep
  <1> QED
    BY <1>12, <1>13, <1>14, <1>16, <1>17, Zenon DEF Reached

\* More constants take more places.
LEMMA PlacesGrow ==
    ASSUME NEW C, NEW cs \in Seq(C), NEW w, Joins(w, Blocks(cs), WithSecond(C))
    PROVE  /\ \A k \in 0..Len(cs) : Len(w[k]) \in Nat
           /\ \A k \in 0..Len(cs) : k # Len(cs) => Len(w[k]) < Len(w[Len(cs)])
           /\ \A k \in 1..Len(cs) : Len(w[k]) \in {Len(w[k - 1]) + 1, Len(w[k - 1]) + 2}
           /\ w[0] = <<>>
  <1> DEFINE n == Len(cs)
  <1>0. n \in Nat
    OBVIOUS
  <1>1. Blocks(cs) \in Seq(Seq(WithSecond(C))) /\ Len(Blocks(cs)) = n
    BY BlocksFacts, Zenon
  <1>2. w \in [0..n -> Seq(WithSecond(C))] /\ w[0] = <<>>
    BY <1>1, Zenon DEF Joins, JoinsTo
  <1>3. \A k \in 0..n : Len(w[k]) \in Nat
    BY <1>2
  <1>4. ASSUME NEW k \in 1..n PROVE Len(w[k]) \in {Len(w[k - 1]) + 1, Len(w[k - 1]) + 2}
    <2>1. Joined(w, Blocks(cs), WithSecond(C), k, k - 1)
      BY <1>1, JoinsGrow, Zenon
    <2>2. Len(w[k]) = Len(w[k - 1]) + Len(Blocks(cs)[k])
      BY <2>1, Zenon DEF Joined
    <2>3. Blocks(cs)[k] = Block(cs[k])
      BY Zenon DEF Blocks
    <2>4. Len(Block(cs[k])) \in {1, 2}
      BY DEF Block
    <2> QED
      BY <2>2, <2>3, <2>4
  <1> DEFINE T == {m \in Nat : m + 1 <= n => Len(w[n - (m + 1)]) < Len(w[n])}
  <1>5. 0 \in T
    <2>1. 0 + 1 <= n => n \in 1..n /\ n - (0 + 1) = n - 1 /\ n - 1 \in 0..n /\ n \in 0..n
      BY <1>0
    <2>2. 0 + 1 <= n => Len(w[n - 1]) < Len(w[n])
      BY <1>3, <1>4, <2>1
    <2> QED
      BY <2>1, <2>2
  <1>6. ASSUME NEW m \in Nat, m \in T PROVE m + 1 \in T
    <2>0. m + 1 \in Nat
      OBVIOUS
    <2> SUFFICES ASSUME (m + 1) + 1 <= n PROVE Len(w[n - ((m + 1) + 1)]) < Len(w[n])
      BY <2>0, Zenon
    <2>1. PICK k, l : k = n - (m + 1) /\ l = n - ((m + 1) + 1)
      OBVIOUS
    <2>2. k \in 1..n /\ k \in 0..n /\ l \in 0..n /\ l = k - 1 /\ m + 1 <= n /\ n \in 0..n
      BY <1>0, <2>1
    <2>3. Len(w[k]) < Len(w[n])
      BY <1>6, <2>1, <2>2, Zenon
    <2>4. Len(w[k]) \in {Len(w[l]) + 1, Len(w[l]) + 2}
      BY <1>4, <2>2
    <2>5. Len(w[l]) < Len(w[n])
      BY <1>3, <2>2, <2>3, <2>4
    <2> QED
      BY <2>1, <2>5, Zenon
  <1> HIDE DEF T
  <1>7. Nat \subseteq T
    BY <1>5, <1>6, SetInduction
  <1>8. ASSUME NEW k \in 0..n, k # n PROVE Len(w[k]) < Len(w[n])
    <2>1. PICK m : m = (n - k) - 1
      OBVIOUS
    <2>2. m \in Nat /\ m + 1 <= n /\ n - (m + 1) = k
      BY <1>0, <1>8, <2>1
    <2>3. m \in T
      BY <1>7, <2>2
    <2> QED
      BY <2>2, <2>3, Zenon DEF T
  <1> QED
    BY <1>2, <1>3, <1>4, <1>8, Zenon

\* The pool of a file has, in the place of each constant, what was written.
LEMMA PoolIs ==
    ASSUME NEW C, NEW cs, Fit(cs, C), NEW f \in Seq(Nat), NEW at \in Nat,
           U2(f, at) = Len(Format!Places(cs)) + 1, At(f, at + 2, FlattenSeq(Bytes(cs)))
    PROVE  ReadPool(f, at) = [at |-> (at + 2) + Len(FlattenSeq(Bytes(cs))),
                              item |-> PoolOf(cs, Format!Places(cs))]
  <1> DEFINE n == Len(cs)
             N == Len(Format!Places(cs))
  <1>1. cs \in Seq(C) /\ n \in Nat
    BY SMT DEF Fit
  <1>2. /\ Bytes(cs) \in Seq(Seq(Nat)) /\ Len(Bytes(cs)) = n
    BY FitFacts, Zenon
  <1>3. /\ Blocks(cs) \in Seq(Seq(WithSecond(C))) /\ Len(Blocks(cs)) = n
        /\ Format!Places(cs) = FlattenSeq(Blocks(cs))
        /\ Format!Places(cs) \in Seq(WithSecond(C))
    BY <1>1, BlocksFacts, Zenon
  <1>4. PICK pre : Joins(pre, Bytes(cs), Nat) /\ FlattenSeq(Bytes(cs)) = pre[n]
    BY <1>2, FlattenFacts, Zenon
  <1>5. PICK w : Joins(w, Blocks(cs), WithSecond(C)) /\ Format!Places(cs) = w[n]
    BY <1>3, FlattenFacts, Zenon
  <1>6. N \in Nat
    BY <1>3
  <1>7. PICK g : PoolTo(f, at, N, g) /\ ReadPool(f, at) = g[N]
    BY <1>6, ReadPoolIs
  <1>8. \A i \in 0..N : g[i] = IF i = 0 THEN [at |-> at + 2, item |-> <<>>] ELSE PoolStep(f, g[i - 1], i)
    BY <1>7, Zenon DEF PoolTo
  <1>9. PICK q : q = at + 2
    OBVIOUS
  <1> DEFINE St(k) == Reached(cs, q, pre, w, k)
             T == {i \in Nat : i <= N => \E k \in 0..n : g[i] = St(k) /\ Len(w[k]) \in {i, i + 1}}
  <1>10. /\ \A k \in 0..n : Len(w[k]) \in Nat
         /\ \A k \in 0..n : k # n => Len(w[k]) < N
         /\ \A k \in 1..n : Len(w[k]) \in {Len(w[k - 1]) + 1, Len(w[k - 1]) + 2}
         /\ w[0] = <<>>
    BY <1>1, <1>5, PlacesGrow, Zenon
  <1>11. 0 \in T
    <2>1. pre[0] = <<>> /\ 0 \in 0..n /\ 0 \in 0..N
      BY <1>1, <1>2, <1>4, <1>6 DEF Joins, JoinsTo
    <2>2. St(0) = [at |-> q, item |-> <<>>]
      <3>1. q + Len(pre[0]) = q
        BY <1>9, <2>1
      <3>2. PoolOf(cs, w[0]) = <<>>
        BY <1>10 DEF PoolOf
      <3> QED
        BY <3>1, <3>2, Zenon DEF Reached
    <2>3. g[0] = [at |-> q, item |-> <<>>]
      BY <1>8, <1>9, <2>1, Zenon
    <2>4. Len(w[0]) \in {0, 0 + 1}
      BY <1>10
    <2>5. \E k \in 0..n : g[0] = St(k) /\ Len(w[k]) \in {0, 0 + 1}
      BY <2>1, <2>2, <2>3, <2>4, Zenon
    <2> HIDE DEF St
    <2> QED
      BY <2>5
  <1>12. ASSUME NEW i \in Nat, i \in T PROVE i + 1 \in T
    <2>0. i + 1 \in Nat
      OBVIOUS
    <2> SUFFICES ASSUME i + 1 <= N PROVE \E k \in 0..n : g[i + 1] = St(k) /\ Len(w[k]) \in {i + 1, (i + 1) + 1}
      BY <2>0, Zenon
    <2>1. i <= N /\ i + 1 \in 0..N /\ i + 1 # 0 /\ (i + 1) - 1 = i /\ i < N
      BY <1>6
    <2>2. PICK k \in 0..n : g[i] = St(k) /\ Len(w[k]) \in {i, i + 1}
      BY <1>12, <2>1, Zenon
    <2>3. g[i + 1] = PoolStep(f, St(k), i + 1)
      BY <1>8, <2>1, <2>2, Zenon
    <2>4. CASE Len(w[k]) = i + 1
      <3>1. Len(St(k).item) >= i + 1
        BY <2>4, <1>10 DEF Reached, PoolOf
      <3>2. g[i + 1] = St(k)
        BY <2>3, <3>1, Zenon DEF PoolStep
      <3> QED
        BY <2>4, <3>2, Zenon
    <2>5. CASE Len(w[k]) = i
      <3>1. k # n
        BY <1>5, <2>1, <2>5
      <3>2. PICK l : l = k + 1
        OBVIOUS
      <3>3. l \in 1..n /\ l \in 0..n /\ k = l - 1 /\ Len(w[k]) < i + 1
        BY <1>1, <2>5, <3>1, <3>2
      <3>4. At(f, q, FlattenSeq(Bytes(cs)))
        BY <1>9
      <3>5. PoolStep(f, St(k), i + 1) = St(l)
        <4>1. PICK m : m = i + 1
          OBVIOUS
        <4>2. m \in Nat /\ Len(w[k]) < m
          BY <2>0, <3>3, <4>1, Zenon
        <4>3. l \in 1..Len(cs) /\ k = l - 1
          BY <3>3, Zenon
        <4>4. PoolStep(f, Reached(cs, q, pre, w, k), m) = Reached(cs, q, pre, w, l)
          BY <1>4, <1>5, <3>4, <4>2, <4>3, ReachesNext
        <4> QED
          BY <4>1, <4>4, Zenon
      <3>6. Len(w[l]) \in {i + 1, (i + 1) + 1}
        <4>1. Len(w[l]) \in {Len(w[k]) + 1, Len(w[k]) + 2}
          BY <1>10, <3>3, Zenon
        <4>2. (i + 1) + 1 = i + 2
          OBVIOUS
        <4> QED
          BY <2>5, <4>1, <4>2, Zenon
      <3> QED
        BY <2>3, <3>3, <3>5, <3>6, Zenon
    <2> QED
      BY <2>2, <2>4, <2>5, Zenon
  <1> HIDE DEF T
  <1>13. Nat \subseteq T
    BY <1>11, <1>12, SetInduction
  <1>14. PICK k \in 0..n : g[N] = St(k) /\ Len(w[k]) \in {N, N + 1}
    <2>1. N \in T /\ N <= N
      BY <1>6, <1>13
    <2> QED
      BY <2>1, Zenon DEF T
  <1>15. k = n
    BY <1>6, <1>10, <1>14
  <1> QED
    BY <1>4, <1>5, <1>7, <1>9, <1>14, <1>15, Zenon DEF Reached

-----------------------------------------------------------------------------
(* The constants of a class                                                *)

\* The recursion over the texts has a solution.
One(s) == CHOOSE x \in s : TRUE
Rest(s) == s \ {One(s)}
TextsRule(g, s) == IF s = {} THEN <<>> ELSE Append(g[Rest(s)], Format!Utf8(One(s)))
TextsUpTo(n, g) == \A s \in SUBSET Texts : Cardinality(s) <= n => g[s] = TextsRule(g, s)
TextsFold(g) == g = [s \in SUBSET Texts |-> TextsRule(g, s)]
AllTexts == Format!FoldSet(LAMBDA x, s : Append(s, Format!Utf8(x)), <<>>, Texts)

LEMMA RestIsLess ==
    ASSUME IsFiniteSet(Texts), NEW s \in SUBSET Texts
    PROVE  /\ Cardinality(s) \in Nat /\ IsFiniteSet(s)
           /\ s # {} => /\ Rest(s) \in SUBSET Texts /\ One(s) \in s
                        /\ Cardinality(Rest(s)) = Cardinality(s) - 1 /\ Cardinality(s) # 0
           /\ s = {} => Cardinality(s) = 0
  <1>1. IsFiniteSet(s)
    BY FS_Subset
  <1>2. Cardinality(s) \in Nat /\ (Cardinality(s) = 0 <=> s = {})
    BY <1>1, FS_CardinalityType, FS_EmptySet
  <1>3. ASSUME s # {} PROVE One(s) \in s
    BY <1>3 DEF One
  <1>4. s # {} => Cardinality(Rest(s)) = Cardinality(s) - 1
    BY <1>1, <1>3, FS_RemoveElement DEF Rest
  <1> QED
    BY <1>1, <1>2, <1>3, <1>4 DEF Rest

LEMMA TextsFoldExists ==
    ASSUME IsFiniteSet(Texts)
    PROVE  \E g : TextsFold(g)
  <1> DEFINE T == {n \in Nat : \E g : TextsUpTo(n, g)}
  <1>1. 0 \in T
    <2> DEFINE g == [s \in SUBSET Texts |-> <<>>]
    <2>1. ASSUME NEW s \in SUBSET Texts, Cardinality(s) <= 0 PROVE g[s] = TextsRule(g, s)
      BY <2>1, RestIsLess DEF TextsRule
    <2>2. TextsUpTo(0, g)
      BY <2>1, Zenon DEF TextsUpTo
    <2> QED
      BY <2>2
  <1>2. ASSUME NEW n \in Nat, n \in T PROVE n + 1 \in T
    <2>1. PICK h : TextsUpTo(n, h)
      BY <1>2
    <2> DEFINE g == [s \in SUBSET Texts |-> TextsRule(h, s)]
    <2>2. ASSUME NEW s \in SUBSET Texts, Cardinality(s) <= n + 1 PROVE g[s] = TextsRule(g, s)
      <3>1. CASE s = {}
        BY <3>1 DEF TextsRule
      <3>2. CASE s # {}
        <4>1. Rest(s) \in SUBSET Texts /\ Cardinality(Rest(s)) <= n
          BY <2>2, <3>2, RestIsLess
        <4>2. h[Rest(s)] = TextsRule(h, Rest(s))
          BY <2>1, <4>1, Zenon DEF TextsUpTo
        <4>3. g[Rest(s)] = TextsRule(h, Rest(s)) /\ g[s] = TextsRule(h, s)
          BY <4>1, Zenon
        <4> HIDE DEF g
        <4> QED
          BY <4>2, <4>3, Zenon DEF TextsRule
      <3> QED
        BY <3>1, <3>2
    <2> HIDE DEF g
    <2>3. TextsUpTo(n + 1, g)
      BY <2>2, Zenon DEF TextsUpTo
    <2>4. n + 1 \in Nat
      OBVIOUS
    <2> QED
      BY <2>3, <2>4, Zenon
  <1> HIDE DEF T
  <1>3. Nat \subseteq T
    BY <1>1, <1>2, SetInduction
  <1>4. Cardinality(Texts) \in T /\ Cardinality(Texts) \in Nat
    BY <1>3, FS_CardinalityType
  <1>5. PICK h : TextsUpTo(Cardinality(Texts), h)
    BY <1>4, Zenon DEF T
  <1> DEFINE g == [s \in SUBSET Texts |-> h[s]]
  <1>6. ASSUME NEW s \in SUBSET Texts PROVE g[s] = TextsRule(g, s)
    <2>1. Cardinality(s) <= Cardinality(Texts)
      BY FS_Subset
    <2>2. h[s] = TextsRule(h, s)
      BY <1>5, <2>1, Zenon DEF TextsUpTo
    <2>3. s # {} => Rest(s) \in SUBSET Texts
      BY RestIsLess, Zenon
    <2>4. g[s] = h[s] /\ (s # {} => g[Rest(s)] = h[Rest(s)])
      BY <2>3, Zenon
    <2> HIDE DEF g
    <2> QED
      BY <2>2, <2>4, Zenon DEF TextsRule
  <1>7. g = [s \in SUBSET Texts |-> g[s]]
    OBVIOUS
  <1> HIDE DEF g
  <1>8. TextsFold(g)
    BY <1>6, <1>7, Zenon DEF TextsFold
  <1> QED
    BY <1>8

\* Every text is in its place.
LEMMA AllTextsFacts ==
    ASSUME IsFiniteSet(Texts), NEW R, \A x \in Texts : Format!Utf8(x) \in R
    PROVE  /\ AllTexts \in Seq(R) /\ AllTexts \in Seq({Format!Utf8(x) : x \in Texts})
           /\ \A x \in Texts : \E i \in 1..Len(AllTexts) : AllTexts[i] = Format!Utf8(x)
  <1> DEFINE g == CHOOSE f : TextsFold(f)
             Has(s, t) == /\ t \in Seq({Format!Utf8(x) : x \in Texts})
                          /\ \A x \in s : \E i \in 1..Len(t) : t[i] = Format!Utf8(x)
             T == {n \in Nat : \A s \in SUBSET Texts : Cardinality(s) = n => Has(s, g[s])}
  <1>1. AllTexts = g[Texts]
    BY Zenon DEF AllTexts, Format!FoldSet, Format!MapThenFoldSet, TextsFold, TextsRule, One, Rest
  <1>2. TextsFold(g)
    BY TextsFoldExists, Zenon
  <1> HIDE DEF g
  <1>3. \A s \in SUBSET Texts : g[s] = TextsRule(g, s)
    BY <1>2, Zenon DEF TextsFold
  <1>4. 0 \in T
    <2>1. ASSUME NEW s \in SUBSET Texts, Cardinality(s) = 0 PROVE Has(s, g[s])
      <3>1. s = {}
        BY <2>1, RestIsLess
      <3>2. g[s] = <<>>
        BY <1>3, <3>1, Zenon DEF TextsRule
      <3> QED
        BY <3>1, <3>2
    <2> HIDE DEF Has
    <2> QED
      BY <2>1
  <1>5. ASSUME NEW n \in Nat, n \in T PROVE n + 1 \in T
    <2>0. n + 1 \in Nat
      OBVIOUS
    <2>1. ASSUME NEW s \in SUBSET Texts, Cardinality(s) = n + 1 PROVE Has(s, g[s])
      <3>1. /\ s # {} /\ Rest(s) \in SUBSET Texts /\ One(s) \in s /\ One(s) \in Texts
            /\ Cardinality(Rest(s)) = n
        BY <2>1, RestIsLess
      <3>2. Has(Rest(s), g[Rest(s)])
        BY <1>5, <3>1, Zenon
      <3>3. g[s] = Append(g[Rest(s)], Format!Utf8(One(s)))
        BY <1>3, <3>1, Zenon DEF TextsRule
      <3>4. PICK t, c : t = g[Rest(s)] /\ c = Format!Utf8(One(s))
        OBVIOUS
      <3>5. c \in {Format!Utf8(x) : x \in Texts} /\ t \in Seq({Format!Utf8(x) : x \in Texts})
        BY <3>1, <3>2, <3>4
      <3>6. /\ Append(t, c) \in Seq({Format!Utf8(x) : x \in Texts}) /\ Len(t) \in Nat
            /\ Len(Append(t, c)) = Len(t) + 1 /\ Append(t, c)[Len(t) + 1] = c
            /\ \A i \in 1..Len(t) : Append(t, c)[i] = t[i]
        BY <3>5
      <3>7. ASSUME NEW x \in s
            PROVE  \E i \in 1..Len(Append(t, c)) : Append(t, c)[i] = Format!Utf8(x)
        <4>1. CASE x = One(s)
          <5>1. Len(t) + 1 \in 1..Len(Append(t, c))
            BY <3>6
          <5> QED
            BY <3>4, <3>6, <4>1, <5>1, Zenon
        <4>2. CASE x # One(s)
          <5>1. x \in Rest(s)
            BY <4>2 DEF Rest
          <5>2. PICK i \in 1..Len(t) : t[i] = Format!Utf8(x)
            BY <3>2, <3>4, <5>1, Zenon
          <5>3. i \in 1..Len(Append(t, c))
            BY <3>6
          <5> QED
            BY <3>6, <5>2, <5>3, Zenon
        <4> QED
          BY <4>1, <4>2
      <3>8. Has(s, Append(t, c))
        BY <3>6, <3>7, Zenon
      <3> HIDE DEF Has
      <3> QED
        BY <3>3, <3>4, <3>8, Zenon
    <2> HIDE DEF Has
    <2> QED
      BY <2>0, <2>1
  <1> HIDE DEF T
  <1>6. Nat \subseteq T
    BY <1>4, <1>5, SetInduction
  <1>7. Has(Texts, AllTexts)
    <2>1. Cardinality(Texts) \in T /\ Cardinality(Texts) \in Nat
      BY <1>6, FS_CardinalityType
    <2> HIDE DEF Has
    <2>2. Has(Texts, g[Texts])
      BY <2>1, Zenon DEF T
    <2> QED
      BY <1>1, <2>2, Zenon
  <1>8. {Format!Utf8(x) : x \in Texts} \subseteq R
    OBVIOUS
  <1>9. AllTexts \in Seq({Format!Utf8(x) : x \in Texts})
    BY <1>7, Zenon
  <1>10. AllTexts \in Seq(R)
    BY <1>8, <1>9, WiderSeq, Zenon
  <1> QED
    BY <1>7, <1>9, <1>10, Zenon

Occurs(c, s) == \E i \in 1..Len(s) : s[i] = c

LEMMA OccursJoined ==
    ASSUME NEW S, NEW s \in Seq(S), NEW t \in Seq(S), NEW c, Occurs(c, s) \/ Occurs(c, t)
    PROVE  Occurs(c, s \o t)
  <1>1. /\ Len(s) \in Nat /\ Len(t) \in Nat /\ Len(s \o t) = Len(s) + Len(t)
        /\ \A i \in 1..Len(s) : (s \o t)[i] = s[i]
        /\ \A i \in 1..Len(t) : (s \o t)[Len(s) + i] = t[i]
    BY ConcatFacts
  <1>2. CASE Occurs(c, s)
    <2>1. PICK i \in 1..Len(s) : s[i] = c
      BY <1>2, Zenon DEF Occurs
    <2>2. i \in 1..Len(s \o t)
      BY <1>1
    <2> QED
      BY <1>1, <2>1, <2>2, Zenon DEF Occurs
  <1>3. CASE Occurs(c, t)
    <2>1. PICK i \in 1..Len(t) : t[i] = c
      BY <1>3, Zenon DEF Occurs
    <2>2. Len(s) + i \in 1..Len(s \o t)
      BY <1>1
    <2> QED
      BY <1>1, <2>1, <2>2, Zenon DEF Occurs
  <1> QED
    BY <1>2, <1>3

LEMMA OccursFlat ==
    ASSUME NEW S, NEW ss \in Seq(Seq(S)), NEW c, NEW k \in 1..Len(ss), Occurs(c, ss[k])
    PROVE  Occurs(c, FlattenSeq(ss))
  <1>1. PICK pre : Joins(pre, ss, S) /\ FlattenSeq(ss) = pre[Len(ss)]
    BY FlattenFacts
  <1> DEFINE n == Len(ss)
             T == {m \in Nat : k + m <= n => Occurs(c, pre[k + m])}
  <1>0. n \in Nat /\ k \in Nat
    OBVIOUS
  <1>2. \A i \in 1..n : /\ pre[i] = pre[i - 1] \o ss[i]
                        /\ pre[i - 1] \in Seq(S) /\ ss[i] \in Seq(S)
    <2> TAKE i \in 1..n
    <2>1. Joined(pre, ss, S, i, i - 1)
      BY <1>1, JoinsGrow, Zenon
    <2> QED
      BY <2>1, Zenon DEF Joined
  <1>3. 0 \in T
    <2>1. Occurs(c, pre[k])
      BY <1>2, OccursJoined, Zenon
    <2>2. k + 0 = k
      BY <1>0
    <2> QED
      BY <2>1, <2>2
  <1>4. ASSUME NEW m \in Nat, m \in T PROVE m + 1 \in T
    <2>0. m + 1 \in Nat
      OBVIOUS
    <2> SUFFICES ASSUME k + (m + 1) <= n PROVE Occurs(c, pre[k + (m + 1)])
      BY <2>0, Zenon
    <2>1. PICK i : i = k + (m + 1)
      OBVIOUS
    <2>2. i \in 1..n /\ i - 1 = k + m /\ k + m <= n
      BY <1>0, <2>1
    <2>3. Occurs(c, pre[i - 1])
      BY <1>4, <2>2, Zenon
    <2>4. Occurs(c, pre[i])
      BY <1>2, <2>2, <2>3, OccursJoined, Zenon
    <2> QED
      BY <2>1, <2>4, Zenon
  <1> HIDE DEF T
  <1>5. Nat \subseteq T
    BY <1>3, <1>4, SetInduction
  <1>6. n - k \in T /\ k + (n - k) = n /\ n <= n
    BY <1>0, <1>5
  <1>7. Occurs(c, pre[n])
    BY <1>6, Zenon DEF T
  <1> QED
    BY <1>1, <1>7, Zenon

\* Constants that any class may have, and those that a class has.
Common == {Format!Utf8(x) : x \in Texts} \cup {Format!Name(7, x) : x \in Texts}
          \cup {Format!NameAndType(x, y) : x, y \in Texts}
Used(d) == Range(d.refs) \cup Range(d.numbers)
Possible(d) == Used(d) \cup Common

LEMMA AllAreWritten ==
    ASSUME NEW d, \A c \in Used(d) : ConstantFits(c)
    PROVE  \A c \in Possible(d) : Writable(c)
  <1>1. ASSUME NEW x \in Texts PROVE Writable(Format!Utf8(x))
    BY DEF Writable, Format!Utf8
  <1>2. ASSUME NEW x \in Texts PROVE Writable(Format!Name(7, x))
    <2>1. Format!Name(7, x).tag \in {7, 8, 16} /\ Format!Name(7, x).text = x
      BY DEF Format!Name
    <2> QED
      BY <2>1, Zenon DEF Writable, ConstantFits
  <1>3. ASSUME NEW x \in Texts, NEW y \in Texts PROVE Writable(Format!NameAndType(x, y))
    <2>1. /\ Format!NameAndType(x, y).tag \in {12, 18} /\ Format!NameAndType(x, y).text = x
          /\ Format!NameAndType(x, y).desc = y
      BY DEF Format!NameAndType
    <2>2. {x, y} \subseteq Texts
      OBVIOUS
    <2> QED
      BY <2>1, <2>2, Zenon DEF Writable, ConstantFits
  <1>4. \A c \in Used(d) : Writable(c)
    BY Zenon DEF Writable
  <1> QED
    BY <1>1, <1>2, <1>3, <1>4, SMT DEF Possible, Common

\* The parts of the constants of a class.
InterfaceConstants(d) == [i \in 1..Len(d.interfaces) |-> Format!Name(7, d.interfaces[i])]
SuperConstants(d) == IF d.super = NoText THEN <<>> ELSE <<Format!Name(7, d.super)>>
RefConstants(d) == [i \in 1..Len(d.refs) |->
    IF d.refs[i].tag \in {9, 10, 11}
    THEN <<Format!Name(7, d.refs[i].class), Format!NameAndType(d.refs[i].text, d.refs[i].desc)>>
    ELSE <<>>]
LEMMA ConstantsParts ==
    ASSUME NEW d
    PROVE  Format!Constants(d) = d.numbers \o d.refs \o InterfaceConstants(d) \o <<Format!Name(7, d.name)>>
               \o SuperConstants(d) \o Format!FlattenSeq(RefConstants(d)) \o AllTexts
  BY Zenon DEF Format!Constants, InterfaceConstants, SuperConstants, RefConstants, AllTexts

LEMMA DescriptionParts ==
    ASSUME NEW d, DescriptionFits(d)
    PROVE  /\ {d.name, d.source} \subseteq Texts /\ d.super \in Texts \cup {NoText}
           /\ d.interfaces \in Seq(Texts) /\ Len(d.interfaces) \in Word
           /\ d.refs \in Seq(Used(d)) /\ d.numbers \in Seq(Used(d))
           /\ \A c \in Used(d) : ConstantFits(c)
           /\ \A i \in 1..Len(d.refs) : d.refs[i] \in Used(d)
           /\ 1 + Len(Format!Places(Format!Constants(d))) \in Word
  <1>1. Range(d.refs) \subseteq Used(d) /\ Range(d.numbers) \subseteq Used(d)
    BY DEF Used
  <1>2. d.refs \in Seq(Used(d)) /\ d.numbers \in Seq(Used(d))
    BY <1>1, WiderSeq, Zenon DEF DescriptionFits
  <1>3. \A i \in 1..Len(d.refs) : d.refs[i] \in Used(d)
    BY <1>2
  <1>4. d.interfaces \in Seq(Texts) /\ Len(d.interfaces) \in Word
    BY Zenon DEF DescriptionFits, Few
  <1> QED
    BY <1>2, <1>3, <1>4, Zenon DEF DescriptionFits, Used

LEMMA PartsFacts ==
    ASSUME IsFiniteSet(Texts), NEW d, DescriptionFits(d)
    PROVE  /\ d.numbers \in Seq(Possible(d)) /\ d.refs \in Seq(Possible(d))
           /\ InterfaceConstants(d) \in Seq(Possible(d)) /\ <<Format!Name(7, d.name)>> \in Seq(Possible(d))
           /\ SuperConstants(d) \in Seq(Possible(d)) /\ RefConstants(d) \in Seq(Seq(Possible(d)))
           /\ Format!FlattenSeq(RefConstants(d)) = FlattenSeq(RefConstants(d))
           /\ FlattenSeq(RefConstants(d)) \in Seq(Possible(d)) /\ AllTexts \in Seq(Possible(d))
  <1>1. /\ {d.name, d.source} \subseteq Texts /\ d.super \in Texts \cup {NoText}
        /\ d.interfaces \in Seq(Texts)
        /\ d.refs \in Seq(Used(d)) /\ d.numbers \in Seq(Used(d))
        /\ \A c \in Used(d) : ConstantFits(c)
    BY DescriptionParts, Zenon
  <1>2. /\ Used(d) \subseteq Possible(d)
        /\ \A x \in Texts : Format!Utf8(x) \in Possible(d) /\ Format!Name(7, x) \in Possible(d)
        /\ \A x, y \in Texts : Format!NameAndType(x, y) \in Possible(d)
    BY SMT DEF Possible, Common
  <1>3. d.numbers \in Seq(Possible(d)) /\ d.refs \in Seq(Possible(d))
    BY <1>1, <1>2, WiderSeq, Zenon
  <1>4. InterfaceConstants(d) \in Seq(Possible(d))
    <2>1. Len(d.interfaces) \in Nat /\ \A i \in 1..Len(d.interfaces) : d.interfaces[i] \in Texts
      BY <1>1
    <2>2. \A i \in 1..Len(d.interfaces) : Format!Name(7, d.interfaces[i]) \in Possible(d)
      BY <1>2, <2>1, Zenon
    <2> QED
      BY <2>1, <2>2 DEF InterfaceConstants
  <1>5. \A c \in Possible(d) : <<c>> \in Seq(Possible(d))
    OBVIOUS
  <1>6. <<Format!Name(7, d.name)>> \in Seq(Possible(d))
    BY <1>1, <1>2, <1>5, Zenon
  <1>7. SuperConstants(d) \in Seq(Possible(d))
    <2>1. <<>> \in Seq(Possible(d))
      OBVIOUS
    <2>2. d.super # NoText => d.super \in Texts
      BY <1>1
    <2> QED
      BY <1>2, <1>5, <2>1, <2>2, Zenon DEF SuperConstants
  <1>8. RefConstants(d) \in Seq(Seq(Possible(d)))
    <2>1. Len(d.refs) \in Nat /\ \A i \in 1..Len(d.refs) : d.refs[i] \in Used(d)
      BY <1>1
    <2>2. ASSUME NEW i \in 1..Len(d.refs), d.refs[i].tag \in {9, 10, 11}
          PROVE  d.refs[i].class \in Texts /\ d.refs[i].text \in Texts /\ d.refs[i].desc \in Texts
      <3>1. PICK t : t = d.refs[i].tag
        OBVIOUS
      <3>2. /\ t \notin 3..6 /\ t \notin {7, 8, 16} /\ t \notin {12, 18} /\ t # 15
        <4>1. t \in {9, 10, 11}
          BY <2>2, <3>1, Zenon
        <4> QED
          BY <4>1
      <3>3. {d.refs[i].class, d.refs[i].text, d.refs[i].desc} \subseteq Texts
        BY <1>1, <2>1, <3>1, <3>2, Zenon DEF ConstantFits
      <3> QED
        BY <3>3
    <2>3. \A a, b \in Possible(d) : <<a, b>> \in Seq(Possible(d))
      OBVIOUS
    <2>4. <<>> \in Seq(Possible(d))
      OBVIOUS
    <2>5. \A i \in 1..Len(d.refs) :
              (IF d.refs[i].tag \in {9, 10, 11}
               THEN <<Format!Name(7, d.refs[i].class), Format!NameAndType(d.refs[i].text, d.refs[i].desc)>>
               ELSE <<>>) \in Seq(Possible(d))
      BY <1>2, <2>2, <2>3, <2>4, Zenon
    <2> QED
      BY <2>1, <2>5 DEF RefConstants
  <1>9. /\ FlattenSeq(RefConstants(d)) \in Seq(Possible(d))
        /\ Format!FlattenSeq(RefConstants(d)) = FlattenSeq(RefConstants(d))
    BY <1>8, FlattenFacts, Zenon
  <1>10. AllTexts \in Seq(Possible(d))
    BY <1>2, AllTextsFacts, Zenon
  <1> QED
    BY <1>3, <1>4, <1>6, <1>7, <1>8, <1>9, <1>10, Zenon

OccursInBoth(s, t) == \A c : Occurs(c, s) \/ Occurs(c, t) => Occurs(c, s \o t)

LEMMA JoinedBoth ==
    ASSUME NEW S, NEW s \in Seq(S), NEW t \in Seq(S)
    PROVE  s \o t \in Seq(S) /\ OccursInBoth(s, t)
  <1>1. s \o t \in Seq(S)
    OBVIOUS
  <1>2. \A c : Occurs(c, s) \/ Occurs(c, t) => Occurs(c, s \o t)
    BY OccursJoined, Zenon
  <1> QED
    BY <1>1, <1>2, Zenon DEF OccursInBoth

\* Each constant that the file refers to has a number.
Required(c, d) ==
    \/ c \in Used(d) \/ \E x \in Texts : c = Format!Utf8(x)
    \/ c = Format!Name(7, d.name)
    \/ d.super # NoText /\ c = Format!Name(7, d.super)
    \/ \E i \in 1..Len(d.interfaces) : c = Format!Name(7, d.interfaces[i])
    \/ \E r \in Range(d.refs) : /\ r.tag \in {9, 10, 11}
                                /\ c = Format!Name(7, r.class) \/ c = Format!NameAndType(r.text, r.desc)
Numbered(cs, c) ==
    Format!Index(cs, c) \in 1..Len(Format!Places(cs)) /\ Format!Places(cs)[Format!Index(cs, c)] = c

LEMMA RequiredOccurs ==
    ASSUME IsFiniteSet(Texts), NEW d, DescriptionFits(d)
    PROVE  /\ Format!Constants(d) \in Seq(Possible(d))
           /\ \A c : Required(c, d) => Occurs(c, Format!Constants(d))
  <1>1. /\ d.numbers \in Seq(Possible(d)) /\ d.refs \in Seq(Possible(d))
        /\ InterfaceConstants(d) \in Seq(Possible(d)) /\ <<Format!Name(7, d.name)>> \in Seq(Possible(d))
        /\ SuperConstants(d) \in Seq(Possible(d)) /\ RefConstants(d) \in Seq(Seq(Possible(d)))
        /\ Format!FlattenSeq(RefConstants(d)) = FlattenSeq(RefConstants(d))
        /\ FlattenSeq(RefConstants(d)) \in Seq(Possible(d)) /\ AllTexts \in Seq(Possible(d))
    BY PartsFacts, Zenon
  <1>2. PICK a : a = d.numbers \o d.refs
    OBVIOUS
  <1>3. PICK b : b = a \o InterfaceConstants(d)
    OBVIOUS
  <1>4. PICK c : c = b \o <<Format!Name(7, d.name)>>
    OBVIOUS
  <1>5. PICK e : e = c \o SuperConstants(d)
    OBVIOUS
  <1>6. PICK g : g = e \o FlattenSeq(RefConstants(d))
    OBVIOUS
  <1>7. Format!Constants(d) = g \o AllTexts
    BY <1>1, <1>2, <1>3, <1>4, <1>5, <1>6, ConstantsParts, Zenon
  <1>8. a \in Seq(Possible(d)) /\ \A x : Occurs(x, d.numbers) \/ Occurs(x, d.refs) => Occurs(x, a)
    BY <1>1, <1>2, JoinedBoth, Zenon DEF OccursInBoth
  <1>9. b \in Seq(Possible(d)) /\ \A x : Occurs(x, a) \/ Occurs(x, InterfaceConstants(d)) => Occurs(x, b)
    BY <1>1, <1>3, <1>8, JoinedBoth, Zenon DEF OccursInBoth
  <1>10. c \in Seq(Possible(d))
         /\ \A x : Occurs(x, b) \/ Occurs(x, <<Format!Name(7, d.name)>>) => Occurs(x, c)
    BY <1>1, <1>4, <1>9, JoinedBoth, Zenon DEF OccursInBoth
  <1>11. e \in Seq(Possible(d)) /\ \A x : Occurs(x, c) \/ Occurs(x, SuperConstants(d)) => Occurs(x, e)
    BY <1>1, <1>5, <1>10, JoinedBoth, Zenon DEF OccursInBoth
  <1>12. g \in Seq(Possible(d))
         /\ \A x : Occurs(x, e) \/ Occurs(x, FlattenSeq(RefConstants(d))) => Occurs(x, g)
    BY <1>1, <1>6, <1>11, JoinedBoth, Zenon DEF OccursInBoth
  <1>13. g \o AllTexts \in Seq(Possible(d))
         /\ \A x : Occurs(x, g) \/ Occurs(x, AllTexts) => Occurs(x, g \o AllTexts)
    BY <1>1, <1>12, JoinedBoth, Zenon DEF OccursInBoth
  <1>14. \A x : \/ Occurs(x, d.numbers) \/ Occurs(x, d.refs) \/ Occurs(x, InterfaceConstants(d))
                \/ Occurs(x, <<Format!Name(7, d.name)>>) \/ Occurs(x, SuperConstants(d))
                \/ Occurs(x, FlattenSeq(RefConstants(d))) \/ Occurs(x, AllTexts)
                => Occurs(x, Format!Constants(d))
    BY <1>7, <1>8, <1>9, <1>10, <1>11, <1>12, <1>13, Zenon
  <1>15. ASSUME NEW x, x \in Used(d) PROVE Occurs(x, d.numbers) \/ Occurs(x, d.refs)
    BY <1>1, <1>15 DEF Used, Range, Occurs
  <1>16. ASSUME NEW x \in Texts PROVE Occurs(Format!Utf8(x), AllTexts)
    <2>1. \A y \in Texts : Format!Utf8(y) \in Common
      BY SMT DEF Common
    <2> QED
      BY <2>1, AllTextsFacts, Zenon DEF Occurs
  <1>17. Occurs(Format!Name(7, d.name), <<Format!Name(7, d.name)>>)
    BY DEF Occurs
  <1>18. d.super # NoText => Occurs(Format!Name(7, d.super), SuperConstants(d))
    BY DEF Occurs, SuperConstants
  <1>19. ASSUME NEW i \in 1..Len(d.interfaces)
         PROVE  Occurs(Format!Name(7, d.interfaces[i]), InterfaceConstants(d))
    <2>1. d.interfaces \in Seq(Texts)
      BY DescriptionParts, Zenon
    <2>2. Len(InterfaceConstants(d)) = Len(d.interfaces)
          /\ InterfaceConstants(d)[i] = Format!Name(7, d.interfaces[i])
      BY <2>1 DEF InterfaceConstants
    <2> QED
      BY <2>2, Zenon DEF Occurs
  <1>20. ASSUME NEW r \in Range(d.refs), r.tag \in {9, 10, 11}
         PROVE  /\ Occurs(Format!Name(7, r.class), FlattenSeq(RefConstants(d)))
                /\ Occurs(Format!NameAndType(r.text, r.desc), FlattenSeq(RefConstants(d)))
    <2>1. PICK i \in 1..Len(d.refs) : r = d.refs[i]
      <3>1. DOMAIN d.refs = 1..Len(d.refs)
        BY <1>1
      <3> QED
        BY <3>1, Zenon DEF Range
    <2>2. Len(RefConstants(d)) = Len(d.refs)
      BY <1>1 DEF RefConstants
    <2>3. RefConstants(d)[i] = <<Format!Name(7, r.class), Format!NameAndType(r.text, r.desc)>>
      BY <1>20, <2>1, Zenon DEF RefConstants
    <2>4. \A x, y : Occurs(x, <<x, y>>) /\ Occurs(y, <<x, y>>)
      BY DEF Occurs
    <2>5. i \in 1..Len(RefConstants(d))
      BY <2>2, Zenon
    <2> QED
      BY <1>1, <2>3, <2>4, <2>5, OccursFlat, Zenon
  <1>21. ASSUME NEW x, Required(x, d) PROVE Occurs(x, Format!Constants(d))
    BY <1>14, <1>15, <1>16, <1>17, <1>18, <1>19, <1>20, <1>21, Zenon DEF Required
  <1> QED
    BY <1>7, <1>13, <1>21, Zenon

LEMMA OccursNumbered ==
    ASSUME NEW C, NEW cs \in Seq(C), NEW c, Occurs(c, cs)
    PROVE  Numbered(cs, c)
  <1>1. /\ Blocks(cs) \in Seq(Seq(WithSecond(C))) /\ Len(Blocks(cs)) = Len(cs)
        /\ Format!Places(cs) = FlattenSeq(Blocks(cs))
        /\ Format!Places(cs) \in Seq(WithSecond(C))
    BY BlocksFacts, Zenon
  <1>2. PICK i \in 1..Len(cs) : cs[i] = c
    BY Zenon DEF Occurs
  <1>3. Blocks(cs)[i] = Block(c)
    BY <1>2, Zenon DEF Blocks
  <1>4. Occurs(c, Block(c))
    BY DEF Occurs, Block
  <1>5. i \in 1..Len(Blocks(cs)) /\ Occurs(c, Blocks(cs)[i])
    BY <1>1, <1>3, <1>4, Zenon
  <1>6. Occurs(c, Format!Places(cs))
    BY <1>1, <1>5, OccursFlat, Zenon
  <1>7. \E j \in 1..Len(Format!Places(cs)) : Format!Places(cs)[j] = c
    BY <1>6, Zenon DEF Occurs
  <1> QED
    BY <1>1, <1>7, IndexFacts, Zenon DEF Numbered

\* The constants of a class fit, and those that it needs are there.
LEMMA ClassConstants ==
    ASSUME NEW d, DescriptionFits(d)
    PROVE  /\ Fit(Format!Constants(d), Possible(d))
           /\ \A c : Required(c, d) => Numbered(Format!Constants(d), c)
  <1>0. IsFiniteSet(Texts)
    BY FilesAssumption, Zenon
  <1>1. /\ Format!Constants(d) \in Seq(Possible(d))
        /\ \A c : Required(c, d) => Occurs(c, Format!Constants(d))
    BY <1>0, RequiredOccurs, Zenon
  <1>2. \A c : Required(c, d) => Numbered(Format!Constants(d), c)
    BY <1>1, OccursNumbered, Zenon
  <1>3. (\A c \in Used(d) : ConstantFits(c)) /\ 1 + Len(Format!Places(Format!Constants(d))) \in Word
    BY DescriptionParts, Zenon
  <1>4. \A c \in Possible(d) : Writable(c)
    BY <1>3, AllAreWritten, Zenon
  <1> QED
    BY <1>1, <1>2, <1>3, <1>4, Zenon DEF Fit

-----------------------------------------------------------------------------
(* Names of types                                                          *)

LEMMA Characters ==
    /\ Bracket # Letter /\ Bracket # Semicolon /\ Letter # Semicolon
    /\ Bracket \in Byte /\ Letter \in Byte /\ Semicolon \in Byte
  BY SMT DEF Bracket, Letter, Semicolon, Byte

\* A text is the one whose encoding was read.
LEMMA EncodedText ==
    ASSUME NEW x \in Texts
    PROVE  Encoding[x] \in Seq(Byte) /\ Text(Encoding[x]) = x
  <1>1. Encoding[x] \in Seq(Byte)
    BY FilesAssumption, Zenon DEF Few
  <1>2. FromUtf8(Encoding[x]) = x
    BY EncodingAssumption, Zenon DEF FromUtf8
  <1> QED
    BY <1>1, <1>2, Zenon DEF Text

\* What is in front of the first other character, and the rest.
LEMMA WithoutIs ==
    ASSUME NEW S, NEW s \in Seq(S), NEW ch, NEW n \in Nat, n < Len(s),
           \A i \in 1..n : s[i] = ch, s[n + 1] # ch
    PROVE  Leading(s, ch) = n /\ Without(s, ch) = SubSeq(s, n + 1, Len(s))
  <1> DEFINE I == {i \in 1..Len(s) : s[i] # ch}
  <1>1. /\ I \in SUBSET Nat /\ n + 1 \in I /\ I # {}
        /\ \A i \in I : n + 1 <= i
    OBVIOUS
  <1>2. SelectInSeq(s, LAMBDA c : c # ch) = IF I # {} THEN Min(I) ELSE 0
    BY Zenon DEF SelectInSeq
  <1> HIDE DEF I
  <1>3. Min(I) \in I /\ \A i \in I : Min(I) <= i
    BY <1>1, MinFacts
  <1>4. Min(I) = n + 1
    <2>1. Min(I) \in Nat /\ n + 1 <= Min(I) /\ Min(I) <= n + 1
      BY <1>1, <1>3, Zenon
    <2> QED
      BY <2>1
  <1>5. Leading(s, ch) = n
    <2>1. LET k == n + 1 IN (IF k = 0 THEN Len(s) ELSE k - 1) = n
      OBVIOUS
    <2> QED
      BY <1>1, <1>2, <1>4, <2>1, Zenon DEF Leading
  <1> QED
    BY <1>5, Zenon DEF Without

LEMMA RestFacts ==
    ASSUME NEW S, NEW s \in Seq(S), NEW n \in Nat, n < Len(s)
    PROVE  /\ SubSeq(s, n + 1, Len(s)) \in Seq(S) /\ Len(SubSeq(s, n + 1, Len(s))) = Len(s) - n
           /\ \A i \in 1..(Len(s) - n) : SubSeq(s, n + 1, Len(s))[i] = s[n + i]
  OBVIOUS

LEMMA WholeIs ==
    ASSUME NEW S, NEW s \in Seq(S)
    PROVE  SubSeq(s, 1, Len(s)) = s
  OBVIOUS

\* The descriptor of a class, with and without its characters in front.
ClassDescriptor(t) == <<Letter>> \o t \o <<Semicolon>>

LEMMA ClassDescriptorFacts ==
    ASSUME NEW t \in Seq(Byte), t # <<>>, NEW e, e = ClassDescriptor(t)
    PROVE  /\ e \in Seq(Byte) /\ Len(e) = Len(t) + 2 /\ e[1] = Letter /\ e[2] = t[1]
           /\ Last(e) = Semicolon /\ Tail(e) = SubSeq(e, 2, Len(e))
           /\ Tail(e) = t \o <<Semicolon>> /\ Last(Tail(e)) = Semicolon /\ Front(Tail(e)) = t
  <1>1. PICK l, m : l = Letter /\ m = Semicolon
    OBVIOUS
  <1>2. l \in Byte /\ m \in Byte
    BY <1>1, Characters, Zenon
  <1>3. e = <<l>> \o t \o <<m>>
    BY <1>1 DEF ClassDescriptor
  <1>4. Len(t) \in Nat /\ Len(t) > 0
    OBVIOUS
  <1>5. e \in Seq(Byte) /\ Len(e) = Len(t) + 2 /\ e[1] = l /\ e[2] = t[1] /\ e[Len(e)] = m
    BY <1>2, <1>3, <1>4
  <1>6. Tail(e) = SubSeq(e, 2, Len(e))
    BY <1>4, <1>5
  <1>7. Tail(e) = t \o <<m>>
    BY <1>2, <1>3, <1>4
  <1>8. SubSeq(t \o <<m>>, 1, Len(t \o <<m>>) - 1) = t
    BY <1>2, <1>4
  <1>9. (t \o <<m>>)[Len(t \o <<m>>)] = m
    BY <1>2, <1>4
  <1> QED
    BY <1>1, <1>5, <1>6, <1>7, <1>8, <1>9, Zenon DEF Last, Front

\* The type that a class of the program names.
Typed(x, base, dims) == CreateTypeByName(x, Range(Order)) = [base |-> base, dims |-> dims]

\* What is looked for when the brackets are off, and what is found.
Found(x, base) ==
    \/ \E p \in Primitives : x = p[2] /\ base = p[1]
    \/ x \in Range(Order) /\ base = x

\* A text without its brackets that is found gives a type.
LEMMA TypeFound ==
    ASSUME NEW x, NEW base, NEW y, NEW dims, Found(y, base),
           Leading(Encoding[x], Bracket) = dims,
           NEW rest, Without(Encoding[x], Bracket) = rest,
           Text(IF rest[1] = Letter /\ Last(rest) = Semicolon THEN Front(Tail(rest)) ELSE rest) = y
    PROVE  Typed(x, base, dims)
  <1> DEFINE P(p) == y \in {p[1], p[2]}
             type == IF \E p \in Primitives : P(p)
                     THEN [base |-> (CHOOSE p \in Primitives : P(p))[1], dims |-> dims]
                     ELSE IF y \in Range(Order) THEN [base |-> y, dims |-> dims] ELSE NoItem
  <1>1. CreateTypeByName(x, Range(Order)) = type
    BY Zenon DEF CreateTypeByName
  <1>2. CASE \E p \in Primitives : y = p[2] /\ base = p[1]
    <2>1. PICK p \in Primitives : y = p[2] /\ base = p[1]
      BY <1>2
    <2>2. PICK q : q = CHOOSE r \in Primitives : P(r)
      OBVIOUS
    <2>3. P(p)
      BY <2>1
    <2>4. q \in Primitives /\ P(q)
      BY <2>2, <2>3, Zenon
    <2>5. q = p
      <3>1. {q[1], q[2]} \cap {p[1], p[2]} # {}
        BY <2>1, <2>4
      <3> QED
        BY <2>4, <3>1, NamesAssumption, Zenon
    <2> QED
      BY <1>1, <2>1, <2>2, <2>3, <2>5, Zenon DEF Typed
  <1>3. CASE y \in Range(Order) /\ base = y
    <2>1. \A p \in Primitives : ~P(p)
      BY <1>3, NamesAssumption
    <2> QED
      BY <1>1, <1>3, <2>1, Zenon DEF Typed
  <1> QED
    BY <1>2, <1>3, Zenon DEF Found

LEMMA ClassNameFacts ==
    ASSUME NEW c \in Range(Order)
    PROVE  /\ c \in Texts /\ Encoding[c] \in Seq(Byte) /\ Text(Encoding[c]) = c
           /\ Encoding[c] # <<>> /\ Encoding[c][1] # Bracket /\ Last(Encoding[c]) # Semicolon
           /\ 0 < Len(Encoding[c]) /\ ~IsPrimitiveType(c)
           /\ Leading(Encoding[c], Bracket) = 0 /\ Without(Encoding[c], Bracket) = Encoding[c]
  <1>1. /\ c \in Texts /\ Encoding[c] \in Seq(Byte) /\ Text(Encoding[c]) = c
        /\ Encoding[c] # <<>> /\ Encoding[c][1] # Bracket /\ Last(Encoding[c]) # Semicolon
        /\ \A p \in Primitives : c # p[1] /\ c # p[2]
    <2>1. /\ c \in Texts
          /\ Encoding[c] # <<>> /\ Encoding[c][1] # Bracket /\ Last(Encoding[c]) # Semicolon
          /\ \A p \in Primitives : c \notin {p[1], p[2]}
      BY NamesAssumption, Zenon
    <2> QED
      BY <2>1, EncodedText
  <1>2. 0 < Len(Encoding[c])
    BY <1>1
  <1>3. Leading(Encoding[c], Bracket) = 0 /\ Without(Encoding[c], Bracket) = Encoding[c]
    <2>1. 0 \in Nat /\ 0 + 1 = 1 /\ 1..0 = {}
      OBVIOUS
    <2>2. /\ Leading(Encoding[c], Bracket) = 0
          /\ Without(Encoding[c], Bracket) = SubSeq(Encoding[c], 0 + 1, Len(Encoding[c]))
      BY <1>1, <1>2, <2>1, WithoutIs
    <2>3. SubSeq(Encoding[c], 1, Len(Encoding[c])) = Encoding[c]
      BY <1>1, WholeIs
    <2> QED
      BY <2>1, <2>2, <2>3, Zenon
  <1>4. ~IsPrimitiveType(c)
    BY <1>1, <1>3, Zenon DEF IsPrimitiveType
  <1> QED
    BY <1>1, <1>2, <1>3, <1>4, Zenon

LEMMA ClassTypeIs ==
    ASSUME NEW c \in Range(Order)
    PROVE  Typed(c, c, 0)
  <1>1. Found(c, c)
    BY DEF Found
  <1> QED
    BY <1>1, ClassNameFacts, TypeFound, Zenon

LEMMA PrimitiveFacts ==
    ASSUME NEW p \in Primitives
    PROVE  /\ p[2] \in Texts /\ Encoding[p[2]] \in Seq(Byte) /\ Text(Encoding[p[2]]) = p[2]
           /\ Len(Encoding[p[2]]) = 1 /\ Encoding[p[2]][1] \notin {Bracket, Letter, Semicolon}
           /\ p[1] \notin Range(Order) /\ p[2] \notin Range(Order)
  BY NamesAssumption, EncodedText, Zenon

\* An array type, whose base the descriptor says.
Described(x, base, dims) ==
    /\ Typed(x, base, dims)
    /\ \A c \in Range(Order) : GetClassNameFromDescriptor(x) = c <=> base = c
    /\ IsPrimitiveType(GetClassNameFromDescriptor(x)) <=> base \notin Range(Order)

LEMMA ArrayOfPrimitives ==
    ASSUME NEW x, NEW n, NEW p \in Primitives,
           Leading(Encoding[x], Bracket) = n, Without(Encoding[x], Bracket) = Encoding[p[2]]
    PROVE  Described(x, p[1], n)
  <1> DEFINE e == Encoding[p[2]]
  <1>1. e \in Seq(Byte) /\ Len(e) = 1 /\ e[1] \notin {Bracket, Letter, Semicolon} /\ Text(e) = p[2]
    BY PrimitiveFacts, Zenon
  <1> HIDE DEF e
  <1>2. Last(e) = e[1] /\ 0 \in Nat /\ 0 + 1 = 1 /\ 0 < Len(e) /\ 1..0 = {}
    BY <1>1 DEF Last
  <1>3. SubSeq(e, 0 + 1, Len(e)) = e
    BY <1>1, <1>2, WholeIs
  <1>4. ASSUME NEW ch \in {Bracket, Letter} PROVE Without(e, ch) = e
    <2>1. e[0 + 1] # ch
      BY <1>1, <1>2, <1>4
    <2>2. Without(e, ch) = SubSeq(e, 0 + 1, Len(e))
      BY <1>1, <1>2, <2>1, WithoutIs
    <2> QED
      BY <1>3, <2>2, Zenon
  <1>5. Typed(x, p[1], n)
    <2>1. Found(p[2], p[1])
      BY DEF Found
    <2>2. e[1] # Letter
      BY <1>1
    <2> QED
      BY <1>1, <2>1, <2>2, TypeFound, Zenon DEF e
  <1>6. GetClassNameFromDescriptor(x) = p[2]
    <2>1. Last(e) # Semicolon /\ Without(e, Letter) = e
      BY <1>1, <1>2, <1>4
    <2> QED
      BY <1>1, <2>1, Zenon DEF GetClassNameFromDescriptor, e
  <1>7. IsPrimitiveType(p[2])
    BY <1>1, <1>4, Zenon DEF IsPrimitiveType, e
  <1> QED
    BY <1>5, <1>6, <1>7, PrimitiveFacts, Zenon DEF Described

LEMMA ArrayOfObjects ==
    ASSUME NEW x, NEW n, NEW c \in Range(Order), Encoding[c][1] # Letter,
           Leading(Encoding[x], Bracket) = n, Without(Encoding[x], Bracket) = ClassDescriptor(Encoding[c])
    PROVE  Described(x, c, n)
  <1>1. PICK e : e = ClassDescriptor(Encoding[c])
    OBVIOUS
  <1>2. /\ e \in Seq(Byte) /\ Len(e) = Len(Encoding[c]) + 2 /\ e[1] = Letter /\ e[2] = Encoding[c][1]
        /\ Last(e) = Semicolon /\ Tail(e) = SubSeq(e, 2, Len(e))
        /\ Last(Tail(e)) = Semicolon /\ Front(Tail(e)) = Encoding[c]
    BY <1>1, ClassNameFacts, ClassDescriptorFacts, Zenon
  <1>3. Text(Encoding[c]) = c /\ ~IsPrimitiveType(c) /\ 0 < Len(Encoding[c]) /\ Len(Encoding[c]) \in Nat
    BY ClassNameFacts
  <1>4. Typed(x, c, n)
    <2>1. Found(c, c)
      BY DEF Found
    <2> QED
      BY <1>1, <1>2, <1>3, <2>1, TypeFound, Zenon
  <1>5. Without(e, Letter) = Tail(e)
    <2>1. 1 \in Nat /\ 1 + 1 = 2 /\ 1 < Len(e) /\ (\A i \in 1..1 : i = 1)
      BY <1>2, <1>3
    <2>2. (\A i \in 1..1 : e[i] = Letter) /\ e[1 + 1] # Letter
      BY <1>2, <2>1
    <2>3. Without(e, Letter) = SubSeq(e, 1 + 1, Len(e))
      BY <1>2, <2>1, <2>2, WithoutIs
    <2> QED
      BY <1>2, <2>1, <2>3, Zenon
  <1>6. GetClassNameFromDescriptor(x) = c
    BY <1>1, <1>2, <1>3, <1>5, Zenon DEF GetClassNameFromDescriptor
  <1> QED
    BY <1>3, <1>4, <1>6, Zenon DEF Described

\* A name means the type that the compiler meant.
LEMMA NamedTypeIsRead ==
    ASSUME NEW x \in Texts, NEW type, NamesType(x, type), Meaning[x] = type
    PROVE  TypeRead(x)
  <1>1. type # NoItem /\ type = [base |-> type.base, dims |-> type.dims]
    BY Zenon DEF NamesType
  <1>1a. type.dims \in Nat
    BY Zenon DEF NamesType
  <1>2. CASE type.dims = 0
    <2>1. type.base = x /\ x \in Range(Order)
      BY <1>2, Zenon DEF NamesType
    <2>2. Typed(x, x, 0)
      BY <2>1, ClassTypeIs
    <2>3. ~(type.dims > 0)
      BY <1>2
    <2> QED
      BY <1>1, <1>2, <2>1, <2>2, <2>3, Zenon DEF TypeRead, Typed
  <1>3. CASE type.dims > 0
    <2> DEFINE s == Encoding[x]
               n == type.dims
               e == SubSeq(s, n + 1, Len(s))
    <2>1. /\ n < Len(s) /\ \A i \in 1..n : s[i] = Bracket
          /\ Descriptor(type.base, e)
      BY <1>3, Zenon DEF NamesType
    <2>2. s \in Seq(Byte)
      BY EncodedText
    <2> HIDE DEF s, n
    <2>3. n \in Nat
      BY <1>1a DEF n
    <2>4. e[1] = s[n + 1] /\ e \in Seq(Byte)
      <3>1. 1 \in 1..(Len(s) - n)
        BY <2>1, <2>2, <2>3
      <3> QED
        BY <2>1, <2>2, <2>3, <3>1, RestFacts
    <2> HIDE DEF e
    <2>5. ASSUME e[1] # Bracket PROVE Leading(s, Bracket) = n /\ Without(s, Bracket) = e
      <3>1. s[n + 1] # Bracket
        BY <2>4, <2>5
      <3> QED
        BY <2>1, <2>2, <2>3, <3>1, WithoutIs DEF e
    <2>6. Described(x, type.base, n)
      <3>1. CASE <<type.base, e>> \in {<<p[1], Encoding[p[2]]>> : p \in Primitives}
        <4>1. PICK p \in Primitives : type.base = p[1] /\ e = Encoding[p[2]]
          BY <3>1
        <4>2. e[1] # Bracket
          BY <4>1, PrimitiveFacts
        <4> QED
          BY <2>5, <4>1, <4>2, ArrayOfPrimitives, Zenon DEF s
      <3>2. CASE /\ type.base \in Range(Order) /\ Encoding[type.base][1] # Letter
                 /\ e = <<Letter>> \o Encoding[type.base] \o <<Semicolon>>
        <4>1. e = ClassDescriptor(Encoding[type.base])
          BY <3>2 DEF ClassDescriptor
        <4>2. e[1] = Letter
          BY <3>2, <4>1, ClassNameFacts, ClassDescriptorFacts, Zenon
        <4>3. e[1] # Bracket
          BY <4>2, Characters, Zenon
        <4> QED
          BY <2>5, <3>2, <4>1, <4>3, ArrayOfObjects, Zenon DEF s
      <3> QED
        BY <2>1, <3>1, <3>2, Zenon DEF Descriptor
    <2> QED
      BY <1>1, <2>6, Zenon DEF TypeRead, Described, Typed, n
  <1> QED
    BY <1>1a, <1>2, <1>3

-----------------------------------------------------------------------------
(* Parameters                                                              *)

\* One step of the count of parameters, and the count in s.
CountStep(r, ch) ==
    CASE ch = Bracket -> r
      [] ch # Bracket /\ r.class -> [r EXCEPT !.class = ch # Semicolon]
      [] OTHER -> [n |-> r.n + 1, class |-> ch = Letter]
CountTo(s, n, g) == g = [i \in 0..n |->
    IF i = 0 THEN [n |-> 0, class |-> FALSE] ELSE CountStep(g[i - 1], s[i])]
Outside(k) == [n |-> k, class |-> FALSE]
Inside(k) == [n |-> k, class |-> TRUE]

\* The recursion of ParameterCount has a solution.
LEMMA CountToExists ==
    ASSUME NEW s
    PROVE  \A n \in Nat : \E g : CountTo(s, n, g)
  <1> DEFINE S == {n \in Nat : \E g : CountTo(s, n, g)}
  <1>1. 0 \in S
    <2> DEFINE g == [i \in 0..0 |-> [n |-> 0, class |-> FALSE]]
    <2>1. CountTo(s, 0, g)
      BY DEF CountTo
    <2> QED
      BY <2>1
  <1>2. ASSUME NEW n \in Nat, n \in S PROVE n + 1 \in S
    <2>1. PICK h : CountTo(s, n, h)
      BY <1>2
    <2> DEFINE g == [i \in 0..(n + 1) |-> IF i = n + 1 THEN CountStep(h[n], s[i]) ELSE h[i]]
    <2>2. ASSUME NEW i \in 0..(n + 1)
          PROVE  g[i] = IF i = 0 THEN [n |-> 0, class |-> FALSE] ELSE CountStep(g[i - 1], s[i])
      <3>1. CASE i = n + 1
        <4>1. g[i] = CountStep(h[n], s[i])
          BY <3>1, Zenon
        <4>2. i - 1 = n /\ i # 0 /\ n \in 0..(n + 1) /\ n # n + 1
          BY <3>1
        <4>3. g[n] = h[n]
          BY <4>2, Zenon
        <4> QED
          BY <4>1, <4>2, <4>3, Zenon
      <3>2. CASE i # n + 1
        <4>1. i \in 0..n /\ (i # 0 => i - 1 \in 0..(n + 1) /\ i - 1 # n + 1)
          BY <3>2
        <4>2. h[i] = IF i = 0 THEN [n |-> 0, class |-> FALSE] ELSE CountStep(h[i - 1], s[i])
          BY <2>1, <4>1, Zenon DEF CountTo
        <4>3. g[i] = h[i] /\ (i # 0 => g[i - 1] = h[i - 1])
          BY <3>2, <4>1, Zenon
        <4> QED
          BY <4>2, <4>3, Zenon
      <3> QED
        BY <3>1, <3>2
    <2>3. g = [i \in 0..(n + 1) |-> g[i]]
      OBVIOUS
    <2> HIDE DEF g
    <2>4. CountTo(s, n + 1, g)
      BY <2>2, <2>3, Zenon DEF CountTo
    <2>5. n + 1 \in Nat
      OBVIOUS
    <2> QED
      BY <2>4, <2>5, Zenon
  <1> HIDE DEF S
  <1>3. Nat \subseteq S
    BY <1>1, <1>2, SetInduction
  <1> QED
    BY <1>3 DEF S

\* A bracket counts for nothing, another character for one, and an 'L' begins
\* a name that a ';' ends.
LEMMA CountSteps ==
    ASSUME NEW k \in Nat
    PROVE  /\ CountStep(Outside(k), Bracket) = Outside(k)
           /\ CountStep(Outside(k), Letter) = Inside(k + 1)
           /\ CountStep(Inside(k), Semicolon) = Outside(k)
           /\ \A ch : ch \notin {Bracket, Letter} => CountStep(Outside(k), ch) = Outside(k + 1)
           /\ \A ch : ch # Semicolon => CountStep(Inside(k), ch) = Inside(k)
  <1>1. /\ ~Outside(k).class /\ Inside(k).class /\ Outside(k).n = k
        /\ \A b : [Inside(k) EXCEPT !.class = b] = [n |-> k, class |-> b]
    BY DEF Outside, Inside
  <1>2. CountStep(Outside(k), Bracket) = Outside(k) /\ CountStep(Inside(k), Bracket) = Inside(k)
    BY Zenon DEF CountStep
  <1>3. ASSUME NEW ch, ch # Bracket
        PROVE  /\ CountStep(Outside(k), ch) = [n |-> k + 1, class |-> ch = Letter]
               /\ CountStep(Inside(k), ch) = [n |-> k, class |-> ch # Semicolon]
    BY <1>1, <1>3, Zenon DEF CountStep
  <1>4. /\ \A A \in BOOLEAN : A => A = TRUE
        /\ \A A \in BOOLEAN : ~A => A = FALSE
    OBVIOUS
  <1>5. \A a, b : (a = b) \in BOOLEAN /\ (a # b) \in BOOLEAN
    OBVIOUS
  <1>6. CountStep(Outside(k), Letter) = Inside(k + 1)
    <2>1. (Letter = Letter) = TRUE
      OBVIOUS
    <2> QED
      BY <1>3, <2>1, Characters, Zenon DEF Inside
  <1>7. CountStep(Inside(k), Semicolon) = Outside(k)
    <2>1. (Semicolon # Semicolon) = FALSE
      OBVIOUS
    <2> QED
      BY <1>3, <2>1, Characters, Zenon DEF Outside
  <1>8. ASSUME NEW ch, ch \notin {Bracket, Letter} PROVE CountStep(Outside(k), ch) = Outside(k + 1)
    <2>1. (ch = Letter) = FALSE
      BY <1>8
    <2> QED
      BY <1>3, <1>8, <2>1, Zenon DEF Outside
  <1>9. ASSUME NEW ch, ch # Semicolon PROVE CountStep(Inside(k), ch) = Inside(k)
    <2>1. (ch # Semicolon) = TRUE
      BY <1>9
    <2>2. CASE ch = Bracket
      BY <1>2, <2>2, Zenon
    <2>3. CASE ch # Bracket
      BY <1>3, <2>1, <2>3, Zenon DEF Inside
    <2> QED
      BY <2>2, <2>3
  <1> QED
    BY <1>2, <1>6, <1>7, <1>8, <1>9, Zenon

\* From place a to place b of the text there is one parameter, of which the
\* element begins at m.
ParameterAt(s, a, m, b) ==
    /\ a \in Nat /\ m \in Nat /\ b \in Nat /\ a < m /\ m <= b
    /\ \A i \in (a + 1)..(m - 1) : s[i] = Bracket
    /\ \/ m = b /\ s[m] \notin {Bracket, Letter}
       \/ m # b /\ s[m] = Letter /\ \A i \in (m + 1)..b : s[i] = Semicolon <=> i = b

\* At place a of the text, k parameters are counted in g.
CountedAt(s, n, g, a, k) == k \in Nat /\ n \in Nat /\ CountTo(s, n, g) /\ a <= n /\ g[a] = Outside(k)

\* A parameter counts once, whatever its brackets and the name of its class.
LEMMA OneIsCounted ==
    ASSUME NEW s, NEW a, NEW b, NEW m, ParameterAt(s, a, m, b), NEW k, NEW n, b <= n, NEW g,
           CountedAt(s, n, g, a, k)
    PROVE  CountedAt(s, n, g, b, k + 1)
  <1>0. k \in Nat /\ n \in Nat /\ CountTo(s, n, g) /\ g[a] = Outside(k)
    BY Zenon DEF CountedAt
  <1>00. k + 1 \in Nat
    BY <1>0
  <1> SUFFICES g[b] = Outside(k + 1)
    BY <1>0, <1>00, Zenon DEF CountedAt
  <1>1. a \in Nat /\ m \in Nat /\ b \in Nat /\ a < m /\ m <= b
    BY Zenon DEF ParameterAt
  <1>2. ASSUME NEW i \in 1..n PROVE g[i] = CountStep(g[i - 1], s[i])
    <2>1. i \in 0..n /\ i # 0
      OBVIOUS
    <2> QED
      BY <1>0, <2>1, Zenon DEF CountTo
  <1>3. \A i \in Nat : a + i < m => g[a + i] = Outside(k)
    <2> DEFINE T == {i \in Nat : a + i < m => g[a + i] = Outside(k)}
    <2>1. 0 \in T
      BY <1>0, <1>1
    <2>2. ASSUME NEW i \in Nat, i \in T PROVE i + 1 \in T
      <3> SUFFICES ASSUME a + (i + 1) < m PROVE g[a + (i + 1)] = Outside(k)
        OBVIOUS
      <3>1. /\ a + (i + 1) \in 1..n /\ (a + (i + 1)) - 1 = a + i /\ a + i < m
            /\ a + (i + 1) \in (a + 1)..(m - 1)
        BY <1>0, <1>1
      <3>2. g[a + i] = Outside(k)
        BY <2>2, <3>1
      <3>3. s[a + (i + 1)] = Bracket
        BY <3>1, Zenon DEF ParameterAt
      <3>4. g[a + (i + 1)] = CountStep(g[(a + (i + 1)) - 1], s[a + (i + 1)])
        BY <1>2, <3>1, Zenon
      <3>5. g[a + (i + 1)] = CountStep(Outside(k), Bracket)
        <4>1. g[(a + (i + 1)) - 1] = Outside(k)
          BY <3>1, <3>2, Zenon
        <4> QED
          BY <3>3, <3>4, <4>1, Zenon
      <3>6. CountStep(Outside(k), Bracket) = Outside(k)
        BY <1>0, CountSteps
      <3> QED
        BY <3>5, <3>6, Zenon
    <2> HIDE DEF T
    <2>3. Nat \subseteq T
      BY <2>1, <2>2, SetInduction
    <2> QED
      BY <2>3 DEF T
  <1>4. g[m - 1] = Outside(k)
    <2>1. (m - 1) - a \in Nat /\ a + ((m - 1) - a) = m - 1 /\ m - 1 < m
      BY <1>0, <1>1
    <2> QED
      BY <1>3, <2>1
  <1>5. g[m] = CountStep(Outside(k), s[m])
    <2>1. m \in 1..n
      BY <1>0, <1>1
    <2> QED
      BY <1>2, <1>4, <2>1, Zenon
  <1>6. CASE m = b /\ s[m] \notin {Bracket, Letter}
    BY <1>0, <1>5, <1>6, CountSteps, Zenon
  <1>7. CASE m # b /\ s[m] = Letter /\ \A i \in (m + 1)..b : s[i] = Semicolon <=> i = b
    <2>1. g[m] = Inside(k + 1) /\ k + 1 \in Nat
      <3>1. k + 1 \in Nat
        BY <1>0
      <3> QED
        BY <1>0, <1>5, <1>7, <3>1, CountSteps, Zenon
    <2> DEFINE T == {i \in Nat : m + i < b => g[m + i] = Inside(k + 1)}
    <2>2. 0 \in T
      BY <1>0, <1>1, <2>1
    <2>3. ASSUME NEW i \in Nat, i \in T PROVE i + 1 \in T
      <3> SUFFICES ASSUME m + (i + 1) < b PROVE g[m + (i + 1)] = Inside(k + 1)
        OBVIOUS
      <3>1. /\ m + (i + 1) \in 1..n /\ (m + (i + 1)) - 1 = m + i /\ m + i < b
            /\ m + (i + 1) \in (m + 1)..b /\ m + (i + 1) # b
        BY <1>0, <1>1
      <3>2. g[m + i] = Inside(k + 1)
        BY <2>3, <3>1
      <3>3. s[m + (i + 1)] # Semicolon
        BY <1>7, <3>1, Zenon
      <3>4. g[m + (i + 1)] = CountStep(g[(m + (i + 1)) - 1], s[m + (i + 1)])
        BY <1>2, <3>1, Zenon
      <3>5. g[m + (i + 1)] = CountStep(Inside(k + 1), s[m + (i + 1)])
        <4>1. g[(m + (i + 1)) - 1] = Inside(k + 1)
          BY <3>1, <3>2, Zenon
        <4> QED
          BY <3>4, <4>1, Zenon
      <3>6. \A ch : ch # Semicolon => CountStep(Inside(k + 1), ch) = Inside(k + 1)
        BY <2>1, CountSteps, Zenon
      <3> QED
        BY <3>3, <3>5, <3>6, Zenon
    <2> HIDE DEF T
    <2>4. Nat \subseteq T
      BY <2>2, <2>3, SetInduction
    <2>5. g[b - 1] = Inside(k + 1)
      <3>1. (b - 1) - m \in Nat /\ m + ((b - 1) - m) = b - 1 /\ b - 1 < b
        BY <1>0, <1>1, <1>7
      <3> QED
        BY <2>4, <3>1 DEF T
    <2>6. b \in 1..n /\ b \in (m + 1)..b
      BY <1>0, <1>1, <1>7
    <2>7. s[b] = Semicolon
      BY <1>7, <2>6, Zenon
    <2> QED
      BY <1>2, <2>1, <2>5, <2>6, <2>7, CountSteps, Zenon
  <1> QED
    BY <1>6, <1>7, Zenon DEF ParameterAt

LastPlace(s, c) == SelectLastInSeq(s, LAMBDA ch : ch = c)

\* The last place of a character, before which it may occur more often.
LEMMA LastIs ==
    ASSUME NEW S, NEW s \in Seq(S), NEW ch, NEW p \in 1..Len(s), s[p] = ch,
           \A i \in (p + 1)..Len(s) : s[i] # ch
    PROVE  LastPlace(s, ch) = p
  <1> DEFINE I == {i \in 1..Len(s) : s[i] = ch}
  <1>1. LastPlace(s, ch) = IF I # {} THEN Max(I) ELSE 0
    BY Zenon DEF LastPlace, SelectLastInSeq
  <1>2. p \in I /\ I \in SUBSET Nat /\ \A y \in I : y <= p
    OBVIOUS
  <1> HIDE DEF I
  <1>3. \A y \in I : p >= y
    BY <1>2
  <1>4. \A x \in I : (\A y \in I : x >= y) => x = p
    BY <1>2
  <1>5. Max(I) \in I /\ \A y \in I : Max(I) >= y
    BY <1>2, <1>3, Zenon DEF Max
  <1>6. Max(I) = p /\ I # {}
    BY <1>2, <1>4, <1>5, Zenon
  <1> QED
    BY <1>1, <1>6, Zenon

\* A parameter of the descriptor, in what is between the parentheses.
LEMMA ParameterIsInside ==
    ASSUME NEW S, NEW e \in Seq(S), NEW end \in 1..Len(e), NEW s, s = SubSeq(e, 2, end),
           NEW a \in 1..end, NEW b \in 1..end, a < b, IsParameter(SubSeq(e, a + 1, b))
    PROVE  \E m : ParameterAt(s, a - 1, m, b - 1)
  <1> DEFINE t == SubSeq(e, a + 1, b)
  <1>1. Len(t) = b - a /\ \A i \in 1..(b - a) : t[i] = e[a + i]
    OBVIOUS
  <1>2. \A j \in 1..(end - 1) : s[j] = e[j + 1]
    OBVIOUS
  <1> HIDE DEF t
  <1>3. \A j \in a..(b - 1) : s[j] = t[j - (a - 1)]
    <2> TAKE j \in a..(b - 1)
    <2>1. j \in 1..(end - 1) /\ j - (a - 1) \in 1..(b - a) /\ a + (j - (a - 1)) = j + 1
      OBVIOUS
    <2> QED
      BY <1>1, <1>2, <2>1
  <1>4. PICK n \in 1..Len(t) :
            /\ \A i \in 1..(n - 1) : t[i] = Bracket
            /\ IF n = Len(t) THEN t[n] \notin {Bracket, Letter}
               ELSE t[n] = Letter /\ \A i \in (n + 1)..Len(t) : t[i] = Semicolon <=> i = Len(t)
    BY Zenon DEF IsParameter, t
  <1> DEFINE m == (a - 1) + n
  <1>5. /\ a - 1 \in Nat /\ m \in Nat /\ b - 1 \in Nat /\ a - 1 < m /\ m <= b - 1
        /\ m \in a..(b - 1) /\ m - (a - 1) = n /\ (m = b - 1 <=> n = Len(t))
    BY <1>1
  <1>6. s[m] = t[n]
    BY <1>3, <1>5
  <1>7. ASSUME NEW i \in ((a - 1) + 1)..(m - 1) PROVE s[i] = Bracket
    <2>1. i \in a..(b - 1) /\ i - (a - 1) \in 1..(n - 1)
      BY <1>1
    <2> QED
      BY <1>3, <1>4, <2>1
  <1>8. CASE n = Len(t)
    <2>1. s[m] \notin {Bracket, Letter}
      BY <1>4, <1>6, <1>8, Zenon
    <2> HIDE DEF m
    <2> QED
      BY <1>5, <1>7, <1>8, <2>1, Zenon DEF ParameterAt
  <1>9. CASE n # Len(t)
    <2>1. s[m] = Letter /\ \A i \in (n + 1)..Len(t) : t[i] = Semicolon <=> i = Len(t)
      BY <1>4, <1>6, <1>9, Zenon
    <2>2. ASSUME NEW i \in (m + 1)..(b - 1) PROVE s[i] = Semicolon <=> i = b - 1
      <3>1. /\ i \in a..(b - 1) /\ i - (a - 1) \in (n + 1)..Len(t)
            /\ (i - (a - 1) = Len(t) <=> i = b - 1)
        BY <1>1
      <3> QED
        BY <1>3, <2>1, <3>1, Zenon
    <2> HIDE DEF m
    <2> QED
      BY <1>5, <1>7, <1>9, <2>1, <2>2, Zenon DEF ParameterAt
  <1> QED
    BY <1>8, <1>9

\* The parameters of a descriptor end at the places cuts.
CutAt(e, end, n, cuts) ==
    /\ end \in 1..Len(e) /\ n \in Nat /\ cuts \in [0..n -> 1..Len(e)]
    /\ cuts[0] = 1 /\ cuts[n] = end
    /\ \A i \in 1..n : cuts[i - 1] < cuts[i] /\ IsParameter(SubSeq(e, cuts[i - 1] + 1, cuts[i]))

\* The parameters up to the last are counted one after the other.
LEMMA AllAreCounted ==
    ASSUME NEW S, NEW e \in Seq(S), NEW end, NEW s, s = SubSeq(e, 2, end),
           NEW n, NEW cuts, CutAt(e, end, n, cuts), NEW g, CountTo(s, end - 1, g)
    PROVE  g[end - 1] = Outside(n)
  <1>0. /\ end \in 1..Len(e) /\ n \in Nat /\ cuts \in [0..n -> 1..Len(e)]
        /\ cuts[0] = 1 /\ cuts[n] = end
        /\ \A i \in 1..n : cuts[i - 1] < cuts[i] /\ IsParameter(SubSeq(e, cuts[i - 1] + 1, cuts[i]))
    BY Zenon DEF CutAt
  <1>1. \A i \in 1..n : cuts[i - 1] \in Nat /\ cuts[i] \in Nat /\ cuts[i - 1] < cuts[i]
    <2> TAKE i \in 1..n
    <2>1. i \in 0..n /\ i - 1 \in 0..n
      BY <1>0
    <2> QED
      BY <1>0, <2>1
  <1>2. \A i \in 0..n : cuts[i] \in 1..end
    <2> DEFINE T == {i \in Nat : i <= n => cuts[n - i] \in 1..end}
    <2>1. 0 \in T
      BY <1>0
    <2>2. ASSUME NEW i \in Nat, i \in T PROVE i + 1 \in T
      <3> SUFFICES ASSUME i + 1 <= n PROVE cuts[n - (i + 1)] \in 1..end
        BY <1>0
      <3>1. /\ n - i \in 1..n /\ (n - i) - 1 = n - (i + 1) /\ n - (i + 1) \in 0..n
            /\ cuts[n - i] \in 1..end
        BY <1>0, <2>2
      <3>2. cuts[n - (i + 1)] < cuts[n - i]
        BY <1>1, <3>1
      <3>3. cuts[n - (i + 1)] \in 1..Len(e)
        BY <1>0, <3>1
      <3> QED
        BY <1>0, <3>1, <3>2, <3>3
    <2> HIDE DEF T
    <2>3. Nat \subseteq T
      BY <2>1, <2>2, SetInduction
    <2>4. ASSUME NEW i \in 0..n PROVE cuts[i] \in 1..end
      <3>1. n - i \in Nat /\ n - i <= n /\ n - (n - i) = i
        BY <1>0
      <3> QED
        BY <1>0, <2>3, <3>1 DEF T
    <2> QED
      BY <2>4
  <1> DEFINE U == {i \in Nat : i <= n => g[cuts[i] - 1] = Outside(i)}
  <1>3. 0 \in U
    <2>1. 0 \in 0..(end - 1) /\ cuts[0] - 1 = 0
      BY <1>0
    <2> QED
      BY <1>0, <2>1 DEF CountTo, Outside
  <1>4. ASSUME NEW i \in Nat, i \in U PROVE i + 1 \in U
    <2> SUFFICES ASSUME i + 1 <= n PROVE g[cuts[i + 1] - 1] = Outside(i + 1)
      BY <1>0
    <2>1. i + 1 \in 1..n /\ (i + 1) - 1 = i /\ i \in 0..n /\ i + 1 \in 0..n
      BY <1>0
    <2>2. /\ cuts[i] \in 1..end /\ cuts[i + 1] \in 1..end /\ cuts[i] < cuts[i + 1]
          /\ IsParameter(SubSeq(e, cuts[i] + 1, cuts[i + 1]))
      BY <1>0, <1>1, <1>2, <2>1
    <2>3. g[cuts[i] - 1] = Outside(i)
      BY <1>4, <2>1
    <2>4. PICK m : ParameterAt(s, cuts[i] - 1, m, cuts[i + 1] - 1)
      BY <1>0, <2>2, ParameterIsInside
    <2>5. end - 1 \in Nat /\ cuts[i + 1] - 1 <= end - 1
      BY <1>0, <2>2
    <2>6. PICK a, b, l : a = cuts[i] - 1 /\ b = cuts[i + 1] - 1 /\ l = end - 1
      BY <1>0
    <2>7. ParameterAt(s, a, m, b) /\ b <= l /\ CountedAt(s, l, g, a, i)
      <3>1. a <= l
        BY <1>0, <2>2, <2>6
      <3> QED
        BY <2>3, <2>4, <2>5, <2>6, <3>1, Zenon DEF CountedAt
    <2>8. CountedAt(s, l, g, b, i + 1)
      BY <2>7, OneIsCounted, Zenon
    <2>9. g[b] = Outside(i + 1)
      BY <2>8, Zenon DEF CountedAt
    <2> QED
      BY <2>6, <2>9, Zenon
  <1> HIDE DEF U
  <1>5. Nat \subseteq U
    BY <1>3, <1>4, SetInduction
  <1> QED
    BY <1>0, <1>5 DEF U

\* A descriptor has as many parameters as the compiler wrote.
LEMMA ParametersAreCounted ==
    ASSUME NEW d \in Texts, NEW n \in Nat, HasParameters(Encoding[d], n)
    PROVE  ParameterCount(d) = n
  <1> DEFINE e == Encoding[d]
  <1>1. e \in Seq(Byte)
    BY EncodedText
  <1>2. PICK end \in 1..(Len(e) - 1), cuts \in [0..n -> 1..Len(e)] :
            /\ e[end + 1] = Parenthesis /\ \A i \in (end + 2)..Len(e) : e[i] # Parenthesis
            /\ cuts[0] = 1 /\ cuts[n] = end
            /\ \A i \in 1..n : cuts[i - 1] < cuts[i] /\ IsParameter(SubSeq(e, cuts[i - 1] + 1, cuts[i]))
    BY Zenon DEF HasParameters
  <1> HIDE DEF e
  <1>3. LastPlace(e, Parenthesis) = end + 1
    <2>1. end + 1 \in 1..Len(e) /\ (end + 1) + 1 = end + 2
      BY <1>1
    <2> QED
      BY <1>1, <1>2, <2>1, LastIs
  <1>4. end \in 1..Len(e) /\ (end + 1) - 1 = end /\ end - 1 \in Nat
    BY <1>1
  <1> DEFINE s == SubSeq(Encoding[d], 2, SelectLastInSeq(Encoding[d], LAMBDA ch : ch = Parenthesis) - 1)
             after[i \in 0..Len(s)] ==
                 IF i = 0 THEN [n |-> 0, class |-> FALSE]
                 ELSE LET r == after[i - 1]
                          ch == s[i]
                      IN  CASE ch = Bracket -> r
                            [] ch # Bracket /\ r.class -> [r EXCEPT !.class = ch # Semicolon]
                            [] OTHER -> [n |-> r.n + 1, class |-> ch = Letter]
  <1>5. ParameterCount(d) = after[Len(s)].n
    BY Zenon DEF ParameterCount
  <1>6. s = SubSeq(e, 2, end)
    <2>1. s = SubSeq(e, 2, LastPlace(e, Parenthesis) - 1)
      BY Zenon DEF LastPlace, e
    <2> QED
      BY <1>3, <1>4, <2>1, Zenon
  <1> HIDE DEF s
  <1>7. Len(s) = end - 1
    BY <1>1, <1>4, <1>6
  <1>8. CountTo(s, Len(s), after)
    <2>1. PICK g : CountTo(s, Len(s), g)
      BY <1>4, <1>7, CountToExists
    <2>2. after = CHOOSE f : CountTo(s, Len(s), f)
      BY Zenon DEF CountTo, CountStep
    <2> HIDE DEF after
    <2> QED
      BY <2>1, <2>2, Zenon
  <1> HIDE DEF after
  <1>9. PICK g : g = after
    OBVIOUS
  <1>10. CountTo(s, end - 1, g)
    BY <1>7, <1>8, <1>9, Zenon
  <1>11. g[end - 1] = Outside(n)
    <2>1. CutAt(e, end, n, cuts)
      BY <1>2, <1>4, Zenon DEF CutAt
    <2> QED
      BY <1>1, <1>6, <1>10, <2>1, AllAreCounted, ZenonT(60)
  <1>12. after[Len(s)] = Outside(n)
    BY <1>7, <1>9, <1>11, Zenon
  <1> QED
    BY <1>5, <1>12 DEF Outside

\* What texts mean is read: types, and how many parameters there are.
MeaningsAreRead(c) ==
    /\ c.tag = 7 => TypeRead(c.text)
    /\ c.tag \in {10, 11} => ParameterCount(c.desc) = Arity[c.desc]

\* Of the constants of any class, the names mean what the compiler meant.
LEMMA NamesAreRead ==
    ASSUME NEW d \in Descriptions, NEW c \in Range(d.refs) \cup Range(d.numbers)
    PROVE  MeaningsAreRead(c)
  <1>1. ConstantFits(c)
    BY FilesAssumption, Zenon DEF DescriptionFits
  <1>2. /\ c.tag = 7 => NamesType(c.text, Meaning[c.text])
        /\ c.tag \in {10, 11} => Arity[c.desc] \in Nat /\ HasParameters(Encoding[c.desc], Arity[c.desc])
    BY NamesAssumption, Zenon
  <1>3. \A t : /\ t = 7 => t \notin 3..6 /\ t \notin {9, 10, 11} /\ t \notin {12, 18} /\ t # 15
               /\ t \in {10, 11} => t \notin 3..6 /\ t \notin {7, 8, 16} /\ t \notin {12, 18} /\ t # 15
    BY SMT
  <1>4. c.tag = 7 => c.text \in Texts
    BY <1>1, <1>3, Zenon DEF ConstantFits
  <1>5. c.tag \in {10, 11} => c.desc \in Texts
    <2>1. c.tag \in {10, 11} => {c.class, c.text, c.desc} \subseteq Texts
      BY <1>1, <1>3, Zenon DEF ConstantFits
    <2> QED
      BY <2>1
  <1>6. c.tag = 7 => TypeRead(c.text)
    BY <1>2, <1>4, NamedTypeIsRead, Zenon
  <1>7. c.tag \in {10, 11} => ParameterCount(c.desc) = Arity[c.desc]
    BY <1>2, <1>5, ParametersAreCounted, Zenon
  <1> QED
    BY <1>6, <1>7, Zenon DEF MeaningsAreRead

-----------------------------------------------------------------------------
(* What the constants are read as                                          *)

Raw(cs) == PoolOf(cs, Format!Places(cs))
Pool(cs) == Processed(Raw(cs))
WithTexts(cs) == \A x \in Texts : Numbered(cs, Format!Utf8(x))
Read(cs, c, r) ==
    /\ Pool(cs)[Format!Index(cs, c)] = r /\ GetItemAt(Pool(cs), Format!Index(cs, c), c.tag) = r
    /\ r \in Items2 /\ r # NoItem /\ r.x = ItemOf(cs, c).x /\ r.y = ItemOf(cs, c).y
    /\ r.text = (IF c.tag \in {7, 8, 12, 16} THEN c.text ELSE ItemOf(cs, c).text)
    /\ r.desc = (IF c.tag = 12 THEN c.desc ELSE NoText)

LEMMA RawIs ==
    ASSUME NEW C, NEW cs, Fit(cs, C), NEW c, Writable(c), Numbered(cs, c)
    PROVE  /\ Raw(cs)[Format!Index(cs, c)] = ItemOf(cs, c) /\ IsItem(ItemOf(cs, c), c.tag)
           /\ ItemOf(cs, c) # NoItem /\ Format!Index(cs, c) \in 1..Len(Raw(cs))
           /\ GetItemAt(Raw(cs), Format!Index(cs, c), c.tag) = ItemOf(cs, c)
  <1> DEFINE i == Format!Index(cs, c)
  <1>1. i \in 1..Len(Format!Places(cs)) /\ Format!Places(cs)[i] = c /\ c # Second
    BY NoneIsSecond, Zenon DEF Numbered
  <1>2. Raw(cs)[i] = ItemOf(cs, c)
    BY <1>1, Zenon DEF Raw, PoolOf
  <1>3. Len(Raw(cs)) = Len(Format!Places(cs))
    <2>1. Format!Places(cs) \in Seq(WithSecond(C))
      BY BlocksFacts, Zenon DEF Fit
    <2> QED
      BY <2>1 DEF Raw, PoolOf
  <1>4. IsItem(ItemOf(cs, c), c.tag)
    BY FitFacts, ItemFacts, Zenon
  <1>5. ItemOf(cs, c) # NoItem /\ ItemOf(cs, c).tag = c.tag
    BY <1>4, NoItemAssumption, Zenon DEF IsItem
  <1>6. GetItemAt(Raw(cs), i, c.tag) = ItemOf(cs, c)
    BY <1>1, <1>2, <1>3, <1>5, Zenon DEF GetItemAt
  <1> QED
    BY <1>1, <1>2, <1>3, <1>4, <1>5, <1>6, Zenon

\* The text that an item refers to.
LEMMA TextIs ==
    ASSUME NEW C, NEW cs, Fit(cs, C), NEW x \in Texts, Numbered(cs, Format!Utf8(x))
    PROVE  TextAt(Raw(cs), Format!Index(cs, Format!Utf8(x))) = x
  <1>1. PICK c : c = Format!Utf8(x)
    OBVIOUS
  <1>2. c.tag = 1 /\ c.text = x
    BY <1>1 DEF Format!Utf8
  <1>3. Writable(c) /\ Numbered(cs, c)
    BY <1>1, <1>2, Zenon DEF Writable
  <1>4. /\ GetItemAt(Raw(cs), Format!Index(cs, c), c.tag) = ItemOf(cs, c) /\ ItemOf(cs, c) # NoItem
    BY <1>3, RawIs, Zenon
  <1>5. ItemOf(cs, c).text = x
    <2>1. ItemOf(cs, c) = Item(1, 0, 0, x)
      BY <1>2, OneTag, Zenon DEF ItemOf
    <2> QED
      BY <2>1 DEF Item
  <1> QED
    BY <1>1, <1>2, <1>4, <1>5, Zenon DEF TextAt

LEMMA ConstantTexts ==
    ASSUME NEW c, Writable(c)
    PROVE  /\ c.tag \in {7, 8, 12, 16} => c.text \in Texts
           /\ c.tag = 12 => c.desc \in Texts
           /\ c.tag \in {9, 10, 11} => c.class \in Texts /\ c.text \in Texts /\ c.desc \in Texts
  <1>1. \A t : /\ t \in {7, 8, 12, 16} =>
                      t # 1 /\ t \notin 3..6 /\ t \notin {9, 10, 11} /\ t # 15
               /\ t = 12 => t \notin {7, 8, 16}
               /\ t \in {9, 10, 11} =>
                      t # 1 /\ t \notin 3..6 /\ t \notin {7, 8, 16} /\ t \notin {12, 18} /\ t # 15
    BY SMT
  <1>2. \A x, y, z : /\ {x, y} \subseteq Texts => x \in Texts /\ y \in Texts
                     /\ {x, y, z} \subseteq Texts => x \in Texts /\ y \in Texts /\ z \in Texts
    OBVIOUS
  <1>3. c.tag \in {7, 8, 12, 16} => c.text \in Texts
    BY <1>1, <1>2, Zenon DEF Writable, ConstantFits
  <1>4. c.tag = 12 => c.desc \in Texts
    <2>1. c.tag = 12 => c.tag \in {7, 8, 12, 16}
      OBVIOUS
    <2> QED
      BY <1>1, <1>2, <2>1, Zenon DEF Writable, ConstantFits
  <1>5. c.tag \in {9, 10, 11} => c.class \in Texts /\ c.text \in Texts /\ c.desc \in Texts
    BY <1>1, <1>2, Zenon DEF Writable, ConstantFits
  <1> QED
    BY <1>3, <1>4, <1>5, Zenon

LEMMA ReadIs ==
    ASSUME NEW C, NEW cs, Fit(cs, C), WithTexts(cs), NEW c, Writable(c), Numbered(cs, c)
    PROVE  \E r : Read(cs, c, r)
  <1> DEFINE i == Format!Index(cs, c)
  <1>1. PICK m : m = ItemOf(cs, c)
    OBVIOUS
  <1>2. /\ Raw(cs)[i] = m /\ IsItem(m, c.tag) /\ m # NoItem /\ i \in 1..Len(Raw(cs))
    BY <1>1, RawIs, Zenon
  <1>3. m \in Items1 /\ m.tag = c.tag
    BY <1>2, Zenon DEF IsItem
  <1>4. PICK text : text = IF m.tag \in {7, 8, 12, 16} THEN TextAt(Raw(cs), m.x) ELSE m.text
    OBVIOUS
  <1>5. PICK desc : desc = IF m.tag = 12 THEN TextAt(Raw(cs), m.y) ELSE NoText
    OBVIOUS
  <1>6. PICK r : r = [tag |-> m.tag, x |-> m.x, y |-> m.y, text |-> text, desc |-> desc]
    OBVIOUS
  <1>7. Pool(cs)[i] = r
    BY <1>2, <1>4, <1>5, <1>6, Zenon DEF Pool, Processed
  <1>8. ASSUME c.tag \in {7, 8, 12, 16} PROVE text = c.text /\ c.text \in Texts
    <2>1. c.text \in Texts
      BY <1>8, ConstantTexts, Zenon
    <2>2. m.x = Format!Index(cs, Format!Utf8(c.text))
      <3>1. CASE c.tag \in {7, 8, 16}
        <4>1. m = Item(c.tag, Format!Index(cs, Format!Utf8(c.text)), 0, NoText)
          BY <1>1, <3>1, OneTag, Zenon DEF ItemOf
        <4> QED
          BY <4>1 DEF Item
      <3>2. CASE c.tag = 12
        <4>1. m = Item(12, Format!Index(cs, Format!Utf8(c.text)),
                       Format!Index(cs, Format!Utf8(c.desc)), NoText)
          BY <1>1, <3>2, OneTag, Zenon DEF ItemOf
        <4> QED
          BY <4>1 DEF Item
      <3> QED
        BY <1>8, <3>1, <3>2
    <2>3. TextAt(Raw(cs), m.x) = c.text
      BY <2>1, <2>2, TextIs, Zenon DEF WithTexts
    <2> QED
      BY <1>3, <1>4, <1>8, <2>1, <2>3, Zenon
  <1>9. ASSUME c.tag = 12 PROVE desc = c.desc /\ c.desc \in Texts
    <2>1. c.desc \in Texts
      BY <1>9, ConstantTexts, Zenon
    <2>2. m.y = Format!Index(cs, Format!Utf8(c.desc))
      <3>1. m = Item(12, Format!Index(cs, Format!Utf8(c.text)),
                     Format!Index(cs, Format!Utf8(c.desc)), NoText)
        BY <1>1, <1>9, OneTag, Zenon DEF ItemOf
      <3> QED
        BY <3>1 DEF Item
    <2>3. TextAt(Raw(cs), m.y) = c.desc
      BY <2>1, <2>2, TextIs, Zenon DEF WithTexts
    <2> QED
      BY <1>3, <1>5, <1>9, <2>1, <2>3, Zenon
  <1>10. text = (IF c.tag \in {7, 8, 12, 16} THEN c.text ELSE m.text)
         /\ desc = (IF c.tag = 12 THEN c.desc ELSE NoText)
    BY <1>3, <1>4, <1>5, <1>8, <1>9, Zenon
  <1>11. text \in Names /\ desc \in Names
    <2>1. m.text \in Names
      BY <1>3 DEF Items1
    <2>2. Texts \subseteq Names /\ NoText \in Names
      BY DEF Names
    <2> QED
      BY <1>8, <1>9, <1>10, <2>1, <2>2, Zenon
  <1>12. r \in Items2
    BY <1>3, <1>6, <1>11 DEF Items1, Items2
  <1>13. r # NoItem
    BY <1>12, NoItemAssumption, Zenon
  <1>14. r.tag = c.tag /\ r.x = m.x /\ r.y = m.y /\ r.text = text /\ r.desc = desc
    BY <1>3, <1>6
  <1>15. Len(Pool(cs)) = Len(Raw(cs))
    <2>1. Format!Places(cs) \in Seq(WithSecond(C))
      BY BlocksFacts, Zenon DEF Fit
    <2> QED
      BY <2>1 DEF Pool, Raw, PoolOf, Processed
  <1>16. GetItemAt(Pool(cs), i, c.tag) = r
    BY <1>2, <1>7, <1>14, <1>15, Zenon DEF GetItemAt
  <1>17. Read(cs, c, r)
    BY <1>1, <1>7, <1>10, <1>12, <1>13, <1>14, <1>16, Zenon DEF Read
  <1> QED
    BY <1>17

\* Texts, classes and constants are read as they were written.
PooledAs(cs, C, d) ==
    /\ Fit(cs, C) /\ cs = Format!Constants(d) /\ \A c : Required(c, d) => Numbered(cs, c)
    /\ DescriptionFits(d)

LEMMA PooledFacts ==
    ASSUME NEW cs, NEW C, NEW d, PooledAs(cs, C, d)
    PROVE  /\ WithTexts(cs) /\ Fit(cs, C)
           /\ \A x \in Texts : Numbered(cs, Format!Utf8(x)) /\ Writable(Format!Utf8(x))
           /\ \A x \in Texts : Writable(Format!Name(7, x))
           /\ \A x, y \in Texts : Writable(Format!NameAndType(x, y))
           /\ \A c \in Used(d) : Writable(c) /\ Numbered(cs, c)
  <1>1. \A x \in Texts : Numbered(cs, Format!Utf8(x))
    BY Zenon DEF PooledAs, Required
  <1>2. \A c \in Used(d) : ConstantFits(c)
    BY DescriptionParts, Zenon DEF PooledAs
  <1>3. \A c \in Possible(d) : Writable(c)
    BY <1>2, AllAreWritten, Zenon
  <1>4. \A c \in Used(d) : Numbered(cs, c)
    BY Zenon DEF PooledAs, Required
  <1> QED
    BY <1>1, <1>3, <1>4, SMT DEF PooledAs, WithTexts, Possible, Common

LEMMA TextIsRead ==
    ASSUME NEW cs, NEW C, NEW d, PooledAs(cs, C, d), NEW x \in Texts
    PROVE  TextAt(Pool(cs), Format!Index(cs, Format!Utf8(x))) = x
  <1>1. PICK c : c = Format!Utf8(x)
    OBVIOUS
  <1>2. c.tag = 1 /\ c.text = x
    BY <1>1 DEF Format!Utf8
  <1>3. PICK r : Read(cs, c, r)
    BY <1>1, PooledFacts, ReadIs, Zenon
  <1>4. ItemOf(cs, c).text = x
    <2>1. ItemOf(cs, c) = Item(1, 0, 0, x)
      BY <1>2, OneTag, Zenon DEF ItemOf
    <2> QED
      BY <2>1 DEF Item
  <1>5. c.tag \notin {7, 8, 12, 16}
    BY <1>2
  <1> QED
    BY <1>1, <1>2, <1>3, <1>4, <1>5, Zenon DEF Read, TextAt

LEMMA ClassIsRead ==
    ASSUME NEW cs, NEW C, NEW d, PooledAs(cs, C, d), NEW x \in Texts,
           Numbered(cs, Format!Name(7, x))
    PROVE  ClassAt(Pool(cs), Format!Index(cs, Format!Name(7, x))) = x
  <1>1. PICK c : c = Format!Name(7, x)
    OBVIOUS
  <1>2. c.tag = 7 /\ c.text = x
    BY <1>1 DEF Format!Name
  <1>3. PICK r : Read(cs, c, r)
    BY <1>1, PooledFacts, ReadIs, Zenon
  <1>5. c.tag \in {7, 8, 12, 16}
    BY <1>2
  <1> QED
    BY <1>1, <1>2, <1>3, <1>5, Zenon DEF Read, ClassAt

LEMMA NoClassIsRead ==
    \A pool : ClassAt(pool, 0) = NoText
  <1>1. \A n : 0 \notin 1..n
    BY SMT
  <1> QED
    BY <1>1, Zenon DEF ClassAt, GetItemAt

\* A reference to a field or method.
Resolves(pool, i, c) ==
    /\ Resolve(pool, i, c.tag) # NoItem
    /\ Resolve(pool, i, c.tag) = [class |-> c.class, name |-> c.text, desc |-> c.desc]

LEMMA ReferenceIsRead ==
    ASSUME NEW cs, NEW C, NEW d, PooledAs(cs, C, d), NEW c \in Range(d.refs), c.tag \in {9, 10, 11}
    PROVE  Resolves(Pool(cs), Format!Index(cs, c), c)
  <1>0. PICK i : i = Format!Index(cs, c)
    OBVIOUS
  <1>1. Writable(c) /\ Numbered(cs, c)
    BY PooledFacts, Zenon DEF Used
  <1>2. c.class \in Texts /\ c.text \in Texts /\ c.desc \in Texts
    BY <1>1, ConstantTexts, Zenon
  <1>3. PICK ref : Read(cs, c, ref)
    BY <1>1, PooledFacts, ReadIs, Zenon
  <1>4. PICK k, m : k = Format!Name(7, c.class) /\ m = Format!NameAndType(c.text, c.desc)
    OBVIOUS
  <1>5. Writable(k) /\ Writable(m) /\ Numbered(cs, k) /\ Numbered(cs, m)
    <2>1. Required(k, d) /\ Required(m, d)
      BY <1>4, Zenon DEF Required
    <2> QED
      BY <1>2, <1>4, <2>1, PooledFacts, Zenon DEF PooledAs
  <1>6. k.tag = 7 /\ k.text = c.class /\ m.tag = 12 /\ m.text = c.text /\ m.desc = c.desc
    BY <1>4 DEF Format!Name, Format!NameAndType
  <1>7. PICK class : Read(cs, k, class)
    BY <1>5, PooledFacts, ReadIs, Zenon
  <1>8. PICK nat : Read(cs, m, nat)
    BY <1>5, PooledFacts, ReadIs, Zenon
  <1>9. ref.x = Format!Index(cs, k) /\ ref.y = Format!Index(cs, m)
    <2>1. ItemOf(cs, c) = Item(c.tag, Format!Index(cs, k), Format!Index(cs, m), NoText)
      BY <1>4, OneTag, Zenon DEF ItemOf
    <2>2. ItemOf(cs, c).x = Format!Index(cs, k) /\ ItemOf(cs, c).y = Format!Index(cs, m)
      BY <2>1 DEF Item
    <2> QED
      BY <1>3, <2>2, Zenon DEF Read
  <1>10. /\ GetItemAt(Pool(cs), i, c.tag) = ref /\ ref # NoItem
         /\ GetItemAt(Pool(cs), ref.x, 7) = class /\ class # NoItem
         /\ GetItemAt(Pool(cs), ref.y, 12) = nat /\ nat # NoItem
    BY <1>0, <1>3, <1>6, <1>7, <1>8, <1>9, Zenon DEF Read
  <1>11. class.text = c.class /\ nat.text = c.text /\ nat.desc = c.desc
    <2>1. k.tag \in {7, 8, 12, 16} /\ m.tag \in {7, 8, 12, 16}
      BY <1>6
    <2> QED
      BY <1>6, <1>7, <1>8, <2>1, Zenon DEF Read
  <1>12. Resolve(Pool(cs), i, c.tag) = [class |-> c.class, name |-> c.text, desc |-> c.desc]
    BY <1>10, <1>11, Zenon DEF Resolve
  <1>13. [class |-> c.class, name |-> c.text, desc |-> c.desc] # NoItem
    <2>1. [class |-> c.class, name |-> c.text, desc |-> c.desc]
              \in [class : Names, name : Names, desc : Names]
      BY <1>2 DEF Names
    <2> QED
      BY <2>1, NoItemAssumption, Zenon
  <1> QED
    BY <1>0, <1>12, <1>13, Zenon DEF Resolves

LEMMA ConstantIsRead ==
    ASSUME NEW cs, NEW C, NEW d, PooledAs(cs, C, d), NEW c \in Used(d), MeaningsAreRead(c)
    PROVE  ConstantRead(Pool(cs), <<Format!Index(cs, c), c>>)
  <1>0. PICK i, p : i = Format!Index(cs, c) /\ p = <<i, c>>
    OBVIOUS
  <1>1. p[1] = i /\ p[2] = c
    BY <1>0
  <1>2. Writable(c) /\ Numbered(cs, c)
    BY PooledFacts, Zenon
  <1>3. PICK r : Read(cs, c, r)
    BY <1>2, PooledFacts, ReadIs, Zenon
  <1>4. Pool(cs)[i] = r /\ GetItemAt(Pool(cs), i, c.tag) = r /\ r # NoItem
    BY <1>0, <1>3, Zenon DEF Read
  <1> DEFINE Right ==
        CASE c.tag \in {9, 10, 11} ->
                    /\ Resolve(Pool(cs), i, c.tag) # NoItem
                    /\ Resolve(Pool(cs), i, c.tag)
                           = [class |-> c.class, name |-> c.text, desc |-> c.desc]
                    /\ c.tag # 9 => ParameterCount(c.desc) = Arity[c.desc]
             [] c.tag = 7 -> r.text = c.text /\ TypeRead(c.text)
             [] c.tag \in {8, 12, 16} -> r.text = c.text
             [] c.tag \in 3..6 -> r.x = c.number
             [] OTHER -> TRUE
  <1>5. \A t : /\ t \in {9, 10, 11} => t # 7 /\ t \notin {8, 12, 16} /\ t \notin 3..6
               /\ t \in {9, 10, 11} /\ t # 9 => t \in {10, 11}
               /\ t = 7 => t \notin {9, 10, 11} /\ t \notin {8, 12, 16} /\ t \notin 3..6
                           /\ t \in {7, 8, 12, 16}
               /\ t \in {8, 12, 16} => t \notin {9, 10, 11} /\ t # 7 /\ t \notin 3..6
                                       /\ t \in {7, 8, 12, 16}
               /\ t \in 3..6 => t \notin {9, 10, 11} /\ t # 7 /\ t \notin {8, 12, 16}
                                /\ t # 1 /\ (t \in {3, 4} \/ t \in {5, 6})
    BY SMT
  <1>6. ASSUME c.tag \in {9, 10, 11} PROVE Right
    <2>1. /\ Resolve(Pool(cs), i, c.tag) # NoItem
          /\ Resolve(Pool(cs), i, c.tag) = [class |-> c.class, name |-> c.text, desc |-> c.desc]
      <3>1. c \in Range(d.refs)
        BY <1>5, <1>6, Zenon DEF Used, PooledAs, DescriptionFits
      <3>2. Resolves(Pool(cs), Format!Index(cs, c), c)
        BY <1>6, <3>1, ReferenceIsRead
      <3> HIDE DEF Right
      <3> QED
        BY <1>0, <3>2, Zenon DEF Resolves
    <2>2. c.tag # 9 => ParameterCount(c.desc) = Arity[c.desc]
      BY <1>5, <1>6, Zenon DEF MeaningsAreRead
    <2> QED
      BY <1>5, <1>6, <2>1, <2>2, Zenon
  <1>7. ASSUME c.tag = 7 PROVE Right
    <2>1. r.text = c.text /\ TypeRead(c.text)
      BY <1>3, <1>5, <1>7, Zenon DEF Read, MeaningsAreRead
    <2> QED
      BY <1>5, <1>7, <2>1, Zenon
  <1>8. ASSUME c.tag \in {8, 12, 16} PROVE Right
    <2>1. r.text = c.text
      BY <1>3, <1>5, <1>8, Zenon DEF Read
    <2> QED
      BY <1>5, <1>8, <2>1, Zenon
  <1>9. ASSUME c.tag \in 3..6 PROVE Right
    <2>1. ItemOf(cs, c) = Item(c.tag, c.number, 0, NoText)
      BY <1>5, <1>9, OneTag, Zenon DEF ItemOf
    <2>2. ItemOf(cs, c).x = c.number
      BY <2>1 DEF Item
    <2>3. r.x = c.number
      BY <1>3, <2>2, Zenon DEF Read
    <2> QED
      BY <1>5, <1>9, <2>3, Zenon
  <1>10. ASSUME c.tag \notin {9, 10, 11}, c.tag # 7, c.tag \notin {8, 12, 16}, c.tag \notin 3..6
         PROVE  Right
    BY <1>10, Zenon
  <1>11. Right
    BY <1>6, <1>7, <1>8, <1>9, <1>10, Zenon
  <1>12. ConstantRead(Pool(cs), p)
    BY <1>1, <1>4, <1>11, Zenon DEF ConstantRead
  <1> QED
    BY <1>0, <1>12, Zenon

-----------------------------------------------------------------------------
(* Attributes                                                              *)

\* No attribute is longer than a hundred tables of single bytes.
IsShort(n) == n \in Nat /\ n < 6553600

LEMMA ShortIsLong ==
    ASSUME NEW n, IsShort(n)
    PROVE  IsLong(n)
  <1>0. n \in Int
    BY SMT DEF IsShort
  <1>1. PICK m \in Nat \ {0} : m = 65536
    BY SMT
  <1>2. n \div m \in Int /\ n % m \in 0..(m - 1) /\ n = (m * (n \div m)) + (n % m)
    BY <1>0, Divides, Zenon
  <1>3. PICK q, r : q = n \div m /\ r = n % m
    OBVIOUS
  <1>4. q \in Int /\ r \in 0..(m - 1) /\ n = (m * q) + r
    BY <1>2, <1>3, Zenon
  <1>5. r \in Int /\ 0 <= r /\ r < m
    BY <1>4, SMTT(40)
  <1>6. n = (65536 * q) + r /\ r < 65536
    <2> DEFINE k == 65536
    <2>1. m = k
      BY <1>1, SMT
    <2> HIDE DEF k
    <2>2. n = (k * q) + r
      BY <1>4, <2>1, FactorIs, Zenon
    <2>3. r < k
      BY <1>5, <2>1, Zenon
    <2> QED
      BY <2>2, <2>3, SMT DEF k
  <1>7. q \in Word
    BY <1>4, <1>5, <1>6, SMT DEF IsShort, Word
  <1>8. n \div 65536 \in Word
    BY <1>1, <1>3, <1>7, SMT
  <1> QED
    BY <1>8, SMT DEF IsLong, IsShort

LEMMA MultiplesAreLong ==
    ASSUME NEW k \in Word, NEW a \in 0..99, NEW b \in 0..99
    PROVE  IsLong(a + (b * k))
  <1>1. k \in Nat /\ k <= 65535
    BY SMT DEF Word
  <1>2. b * k \in Nat /\ b * k <= 99 * k
    BY <1>1, SMT
  <1>3. IsShort(a + (b * k))
    BY <1>1, <1>2, SMT DEF IsShort
  <1> QED
    BY <1>3, ShortIsLong, Zenon

LEMMA AtOffsets ==
    ASSUME NEW f \in Seq(Nat), NEW p, NEW s \in Seq(Nat), At(f, p, s)
    PROVE  p \in Offsets(f) /\ p \in Nat
  BY DEF At, Offsets

\* A number of two bytes and one of four.
Header(h, i, n) ==
    /\ h \in Seq(Nat) /\ Len(h) = 6
    /\ \A f \in Seq(Nat) : \A p : At(f, p, h) => U2(f, p) = i /\ U4(f, p + 2) = n

LEMMA HeaderIs ==
    ASSUME NEW i \in Word, NEW n, IsLong(n)
    PROVE  Header(Format!U2(i) \o Format!U4(n), i, n)
  <1>1. PICK a, b : a = Format!U2(i) /\ b = Format!U4(n)
    OBVIOUS
  <1>2. /\ a \in Seq(Nat) /\ Len(a) = 2
        /\ \A f, p : At(f, p, a) => U2(f, p) = i
    BY <1>1, U2Is, Zenon
  <1>3. /\ b \in Seq(Nat) /\ Len(b) = 4
        /\ \A f \in Seq(Nat) : \A p : At(f, p, b) => U4(f, p) = n
    BY <1>1, U4Is, Zenon
  <1>4. a \o b \in Seq(Nat) /\ Len(a \o b) = 6
    <2>1. a \o b \in Seq(Nat) /\ Len(a \o b) = 2 + Len(b)
      BY <1>2, <1>3, LenThen, Zenon
    <2> QED
      BY <1>3, <2>1
  <1>5. ASSUME NEW f \in Seq(Nat), NEW p, At(f, p, a \o b) PROVE U2(f, p) = i /\ U4(f, p + 2) = n
    <2>1. At(f, p, a) /\ At(f, p + 2, b)
      BY <1>2, <1>3, <1>5, AtThen, Zenon
    <2> QED
      BY <1>2, <1>3, <2>1, Zenon
  <1> QED
    BY <1>1, <1>4, <1>5, Zenon DEF Header

\* An attribute is read as it was written.
ReadsAttribute(s, pool, a) ==
    /\ s \in Seq(Nat)
    /\ \A f \in Seq(Nat) : \A p : At(f, p, s) => ReadAttribute(f, pool, p) = [at |-> p + Len(s), item |-> a]

LEMMA AttributeIs ==
    ASSUME NEW cs, NEW C, NEW d, PooledAs(cs, C, d), NEW x \in Texts,
           NEW info \in Seq(Nat), IsLong(Len(info))
    PROVE  /\ ReadsAttribute(Format!Attribute(cs, x, info), Pool(cs), [name |-> x, info |-> info])
           /\ Len(Format!Attribute(cs, x, info)) = 6 + Len(info)
  <1>1. PICK i : i = Format!Index(cs, Format!Utf8(x))
    OBVIOUS
  <1>2. i \in Word /\ TextAt(Pool(cs), i) = x
    BY <1>1, PooledFacts, FitFacts, TextIsRead, Zenon
  <1>3. PICK h : h = Format!U2(i) \o Format!U4(Len(info))
    OBVIOUS
  <1>4. Header(h, i, Len(info))
    BY <1>2, <1>3, HeaderIs, Zenon
  <1>5. Format!Attribute(cs, x, info) = h \o info
    BY <1>1, <1>3, Zenon DEF Format!Attribute
  <1>6. h \o info \in Seq(Nat) /\ Len(h \o info) = 6 + Len(info) /\ Len(info) \in Nat
    <2>1. Len(info) \in Nat
      OBVIOUS
    <2> QED
      BY <1>4, <2>1, LenThen, Zenon DEF Header
  <1>7. ASSUME NEW f \in Seq(Nat), NEW p, At(f, p, h \o info)
        PROVE  ReadAttribute(f, Pool(cs), p) = [at |-> p + Len(h \o info),
                                                item |-> [name |-> x, info |-> info]]
    <2>1. At(f, p, h) /\ At(f, p + 6, info)
      BY <1>4, <1>7, AtThen, Zenon DEF Header
    <2>2. U2(f, p) = i /\ U4(f, p + 2) = Len(info)
      BY <1>4, <2>1, Zenon DEF Header
    <2>3. SubSeq(f, (p + 6) + 1, (p + 6) + Len(info)) = info
      BY <2>1, BytesTaken, Zenon
    <2>4. p \in Nat
      BY <2>1, PositionFacts, Zenon
    <2>5. (p + 6) + 1 = p + 7 /\ \A k \in Nat : (p + 6) + k = p + 6 + k /\ p + 6 + k = p + (6 + k)
      BY <2>4
    <2>6. SubSeq(f, p + 7, p + 6 + Len(info)) = info
      BY <1>6, <2>3, <2>5, Zenon
    <2>7. ReadAttribute(f, Pool(cs), p) = [at |-> p + 6 + Len(info),
                                           item |-> [name |-> x, info |-> info]]
      BY <1>2, <2>2, <2>6, Zenon DEF ReadAttribute
    <2> QED
      BY <1>6, <2>5, <2>7, Zenon
  <1> QED
    BY <1>5, <1>6, <1>7, Zenon DEF ReadsAttribute

\* So are all attributes of a table.
ReadsAttributes(s, pool, items) ==
    /\ s \in Seq(Nat)
    /\ \A f \in Seq(Nat) : \A p : At(f, p, s) => ReadAttributes(f, pool, p) = [at |-> p + Len(s), item |-> items]

LEMMA AttributesAre ==
    ASSUME NEW pool, NEW ss \in Seq(Seq(Nat)), Len(ss) \in Word, NEW S, NEW items \in Seq(S),
           Len(items) = Len(ss), \A i \in 1..Len(ss) : ReadsAttribute(ss[i], pool, items[i])
    PROVE  ReadsAttributes(Format!Table(ss), pool, items)
  <1>1. ASSUME NEW f \in Seq(Nat), NEW p, At(f, p, Format!Table(ss))
        PROVE  ReadAttributes(f, pool, p) = [at |-> p + Len(Format!Table(ss)), item |-> items]
    <2>1. p \in Nat
      BY <1>1, PositionFacts, Zenon
    <2>2. PICK read : read = [q \in Offsets(f) |-> ReadAttribute(f, pool, q)]
      OBVIOUS
    <2>3. ASSUME NEW i \in 1..Len(ss), NEW q \in Nat, At(f, q, ss[i])
          PROVE  read[q] = [at |-> q + Len(ss[i]), item |-> items[i]]
      <3>1. q \in Offsets(f)
        BY <2>3, AtOffsets, Zenon DEF ReadsAttribute
      <3> QED
        BY <2>2, <2>3, <3>1, Zenon DEF ReadsAttribute
    <2>4. GivesAll(f, read, ss, items)
      BY <2>3, Zenon DEF GivesAll, Gives
    <2>5. Counted(read, f, p) = [at |-> p + Len(Format!Table(ss)), item |-> items]
      BY <1>1, <2>1, <2>4, CountedIs
    <2> QED
      BY <2>2, <2>5, Zenon DEF ReadAttributes
  <1>2. Format!Table(ss) \in Seq(Nat)
    BY TableFacts, Zenon
  <1> QED
    BY <1>1, <1>2, Zenon DEF ReadsAttributes

LEMMA FunctionIsSeq ==
    ASSUME NEW S, NEW n \in Nat, NEW s \in [1..n -> S]
    PROVE  s \in Seq(S) /\ Len(s) = n
  OBVIOUS

LEMMA AtSelf ==
    ASSUME NEW f \in Seq(Nat)
    PROVE  At(f, 0, f) /\ 0 \in Nat
  BY DEF At

LEMMA NamedFew ==
    ASSUME NEW x
    PROVE  /\ Named(<<>>, x) = <<>>
           /\ \A a : a.name = x => Named(<<a>>, x) = <<a>>
           /\ \A a : a.name # x => Named(<<a>>, x) = <<>>
           /\ \A a, b : a.name # x /\ b.name = x => Named(<<a, b>>, x) = <<b>>
           /\ \A a, b : a.name = x /\ b.name # x => Named(<<a, b>>, x) = <<a>>
  <1>1. \A a, b : Range(<<a>>) = {a} /\ Range(<<a, b>>) = {a, b}
    BY DEF Range
  <1>2. Named(<<>>, x) = <<>>
    BY KeptFew, Zenon DEF Named
  <1>3. ASSUME NEW a, a.name = x PROVE Named(<<a>>, x) = <<a>>
    <2>1. a \in {y \in Range(<<a>>) : y.name = x}
      BY <1>1, <1>3
    <2> QED
      BY <2>1, KeptFew, Zenon DEF Named
  <1>4. ASSUME NEW a, a.name # x PROVE Named(<<a>>, x) = <<>>
    <2>1. a \notin {y \in Range(<<a>>) : y.name = x}
      BY <1>4
    <2> QED
      BY <2>1, KeptFew, Zenon DEF Named
  <1>5. ASSUME NEW a, NEW b, a.name # x, b.name = x PROVE Named(<<a, b>>, x) = <<b>>
    <2>1. a \notin {y \in Range(<<a, b>>) : y.name = x} /\ b \in {y \in Range(<<a, b>>) : y.name = x}
      BY <1>1, <1>5
    <2>2. PICK S : S = {y \in Range(<<a, b>>) : y.name = x}
      OBVIOUS
    <2>3. Kept(<<a, b>>, S) = <<b>>
      <3>1. \A c, e : c \notin S /\ e \in S => Kept(<<c, e>>, S) = <<e>>
        BY KeptFew, Zenon
      <3>2. a \notin S /\ b \in S
        BY <2>1, <2>2, Zenon
      <3> QED
        BY <3>1, <3>2, Zenon
    <2> QED
      BY <2>2, <2>3, Zenon DEF Named
  <1>6. ASSUME NEW a, NEW b, a.name = x, b.name # x PROVE Named(<<a, b>>, x) = <<a>>
    <2>1. a \in {y \in Range(<<a, b>>) : y.name = x} /\ b \notin {y \in Range(<<a, b>>) : y.name = x}
      BY <1>1, <1>6
    <2> QED
      BY <2>1, KeptFew, ZenonT(60) DEF Named
  <1> QED
    BY <1>2, <1>3, <1>4, <1>5, <1>6, Zenon

\* Two numbers of two bytes.
TwoWords(s, i, j) ==
    /\ s \in Seq(Nat) /\ Len(s) = 4
    /\ \A f \in Seq(Nat) : \A p : At(f, p, s) => U2(f, p) = i /\ U2(f, p + 2) = j

LEMMA TwoWordsAre ==
    ASSUME NEW i \in Word, NEW j \in Word
    PROVE  TwoWords(Format!U2(i) \o Format!U2(j), i, j)
  <1>1. PICK a, b : a = Format!U2(i) /\ b = Format!U2(j)
    OBVIOUS
  <1>2. /\ a \in Seq(Nat) /\ Len(a) = 2 /\ b \in Seq(Nat) /\ Len(b) = 2
        /\ \A f, p : At(f, p, a) => U2(f, p) = i
        /\ \A f, p : At(f, p, b) => U2(f, p) = j
    BY <1>1, U2Is, Zenon
  <1>3. a \o b \in Seq(Nat) /\ Len(a \o b) = 4
    <2>1. a \o b \in Seq(Nat) /\ Len(a \o b) = 2 + Len(b)
      BY <1>2, LenThen, Zenon
    <2> QED
      BY <1>2, <2>1
  <1>4. ASSUME NEW f \in Seq(Nat), NEW p, At(f, p, a \o b) PROVE U2(f, p) = i /\ U2(f, p + 2) = j
    <2>1. At(f, p, a) /\ At(f, p + 2, b)
      BY <1>2, <1>4, AtThen, Zenon
    <2> QED
      BY <1>2, <2>1, Zenon
  <1> QED
    BY <1>1, <1>3, <1>4, Zenon DEF TwoWords

-----------------------------------------------------------------------------
(* The code of a method                                                    *)

Rows(lines) == [i \in 1..Len(lines) |-> Format!U2(lines[i][1]) \o Format!U2(lines[i][2])]

LEMMA LinesAre ==
    ASSUME NEW lines \in Seq(Word \X Word), Len(lines) \in Word
    PROVE  /\ Format!Table(Rows(lines)) \in Seq(Nat) /\ ReadLines(Format!Table(Rows(lines))) = lines
           /\ Len(Format!Table(Rows(lines))) = 2 + (4 * Len(lines))
  <1>1. /\ Len(lines) \in Nat
        /\ \A i \in 1..Len(lines) : lines[i][1] \in Word /\ lines[i][2] \in Word
                                    /\ lines[i] = <<lines[i][1], lines[i][2]>>
    OBVIOUS
  <1>2. \A i \in 1..Len(lines) : TwoWords(Rows(lines)[i], lines[i][1], lines[i][2])
    BY <1>1, TwoWordsAre, Zenon DEF Rows
  <1>3. Rows(lines) \in Seq(Seq(Nat)) /\ Len(Rows(lines)) = Len(lines)
    <2>1. Rows(lines) \in [1..Len(lines) -> Seq(Nat)]
      <3>1. \A i \in 1..Len(lines) : Rows(lines)[i] \in Seq(Nat)
        BY <1>2, Zenon DEF TwoWords
      <3>2. Rows(lines) = [i \in 1..Len(lines) |-> Rows(lines)[i]]
        BY DEF Rows
      <3> QED
        BY <3>1, <3>2, Zenon
    <2> QED
      BY <1>1, <2>1, FunctionIsSeq, Zenon
  <1>4. PICK f : f = Format!Table(Rows(lines))
    OBVIOUS
  <1>5. f \in Seq(Nat) /\ Len(f) = 2 + Len(FlattenSeq(Rows(lines)))
    BY <1>3, <1>4, TableFacts, Zenon
  <1>6. Len(FlattenSeq(Rows(lines))) = 4 * Len(lines)
    <2>1. 4 \in Nat /\ \A i \in 1..Len(Rows(lines)) : Len(Rows(lines)[i]) = 4
      BY <1>2, <1>3, Zenon DEF TwoWords
    <2> QED
      BY <1>3, <2>1, FixedLengths, Zenon
  <1>7. PICK read : read = [p \in Offsets(f) |-> [at |-> p + 4, item |-> <<U2(f, p), U2(f, p + 2)>>]]
    OBVIOUS
  <1>8. ASSUME NEW i \in 1..Len(Rows(lines)), NEW q \in Nat, At(f, q, Rows(lines)[i])
        PROVE  read[q] = [at |-> q + Len(Rows(lines)[i]), item |-> lines[i]]
    <2>0. i \in 1..Len(lines)
      BY <1>3, Zenon
    <2>1. q \in Offsets(f)
      BY <1>2, <1>5, <1>8, <2>0, AtOffsets, Zenon DEF TwoWords
    <2>2. U2(f, q) = lines[i][1] /\ U2(f, q + 2) = lines[i][2] /\ Len(Rows(lines)[i]) = 4
      BY <1>2, <1>5, <1>8, <2>0, Zenon DEF TwoWords
    <2> QED
      BY <1>1, <1>7, <2>0, <2>1, <2>2, Zenon
  <1>9. GivesAll(f, read, Rows(lines), lines)
    BY <1>3, <1>8, Zenon DEF GivesAll, Gives
  <1>10. At(f, 0, f) /\ 0 \in Nat
    BY <1>5, AtSelf, Zenon
  <1>11. Counted(read, f, 0) = [at |-> 0 + Len(f), item |-> lines]
    BY <1>3, <1>4, <1>5, <1>9, <1>10, CountedIs
  <1>12. ReadLines(f) = lines
    <2>1. Counted(read, f, 0).item = lines
      BY <1>11
    <2> QED
      BY <1>7, <2>1, Zenon DEF ReadLines
  <1> QED
    BY <1>4, <1>5, <1>6, <1>12, Zenon

\* The beginning of the code, before its exception table.
CodeStart == Format!U2(2) \o Format!U2(1) \o Format!U4(3) \o <<0, 0, 177>>
Handler == Format!U2(0) \o Format!U2(2) \o Format!U2(2) \o Format!U2(0)

LEMMA SmallWords == 0 \in Word /\ 1 \in Word /\ 2 \in Word /\ 3 \in Word /\ IsLong(3)
  <1>1. 0 \in Word /\ 1 \in Word /\ 2 \in Word /\ 3 \in Word
    BY SMT DEF Word
  <1>2. IsLong(3)
    <2>1. IsShort(3)
      BY SMT DEF IsShort
    <2> QED
      BY <2>1, ShortIsLong, Zenon
  <1> QED
    BY <1>1, <1>2, Zenon

LEMMA CodeStartIs ==
    /\ CodeStart \in Seq(Nat) /\ Len(CodeStart) = 11
    /\ \A f \in Seq(Nat) : At(f, 0, CodeStart) => U4(f, 4) = 3
  <1>1. PICK a, b, z : a = Format!U2(2) \o Format!U2(1) /\ b = Format!U4(3) /\ z = <<0, 0, 177>>
    OBVIOUS
  <1>2. a = Format!U2(2) \o Format!U2(1) /\ b = Format!U4(3)
    BY <1>1, SMT
  <1>3. a \in Seq(Nat) /\ Len(a) = 4
    BY <1>2, SmallWords, TwoWordsAre, Zenon DEF TwoWords
  <1>4. /\ b \in Seq(Nat) /\ Len(b) = 4
        /\ \A f \in Seq(Nat) : \A p : At(f, p, b) => U4(f, p) = 3
    BY <1>2, SmallWords, U4Is, Zenon
  <1>5. z \in Seq(Nat) /\ Len(z) = 3
    BY <1>1, SMT
  <1>6. CodeStart = (a \o b) \o z
    BY <1>1, SMT DEF CodeStart
  <1>7. a \o b \in Seq(Nat) /\ Len(a \o b) = 8
    <2>1. a \o b \in Seq(Nat) /\ Len(a \o b) = 4 + Len(b)
      BY <1>3, <1>4, LenThen, Zenon
    <2> QED
      BY <1>4, <2>1
  <1>8. (a \o b) \o z \in Seq(Nat) /\ Len((a \o b) \o z) = 11
    <2>1. (a \o b) \o z \in Seq(Nat) /\ Len((a \o b) \o z) = 8 + Len(z)
      BY <1>5, <1>7, LenThen, Zenon
    <2> QED
      BY <1>5, <2>1
  <1>9. ASSUME NEW f \in Seq(Nat), At(f, 0, (a \o b) \o z) PROVE U4(f, 4) = 3
    <2>1. At(f, 0, a \o b)
      BY <1>5, <1>7, <1>9, AtThen, Zenon
    <2>2. At(f, 0 + 4, b)
      BY <1>3, <1>4, <2>1, AtThen, Zenon
    <2>3. U4(f, 0 + 4) = 3
      BY <1>4, <2>2, Zenon
    <2>4. 0 + 4 = 4
      OBVIOUS
    <2> QED
      BY <2>3, <2>4, Zenon
  <1> QED
    BY <1>6, <1>8, <1>9, Zenon

LEMMA HandlerIs ==
    /\ Handler \in Seq(Nat) /\ Len(Handler) = 8
    /\ \A f \in Seq(Nat) : \A p : At(f, p, Handler) =>
           U2(f, p) = 0 /\ U2(f, p + 2) = 2 /\ U2(f, p + 4) = 2 /\ U2(f, p + 6) = 0
  <1>1. PICK a, b, c : a = Format!U2(0) \o Format!U2(2) /\ b = Format!U2(2) /\ c = Format!U2(0)
    OBVIOUS
  <1>2. TwoWords(a, 0, 2)
    BY <1>1, SmallWords, TwoWordsAre, Zenon
  <1>3. /\ b \in Seq(Nat) /\ Len(b) = 2 /\ c \in Seq(Nat) /\ Len(c) = 2
        /\ \A f, p : At(f, p, b) => U2(f, p) = 2
        /\ \A f, p : At(f, p, c) => U2(f, p) = 0
    BY <1>1, SmallWords, U2Is, Zenon
  <1>4. a \o b \in Seq(Nat) /\ Len(a \o b) = 6
    <2>1. a \o b \in Seq(Nat) /\ Len(a \o b) = 4 + Len(b)
      BY <1>2, <1>3, LenThen, Zenon DEF TwoWords
    <2> QED
      BY <1>3, <2>1
  <1>5. (a \o b) \o c \in Seq(Nat) /\ Len((a \o b) \o c) = 8
    <2>1. (a \o b) \o c \in Seq(Nat) /\ Len((a \o b) \o c) = 6 + Len(c)
      BY <1>3, <1>4, LenThen, Zenon
    <2> QED
      BY <1>3, <2>1
  <1>6. ASSUME NEW f \in Seq(Nat), NEW p, At(f, p, (a \o b) \o c)
        PROVE  U2(f, p) = 0 /\ U2(f, p + 2) = 2 /\ U2(f, p + 4) = 2 /\ U2(f, p + 6) = 0
    <2>1. At(f, p, a \o b) /\ At(f, p + 6, c)
      BY <1>3, <1>4, <1>6, AtThen, Zenon
    <2>2. At(f, p, a) /\ At(f, p + 4, b)
      BY <1>2, <1>3, <2>1, AtThen, Zenon DEF TwoWords
    <2> QED
      BY <1>2, <1>3, <2>1, <2>2, Zenon DEF TwoWords
  <1>7. Handler = (a \o b) \o c
    BY <1>1, Zenon DEF Handler
  <1> QED
    BY <1>5, <1>6, <1>7, Zenon

LineInfo(m) == Format!Table(Rows(m.lines))
HandlerTable == Format!Table(<<Handler>>)
CodeAttributes(cs, m) == Format!Table(<<Format!Attribute(cs, "LineNumberTable", LineInfo(m))>>)

LEMMA OneTable ==
    ASSUME NEW s \in Seq(Nat)
    PROVE  /\ <<s>> \in Seq(Seq(Nat)) /\ Len(<<s>>) = 1 /\ Len(<<s>>) \in Word /\ <<s>>[1] = s
           /\ Format!Table(<<s>>) \in Seq(Nat) /\ Len(Format!Table(<<s>>)) = 2 + Len(s)
  <1>1. <<s>> \in Seq(Seq(Nat)) /\ Len(<<s>>) = 1 /\ <<s>>[1] = s
    <2>1. \A T : \A x \in T : <<x>> \in Seq(T) /\ Len(<<x>>) = 1 /\ <<x>>[1] = x
      OBVIOUS
    <2> QED
      BY <2>1, Zenon
  <1>2. Len(<<s>>) \in Word
    BY <1>1, SmallWords, Zenon
  <1>3. FlattenSeq(<<s>>) = s
    BY FlattenFew, Zenon
  <1>4. Format!Table(<<s>>) \in Seq(Nat) /\ Len(Format!Table(<<s>>)) = 2 + Len(FlattenSeq(<<s>>))
    BY <1>1, <1>2, TableFacts, Zenon
  <1> QED
    BY <1>1, <1>2, <1>3, <1>4, Zenon

\* The line table comes out of the code as it went in.
LEMMA CodeIs ==
    ASSUME NEW cs, NEW C, NEW d, PooledAs(cs, C, d), NEW m,
           m.lines \in Seq(Word \X Word), Len(m.lines) \in Word
    PROVE  /\ Format!Code(cs, m) \in Seq(Nat) /\ IsLong(Len(Format!Code(cs, m)))
           /\ LineNumberTable(ReadCode(Format!Code(cs, m), Pool(cs))) = m.lines
  <1> DEFINE name == "LineNumberTable"
             pool == Pool(cs)
  <1>0. PICK a : a = Format!Attribute(cs, name, LineInfo(m))
    OBVIOUS
  <1>1. name \in Texts
    BY FilesAssumption
  <1>2. /\ LineInfo(m) \in Seq(Nat) /\ ReadLines(LineInfo(m)) = m.lines
        /\ Len(LineInfo(m)) = 2 + (4 * Len(m.lines))
    BY LinesAre, Zenon DEF LineInfo
  <1>3. IsLong(Len(LineInfo(m)))
    <2>1. 2 \in 0..99 /\ 4 \in 0..99
      BY SMT
    <2> QED
      BY <1>2, <2>1, MultiplesAreLong, Zenon
  <1>4. PICK r : r = [name |-> name, info |-> LineInfo(m)]
    OBVIOUS
  <1>5. ReadsAttribute(a, pool, r) /\ Len(a) = 6 + Len(LineInfo(m)) /\ a \in Seq(Nat)
    <2>1. ReadsAttribute(a, pool, [name |-> name, info |-> LineInfo(m)]) /\ Len(a) = 6 + Len(LineInfo(m))
      BY <1>0, <1>1, <1>2, <1>3, AttributeIs, Zenon
    <2> QED
      BY <1>4, <2>1, Zenon DEF ReadsAttribute
  <1>6. PICK t : t = Format!Table(<<a>>)
    OBVIOUS
  <1>7. /\ <<a>> \in Seq(Seq(Nat)) /\ Len(<<a>>) = 1 /\ Len(<<a>>) \in Word /\ <<a>>[1] = a
        /\ t \in Seq(Nat) /\ Len(t) = 2 + Len(a)
    BY <1>5, <1>6, OneTable, Zenon
  <1>8. ReadsAttributes(t, pool, <<r>>)
    <2>1. <<r>> \in Seq({r}) /\ Len(<<r>>) = 1 /\ <<r>>[1] = r
      OBVIOUS
    <2>2. \A i \in 1..Len(<<a>>) : i = 1
      BY <1>7
    <2>3. \A i \in 1..Len(<<a>>) : ReadsAttribute(<<a>>[i], pool, <<r>>[i])
      BY <1>5, <1>7, <2>1, <2>2, Zenon
    <2>4. Len(<<r>>) = Len(<<a>>)
      BY <1>7, <2>1, Zenon
    <2> QED
      BY <1>6, <1>7, <2>1, <2>3, <2>4, AttributesAre
  <1>9. PICK f : f = Format!Code(cs, m)
    OBVIOUS
  <1>10. f = (CodeStart \o HandlerTable) \o t
    BY <1>0, <1>6, <1>9, SMT DEF Format!Code, CodeStart, HandlerTable, Handler, LineInfo, Rows
  <1>11. /\ HandlerTable \in Seq(Nat) /\ Len(HandlerTable) = 10
         /\ <<Handler>> \in Seq(Seq(Nat)) /\ Len(<<Handler>>) = 1 /\ Len(<<Handler>>) \in Word
         /\ <<Handler>>[1] = Handler
    <2>1. 2 + 8 = 10
      OBVIOUS
    <2> QED
      BY <2>1, HandlerIs, OneTable, ZenonT(60) DEF HandlerTable
  <1>12. CodeStart \o HandlerTable \in Seq(Nat) /\ Len(CodeStart \o HandlerTable) = 21
    <2>1. CodeStart \o HandlerTable \in Seq(Nat) /\ Len(CodeStart \o HandlerTable) = 11 + Len(HandlerTable)
      BY <1>11, CodeStartIs, LenThen, Zenon
    <2> QED
      BY <1>11, <2>1
  <1>13. f \in Seq(Nat) /\ Len(f) = 21 + Len(t)
    BY <1>7, <1>10, <1>12, LenThen, Zenon
  <1>14. IsLong(Len(f))
    <2>1. 31 \in 0..99 /\ 4 \in 0..99 /\ Len(m.lines) \in Nat
      BY SMT
    <2>2. Len(f) = 31 + (4 * Len(m.lines))
      BY <1>2, <1>5, <1>7, <1>13, <2>1
    <2> QED
      BY <2>1, <2>2, MultiplesAreLong, Zenon
  <1>15. At(f, 0, CodeStart) /\ At(f, 11, HandlerTable) /\ At(f, 21, t)
    <2>1. At(f, 0, (CodeStart \o HandlerTable) \o t)
      BY <1>10, <1>13, AtSelf, Zenon
    <2>2. At(f, 0, CodeStart \o HandlerTable) /\ At(f, 0 + 21, t)
      BY <1>7, <1>12, <1>13, <2>1, AtThen, Zenon
    <2>3. At(f, 0, CodeStart) /\ At(f, 0 + 11, HandlerTable)
      BY <1>11, <1>13, <2>2, CodeStartIs, AtThen, Zenon
    <2>4. 0 + 11 = 11 /\ 0 + 21 = 21
      OBVIOUS
    <2> QED
      BY <2>2, <2>3, <2>4, Zenon
  <1>16. U4(f, 4) = 3
    BY <1>13, <1>15, CodeStartIs, Zenon
  <1>17. PICK read : read = [p \in Offsets(f) |-> [at |-> p + 8,
                        item |-> <<U2(f, p), U2(f, p + 2), U2(f, p + 4), U2(f, p + 6)>>]]
    OBVIOUS
  <1>18. Counted(read, f, 11).at = 21
    <2>1. ASSUME NEW i \in 1..Len(<<Handler>>), NEW q \in Nat, At(f, q, <<Handler>>[i])
          PROVE  read[q] = [at |-> q + Len(<<Handler>>[i]), item |-> <<<<0, 2, 2, 0>>>>[i]]
      <3>1. i = 1
        BY <1>11
      <3>2. At(f, q, Handler)
        BY <1>11, <2>1, <3>1, Zenon
      <3>3. q \in Offsets(f)
        BY <1>13, <3>2, HandlerIs, AtOffsets, Zenon
      <3>4. U2(f, q) = 0 /\ U2(f, q + 2) = 2 /\ U2(f, q + 4) = 2 /\ U2(f, q + 6) = 0
        BY <1>13, <3>2, HandlerIs, Zenon
      <3>5. <<<<0, 2, 2, 0>>>>[1] = <<0, 2, 2, 0>>
        OBVIOUS
      <3> QED
        BY <1>11, <1>17, <3>1, <3>3, <3>4, <3>5, HandlerIs, Zenon
    <2>2. <<<<0, 2, 2, 0>>>> \in Seq({<<0, 2, 2, 0>>}) /\ Len(<<<<0, 2, 2, 0>>>>) = 1
      OBVIOUS
    <2>3. GivesAll(f, read, <<Handler>>, <<<<0, 2, 2, 0>>>>)
      BY <1>11, <2>1, <2>2, Zenon DEF GivesAll, Gives
    <2>4. 11 \in Nat /\ At(f, 11, Format!Table(<<Handler>>))
      BY <1>15 DEF HandlerTable
    <2>5. Counted(read, f, 11) = [at |-> 11 + Len(Format!Table(<<Handler>>)), item |-> <<<<0, 2, 2, 0>>>>]
      BY <1>11, <1>13, <2>2, <2>3, <2>4, CountedIs
    <2>6. 11 + Len(Format!Table(<<Handler>>)) = 21
      <3>1. Len(Format!Table(<<Handler>>)) = 10
        BY <1>11, Zenon DEF HandlerTable
      <3>2. 11 + 10 = 21
        OBVIOUS
      <3> QED
        BY <3>1, <3>2, Zenon
    <2> QED
      BY <2>5, <2>6
  <1>19. ReadAttributes(f, pool, 21).item = <<r>>
    <2>1. ReadAttributes(f, pool, 21) = [at |-> 21 + Len(t), item |-> <<r>>]
      BY <1>8, <1>13, <1>15, Zenon DEF ReadsAttributes
    <2> QED
      BY <2>1
  <1>20. ReadCode(f, pool).attributes = <<r>>
    <2>1. 8 + 3 = 11
      OBVIOUS
    <2>2. ReadCode(f, pool) = [stack |-> U2(f, 0), locals |-> U2(f, 2), code |-> SubSeq(f, 9, 8 + 3),
              handlers |-> Counted(read, f, 11).item, attributes |-> ReadAttributes(f, pool, 21).item]
      BY <1>16, <1>17, <1>18, <2>1, Zenon DEF ReadCode
    <2> QED
      BY <1>19, <2>2
  <1>21. LineNumberTable(ReadCode(f, pool)) = m.lines
    <2>1. r.name = name /\ r.info = LineInfo(m)
      BY <1>4
    <2>2. Named(<<r>>, name) = <<r>>
      BY <2>1, NamedFew, Zenon
    <2>3. [i \in 1..Len(<<r>>) |-> ReadLines(<<r>>[i].info)] = <<ReadLines(r.info)>>
      OBVIOUS
    <2>4. FlattenSeq(<<m.lines>>) = m.lines
      BY FlattenFew, Zenon
    <2> QED
      BY <1>2, <1>20, <2>1, <2>2, <2>3, <2>4, Zenon DEF LineNumberTable
  <1> QED
    BY <1>9, <1>13, <1>14, <1>21, Zenon

-----------------------------------------------------------------------------
(* Annotations                                                             *)

\* The elements of an annotation, and the offset after an annotation whose
\* nested annotations end where nested says.
Values(f, nested) ==
    [p \in Offsets(f) |->
        LET tag == U1(f, p + 2)
        IN  [at |-> CASE tag \in Constant \cup {Class} -> p + 5
                      [] tag = Enum -> p + 7
                      [] tag = Nested -> nested[p + 3]
                      [] OTHER -> p + 3,
             item |-> tag]]
EndsAt(f, depth, nested) ==
    [p \in Offsets(f) |-> IF depth = 0 THEN p ELSE Counted(Values(f, nested), f, p + 2).at]
EndsTo(f, n, g) == g = [depth \in 0..n |-> EndsAt(f, depth, g[depth - 1])]

LEMMA EndsExist ==
    ASSUME NEW f
    PROVE  \A n \in Nat : \E g : EndsTo(f, n, g)
  <1> DEFINE S == {n \in Nat : \E g : EndsTo(f, n, g)}
  <1>1. 0 \in S
    <2> DEFINE g == [i \in 0..0 |-> EndsAt(f, 0, f)]
    <2>1. \A i \in 0..0 : i = 0
      OBVIOUS
    <2>2. \A x : EndsAt(f, 0, x) = EndsAt(f, 0, f)
      BY Zenon DEF EndsAt
    <2>3. \A i \in 0..0 : g[i] = EndsAt(f, i, g[i - 1])
      <3>1. EndsAt(f, 0, g[0 - 1]) = EndsAt(f, 0, f)
        BY <2>2, Zenon
      <3>2. g[0] = EndsAt(f, 0, f)
        OBVIOUS
      <3> QED
        BY <2>1, <3>1, <3>2, Zenon
    <2>4. g = [i \in 0..0 |-> g[i]]
      OBVIOUS
    <2> HIDE DEF g
    <2>5. EndsTo(f, 0, g)
      BY <2>3, <2>4, Zenon DEF EndsTo
    <2> QED
      BY <2>5
  <1>2. ASSUME NEW n \in Nat, n \in S PROVE n + 1 \in S
    <2>1. PICK h : EndsTo(f, n, h)
      BY <1>2
    <2> DEFINE g == [i \in 0..(n + 1) |-> IF i = n + 1 THEN EndsAt(f, n + 1, h[n]) ELSE h[i]]
    <2>2. ASSUME NEW i \in 0..(n + 1) PROVE g[i] = EndsAt(f, i, g[i - 1])
      <3>1. CASE i = n + 1
        <4>1. g[i] = EndsAt(f, i, h[n])
          BY <3>1, Zenon
        <4>2. i - 1 = n /\ n \in 0..(n + 1) /\ n # n + 1
          BY <3>1
        <4>3. g[n] = h[n]
          BY <4>2, Zenon
        <4> QED
          BY <4>1, <4>2, <4>3, Zenon
      <3>2. CASE i # n + 1
        <4>1. i \in 0..n /\ (i # 0 => i - 1 \in 0..(n + 1) /\ i - 1 # n + 1)
          BY <3>2
        <4>2. h[i] = EndsAt(f, i, h[i - 1])
          BY <2>1, <4>1, Zenon DEF EndsTo
        <4>3. g[i] = h[i] /\ (i # 0 => g[i - 1] = h[i - 1])
          BY <3>2, <4>1, Zenon
        <4>4. EndsAt(f, 0, h[i - 1]) = EndsAt(f, 0, g[i - 1])
          BY Zenon DEF EndsAt
        <4> QED
          BY <4>2, <4>3, <4>4, Zenon
      <3> QED
        BY <3>1, <3>2
    <2>3. g = [i \in 0..(n + 1) |-> g[i]]
      OBVIOUS
    <2> HIDE DEF g
    <2>4. EndsTo(f, n + 1, g)
      BY <2>2, <2>3, Zenon DEF EndsTo
    <2>5. n + 1 \in Nat
      OBVIOUS
    <2> QED
      BY <2>4, <2>5, Zenon
  <1> HIDE DEF S
  <1>3. Nat \subseteq S
    BY <1>1, <1>2, SetInduction
  <1> QED
    BY <1>3, Zenon DEF S

LEMMA ReadAnnotationIs ==
    ASSUME NEW f \in Seq(Nat), NEW at
    PROVE  \E g : /\ EndsTo(f, Len(f), g)
                  /\ ReadAnnotation(f, at) = [at |-> g[Len(f)][at], item |-> U2(f, at)]
  <1> DEFINE n == Len(f)
             ends == CHOOSE g : EndsTo(f, n, g)
  <1>1. n \in Nat
    OBVIOUS
  <1>2. ReadAnnotation(f, at) = [at |-> ends[n][at], item |-> U2(f, at)]
    BY Zenon DEF ReadAnnotation, Values, EndsTo, EndsAt
  <1>3. EndsTo(f, n, ends)
    BY <1>1, EndsExist, Zenon
  <1> QED
    BY <1>2, <1>3, Zenon

\* An element of an annotation, with its name, its tag and its value.
NamedValue(w, tag, t) == (w \o Format!U1(tag)) \o t
ThreeValues(w) == <<NamedValue(w, 73, Format!U2(1)), NamedValue(w, 101, w \o w),
                 NamedValue(w, 64, w \o Format!Table(<<>>))>>

IsElement(s, n, tag, t) ==
    /\ s \in Seq(Nat) /\ Len(s) = n
    /\ \A f \in Seq(Nat) : \A p : At(f, p, s) => U1(f, p + 2) = tag /\ At(f, p + 3, t)

LEMMA ElementIs ==
    ASSUME NEW w \in Seq(Nat), Len(w) = 2, NEW tag \in Nat, NEW t \in Seq(Nat), NEW k, Len(t) = k
    PROVE  IsElement(NamedValue(w, tag, t), 3 + k, tag, t)
  <1>1. PICK b : b = Format!U1(tag)
    OBVIOUS
  <1>2. /\ b \in Seq(Nat) /\ Len(b) = 1
        /\ \A f, p : At(f, p, b) => U1(f, p) = tag
    BY <1>1, U1Is, Zenon
  <1>3. w \o b \in Seq(Nat) /\ Len(w \o b) = 3
    <2>1. w \o b \in Seq(Nat) /\ Len(w \o b) = 2 + Len(b)
      BY <1>2, LenThen, Zenon
    <2> QED
      BY <1>2, <2>1
  <1>4. (w \o b) \o t \in Seq(Nat) /\ Len((w \o b) \o t) = 3 + k
    BY <1>3, LenThen, Zenon
  <1>5. ASSUME NEW f \in Seq(Nat), NEW p, At(f, p, (w \o b) \o t)
        PROVE  U1(f, p + 2) = tag /\ At(f, p + 3, t)
    <2>1. At(f, p, w \o b) /\ At(f, p + 3, t)
      BY <1>3, <1>5, AtThen, Zenon
    <2>2. At(f, p + 2, b)
      BY <1>2, <2>1, AtThen, Zenon
    <2> QED
      BY <1>2, <2>1, <2>2, Zenon
  <1> QED
    BY <1>1, <1>4, <1>5, Zenon DEF NamedValue, IsElement

LEMMA EmptyTable == Format!Table(<<>>) \in Seq(Nat) /\ Len(Format!Table(<<>>)) = 2
  <1>1. <<>> \in Seq(Seq(Nat)) /\ Len(<<>>) = 0
    OBVIOUS
  <1>2. Len(<<>>) \in Word
    BY <1>1, SmallWords, Zenon
  <1>3. /\ Format!Table(<<>>) \in Seq(Nat)
        /\ Len(Format!Table(<<>>)) = 2 + Len(FlattenSeq(<<>>))
    BY <1>1, <1>2, TableFacts, Zenon
  <1>4. 2 + 0 = 2
    OBVIOUS
  <1> QED
    BY <1>1, <1>3, <1>4, FlattenFew, Zenon

LEMMA ElementsAre ==
    ASSUME NEW w \in Seq(Nat), Len(w) = 2
    PROVE  /\ ThreeValues(w) \in Seq(Seq(Nat)) /\ Len(ThreeValues(w)) = 3 /\ Len(ThreeValues(w)) \in Word
           /\ Len(ThreeValues(w)[1]) = 5 /\ Len(ThreeValues(w)[2]) = 7 /\ Len(ThreeValues(w)[3]) = 7
           /\ \A f \in Seq(Nat) : \A p :
                  /\ At(f, p, ThreeValues(w)[1]) => U1(f, p + 2) = 73
                  /\ At(f, p, ThreeValues(w)[2]) => U1(f, p + 2) = 101
                  /\ At(f, p, ThreeValues(w)[3]) => U1(f, p + 2) = 64 /\ At(f, p + 3, w \o Format!Table(<<>>))
  <1>1. PICK t1, t2, t3 : t1 = Format!U2(1) /\ t2 = w \o w /\ t3 = w \o Format!Table(<<>>)
    OBVIOUS
  <1>2. t1 \in Seq(Nat) /\ Len(t1) = 2
    BY <1>1, SmallWords, U2Is, Zenon
  <1>3. t2 \in Seq(Nat) /\ Len(t2) = 4
    <2>1. t2 \in Seq(Nat) /\ Len(t2) = 2 + Len(w)
      BY <1>1, LenThen, Zenon
    <2> QED
      BY <2>1
  <1>4. t3 \in Seq(Nat) /\ Len(t3) = 4
    <2>1. t3 \in Seq(Nat) /\ Len(t3) = 2 + Len(Format!Table(<<>>))
      BY <1>1, EmptyTable, LenThen, Zenon
    <2>2. 2 + 2 = 4
      OBVIOUS
    <2> QED
      BY <2>1, <2>2, EmptyTable, Zenon
  <1>5. PICK n1, n2, n3 \in Nat : n1 = 73 /\ n2 = 101 /\ n3 = 64
    BY SMT
  <1>6. PICK e1, e2, e3 : e1 = NamedValue(w, n1, t1) /\ e2 = NamedValue(w, n2, t2) /\ e3 = NamedValue(w, n3, t3)
    OBVIOUS
  <1>7. IsElement(e1, 5, n1, t1)
    <2>1. 3 + 2 = 5
      OBVIOUS
    <2>2. IsElement(e1, 3 + 2, n1, t1)
      BY <1>2, <1>6, ElementIs
    <2> QED
      BY <2>1, <2>2
  <1>8. IsElement(e2, 7, n2, t2)
    <2>1. 3 + 4 = 7
      OBVIOUS
    <2>2. IsElement(e2, 3 + 4, n2, t2)
      BY <1>3, <1>6, ElementIs
    <2> QED
      BY <2>1, <2>2
  <1>9. IsElement(e3, 7, n3, t3)
    <2>1. 3 + 4 = 7
      OBVIOUS
    <2>2. IsElement(e3, 3 + 4, n3, t3)
      BY <1>4, <1>6, ElementIs
    <2> QED
      BY <2>1, <2>2
  <1>10. ThreeValues(w) = <<e1, e2, e3>>
    BY <1>1, <1>5, <1>6, SMT DEF ThreeValues
  <1>11. /\ <<e1, e2, e3>> \in Seq(Seq(Nat)) /\ Len(<<e1, e2, e3>>) = 3
         /\ <<e1, e2, e3>>[1] = e1 /\ <<e1, e2, e3>>[2] = e2 /\ <<e1, e2, e3>>[3] = e3
    <2>1. \A S : \A x, y, z \in S : /\ <<x, y, z>> \in Seq(S) /\ Len(<<x, y, z>>) = 3
                                    /\ <<x, y, z>>[1] = x /\ <<x, y, z>>[2] = y /\ <<x, y, z>>[3] = z
      OBVIOUS
    <2> QED
      BY <1>7, <1>8, <1>9, <2>1, Zenon DEF IsElement
  <1>12. /\ Len(e1) = 5 /\ Len(e2) = 7 /\ Len(e3) = 7
         /\ \A f \in Seq(Nat) : \A p :
                /\ At(f, p, e1) => U1(f, p + 2) = n1
                /\ At(f, p, e2) => U1(f, p + 2) = n2
                /\ At(f, p, e3) => U1(f, p + 2) = n3 /\ At(f, p + 3, t3)
    BY <1>7, <1>8, <1>9, Zenon DEF IsElement
  <1> QED
    BY <1>1, <1>5, <1>10, <1>11, <1>12, SmallWords, SMT

LEMMA ElementTable ==
    ASSUME NEW w \in Seq(Nat), Len(w) = 2
    PROVE  Format!Table(ThreeValues(w)) \in Seq(Nat) /\ Len(Format!Table(ThreeValues(w))) = 21
  <1>1. PICK a, b, c : a = ThreeValues(w)[1] /\ b = ThreeValues(w)[2] /\ c = ThreeValues(w)[3]
    OBVIOUS
  <1>2. /\ ThreeValues(w) = Append(<<a, b>>, c) /\ <<a, b>> \in Seq(Seq(Nat))
        /\ a \in Seq(Nat) /\ b \in Seq(Nat) /\ c \in Seq(Nat)
        /\ Len(a) = 5 /\ Len(b) = 7 /\ Len(c) = 7
    <2>1. /\ ThreeValues(w) \in Seq(Seq(Nat)) /\ Len(ThreeValues(w)) = 3
          /\ Len(a) = 5 /\ Len(b) = 7 /\ Len(c) = 7
      BY <1>1, ElementsAre, Zenon
    <2>2. ASSUME NEW S, NEW s \in Seq(S), Len(s) = 3
          PROVE  /\ s = Append(<<s[1], s[2]>>, s[3])
                 /\ s[1] \in S /\ s[2] \in S /\ s[3] \in S
                 /\ <<s[1], s[2]>> \in Seq(S)
      <3>1. s[1] \in S /\ s[2] \in S /\ s[3] \in S
        <4>1. \A i \in 1..Len(s) : s[i] \in S
          OBVIOUS
        <4>2. 1 \in 1..Len(s) /\ 2 \in 1..Len(s) /\ 3 \in 1..Len(s)
          BY <2>2
        <4> QED
          BY <4>1, <4>2, Zenon
      <3>2. <<s[1], s[2]>> \in Seq(S)
        BY <3>1
      <3>3. Append(<<s[1], s[2]>>, s[3]) \in Seq(S) /\ Len(Append(<<s[1], s[2]>>, s[3])) = 3
        BY <3>1, <3>2
      <3>4. \A i \in 1..3 : Append(<<s[1], s[2]>>, s[3])[i] = s[i]
        BY <3>1, <3>2
      <3> QED
        BY <2>2, <3>1, <3>2, <3>3, <3>4
    <2> QED
      BY <1>1, <2>1, <2>2, Zenon
  <1>3. FlattenSeq(ThreeValues(w)) = (a \o b) \o c
    <2>1. FlattenSeq(Append(<<a, b>>, c)) = FlattenSeq(<<a, b>>) \o c
      BY <1>2, FlattenAppend
    <2>2. FlattenSeq(<<a, b>>) = a \o b
      BY <1>2, FlattenFew, Zenon
    <2> QED
      BY <1>2, <2>1, <2>2, Zenon
  <1>4. a \o b \in Seq(Nat) /\ Len(a \o b) = 12
    <2>1. a \o b \in Seq(Nat) /\ Len(a \o b) = 5 + Len(b)
      BY <1>2, LenThen, ZenonT(60)
    <2> QED
      BY <1>2, <2>1
  <1>5. Len((a \o b) \o c) = 19
    <2>1. Len((a \o b) \o c) = 12 + Len(c)
      BY <1>2, <1>4, LenThen, Zenon
    <2> QED
      BY <1>2, <2>1
  <1>6. /\ Format!Table(ThreeValues(w)) \in Seq(Nat)
        /\ Len(Format!Table(ThreeValues(w))) = 2 + Len(FlattenSeq(ThreeValues(w)))
    BY ElementsAre, TableFacts, Zenon
  <1> QED
    BY <1>3, <1>5, <1>6

LEMMA NestedEnds ==
    ASSUME NEW f \in Seq(Nat), NEW p, NEW w \in Seq(Nat), Len(w) = 2, At(f, p, w \o Format!Table(<<>>)),
           NEW nested, NEW depth, depth # 0
    PROVE  EndsAt(f, depth, nested)[p] = p + 4
  <1>1. At(f, p, w) /\ At(f, p + 2, Format!Table(<<>>))
    BY EmptyTable, AtThen, Zenon
  <1>2. p \in Offsets(f) /\ p \in Nat
    BY <1>1, AtOffsets, Zenon
  <1>3. p + 2 \in Nat /\ (p + 2) + 2 = p + 4
    BY <1>2
  <1>4. PICK read : read = Values(f, nested)
    OBVIOUS
  <1>5. PICK e, none : e = <<>> /\ none = <<>>
    OBVIOUS
  <1>6. GivesAll(f, read, e, none) /\ e \in Seq(Seq(Nat)) /\ none \in Seq(Nat) /\ Len(e) = 0
    BY <1>5 DEF GivesAll
  <1>7. Counted(read, f, p + 2) = [at |-> p + 4, item |-> none]
    <2>1. Len(e) \in Word
      BY <1>6, SmallWords, Zenon
    <2>2. At(f, p + 2, Format!Table(e))
      BY <1>1, <1>5, Zenon
    <2>3. Counted(read, f, p + 2) = [at |-> (p + 2) + Len(Format!Table(e)), item |-> none]
      <3>1. GivesAll(f, read, e, none) /\ e \in Seq(Seq(Nat)) /\ none \in Seq(Nat)
        BY <1>6, Zenon
      <3>2. p + 2 \in Nat
        BY <1>3, Zenon
      <3> QED
        BY <2>1, <2>2, <3>1, <3>2, CountedIs
    <2> QED
      BY <1>3, <1>5, <2>3, EmptyTable, Zenon
  <1>8. Counted(read, f, p + 2).at = p + 4
    BY <1>7
  <1> QED
    BY <1>2, <1>4, <1>8, Zenon DEF EndsAt

\* What is read for the elements.
Tags == <<73, 101, 64>>
LEMMA TagsAre == /\ Tags \in Seq(Nat) /\ Len(Tags) = 3
                 /\ Tags[1] = 73 /\ Tags[2] = 101 /\ Tags[3] = 64
                 /\ Tags[1] \in Constant \cup {Class}
                 /\ Tags[2] \notin Constant \cup {Class} /\ Tags[2] = Enum
                 /\ Tags[3] \notin Constant \cup {Class} /\ Tags[3] # Enum /\ Tags[3] = Nested
  BY SMT DEF Tags, Constant, Class, Enum, Nested

NestedEnd(f, w, nested) == \A q : At(f, q, w \o Format!Table(<<>>)) => nested[q] = q + 4

LEMMA ElementsGive ==
    ASSUME NEW f \in Seq(Nat), NEW w \in Seq(Nat), Len(w) = 2, NEW nested,
           NestedEnd(f, w, nested)
    PROVE  GivesAll(f, Values(f, nested), ThreeValues(w), Tags)
  <1> DEFINE ss == ThreeValues(w)
             v == Values(f, nested)
  <1>0. PICK tags : tags = Tags
    OBVIOUS
  <1>1. /\ ss \in Seq(Seq(Nat)) /\ Len(ss) = 3 /\ Len(ss[1]) = 5 /\ Len(ss[2]) = 7 /\ Len(ss[3]) = 7
        /\ ss[1] \in Seq(Nat) /\ ss[2] \in Seq(Nat) /\ ss[3] \in Seq(Nat)
    <2>1. /\ ss \in Seq(Seq(Nat)) /\ Len(ss) = 3
          /\ Len(ss[1]) = 5 /\ Len(ss[2]) = 7 /\ Len(ss[3]) = 7
      BY ElementsAre, Zenon
    <2>2. \A S : \A s \in Seq(S) : \A i \in 1..Len(s) : s[i] \in S
      OBVIOUS
    <2>3. 1 \in 1..3 /\ 2 \in 1..3 /\ 3 \in 1..3
      OBVIOUS
    <2> QED
      BY <2>1, <2>2, <2>3, Zenon
  <1>2. \A q : /\ At(f, q, ss[1]) => U1(f, q + 2) = tags[1]
               /\ At(f, q, ss[2]) => U1(f, q + 2) = tags[2]
               /\ At(f, q, ss[3]) => U1(f, q + 2) = tags[3] /\ At(f, q + 3, w \o Format!Table(<<>>))
    BY <1>0, ElementsAre, TagsAre
  <1>3. \A q : q \in Offsets(f) =>
            v[q] = [at |-> CASE U1(f, q + 2) \in Constant \cup {Class} -> q + 5
                             [] U1(f, q + 2) = Enum -> q + 7
                             [] U1(f, q + 2) = Nested -> nested[q + 3]
                             [] OTHER -> q + 3,
                    item |-> U1(f, q + 2)]
    BY Zenon DEF Values
  <1>4. /\ tags[1] \in Constant \cup {Class}
        /\ tags[2] \notin Constant \cup {Class} /\ tags[2] = Enum
        /\ tags[3] \notin Constant \cup {Class} /\ tags[3] # Enum /\ tags[3] = Nested
        /\ Len(tags) = 3
    BY <1>0, TagsAre, Zenon
  <1> HIDE DEF ss, v
  <1>5. ASSUME NEW q \in Nat, At(f, q, ss[1]) PROVE v[q] = [at |-> q + Len(ss[1]), item |-> tags[1]]
    <2>0. q \in Offsets(f)
      BY <1>1, <1>5, AtOffsets, Zenon
    <2>1. Enum \notin Constant \cup {Class} /\ Nested \notin Constant \cup {Class}
      BY <1>4, Zenon
    <2>2. v[q] = [at |-> q + 5, item |-> tags[1]]
      BY <1>2, <1>3, <1>4, <1>5, <2>0, <2>1, Zenon
    <2> QED
      BY <1>1, <2>2, Zenon
  <1>6. ASSUME NEW q \in Nat, At(f, q, ss[2]) PROVE v[q] = [at |-> q + Len(ss[2]), item |-> tags[2]]
    <2>0. q \in Offsets(f)
      BY <1>1, <1>6, AtOffsets, Zenon
    <2>1. Nested # Enum
      BY <1>4, Zenon
    <2>2. v[q] = [at |-> q + 7, item |-> tags[2]]
      BY <1>2, <1>3, <1>4, <1>6, <2>0, <2>1, Zenon
    <2> QED
      BY <1>1, <2>2, Zenon
  <1>7. ASSUME NEW q \in Nat, At(f, q, ss[3]) PROVE v[q] = [at |-> q + Len(ss[3]), item |-> tags[3]]
    <2>0. q \in Offsets(f)
      BY <1>1, <1>7, AtOffsets, Zenon
    <2>1. v[q] = [at |-> nested[q + 3], item |-> tags[3]]
      BY <1>2, <1>3, <1>4, <1>7, <2>0, Zenon
    <2>2. nested[q + 3] = (q + 3) + 4
      BY <1>2, <1>7, Zenon DEF NestedEnd
    <2>3. (q + 3) + 4 = q + 7
      OBVIOUS
    <2> QED
      BY <1>1, <2>1, <2>2, <2>3, Zenon
  <1>8. ASSUME NEW i \in 1..3 PROVE i = 1 \/ i = 2 \/ i = 3
    OBVIOUS
  <1>9. \A i \in 1..Len(ss) : Gives(f, v, ss[i], tags[i])
    <2>1. Gives(f, v, ss[1], tags[1]) /\ Gives(f, v, ss[2], tags[2]) /\ Gives(f, v, ss[3], tags[3])
      BY <1>5, <1>6, <1>7, Zenon DEF Gives
    <2> QED
      BY <1>1, <1>8, <2>1, Zenon
  <1>10. GivesAll(f, v, ss, tags)
    BY <1>1, <1>4, <1>9, Zenon DEF GivesAll
  <1> QED
    BY <1>0, <1>10, Zenon DEF ss, v

LEMMA AnnotatedEnds ==
    ASSUME NEW f \in Seq(Nat), NEW p, NEW w \in Seq(Nat), Len(w) = 2,
           At(f, p, w \o Format!Table(ThreeValues(w))), NEW nested,
           NestedEnd(f, w, nested),
           NEW depth, depth # 0
    PROVE  EndsAt(f, depth, nested)[p] = p + 23
  <1>1. At(f, p, w) /\ At(f, p + 2, Format!Table(ThreeValues(w)))
    BY ElementTable, AtThen, Zenon
  <1>2. p \in Offsets(f) /\ p \in Nat
    BY <1>1, AtOffsets, Zenon
  <1>3. p + 2 \in Nat /\ (p + 2) + 21 = p + 23
    BY <1>2
  <1>4. PICK read, tags, ss : read = Values(f, nested) /\ tags = Tags /\ ss = ThreeValues(w)
    OBVIOUS
  <1>5. GivesAll(f, read, ss, tags) /\ tags \in Seq(Nat) /\ ss \in Seq(Seq(Nat)) /\ Len(ss) \in Word
    BY <1>4, ElementsGive, ElementsAre, TagsAre, Zenon
  <1>6. At(f, p + 2, Format!Table(ss))
    BY <1>1, <1>4, Zenon
  <1>7. Counted(read, f, p + 2) = [at |-> (p + 2) + Len(Format!Table(ss)), item |-> tags]
    BY <1>3, <1>5, <1>6, CountedIs
  <1>8. Counted(read, f, p + 2).at = p + 23
    <2>1. Len(Format!Table(ss)) = 21
      BY <1>4, ElementTable, Zenon
    <2>2. Counted(read, f, p + 2) = [at |-> p + 23, item |-> tags]
      BY <1>3, <1>7, <2>1, Zenon
    <2> QED
      BY <2>2
  <1> QED
    BY <1>2, <1>4, <1>8, Zenon DEF EndsAt

\* An annotation is read as it was written.
ReadsAnnotation(s, i) ==
    /\ s \in Seq(Nat) /\ Len(s) = 23
    /\ \A f \in Seq(Nat) : \A p : At(f, p, s) => ReadAnnotation(f, p) = [at |-> p + 23, item |-> i]

LEMMA AnnotationIs ==
    ASSUME NEW cs, NEW C, NEW d, PooledAs(cs, C, d), NEW x \in Texts
    PROVE  ReadsAnnotation(Format!Annotation(cs, x), Format!Index(cs, Format!Utf8(x)))
  <1>1. PICK i : i = Format!Index(cs, Format!Utf8(x))
    OBVIOUS
  <1>2. i \in Word
    BY <1>1, PooledFacts, FitFacts, Zenon
  <1>3. PICK w : w = Format!U2(i)
    OBVIOUS
  <1>4. /\ w \in Seq(Nat) /\ Len(w) = 2
        /\ \A f, p : At(f, p, w) => U2(f, p) = i
    BY <1>2, <1>3, U2Is, Zenon
  <1>5. PICK s : s = w \o Format!Table(ThreeValues(w))
    OBVIOUS
  <1>6. Format!Annotation(cs, x) = s
    <2>1. PICK u : u = Format!U1(101)
      OBVIOUS
    <2>2. u \in Seq(Nat)
      <3>1. 101 \in Nat
        BY SMT
      <3>2. PICK n \in Nat : n = 101
        BY <3>1
      <3>3. u = Format!U1(n)
        BY <2>1, <3>2
      <3> QED
        BY <3>3, U1Is, Zenon
    <2>3. w \o u \in Seq(Nat)
      BY <1>4, <2>2
    <2>4. ((w \o u) \o w) \o w = (w \o u) \o (w \o w)
      BY <1>4, <2>3
    <2>5. Format!Annotation(cs, x) =
              w \o Format!Table(<<(w \o Format!U1(73)) \o Format!U2(1), ((w \o u) \o w) \o w,
                                 (w \o Format!U1(64)) \o (w \o Format!Table(<<>>))>>)
      BY <1>1, <1>3, <2>1, SMT DEF Format!Annotation
    <2>6. ThreeValues(w) = <<(w \o Format!U1(73)) \o Format!U2(1), (w \o u) \o (w \o w),
                          (w \o Format!U1(64)) \o (w \o Format!Table(<<>>))>>
      BY <2>1, SMT DEF ThreeValues, NamedValue
    <2> QED
      BY <1>5, <2>4, <2>5, <2>6, SMT
  <1>7. s \in Seq(Nat) /\ Len(s) = 23
    <2>1. s \in Seq(Nat) /\ Len(s) = 2 + Len(Format!Table(ThreeValues(w)))
      BY <1>4, <1>5, ElementTable, LenThen, Zenon
    <2>2. 2 + 21 = 23
      OBVIOUS
    <2> QED
      BY <1>4, <2>1, <2>2, ElementTable, Zenon
  <1>8. ASSUME NEW f \in Seq(Nat), NEW p, At(f, p, s)
        PROVE  ReadAnnotation(f, p) = [at |-> p + 23, item |-> i]
    <2>1. PICK g : /\ EndsTo(f, Len(f), g)
                   /\ ReadAnnotation(f, p) = [at |-> g[Len(f)][p], item |-> U2(f, p)]
      BY ReadAnnotationIs
    <2>2. PICK n, n1, n2 : n = Len(f) /\ n1 = n - 1 /\ n2 = n1 - 1
      OBVIOUS
    <2>3. n \in 0..n /\ n1 \in 0..n /\ n # 0 /\ n1 # 0
      <3>1. p \in Nat /\ p + 23 <= Len(f) /\ Len(f) \in Nat
        BY <1>7, <1>8 DEF At
      <3> QED
        BY <2>2, <3>1
    <2>4. g[n] = EndsAt(f, n, g[n1]) /\ g[n1] = EndsAt(f, n1, g[n2])
      BY <2>1, <2>2, <2>3, Zenon DEF EndsTo
    <2>5. NestedEnd(f, w, g[n1])
      <3>1. ASSUME NEW q, At(f, q, w \o Format!Table(<<>>)) PROVE g[n1][q] = q + 4
        <4>1. EndsAt(f, n1, g[n2])[q] = q + 4
          BY <1>4, <2>3, <3>1, NestedEnds
        <4> QED
          BY <2>4, <4>1
      <3> QED
        BY <3>1, Zenon DEF NestedEnd
    <2>6. g[n][p] = p + 23
      <3>1. At(f, p, w \o Format!Table(ThreeValues(w)))
        BY <1>5, <1>8, Zenon
      <3>2. EndsAt(f, n, g[n1])[p] = p + 23
        BY <1>4, <2>3, <2>5, <3>1, AnnotatedEnds
      <3> QED
        BY <2>4, <3>2
    <2>7. U2(f, p) = i
      <3>1. At(f, p, w)
        BY <1>4, <1>5, <1>8, ElementTable, AtThen, Zenon
      <3> QED
        BY <1>4, <3>1, Zenon
    <2> QED
      BY <2>1, <2>2, <2>6, <2>7
  <1> QED
    BY <1>1, <1>6, <1>7, <1>8, Zenon DEF ReadsAnnotation

\* The annotations of a field or method.
Marks(cs, notes) == [i \in 1..Len(notes) |-> Format!Annotation(cs, notes[i])]
NoteNumbers(cs, notes) == [i \in 1..Len(notes) |-> Format!Index(cs, Format!Utf8(notes[i]))]

LEMMA NotesAre ==
    ASSUME NEW cs, NEW C, NEW d, PooledAs(cs, C, d), NEW notes \in Seq(Texts), Len(notes) \in Word
    PROVE  /\ Format!Table(Marks(cs, notes)) \in Seq(Nat) /\ IsLong(Len(Format!Table(Marks(cs, notes))))
           /\ \A a : a.info = Format!Table(Marks(cs, notes)) => Annotations(a, Pool(cs)) = notes
  <1> DEFINE ss == Marks(cs, notes)
             items == NoteNumbers(cs, notes)
  <1>1. Len(notes) \in Nat /\ \A i \in 1..Len(notes) : notes[i] \in Texts
    OBVIOUS
  <1>2. \A i \in 1..Len(notes) : ReadsAnnotation(ss[i], items[i])
    <2>1. \A i \in 1..Len(notes) :
              ReadsAnnotation(Format!Annotation(cs, notes[i]), Format!Index(cs, Format!Utf8(notes[i])))
      BY <1>1, AnnotationIs, Zenon
    <2> QED
      BY <2>1, Zenon DEF Marks, NoteNumbers
  <1>3. ss \in Seq(Seq(Nat)) /\ Len(ss) = Len(notes)
    <2>1. ss \in [1..Len(notes) -> Seq(Nat)]
      <3>1. \A i \in 1..Len(notes) : ss[i] \in Seq(Nat)
        BY <1>2, Zenon DEF ReadsAnnotation
      <3>2. ss = [i \in 1..Len(notes) |-> ss[i]]
        BY DEF Marks
      <3> QED
        BY <3>1, <3>2, Zenon
    <2> QED
      BY <1>1, <2>1, FunctionIsSeq, Zenon
  <1>4. items \in Seq(Word) /\ Len(items) = Len(notes)
    <2>1. items \in [1..Len(notes) -> Word]
      <3>1. \A i \in 1..Len(notes) : items[i] \in Word
        <4>1. \A c : Format!Index(cs, c) \in Word
          BY PooledFacts, FitFacts, Zenon
        <4> QED
          BY <4>1, Zenon DEF NoteNumbers
      <3>2. items = [i \in 1..Len(notes) |-> items[i]]
        BY DEF NoteNumbers
      <3> QED
        BY <3>1, <3>2, Zenon
    <2> QED
      BY <1>1, <2>1, FunctionIsSeq, Zenon
  <1>5. \A i \in 1..Len(notes) : TextAt(Pool(cs), items[i]) = notes[i]
    <2>1. \A i \in 1..Len(notes) : TextAt(Pool(cs), Format!Index(cs, Format!Utf8(notes[i]))) = notes[i]
      BY <1>1, TextIsRead, Zenon
    <2> QED
      BY <2>1, Zenon DEF NoteNumbers
  <1> HIDE DEF ss, items
  <1>6. PICK f : f = Format!Table(ss)
    OBVIOUS
  <1>7. f \in Seq(Nat) /\ Len(f) = 2 + Len(FlattenSeq(ss))
    BY <1>3, <1>6, TableFacts, Zenon
  <1>8. IsLong(Len(f))
    <2>0. PICK k \in Nat : k = 23
      BY SMT
    <2>1. \A i \in 1..Len(ss) : Len(ss[i]) = k
      <3>1. \A i \in 1..Len(notes) : Len(ss[i]) = 23
        BY <1>2, Zenon DEF ReadsAnnotation
      <3> QED
        BY <1>3, <2>0, <3>1, SMT
    <2>2. Len(FlattenSeq(ss)) = k * Len(ss)
      BY <1>3, <2>1, FixedLengths, Zenon
    <2>3. 2 \in 0..99 /\ k \in 0..99
      BY <2>0, SMT
    <2>4. IsLong(2 + (k * Len(notes)))
      BY <2>3, MultiplesAreLong, Zenon
    <2> QED
      BY <1>3, <1>7, <2>2, <2>4, Zenon
  <1>9. PICK read : read = [p \in Offsets(f) |-> ReadAnnotation(f, p)]
    OBVIOUS
  <1>10. ASSUME NEW i \in 1..Len(ss), NEW q \in Nat, At(f, q, ss[i])
         PROVE  read[q] = [at |-> q + Len(ss[i]), item |-> items[i]]
    <2>1. ReadsAnnotation(ss[i], items[i])
      BY <1>2, <1>3, Zenon
    <2>2. q \in Offsets(f)
      BY <1>7, <1>10, <2>1, AtOffsets, Zenon DEF ReadsAnnotation
    <2>3. ReadAnnotation(f, q) = [at |-> q + Len(ss[i]), item |-> items[i]]
      BY <1>7, <1>10, <2>1, Zenon DEF ReadsAnnotation
    <2> QED
      BY <1>9, <2>2, <2>3, Zenon
  <1>11. GivesAll(f, read, ss, items)
    BY <1>3, <1>4, <1>10, Zenon DEF GivesAll, Gives
  <1>12. At(f, 0, f) /\ 0 \in Nat
    BY <1>7, AtSelf, Zenon
  <1>13. Counted(read, f, 0).item = items
    <2>1. Counted(read, f, 0) = [at |-> 0 + Len(f), item |-> items]
      <3>1. ss \in Seq(Seq(Nat)) /\ items \in Seq(Word) /\ Len(ss) \in Word
        BY <1>3, <1>4, Zenon
      <3>2. At(f, 0, Format!Table(ss)) /\ 0 \in Nat
        BY <1>6, <1>12, Zenon
      <3>3. Counted(read, f, 0) = [at |-> 0 + Len(Format!Table(ss)), item |-> items]
        BY <1>7, <1>11, <3>1, <3>2, CountedIs
      <3> QED
        BY <1>6, <3>3, Zenon
    <2> QED
      BY <2>1
  <1>14. ASSUME NEW a, a.info = f PROVE Annotations(a, Pool(cs)) = notes
    <2>1. Annotations(a, Pool(cs)) = [i \in 1..Len(items) |-> TextAt(Pool(cs), items[i])]
      BY <1>9, <1>13, <1>14, Zenon DEF Annotations
    <2>2. [i \in 1..Len(items) |-> TextAt(Pool(cs), items[i])] = [i \in 1..Len(notes) |-> notes[i]]
      BY <1>4, <1>5, Zenon
    <2>3. [i \in 1..Len(notes) |-> notes[i]] = notes
      OBVIOUS
    <2> QED
      BY <2>1, <2>2, <2>3, Zenon
  <1> QED
    BY <1>6, <1>7, <1>8, <1>14, Zenon DEF ss

-----------------------------------------------------------------------------
(* Fields and methods                                                      *)

NoteItem(cs, m) == [name |-> "RuntimeVisibleAnnotations", info |-> Format!Table(Marks(cs, m.notes))]
CodeItem(cs, m) == [name |-> "Code", info |-> Format!Code(cs, m)]
NoteItems(cs, m) == IF m.notes = <<>> THEN <<>> ELSE <<NoteItem(cs, m)>>
CodeItems(cs, m) == IF m.body THEN <<CodeItem(cs, m)>> ELSE <<>>
AttributeItems(cs, m) == NoteItems(cs, m) \o CodeItems(cs, m)

AttributeBytes(cs, m) ==
    (IF m.notes = <<>> THEN <<>>
     ELSE <<Format!Attribute(cs, "RuntimeVisibleAnnotations", Format!Table(Marks(cs, m.notes)))>>)
    \o (IF m.body THEN <<Format!Attribute(cs, "Code", Format!Code(cs, m))>> ELSE <<>>)

ReadsAll(ss, pool, items) ==
    /\ ss \in Seq(Seq(Nat)) /\ Len(ss) \in Word /\ items \in Seq(Infos) /\ Len(items) = Len(ss)
    /\ \A i \in 1..Len(ss) : ReadsAttribute(ss[i], pool, items[i])

LEMMA FewAreRead ==
    ASSUME NEW pool
    PROVE  /\ ReadsAll(<<>>, pool, <<>>)
           /\ \A a, r : ReadsAttribute(a, pool, r) /\ r \in Infos => ReadsAll(<<a>>, pool, <<r>>)
           /\ \A a, r, b, t : ReadsAttribute(a, pool, r) /\ r \in Infos
                              /\ ReadsAttribute(b, pool, t) /\ t \in Infos
                              => ReadsAll(<<a, b>>, pool, <<r, t>>)
  <1>1. ReadsAll(<<>>, pool, <<>>)
    <2>1. \A S : <<>> \in Seq(S) /\ Len(<<>>) = 0 /\ 1..0 = {}
      OBVIOUS
    <2> QED
      BY <2>1, SmallWords, Zenon DEF ReadsAll
  <1>2. ASSUME NEW a, NEW r, ReadsAttribute(a, pool, r), r \in Infos PROVE ReadsAll(<<a>>, pool, <<r>>)
    <2>1. \A S : \A x \in S : <<x>> \in Seq(S) /\ Len(<<x>>) = 1 /\ <<x>>[1] = x
      OBVIOUS
    <2>2. \A i \in 1..1 : i = 1
      OBVIOUS
    <2>3. a \in Seq(Nat)
      BY <1>2, Zenon DEF ReadsAttribute
    <2> QED
      BY <1>2, <2>1, <2>2, <2>3, SmallWords, Zenon DEF ReadsAll
  <1>3. ASSUME NEW a, NEW r, NEW b, NEW t, ReadsAttribute(a, pool, r), r \in Infos,
               ReadsAttribute(b, pool, t), t \in Infos
        PROVE  ReadsAll(<<a, b>>, pool, <<r, t>>)
    <2>1. \A S : \A x, y \in S : /\ <<x, y>> \in Seq(S) /\ Len(<<x, y>>) = 2
                                 /\ <<x, y>>[1] = x /\ <<x, y>>[2] = y
      OBVIOUS
    <2>2. \A i \in 1..2 : i = 1 \/ i = 2
      OBVIOUS
    <2>3. a \in Seq(Nat) /\ b \in Seq(Nat)
      BY <1>3, Zenon DEF ReadsAttribute
    <2>4. PICK ss, items : ss = <<a, b>> /\ items = <<r, t>>
      OBVIOUS
    <2>5. /\ ss \in Seq(Seq(Nat)) /\ Len(ss) = 2 /\ ss[1] = a /\ ss[2] = b
          /\ items \in Seq(Infos) /\ Len(items) = 2 /\ items[1] = r /\ items[2] = t
      BY <1>3, <2>1, <2>3, <2>4, Zenon
    <2>6. \A i \in 1..2 : ReadsAttribute(ss[i], pool, items[i])
      BY <1>3, <2>2, <2>5, Zenon
    <2>7. ReadsAll(ss, pool, items)
      BY <2>5, <2>6, SmallWords, Zenon DEF ReadsAll
    <2> QED
      BY <2>4, <2>7, Zenon
  <1> QED
    BY <1>1, <1>2, <1>3, Zenon

MemberPooled(cs, C, d, m) ==
    /\ PooledAs(cs, C, d) /\ MemberFits(m)

LEMMA MemberFacts ==
    ASSUME NEW cs, NEW C, NEW d, NEW m, MemberPooled(cs, C, d, m)
    PROVE  /\ PooledAs(cs, C, d) /\ m.name \in Texts /\ m.desc \in Texts /\ m.flags \in Word
           /\ m.body \in BOOLEAN /\ m.lines \in Seq(Word \X Word) /\ Len(m.lines) \in Word
           /\ m.notes \in Seq(Texts) /\ Len(m.notes) \in Word
  BY SMT DEF MemberPooled, MemberFits, Few

LEMMA NoteAndCode ==
    ASSUME NEW cs, NEW C, NEW d, NEW m, MemberPooled(cs, C, d, m)
    PROVE  /\ ReadsAttribute(Format!Attribute(cs, "RuntimeVisibleAnnotations",
                                              Format!Table(Marks(cs, m.notes))),
                             Pool(cs), NoteItem(cs, m))
           /\ NoteItem(cs, m) \in Infos /\ NoteItem(cs, m).name = "RuntimeVisibleAnnotations"
           /\ ReadsAttribute(Format!Attribute(cs, "Code", Format!Code(cs, m)), Pool(cs), CodeItem(cs, m))
           /\ CodeItem(cs, m) \in Infos /\ CodeItem(cs, m).name = "Code"
           /\ "Code" # "RuntimeVisibleAnnotations"
  <1>1. "RuntimeVisibleAnnotations" \in Texts /\ "Code" \in Texts
    BY FilesAssumption
  <1>2. /\ Format!Table(Marks(cs, m.notes)) \in Seq(Nat)
        /\ IsLong(Len(Format!Table(Marks(cs, m.notes))))
    BY MemberFacts, NotesAre, Zenon
  <1>3. Format!Code(cs, m) \in Seq(Nat) /\ IsLong(Len(Format!Code(cs, m)))
    BY MemberFacts, CodeIs, Zenon
  <1>4. ReadsAttribute(Format!Attribute(cs, "RuntimeVisibleAnnotations",
                                        Format!Table(Marks(cs, m.notes))),
                       Pool(cs), NoteItem(cs, m))
    BY <1>1, <1>2, MemberFacts, AttributeIs, Zenon DEF NoteItem
  <1>5. ReadsAttribute(Format!Attribute(cs, "Code", Format!Code(cs, m)), Pool(cs), CodeItem(cs, m))
    BY <1>1, <1>3, MemberFacts, AttributeIs, Zenon DEF CodeItem
  <1>6. NoteItem(cs, m) \in Infos /\ NoteItem(cs, m).name = "RuntimeVisibleAnnotations"
    BY <1>1, <1>2 DEF NoteItem, Infos, Names
  <1>7. CodeItem(cs, m) \in Infos /\ CodeItem(cs, m).name = "Code"
    BY <1>1, <1>3 DEF CodeItem, Infos, Names
  <1>8. "Code" # "RuntimeVisibleAnnotations"
    OBVIOUS
  <1> QED
    BY <1>4, <1>5, <1>6, <1>7, <1>8, Zenon

\* All four cases: with and without annotations, with and without code.
LEMMA AttributesOfMember ==
    ASSUME NEW cs, NEW C, NEW d, NEW m, MemberPooled(cs, C, d, m)
    PROVE  /\ ReadsAll(AttributeBytes(cs, m), Pool(cs), AttributeItems(cs, m))
           /\ Named(AttributeItems(cs, m), "Code") = CodeItems(cs, m)
           /\ Named(AttributeItems(cs, m), "RuntimeVisibleAnnotations") = NoteItems(cs, m)
  <1>1. PICK a, r, b, t, x, y :
            /\ a = Format!Attribute(cs, "RuntimeVisibleAnnotations", Format!Table(Marks(cs, m.notes)))
            /\ b = Format!Attribute(cs, "Code", Format!Code(cs, m))
            /\ r = NoteItem(cs, m) /\ t = CodeItem(cs, m)
            /\ x = "RuntimeVisibleAnnotations" /\ y = "Code"
    OBVIOUS
  <1>2. /\ ReadsAttribute(a, Pool(cs), r) /\ r \in Infos /\ r.name = x /\ r.name # y
        /\ ReadsAttribute(b, Pool(cs), t) /\ t \in Infos /\ t.name = y /\ t.name # x
    BY <1>1, NoteAndCode, Zenon
  <1>3. /\ AttributeBytes(cs, m) = (IF m.notes = <<>> THEN <<>> ELSE <<a>>)
                                   \o (IF m.body THEN <<b>> ELSE <<>>)
        /\ AttributeItems(cs, m) = NoteItems(cs, m) \o CodeItems(cs, m)
        /\ NoteItems(cs, m) = IF m.notes = <<>> THEN <<>> ELSE <<r>>
        /\ CodeItems(cs, m) = IF m.body THEN <<t>> ELSE <<>>
    BY <1>1, Zenon DEF AttributeBytes, AttributeItems, NoteItems, CodeItems
  <1>4. \A u, v : /\ <<u>> \o <<v>> = <<u, v>> /\ <<>> \o <<v>> = <<v>> /\ <<u>> \o <<>> = <<u>>
                  /\ <<>> \o <<>> = <<>>
    <2>1. \A S : \A e \in Seq(S) : <<>> \o e = e /\ e \o <<>> = e
      OBVIOUS
    <2>2. \A S : <<>> \in Seq(S)
      OBVIOUS
    <2>3. \A u : <<u>> \in Seq({u})
      OBVIOUS
    <2>4. ASSUME NEW u, NEW v PROVE <<u>> \o <<v>> = <<u, v>>
      <3>1. PICK S : u \in S /\ v \in S
        <4>1. u \in {u, v} /\ v \in {u, v}
          OBVIOUS
        <4> QED
          BY <4>1, Zenon
      <3>2. <<u>> \in Seq(S) /\ <<v>> \in Seq(S) /\ Len(<<u>>) = 1 /\ Len(<<v>>) = 1
        BY <3>1
      <3>3. PICK e : e = <<u>> \o <<v>>
        OBVIOUS
      <3>4. e \in Seq(S) /\ Len(e) = 2 /\ e[1] = u /\ e[2] = v
        BY <3>1, <3>2, <3>3
      <3>5. \A i \in 1..2 : i = 1 \/ i = 2
        OBVIOUS
      <3>6. <<u, v>> \in Seq(S) /\ Len(<<u, v>>) = 2 /\ <<u, v>>[1] = u /\ <<u, v>>[2] = v
        BY <3>1
      <3>7. PICK g : g = <<u, v>>
        OBVIOUS
      <3>8. e = g
        BY <3>4, <3>5, <3>6, <3>7
      <3> QED
        BY <3>3, <3>7, <3>8, Zenon
    <2> QED
      BY <2>1, <2>2, <2>3, <2>4, Zenon
  <1>5. /\ Named(<<>>, x) = <<>> /\ Named(<<>>, y) = <<>>
        /\ Named(<<r>>, x) = <<r>> /\ Named(<<r>>, y) = <<>>
        /\ Named(<<t>>, x) = <<>> /\ Named(<<t>>, y) = <<t>>
        /\ Named(<<r, t>>, x) = <<r>> /\ Named(<<r, t>>, y) = <<t>>
    <2>1. /\ \A e : e.name = x => Named(<<e>>, x) = <<e>>
          /\ \A e : e.name # x => Named(<<e>>, x) = <<>>
          /\ \A e, g : e.name = x /\ g.name # x => Named(<<e, g>>, x) = <<e>>
      BY NamedFew, Zenon
    <2>2. /\ \A e : e.name = y => Named(<<e>>, y) = <<e>>
          /\ \A e : e.name # y => Named(<<e>>, y) = <<>>
          /\ \A e, g : e.name # y /\ g.name = y => Named(<<e, g>>, y) = <<g>>
      BY NamedFew, Zenon
    <2>3. Named(<<>>, x) = <<>> /\ Named(<<>>, y) = <<>>
      BY NamedFew, Zenon
    <2>4. Named(<<r>>, x) = <<r>> /\ Named(<<t>>, x) = <<>> /\ Named(<<r, t>>, x) = <<r>>
      BY <1>2, <2>1, Zenon
    <2>5. Named(<<r>>, y) = <<>> /\ Named(<<t>>, y) = <<t>> /\ Named(<<r, t>>, y) = <<t>>
      BY <1>2, <2>2, Zenon
    <2> QED
      BY <2>3, <2>4, <2>5, Zenon
  <1>6. /\ ReadsAll(<<>>, Pool(cs), <<>>) /\ ReadsAll(<<a>>, Pool(cs), <<r>>)
        /\ ReadsAll(<<b>>, Pool(cs), <<t>>) /\ ReadsAll(<<a, b>>, Pool(cs), <<r, t>>)
    BY <1>2, FewAreRead, Zenon
  <1>7. /\ ReadsAll(AttributeBytes(cs, m), Pool(cs), AttributeItems(cs, m))
        /\ Named(AttributeItems(cs, m), y) = CodeItems(cs, m)
        /\ Named(AttributeItems(cs, m), x) = NoteItems(cs, m)
    <2>1. CASE m.notes = <<>> /\ m.body
      <3>1. /\ AttributeBytes(cs, m) = <<b>> /\ AttributeItems(cs, m) = <<t>>
            /\ NoteItems(cs, m) = <<>> /\ CodeItems(cs, m) = <<t>>
        BY <1>3, <1>4, <2>1, Zenon
      <3> QED
        BY <1>5, <1>6, <3>1, Zenon
    <2>2. CASE m.notes = <<>> /\ ~m.body
      <3>1. /\ AttributeBytes(cs, m) = <<>> /\ AttributeItems(cs, m) = <<>>
            /\ NoteItems(cs, m) = <<>> /\ CodeItems(cs, m) = <<>>
        BY <1>3, <1>4, <2>2, Zenon
      <3> QED
        BY <1>5, <1>6, <3>1, Zenon
    <2>3. CASE m.notes # <<>> /\ m.body
      <3>1. /\ AttributeBytes(cs, m) = <<a, b>> /\ AttributeItems(cs, m) = <<r, t>>
            /\ NoteItems(cs, m) = <<r>> /\ CodeItems(cs, m) = <<t>>
        BY <1>3, <1>4, <2>3, Zenon
      <3> QED
        BY <1>5, <1>6, <3>1, Zenon
    <2>4. CASE m.notes # <<>> /\ ~m.body
      <3>1. /\ AttributeBytes(cs, m) = <<a>> /\ AttributeItems(cs, m) = <<r>>
            /\ NoteItems(cs, m) = <<r>> /\ CodeItems(cs, m) = <<>>
        BY <1>3, <1>4, <2>4, Zenon
      <3> QED
        BY <1>5, <1>6, <3>1, Zenon
    <2> QED
      BY <2>1, <2>2, <2>3, <2>4, Zenon
  <1> QED
    BY <1>1, <1>7, Zenon

\* What is read for the field or method m.
MemberItem(cs, m) == [flags |-> m.flags, name |-> m.name, desc |-> m.desc,
                      attributes |-> AttributeItems(cs, m), notes |-> m.notes]

LEMMA NotesAreRead ==
    ASSUME NEW cs, NEW C, NEW d, NEW m, MemberPooled(cs, C, d, m)
    PROVE  ProcessAttributes(AttributeItems(cs, m), Pool(cs)) = m.notes
  <1>1. Named(AttributeItems(cs, m), "RuntimeVisibleAnnotations") = NoteItems(cs, m)
    BY AttributesOfMember, Zenon
  <1>2. PICK items : items = NoteItems(cs, m)
    OBVIOUS
  <1>3. ProcessAttributes(AttributeItems(cs, m), Pool(cs))
            = FlattenSeq([i \in 1..Len(items) |-> Annotations(items[i], Pool(cs))])
    BY <1>1, <1>2, Zenon DEF ProcessAttributes
  <1>4. CASE m.notes = <<>>
    <2>1. items = <<>>
      BY <1>2, <1>4, Zenon DEF NoteItems
    <2>2. [i \in 1..Len(items) |-> Annotations(items[i], Pool(cs))] = <<>>
      BY <2>1
    <2> QED
      BY <1>3, <1>4, <2>2, FlattenFew, Zenon
  <1>5. CASE m.notes # <<>>
    <2>1. PICK r : r = NoteItem(cs, m)
      OBVIOUS
    <2>2. items = <<r>>
      BY <1>2, <1>5, <2>1, Zenon DEF NoteItems
    <2>3. [i \in 1..Len(items) |-> Annotations(items[i], Pool(cs))] = <<Annotations(r, Pool(cs))>>
      BY <2>2
    <2>4. r.info = Format!Table(Marks(cs, m.notes))
      BY <2>1 DEF NoteItem
    <2>5. Annotations(r, Pool(cs)) = m.notes
      BY <2>4, MemberFacts, NotesAre, Zenon
    <2> QED
      BY <1>3, <2>3, <2>5, MemberFacts, FlattenFew, Zenon
  <1> QED
    BY <1>4, <1>5

LEMMA MemberItemIsRead ==
    ASSUME NEW cs, NEW C, NEW d, NEW m, MemberPooled(cs, C, d, m)
    PROVE  MemberRead(MemberItem(cs, m), m, Pool(cs)) /\ MemberItem(cs, m) \in Members
  <1>1. PICK r : r = MemberItem(cs, m)
    OBVIOUS
  <1>2. /\ r.flags = m.flags /\ r.name = m.name /\ r.desc = m.desc
        /\ r.attributes = AttributeItems(cs, m) /\ r.notes = m.notes
    BY <1>1 DEF MemberItem
  <1>3. r \in Members
    <2>1. m.flags \in Nat /\ m.name \in Names /\ m.desc \in Names
      <3>1. m.flags \in Word /\ m.name \in Texts /\ m.desc \in Texts
        BY MemberFacts, Zenon
      <3> QED
        BY <3>1, SMT DEF Word, Names
    <2>2. m.notes \in Seq(Names)
      BY MemberFacts, WiderSeq, Zenon DEF Names
    <2>3. AttributeItems(cs, m) \in Seq(Infos)
      BY AttributesOfMember, Zenon DEF ReadsAll
    <2> QED
      BY <1>1, <2>1, <2>2, <2>3, Zenon DEF MemberItem, Members
  <1>4. r # NoItem
    BY <1>3, NoItemAssumption, Zenon
  <1>5. \A x \in Texts : HasAnnotation(r, x) = (x \in Range(m.notes))
    <2>1. DOMAIN m.notes = 1..Len(m.notes)
      BY MemberFacts
    <2>2. \A x : HasAnnotation(r, x) <=> x \in Range(m.notes)
      BY <1>2, <2>1, Zenon DEF HasAnnotation, Range
    <2> QED
      <3>1. ASSUME NEW x PROVE HasAnnotation(r, x) = (x \in Range(m.notes))
        <4>1. \A A, B \in BOOLEAN : (A <=> B) => A = B
          OBVIOUS
        <4>2. HasAnnotation(r, x) \in BOOLEAN
          BY Zenon DEF HasAnnotation
        <4>3. (x \in Range(m.notes)) \in BOOLEAN
          OBVIOUS
        <4> QED
          BY <2>2, <4>1, <4>2, <4>3, Zenon
      <3> QED
        BY <3>1, Zenon
  <1>6. Named(r.attributes, "Code") = CodeItems(cs, m)
    BY <1>2, AttributesOfMember, Zenon
  <1>7. HasCode(r) = m.body
    <2>1. m.body \in BOOLEAN
      BY MemberFacts, Zenon
    <2>2. \A x : <<x>> # <<>>
      OBVIOUS
    <2>3. (CodeItems(cs, m) # <<>>) <=> m.body
      BY <2>2, Zenon DEF CodeItems
    <2> QED
      BY <1>6, <2>1, <2>3 DEF HasCode
  <1>8. ASSUME m.body
        PROVE  LineNumberTable(ReadCode(Named(r.attributes, "Code")[1].info, Pool(cs))) = m.lines
    <2>1. CodeItems(cs, m) = <<CodeItem(cs, m)>>
      BY <1>8, Zenon DEF CodeItems
    <2>2. <<CodeItem(cs, m)>>[1] = CodeItem(cs, m)
      OBVIOUS
    <2>3. CodeItem(cs, m).info = Format!Code(cs, m)
      BY DEF CodeItem
    <2>4. LineNumberTable(ReadCode(Format!Code(cs, m), Pool(cs))) = m.lines
      BY MemberFacts, CodeIs, Zenon
    <2> QED
      BY <1>6, <2>1, <2>2, <2>3, <2>4, Zenon
  <1>9. MemberRead(r, m, Pool(cs))
    BY <1>2, <1>4, <1>5, <1>7, <1>8, Zenon DEF MemberRead
  <1> QED
    BY <1>1, <1>3, <1>9, Zenon

\* Three numbers of two bytes.
ThreeWords(s, i, j, k) ==
    /\ s \in Seq(Nat) /\ Len(s) = 6
    /\ \A f \in Seq(Nat) : \A p : At(f, p, s) => U2(f, p) = i /\ U2(f, p + 2) = j /\ U2(f, p + 4) = k

LEMMA ThreeWordsAre ==
    ASSUME NEW i \in Word, NEW j \in Word, NEW k \in Word
    PROVE  ThreeWords((Format!U2(i) \o Format!U2(j)) \o Format!U2(k), i, j, k)
  <1>1. PICK a, b : a = Format!U2(i) \o Format!U2(j) /\ b = Format!U2(k)
    OBVIOUS
  <1>2. TwoWords(a, i, j)
    BY <1>1, TwoWordsAre, Zenon
  <1>3. /\ b \in Seq(Nat) /\ Len(b) = 2
        /\ \A f, p : At(f, p, b) => U2(f, p) = k
    BY <1>1, U2Is, Zenon
  <1>4. a \o b \in Seq(Nat) /\ Len(a \o b) = 6
    <2>1. a \o b \in Seq(Nat) /\ Len(a \o b) = 4 + Len(b)
      BY <1>2, <1>3, LenThen, Zenon DEF TwoWords
    <2> QED
      BY <1>3, <2>1
  <1>5. ASSUME NEW f \in Seq(Nat), NEW p, At(f, p, a \o b)
        PROVE  U2(f, p) = i /\ U2(f, p + 2) = j /\ U2(f, p + 4) = k
    <2>1. At(f, p, a) /\ At(f, p + 4, b)
      BY <1>2, <1>3, <1>5, AtThen, Zenon DEF TwoWords
    <2> QED
      BY <1>2, <1>3, <2>1, Zenon DEF TwoWords
  <1> QED
    BY <1>1, <1>4, <1>5, Zenon DEF ThreeWords

\* A field or method is read as it was written.
ReadsMember(s, pool, r) ==
    /\ s \in Seq(Nat)
    /\ \A f \in Seq(Nat) : \A p : At(f, p, s) => ReadMember(f, pool, p) = [at |-> p + Len(s), item |-> r]

LEMMA MemberAtIs ==
    ASSUME NEW cs, NEW C, NEW d, NEW m, MemberPooled(cs, C, d, m)
    PROVE  ReadsMember(Format!Member(cs, m), Pool(cs), MemberItem(cs, m))
  <1>1. PICK i, j : i = Format!Index(cs, Format!Utf8(m.name)) /\ j = Format!Index(cs, Format!Utf8(m.desc))
    OBVIOUS
  <1>2. /\ i \in Word /\ TextAt(Pool(cs), i) = m.name
        /\ j \in Word /\ TextAt(Pool(cs), j) = m.desc
    BY <1>1, MemberFacts, PooledFacts, FitFacts, TextIsRead, Zenon
  <1>3. PICK a : a = (Format!U2(m.flags) \o Format!U2(i)) \o Format!U2(j)
    OBVIOUS
  <1>4. ThreeWords(a, m.flags, i, j)
    BY <1>2, <1>3, MemberFacts, ThreeWordsAre
  <1>5. PICK ss, items : ss = AttributeBytes(cs, m) /\ items = AttributeItems(cs, m)
    OBVIOUS
  <1>6. ReadsAll(ss, Pool(cs), items)
    BY <1>5, AttributesOfMember, Zenon
  <1>7. PICK t : t = Format!Table(ss)
    OBVIOUS
  <1>8. ReadsAttributes(t, Pool(cs), items) /\ t \in Seq(Nat)
    <2>1. ReadsAttributes(Format!Table(ss), Pool(cs), items)
      BY <1>6, AttributesAre DEF ReadsAll
    <2> QED
      BY <1>7, <2>1, Zenon DEF ReadsAttributes
  <1>9. PICK s : s = Format!Member(cs, m)
    OBVIOUS
  <1>10. s = a \o t
    BY <1>1, <1>3, <1>5, <1>7, <1>9, Zenon DEF Format!Member, AttributeBytes, Marks
  <1>11. s \in Seq(Nat) /\ Len(s) = 6 + Len(t) /\ Len(t) \in Nat
    <2>1. Len(t) \in Nat
      BY <1>8
    <2> QED
      BY <1>4, <1>8, <1>10, <2>1, LenThen, Zenon DEF ThreeWords
  <1>12. ASSUME NEW f \in Seq(Nat), NEW p, At(f, p, s)
         PROVE  ReadMember(f, Pool(cs), p) = [at |-> p + Len(s), item |-> MemberItem(cs, m)]
    <2>1. At(f, p, a) /\ At(f, p + 6, t)
      BY <1>4, <1>8, <1>10, <1>12, AtThen, Zenon DEF ThreeWords
    <2>2. U2(f, p) = m.flags /\ U2(f, p + 2) = i /\ U2(f, p + 4) = j
      BY <1>4, <2>1, Zenon DEF ThreeWords
    <2>3. ReadAttributes(f, Pool(cs), p + 6) = [at |-> (p + 6) + Len(t), item |-> items]
      BY <1>8, <2>1, Zenon DEF ReadsAttributes
    <2>4. (p + 6) + Len(t) = p + Len(s)
      <3>1. p \in Nat
        BY <2>1, PositionFacts, Zenon
      <3> QED
        BY <1>11, <3>1
    <2>5. PICK e : e = ReadAttributes(f, Pool(cs), p + 6)
      OBVIOUS
    <2>6. e.at = p + Len(s) /\ e.item = items
      BY <2>3, <2>4, <2>5
    <2>7. ProcessAttributes(items, Pool(cs)) = m.notes
      BY <1>5, NotesAreRead, Zenon
    <2>8. ReadMember(f, Pool(cs), p) =
              [at |-> e.at, item |-> [flags |-> U2(f, p), name |-> TextAt(Pool(cs), U2(f, p + 2)),
                   desc |-> TextAt(Pool(cs), U2(f, p + 4)), attributes |-> e.item,
                   notes |-> ProcessAttributes(e.item, Pool(cs))]]
      BY <2>5, Zenon DEF ReadMember
    <2> QED
      BY <1>2, <1>5, <2>2, <2>6, <2>7, <2>8, Zenon DEF MemberItem
  <1> QED
    BY <1>9, <1>11, <1>12, Zenon DEF ReadsMember

\* So are all of a table.
ReadsMembers(s, pool, items) ==
    /\ s \in Seq(Nat)
    /\ \A f \in Seq(Nat) : \A p : At(f, p, s) => ReadMembers(f, pool, p) = [at |-> p + Len(s), item |-> items]
MemberBytes(cs, ms) == [i \in 1..Len(ms) |-> Format!Member(cs, ms[i])]
MemberItems(cs, ms) == [i \in 1..Len(ms) |-> MemberItem(cs, ms[i])]

LEMMA MembersAre ==
    ASSUME NEW cs, NEW C, NEW d, PooledAs(cs, C, d), NEW S, NEW ms \in Seq(S), Len(ms) \in Word,
           \A i \in 1..Len(ms) : MemberPooled(cs, C, d, ms[i])
    PROVE  ReadsMembers(Format!Table(MemberBytes(cs, ms)), Pool(cs), MemberItems(cs, ms))
  <1>1. PICK ss, items, pool : /\ ss = MemberBytes(cs, ms) /\ items = MemberItems(cs, ms)
                               /\ pool = Pool(cs)
    OBVIOUS
  <1>2. Len(ms) \in Nat
    OBVIOUS
  <1>3. \A i \in 1..Len(ms) : ReadsMember(ss[i], pool, items[i]) /\ items[i] \in Members
    <2>1. \A i \in 1..Len(ms) : /\ ReadsMember(Format!Member(cs, ms[i]), pool, MemberItem(cs, ms[i]))
                                /\ MemberItem(cs, ms[i]) \in Members
      BY <1>1, MemberAtIs, MemberItemIsRead, Zenon
    <2> QED
      BY <1>1, <2>1, Zenon DEF MemberBytes, MemberItems
  <1>4. ss \in Seq(Seq(Nat)) /\ Len(ss) = Len(ms)
    <2>1. ss \in [1..Len(ms) -> Seq(Nat)]
      <3>1. \A i \in 1..Len(ms) : ss[i] \in Seq(Nat)
        BY <1>3, Zenon DEF ReadsMember
      <3>2. ss = [i \in 1..Len(ms) |-> ss[i]]
        BY <1>1 DEF MemberBytes
      <3> QED
        BY <3>1, <3>2, Zenon
    <2> QED
      BY <1>2, <2>1, FunctionIsSeq, Zenon
  <1>5. items \in Seq(Members) /\ Len(items) = Len(ms)
    <2>1. items \in [1..Len(ms) -> Members]
      <3>1. \A i \in 1..Len(ms) : items[i] \in Members
        BY <1>3, Zenon
      <3>2. items = [i \in 1..Len(ms) |-> items[i]]
        BY <1>1 DEF MemberItems
      <3> QED
        BY <3>1, <3>2, Zenon
    <2> QED
      BY <1>2, <2>1, FunctionIsSeq, Zenon
  <1>6. ASSUME NEW f \in Seq(Nat), NEW p, At(f, p, Format!Table(ss))
        PROVE  ReadMembers(f, pool, p) = [at |-> p + Len(Format!Table(ss)), item |-> items]
    <2>1. p \in Nat
      BY <1>6, PositionFacts, Zenon
    <2>2. PICK read : read = [q \in Offsets(f) |-> ReadMember(f, pool, q)]
      OBVIOUS
    <2>3. ASSUME NEW i \in 1..Len(ss), NEW q \in Nat, At(f, q, ss[i])
          PROVE  read[q] = [at |-> q + Len(ss[i]), item |-> items[i]]
      <3>0. ReadsMember(ss[i], pool, items[i])
        BY <1>3, <1>4, Zenon
      <3>1. q \in Offsets(f)
        BY <2>3, <3>0, AtOffsets, Zenon DEF ReadsMember
      <3> QED
        BY <2>2, <2>3, <3>0, <3>1, Zenon DEF ReadsMember
    <2>4. GivesAll(f, read, ss, items)
      BY <1>4, <1>5, <2>3, Zenon DEF GivesAll, Gives
    <2>5. Counted(read, f, p) = [at |-> p + Len(Format!Table(ss)), item |-> items]
      <3>1. ss \in Seq(Seq(Nat)) /\ items \in Seq(Members) /\ Len(ss) \in Word
        BY <1>4, <1>5, Zenon
      <3> QED
        BY <1>6, <2>1, <2>4, <3>1, CountedIs
    <2> QED
      BY <2>2, <2>5, Zenon DEF ReadMembers
  <1>7. Format!Table(ss) \in Seq(Nat)
    BY <1>4, TableFacts, Zenon
  <1> QED
    BY <1>1, <1>6, <1>7, Zenon DEF ReadsMembers

-----------------------------------------------------------------------------
(* Class files                                                             *)

LEMMA TextIsName ==
    ASSUME NEW pool \in Seq(Items1 \cup {NoItem}), NEW i
    PROVE  TextAt(pool, i) \in Names
  <1>1. PICK item : item = GetItemAt(pool, i, 1)
    OBVIOUS
  <1>2. item = NoItem \/ item \in Items1
    <2>1. \A j \in 1..Len(pool) : pool[j] \in Items1 \/ pool[j] = NoItem
      OBVIOUS
    <2> QED
      BY <1>1, <2>1, Zenon DEF GetItemAt
  <1>3. TextAt(pool, i) = IF item = NoItem THEN NoText ELSE item.text
    BY <1>1, Zenon DEF TextAt
  <1>4. item \in Items1 => item.text \in Names
    BY DEF Items1
  <1>5. NoText \in Names
    BY DEF Names
  <1> QED
    BY <1>2, <1>3, <1>4, <1>5, Zenon

LEMMA PoolType ==
    ASSUME NEW C, NEW cs, Fit(cs, C)
    PROVE  Pool(cs) \in Seq(Pooled)
  <1>1. PICK ps : ps = Format!Places(cs)
    OBVIOUS
  <1>2. ps \in Seq(WithSecond(C))
    BY <1>1, BlocksFacts, Zenon DEF Fit
  <1>3. Len(ps) \in Nat /\ \A j \in 1..Len(ps) : ps[j] \in C \/ ps[j] = Second
    BY <1>2, SMT DEF WithSecond
  <1>4. ASSUME NEW j \in 1..Len(ps)
        PROVE  (IF ps[j] = Second THEN NoItem ELSE ItemOf(cs, ps[j])) \in Items1 \cup {NoItem}
    <2>1. CASE ps[j] = Second
      BY <2>1
    <2>2. CASE ps[j] # Second
      <3>1. Writable(ps[j]) /\ \A k : Format!Index(cs, k) \in Word
        BY <1>3, <2>2, FitFacts, Zenon DEF Fit
      <3>2. ItemOf(cs, ps[j]) \in Items1
        BY <3>1, ItemFacts, Zenon DEF IsItem
      <3> QED
        BY <2>2, <3>2
    <2> QED
      BY <2>1, <2>2
  <1>5. PICK raw : raw = Raw(cs)
    OBVIOUS
  <1>6. raw \in Seq(Items1 \cup {NoItem}) /\ Len(raw) = Len(ps)
    <2>1. raw = [j \in 1..Len(ps) |-> IF ps[j] = Second THEN NoItem ELSE ItemOf(cs, ps[j])]
      BY <1>1, <1>5, Zenon DEF Raw, PoolOf
    <2>2. raw \in [1..Len(ps) -> Items1 \cup {NoItem}]
      BY <1>4, <2>1, Zenon
    <2> QED
      BY <1>3, <2>2, FunctionIsSeq, Zenon
  <1>7. \A i : TextAt(raw, i) \in Names
    BY <1>6, TextIsName, Zenon
  <1> DEFINE Item2(j) == [tag |-> raw[j].tag, x |-> raw[j].x, y |-> raw[j].y,
                 text |-> IF raw[j].tag \in {7, 8, 12, 16} THEN TextAt(raw, raw[j].x) ELSE raw[j].text,
                 desc |-> IF raw[j].tag = 12 THEN TextAt(raw, raw[j].y) ELSE NoText]
  <1>8. ASSUME NEW j \in 1..Len(raw)
        PROVE  (IF raw[j] = NoItem THEN NoItem ELSE Item2(j)) \in Pooled
    <2>1. CASE raw[j] = NoItem
      BY <2>1 DEF Pooled
    <2>2. CASE raw[j] # NoItem
      <3>1. raw[j] \in Items1
        BY <1>6, <2>2
      <3>2. raw[j].tag \in Nat /\ raw[j].x \in Nat /\ raw[j].y \in Nat /\ raw[j].text \in Names
        BY <3>1 DEF Items1
      <3>3. NoText \in Names
        BY DEF Names
      <3>4. Item2(j) \in Items2
        <4>1. PICK text, desc :
                 /\ text = (IF raw[j].tag \in {7, 8, 12, 16} THEN TextAt(raw, raw[j].x) ELSE raw[j].text)
                 /\ desc = (IF raw[j].tag = 12 THEN TextAt(raw, raw[j].y) ELSE NoText)
          OBVIOUS
        <4>2. text \in Names /\ desc \in Names
          BY <1>7, <3>2, <3>3, <4>1, Zenon
        <4>3. [tag |-> raw[j].tag, x |-> raw[j].x, y |-> raw[j].y, text |-> text, desc |-> desc] \in Items2
          BY <3>2, <4>2 DEF Items2
        <4> QED
          BY <4>1, <4>3, Zenon
      <3> HIDE DEF Item2
      <3> QED
        BY <2>2, <3>4 DEF Pooled
    <2> QED
      BY <2>1, <2>2
  <1>9. Pool(cs) = [j \in 1..Len(raw) |-> IF raw[j] = NoItem THEN NoItem ELSE Item2(j)]
    BY <1>5, Zenon DEF Pool, Processed
  <1> HIDE DEF Item2
  <1>10. Pool(cs) \in [1..Len(raw) -> Pooled]
    BY <1>8, <1>9, Zenon
  <1>11. Len(raw) \in Nat
    BY <1>6
  <1> QED
    BY <1>10, <1>11, FunctionIsSeq, Zenon

\* The beginning of a class file.
Beginning == (Magic \o Format!U2(0)) \o Format!U2(52)

LEMMA HeadIs ==
    /\ Beginning \in Seq(Nat) /\ Len(Beginning) = 8
    /\ \A f \in Seq(Nat) : At(f, 0, Beginning) => SubSeq(f, 1, 4) = Magic
  <1>1. Magic \in Seq(Nat) /\ Len(Magic) = 4
    BY SMT DEF Magic
  <1>2. PICK a, b, c : a = Magic /\ b = Format!U2(0) /\ c = Format!U2(52)
    OBVIOUS
  <1>3. b \in Seq(Nat) /\ Len(b) = 2 /\ c \in Seq(Nat) /\ Len(c) = 2
    <2>1. PICK n : n = 52
      OBVIOUS
    <2>2. n \in Word
      BY <2>1, SMT DEF Word
    <2>3. c = Format!U2(n)
      BY <1>2, <2>1
    <2> QED
      BY <1>2, <2>2, <2>3, SmallWords, U2Is, Zenon
  <1>4. a \o b \in Seq(Nat) /\ Len(a \o b) = 6
    <2>1. a \o b \in Seq(Nat) /\ Len(a \o b) = 4 + Len(b)
      BY <1>1, <1>2, <1>3, LenThen, Zenon
    <2> QED
      BY <1>3, <2>1
  <1>5. (a \o b) \o c \in Seq(Nat) /\ Len((a \o b) \o c) = 8
    <2>1. (a \o b) \o c \in Seq(Nat) /\ Len((a \o b) \o c) = 6 + Len(c)
      BY <1>3, <1>4, LenThen, Zenon
    <2> QED
      BY <1>3, <2>1
  <1>6. Beginning = (a \o b) \o c
    BY <1>2, SMT DEF Beginning
  <1>7. ASSUME NEW f \in Seq(Nat), At(f, 0, (a \o b) \o c) PROVE SubSeq(f, 1, 4) = Magic
    <2>1. At(f, 0, a \o b)
      BY <1>3, <1>4, <1>7, AtThen, Zenon
    <2>2. At(f, 0, a)
      BY <1>1, <1>2, <1>3, <2>1, AtThen, Zenon
    <2>3. SubSeq(f, 0 + 1, 0 + Len(a)) = a
      BY <1>1, <1>2, <2>2, BytesTaken, Zenon
    <2>4. 0 + 1 = 1 /\ 0 + 4 = 4
      OBVIOUS
    <2> QED
      BY <1>1, <1>2, <2>3, <2>4, Zenon
  <1> QED
    BY <1>5, <1>6, <1>7, Zenon

LEMMA Cut ==
    ASSUME NEW f \in Seq(Nat), NEW s \in Seq(Nat), NEW t \in Seq(Nat), NEW n \in Nat, Len(s) = n
    PROVE  At(f, 0, s \o t) => At(f, 0, s) /\ At(f, n, t)
  <1>1. At(f, 0, s \o t) => At(f, 0, s) /\ At(f, 0 + n, t)
    BY AtThen, Zenon
  <1>2. 0 + n = n
    OBVIOUS
  <1> QED
    BY <1>1, <1>2, Zenon

\* Where the parts of a class file are.
Parts(f, h, u, k, x, y, z, ti, tf, tm, ta) ==
    f = ((((((((h \o u) \o k) \o x) \o y) \o z) \o ti) \o tf) \o tm) \o ta
Lengths(h, u, x, y, z) == Len(h) = 8 /\ Len(u) = 2 /\ Len(x) = 2 /\ Len(y) = 2 /\ Len(z) = 2

AllAt(f, h, u, k, x, y, z, ti, tf, tm, ta, q) ==
    /\ f \in Seq(Nat) /\ At(f, 0, h) /\ At(f, 8, u) /\ At(f, 10, k) /\ q \in Nat
    /\ At(f, q, x) /\ At(f, q + 2, y) /\ At(f, q + 4, z) /\ At(f, q + 6, ti)
    /\ At(f, (q + 6) + Len(ti), tf) /\ At(f, ((q + 6) + Len(ti)) + Len(tf), tm)
    /\ At(f, (((q + 6) + Len(ti)) + Len(tf)) + Len(tm), ta)

LEMMA PartsAt ==
    ASSUME NEW h \in Seq(Nat), NEW u \in Seq(Nat), NEW k \in Seq(Nat), NEW x \in Seq(Nat),
           NEW y \in Seq(Nat), NEW z \in Seq(Nat), NEW ti \in Seq(Nat), NEW tf \in Seq(Nat),
           NEW tm \in Seq(Nat), NEW ta \in Seq(Nat), NEW f, Parts(f, h, u, k, x, y, z, ti, tf, tm, ta),
           Lengths(h, u, x, y, z), NEW q, q = 10 + Len(k)
    PROVE  AllAt(f, h, u, k, x, y, z, ti, tf, tm, ta, q)
  <1>1. PICK s1, s2, s3, s4, s5, s6, s7, s8 :
            /\ s1 = h \o u /\ s2 = s1 \o k /\ s3 = s2 \o x /\ s4 = s3 \o y /\ s5 = s4 \o z
            /\ s6 = s5 \o ti /\ s7 = s6 \o tf /\ s8 = s7 \o tm
    OBVIOUS
  <1>2. f = s8 \o ta
    BY <1>1, Zenon DEF Parts
  <1>3. PICK q2, q4, q6, n6, n7, n8, e, t : /\ q2 = q + 2 /\ q4 = q + 4 /\ q6 = q + 6 /\ e = 8 /\ t = 10
            /\ n6 = q6 + Len(ti) /\ n7 = n6 + Len(tf) /\ n8 = n7 + Len(tm)
    OBVIOUS
  <1>4. /\ Len(k) \in Nat /\ Len(ti) \in Nat /\ Len(tf) \in Nat /\ Len(tm) \in Nat
        /\ Len(h) = e /\ Len(u) = 2 /\ Len(x) = 2 /\ Len(y) = 2 /\ Len(z) = 2
        /\ e \in Nat /\ t \in Nat /\ q \in Nat
    BY <1>3, SMTT(40) DEF Lengths
  <1>5. /\ q2 \in Nat /\ q4 \in Nat /\ q6 \in Nat /\ n6 \in Nat /\ n7 \in Nat /\ n8 \in Nat
        /\ q2 + 2 = q4 /\ q4 + 2 = q6 /\ e + 2 = t /\ t + Len(k) = q /\ q + 2 = q2
    <2>1. /\ q2 \in Nat /\ q4 \in Nat /\ q6 \in Nat
          /\ q2 + 2 = q4 /\ q4 + 2 = q6 /\ e + 2 = t /\ t + Len(k) = q /\ q + 2 = q2
      <3>1. q = t + Len(k) /\ e + 2 = t
        BY <1>3
      <3>2. q2 = q + 2 /\ q4 = q + 4 /\ q6 = q + 6
        BY <1>3
      <3>3. q \in Nat
        BY <1>4
      <3>4. q2 \in Nat /\ q4 \in Nat /\ q6 \in Nat /\ q2 + 2 = q4 /\ q4 + 2 = q6 /\ q + 2 = q2
        BY <3>2, <3>3
      <3> QED
        BY <3>1, <3>4, Zenon
    <2>2. n6 \in Nat
      BY <1>3, <1>4, <2>1
    <2>3. n7 \in Nat
      BY <1>3, <1>4, <2>2
    <2>4. n8 \in Nat
      BY <1>3, <1>4, <2>3
    <2> QED
      BY <2>1, <2>2, <2>3, <2>4, Zenon
  <1>6. s1 \in Seq(Nat) /\ Len(s1) = t
    <2>1. s1 \in Seq(Nat) /\ Len(s1) = e + Len(u)
      <3>1. Len(h) = e /\ s1 = h \o u
        BY <1>1, <1>4, Zenon
      <3> QED
        BY <3>1, LenThen, Zenon
    <2> QED
      BY <1>4, <1>5, <2>1, Zenon
  <1>7. s2 \in Seq(Nat) /\ Len(s2) = q
    <2>1. s2 \in Seq(Nat) /\ Len(s2) = t + Len(k)
      BY <1>1, <1>6, LenThen, Zenon
    <2> QED
      BY <1>5, <2>1, Zenon
  <1>8. s3 \in Seq(Nat) /\ Len(s3) = q2
    <2>1. s3 \in Seq(Nat) /\ Len(s3) = q + Len(x)
      BY <1>1, <1>7, LenThen, Zenon
    <2> QED
      BY <1>4, <1>5, <2>1, Zenon
  <1>9. s4 \in Seq(Nat) /\ Len(s4) = q4
    <2>1. s4 \in Seq(Nat) /\ Len(s4) = q2 + Len(y)
      BY <1>1, <1>8, LenThen, Zenon
    <2> QED
      BY <1>4, <1>5, <2>1, Zenon
  <1>10. s5 \in Seq(Nat) /\ Len(s5) = q6
    <2>1. s5 \in Seq(Nat) /\ Len(s5) = q4 + Len(z)
      BY <1>1, <1>9, LenThen, Zenon
    <2> QED
      BY <1>4, <1>5, <2>1, Zenon
  <1>11. s6 \in Seq(Nat) /\ Len(s6) = n6
    BY <1>1, <1>3, <1>10, LenThen, Zenon
  <1>12. s7 \in Seq(Nat) /\ Len(s7) = n7
    BY <1>1, <1>3, <1>11, LenThen, ZenonT(60)
  <1>13. s8 \in Seq(Nat) /\ Len(s8) = n8
    BY <1>1, <1>3, <1>12, LenThen, ZenonT(60)
  <1>14. f \in Seq(Nat)
    BY <1>2, <1>13, LenThen, Zenon
  <1>15. At(f, 0, f)
    BY <1>14, AtSelf, Zenon
  <1>16. At(f, 0, s8) /\ At(f, n8, ta)
    BY <1>2, <1>5, <1>13, <1>14, <1>15, Cut, Zenon
  <1>17. At(f, 0, s7) /\ At(f, n7, tm)
    BY <1>1, <1>5, <1>12, <1>14, <1>16, Cut, Zenon
  <1>18. At(f, 0, s6) /\ At(f, n6, tf)
    BY <1>1, <1>5, <1>11, <1>14, <1>17, Cut, Zenon
  <1>19. At(f, 0, s5) /\ At(f, q6, ti)
    BY <1>1, <1>5, <1>10, <1>14, <1>18, Cut, Zenon
  <1>20. At(f, 0, s4) /\ At(f, q4, z)
    BY <1>1, <1>5, <1>9, <1>14, <1>19, Cut, Zenon
  <1>21. At(f, 0, s3) /\ At(f, q2, y)
    BY <1>1, <1>5, <1>8, <1>14, <1>20, Cut, Zenon
  <1>22. At(f, 0, s2) /\ At(f, q, x)
    BY <1>1, <1>4, <1>7, <1>14, <1>21, Cut, Zenon
  <1>23. At(f, 0, s1) /\ At(f, t, k)
    BY <1>1, <1>4, <1>6, <1>14, <1>22, Cut, Zenon
  <1>24. At(f, 0, h) /\ At(f, e, u)
    BY <1>1, <1>4, <1>14, <1>23, Cut, Zenon
  <1>25. At(f, 8, u) /\ At(f, 10, k)
    BY <1>3, <1>23, <1>24
  <1>26. /\ f \in Seq(Nat) /\ At(f, 0, h) /\ At(f, 8, u) /\ At(f, 10, k) /\ q \in Nat
         /\ At(f, q, x) /\ At(f, q + 2, y) /\ At(f, q + 4, z) /\ At(f, q + 6, ti)
         /\ At(f, (q + 6) + Len(ti), tf) /\ At(f, ((q + 6) + Len(ti)) + Len(tf), tm)
         /\ At(f, (((q + 6) + Len(ti)) + Len(tf)) + Len(tm), ta)
    BY <1>3, <1>4, <1>14, <1>16, <1>17, <1>18, <1>19, <1>20, <1>21, <1>22, <1>24, <1>25, Zenon
  <1> QED
    BY <1>26 DEF AllAt

-----------------------------------------------------------------------------
(* The names in a class file                                               *)

InterfaceBytes(cs, d) ==
    [i \in 1..Len(d.interfaces) |-> Format!U2(Format!Index(cs, Format!Name(7, d.interfaces[i])))]
ClassReads(f, pool) == [p \in Offsets(f) |-> [at |-> p + 2, item |-> ClassAt(pool, U2(f, p))]]

LEMMA InterfacesAre ==
    ASSUME NEW cs, NEW C, NEW d, PooledAs(cs, C, d)
    PROVE  /\ Format!Table(InterfaceBytes(cs, d)) \in Seq(Nat)
           /\ \A f \in Seq(Nat) : \A p : At(f, p, Format!Table(InterfaceBytes(cs, d))) =>
                  Counted(ClassReads(f, Pool(cs)), f, p)
                      = [at |-> p + Len(Format!Table(InterfaceBytes(cs, d))), item |-> d.interfaces]
           /\ d.interfaces \in Seq(Texts)
  <1>1. PICK ss, pool, names : /\ ss = InterfaceBytes(cs, d) /\ pool = Pool(cs)
                               /\ names = d.interfaces
    OBVIOUS
  <1>2. names \in Seq(Texts) /\ Len(names) \in Word
    BY <1>1, SMT DEF PooledAs, DescriptionFits, Few
  <1>3. Len(names) \in Nat /\ \A i \in 1..Len(names) : names[i] \in Texts
    BY <1>2
  <1>4. \A i \in 1..Len(names) :
            /\ Format!Index(cs, Format!Name(7, names[i])) \in Word
            /\ ClassAt(pool, Format!Index(cs, Format!Name(7, names[i]))) = names[i]
    <2>1. \A i \in 1..Len(names) : Numbered(cs, Format!Name(7, names[i]))
      BY <1>1, Zenon DEF PooledAs, Required
    <2>2. \A c : Format!Index(cs, c) \in Word
      BY PooledFacts, FitFacts, Zenon
    <2> QED
      BY <1>1, <1>3, <2>1, <2>2, ClassIsRead, Zenon
  <1>5. \A i \in 1..Len(names) :
            /\ ss[i] \in Seq(Nat) /\ Len(ss[i]) = 2
            /\ \A f, p : At(f, p, ss[i]) => ClassAt(pool, U2(f, p)) = names[i]
    <2>1. \A i \in 1..Len(names) : ss[i] = Format!U2(Format!Index(cs, Format!Name(7, names[i])))
      BY <1>1, Zenon DEF InterfaceBytes
    <2>2. ASSUME NEW i \in 1..Len(names)
          PROVE  /\ ss[i] \in Seq(Nat) /\ Len(ss[i]) = 2
                 /\ \A f, p : At(f, p, ss[i]) => ClassAt(pool, U2(f, p)) = names[i]
      <3>1. PICK n : n = Format!Index(cs, Format!Name(7, names[i]))
        OBVIOUS
      <3>2. n \in Word /\ ss[i] = Format!U2(n) /\ ClassAt(pool, n) = names[i]
        BY <1>4, <2>1, <3>1, Zenon
      <3> QED
        BY <3>2, U2Is, Zenon
    <2> QED
      BY <2>2, Zenon
  <1>6. ss \in Seq(Seq(Nat)) /\ Len(ss) = Len(names)
    <2>1. ss \in [1..Len(names) -> Seq(Nat)]
      <3>1. \A i \in 1..Len(names) : ss[i] \in Seq(Nat)
        BY <1>5, Zenon
      <3>2. ss = [i \in 1..Len(names) |-> ss[i]]
        BY <1>1 DEF InterfaceBytes
      <3> QED
        BY <3>1, <3>2, Zenon
    <2> QED
      BY <1>3, <2>1, FunctionIsSeq, Zenon
  <1>7. ASSUME NEW f \in Seq(Nat), NEW p, At(f, p, Format!Table(ss))
        PROVE  Counted(ClassReads(f, pool), f, p) = [at |-> p + Len(Format!Table(ss)), item |-> names]
    <2>1. p \in Nat
      BY <1>7, PositionFacts, Zenon
    <2>2. PICK read : read = ClassReads(f, pool)
      OBVIOUS
    <2>3. ASSUME NEW i \in 1..Len(ss), NEW q \in Nat, At(f, q, ss[i])
          PROVE  read[q] = [at |-> q + Len(ss[i]), item |-> names[i]]
      <3>0. i \in 1..Len(names)
        BY <1>6, Zenon
      <3>1. q \in Offsets(f)
        BY <1>5, <2>3, <3>0, AtOffsets, Zenon
      <3> QED
        BY <1>5, <2>2, <2>3, <3>0, <3>1, Zenon DEF ClassReads
    <2>4. GivesAll(f, read, ss, names)
      BY <1>6, <2>3, Zenon DEF GivesAll, Gives
    <2>5. Counted(read, f, p) = [at |-> p + Len(Format!Table(ss)), item |-> names]
      <3>1. ss \in Seq(Seq(Nat)) /\ names \in Seq(Texts) /\ Len(ss) \in Word
        BY <1>2, <1>6, Zenon
      <3> QED
        BY <1>7, <2>1, <2>4, <3>1, CountedIs
    <2> QED
      BY <2>2, <2>5, Zenon
  <1>8. Format!Table(ss) \in Seq(Nat)
    <2>1. Len(ss) \in Word
      BY <1>2, <1>6, Zenon
    <2> QED
      BY <1>6, <2>1, TableFacts, Zenon
  <1> QED
    BY <1>1, <1>2, <1>7, <1>8, Zenon

\* The name of the superclass, which java.lang.Object has not.
SuperBytes(cs, d) ==
    IF d.super = NoText THEN Format!U2(0) ELSE Format!U2(Format!Index(cs, Format!Name(7, d.super)))

LEMMA SuperIs ==
    ASSUME NEW cs, NEW C, NEW d, PooledAs(cs, C, d)
    PROVE  /\ SuperBytes(cs, d) \in Seq(Nat) /\ Len(SuperBytes(cs, d)) = 2 /\ d.super \in Names
           /\ \A f, p : At(f, p, SuperBytes(cs, d)) => ClassAt(Pool(cs), U2(f, p)) = d.super
  <1>1. d.super \in Texts \/ d.super = NoText
    BY SMT DEF PooledAs, DescriptionFits
  <1>2. \E n \in Word : SuperBytes(cs, d) = Format!U2(n) /\ ClassAt(Pool(cs), n) = d.super
    <2>1. CASE d.super = NoText
      BY <2>1, SmallWords, NoClassIsRead, Zenon DEF SuperBytes
    <2>2. CASE d.super # NoText
      <3>1. PICK n : n = Format!Index(cs, Format!Name(7, d.super))
        OBVIOUS
      <3>2. Numbered(cs, Format!Name(7, d.super))
        BY <2>2, Zenon DEF PooledAs, Required
      <3>3. n \in Word
        BY <3>1, PooledFacts, FitFacts, Zenon
      <3>4. ClassAt(Pool(cs), n) = d.super
        BY <1>1, <2>2, <3>1, <3>2, ClassIsRead, Zenon
      <3> QED
        BY <2>2, <3>1, <3>3, <3>4, Zenon DEF SuperBytes
    <2> QED
      BY <2>1, <2>2
  <1>3. d.super \in Names
    BY <1>1 DEF Names
  <1> QED
    BY <1>2, <1>3, U2Is, Zenon

LEMMA ClassNameIs ==
    ASSUME NEW cs, NEW C, NEW d, PooledAs(cs, C, d), NEW s,
           s = Format!U2(Format!Index(cs, Format!Name(7, d.name)))
    PROVE  /\ s \in Seq(Nat) /\ Len(s) = 2 /\ d.name \in Texts
           /\ \A f, p : At(f, p, s) => ClassAt(Pool(cs), U2(f, p)) = d.name
  <1>1. d.name \in Texts
    BY SMT DEF PooledAs, DescriptionFits
  <1>2. PICK n : n = Format!Index(cs, Format!Name(7, d.name))
    OBVIOUS
  <1>3. Numbered(cs, Format!Name(7, d.name))
    <2>1. PICK c : c = Format!Name(7, d.name)
      OBVIOUS
    <2>2. Required(c, d)
      BY <2>1, Zenon DEF Required
    <2> QED
      BY <2>1, <2>2, Zenon DEF PooledAs
  <1>4. n \in Word
    BY <1>2, PooledFacts, FitFacts, Zenon
  <1>5. ClassAt(Pool(cs), n) = d.name
    BY <1>1, <1>2, <1>3, ClassIsRead, Zenon
  <1> QED
    BY <1>1, <1>2, <1>4, <1>5, U2Is, Zenon

\* The name of the source file.
SourceInfo(cs, d) == Format!U2(Format!Index(cs, Format!Utf8(d.source)))
SourceBytes(cs, d) == Format!Table(<<Format!Attribute(cs, "SourceFile", SourceInfo(cs, d))>>)
SourceItem(cs, d) == [name |-> "SourceFile", info |-> SourceInfo(cs, d)]

LEMMA SourceIs ==
    ASSUME NEW cs, NEW C, NEW d, PooledAs(cs, C, d)
    PROVE  /\ ReadsAttributes(SourceBytes(cs, d), Pool(cs), <<SourceItem(cs, d)>>)
           /\ Named(<<SourceItem(cs, d)>>, "SourceFile") = <<SourceItem(cs, d)>>
           /\ TextAt(Pool(cs), U2(SourceItem(cs, d).info, 0)) = d.source
           /\ d.source \in Texts
  <1>1. d.source \in Texts
    BY SMT DEF PooledAs, DescriptionFits
  <1>2. PICK n, s : n = Format!Index(cs, Format!Utf8(d.source)) /\ s = SourceInfo(cs, d)
    OBVIOUS
  <1>3. n \in Word /\ TextAt(Pool(cs), n) = d.source
    BY <1>1, <1>2, PooledFacts, FitFacts, TextIsRead, Zenon
  <1>4. s = Format!U2(n)
    BY <1>2, Zenon DEF SourceInfo
  <1>5. s \in Seq(Nat) /\ Len(s) = 2 /\ U2(s, 0) = n
    <2>1. s \in Seq(Nat) /\ Len(s) = 2 /\ \A f, p : At(f, p, s) => U2(f, p) = n
      BY <1>3, <1>4, U2Is, Zenon
    <2>2. At(s, 0, s)
      BY <2>1, AtSelf, Zenon
    <2> QED
      BY <2>1, <2>2, Zenon
  <1>6. IsLong(Len(s))
    <2>1. IsShort(2)
      BY SMT DEF IsShort
    <2> QED
      BY <1>5, <2>1, ShortIsLong, Zenon
  <1>7. PICK r, a : r = SourceItem(cs, d) /\ a = Format!Attribute(cs, "SourceFile", s)
    OBVIOUS
  <1>8. r.name = "SourceFile" /\ r.info = s /\ "SourceFile" \in Texts
    BY <1>2, <1>7, FilesAssumption DEF SourceItem
  <1>9. ReadsAttribute(a, Pool(cs), r) /\ r \in Infos
    <2>1. ReadsAttribute(a, Pool(cs), [name |-> "SourceFile", info |-> s])
      BY <1>5, <1>6, <1>7, <1>8, AttributeIs, Zenon
    <2>2. r = [name |-> "SourceFile", info |-> s]
      BY <1>2, <1>7, Zenon DEF SourceItem
    <2>3. r \in Infos
      BY <1>5, <1>8, <2>2 DEF Infos, Names
    <2> QED
      BY <2>1, <2>2, <2>3, Zenon
  <1>10. PICK ss, items : ss = <<a>> /\ items = <<r>>
    OBVIOUS
  <1>11. ReadsAll(ss, Pool(cs), items)
    BY <1>9, <1>10, FewAreRead, Zenon
  <1>12. ReadsAttributes(Format!Table(ss), Pool(cs), items)
    BY <1>11, AttributesAre DEF ReadsAll
  <1>13. Format!Table(ss) = SourceBytes(cs, d)
    BY <1>2, <1>7, <1>10, Zenon DEF SourceBytes
  <1>14. Named(<<r>>, "SourceFile") = <<r>>
    BY <1>8, NamedFew, Zenon
  <1> QED
    BY <1>1, <1>3, <1>5, <1>7, <1>8, <1>10, <1>12, <1>13, <1>14, Zenon

\* What is read for class d.
LoadedAs(cs, d) ==
    [name |-> d.name, super |-> d.super, interfaces |-> d.interfaces,
     fields |-> MemberItems(cs, d.fields), methods |-> MemberItems(cs, d.methods), flags |-> 1,
     source |-> d.source, pool |-> Pool(cs)]

LEMMA MembersFit ==
    ASSUME NEW cs, NEW C, NEW d, PooledAs(cs, C, d), NEW ms, ms = d.fields \/ ms = d.methods
    PROVE  /\ ms \in Seq(Range(ms)) /\ Len(ms) \in Word
           /\ \A i \in 1..Len(ms) : MemberPooled(cs, C, d, ms[i])
  <1>1. /\ ms \in Seq(Range(ms)) /\ Len(ms) \in Word
        /\ \A m \in Range(ms) : MemberFits(m)
    <2>1. /\ d.fields \in Few(Range(d.fields)) /\ d.methods \in Few(Range(d.methods))
          /\ \A m \in Range(d.fields) \cup Range(d.methods) : MemberFits(m)
      BY Zenon DEF PooledAs, DescriptionFits
    <2>2. ms \in Few(Range(ms)) /\ \A m \in Range(ms) : MemberFits(m)
      BY <2>1, Zenon
    <2> QED
      BY <2>2, Zenon DEF Few
  <1>2. \A S : \A s \in Seq(S) : \A i \in 1..Len(s) : s[i] \in S
    OBVIOUS
  <1>3. \A i \in 1..Len(ms) : MemberFits(ms[i])
    BY <1>1, <1>2, Zenon
  <1> QED
    BY <1>1, <1>3, Zenon DEF MemberPooled

LEMMA ClassFileIs ==
    ASSUME NEW d, NEW cs, cs = Format!Constants(d), NEW C, Fit(cs, C)
    PROVE  Parts(Format!ClassFile(d), Beginning, Format!U2(1 + Len(Format!Places(cs))),
                 FlattenSeq(Bytes(cs)), Format!U2(1),
                 Format!U2(Format!Index(cs, Format!Name(7, d.name))), SuperBytes(cs, d),
                 Format!Table(InterfaceBytes(cs, d)), Format!Table(MemberBytes(cs, d.fields)),
                 Format!Table(MemberBytes(cs, d.methods)), SourceBytes(cs, d))
  <1>1. Format!FlattenSeq(Bytes(cs)) = FlattenSeq(Bytes(cs))
    BY FitFacts, FlattenFacts, Zenon
  <1>2. PICK b, k, x, y, z, ti, tf, tm, ta, u :
            /\ b = Beginning /\ k = FlattenSeq(Bytes(cs)) /\ x = Format!U2(1)
            /\ y = Format!U2(Format!Index(cs, Format!Name(7, d.name))) /\ z = SuperBytes(cs, d)
            /\ ti = Format!Table(InterfaceBytes(cs, d)) /\ tf = Format!Table(MemberBytes(cs, d.fields))
            /\ tm = Format!Table(MemberBytes(cs, d.methods)) /\ ta = SourceBytes(cs, d)
            /\ u = Format!U2(1 + Len(Format!Places(cs)))
    OBVIOUS
  <1>3. /\ b = (<<202, 254, 186, 190>> \o Format!U2(0)) \o Format!U2(52)
        /\ k = Format!FlattenSeq([i \in 1..Len(cs) |-> Format!Constant(cs, cs[i])])
        /\ z = (IF d.super = NoText THEN Format!U2(0)
                ELSE Format!U2(Format!Index(cs, Format!Name(7, d.super))))
        /\ ti = Format!Table([i \in 1..Len(d.interfaces) |->
                    Format!U2(Format!Index(cs, Format!Name(7, d.interfaces[i])))])
        /\ tf = Format!Table([i \in 1..Len(d.fields) |-> Format!Member(cs, d.fields[i])])
        /\ tm = Format!Table([i \in 1..Len(d.methods) |-> Format!Member(cs, d.methods[i])])
        /\ ta = Format!Table(<<Format!Attribute(cs, "SourceFile",
                                                Format!U2(Format!Index(cs, Format!Utf8(d.source))))>>)
    BY <1>1, <1>2, SMT DEF Beginning, Magic, Bytes, SuperBytes, InterfaceBytes, MemberBytes, SourceBytes,
                           SourceInfo
  <1>4. Format!ClassFile(d)
            = ((((((((b \o u) \o k) \o x) \o y) \o z) \o ti) \o tf) \o tm) \o ta
    BY <1>2, <1>3, SMT DEF Format!ClassFile
  <1> QED
    BY <1>2, <1>4, Zenon DEF Parts

\* What follows the pool in the file f, from offset q.
Follows(f, q, pool, d, cs) ==
    LET interfaces == Counted(ClassReads(f, pool), f, q + 6)
        fields == ReadMembers(f, pool, interfaces.at)
        methods == ReadMembers(f, pool, fields.at)
        attributes == ReadAttributes(f, pool, methods.at)
    IN  /\ U2(f, q) = 1 /\ ClassAt(pool, U2(f, q + 2)) = d.name /\ ClassAt(pool, U2(f, q + 4)) = d.super
        /\ interfaces.item = d.interfaces /\ fields.item = MemberItems(cs, d.fields)
        /\ methods.item = MemberItems(cs, d.methods) /\ attributes.item = <<SourceItem(cs, d)>>

LEMMA FileIs ==
    ASSUME NEW d, NEW cs, NEW C, PooledAs(cs, C, d), NEW f, f = Format!ClassFile(d)
    PROVE  \E q : /\ SubSeq(f, 1, 4) = Magic
                  /\ ReadPool(f, 8) = [at |-> q, item |-> Raw(cs)]
                  /\ Follows(f, q, Pool(cs), d, cs)
  <1>1. Fit(cs, C) /\ cs = Format!Constants(d)
    BY Zenon DEF PooledAs
  <1>2. PICK u, k, x, y, z, ti, tf, tm, ta, pool, n :
            /\ n = 1 + Len(Format!Places(cs)) /\ u = Format!U2(n)
            /\ k = FlattenSeq(Bytes(cs)) /\ x = Format!U2(1)
            /\ y = Format!U2(Format!Index(cs, Format!Name(7, d.name))) /\ z = SuperBytes(cs, d)
            /\ ti = Format!Table(InterfaceBytes(cs, d)) /\ tf = Format!Table(MemberBytes(cs, d.fields))
            /\ tm = Format!Table(MemberBytes(cs, d.methods)) /\ ta = SourceBytes(cs, d)
            /\ pool = Pool(cs)
    OBVIOUS
  <1>3. Parts(f, Beginning, u, k, x, y, z, ti, tf, tm, ta)
    <2>1. Parts(Format!ClassFile(d), Beginning, Format!U2(1 + Len(Format!Places(cs))),
                 FlattenSeq(Bytes(cs)), Format!U2(1),
                 Format!U2(Format!Index(cs, Format!Name(7, d.name))), SuperBytes(cs, d),
                 Format!Table(InterfaceBytes(cs, d)), Format!Table(MemberBytes(cs, d.fields)),
                 Format!Table(MemberBytes(cs, d.methods)), SourceBytes(cs, d))
      BY <1>1, ClassFileIs
    <2> QED
      BY <1>2, <2>1, Zenon
  <1>4. n \in Word
    BY <1>1, <1>2, Zenon DEF Fit
  <1>5. /\ u \in Seq(Nat) /\ Len(u) = 2
        /\ \A g, p : At(g, p, u) => U2(g, p) = n
    BY <1>2, <1>4, U2Is, Zenon
  <1>6. k \in Seq(Nat) /\ Len(k) \in Nat
    <2>1. k \in Seq(Nat)
      BY <1>1, <1>2, FitFacts, FlattenFacts, Zenon
    <2> QED
      BY <2>1
  <1>7. /\ x \in Seq(Nat) /\ Len(x) = 2
        /\ \A g, p : At(g, p, x) => U2(g, p) = 1
    BY <1>2, SmallWords, U2Is, Zenon
  <1>8. /\ y \in Seq(Nat) /\ Len(y) = 2
        /\ \A g, p : At(g, p, y) => ClassAt(pool, U2(g, p)) = d.name
    BY <1>2, ClassNameIs
  <1>9. /\ z \in Seq(Nat) /\ Len(z) = 2
        /\ \A g, p : At(g, p, z) => ClassAt(pool, U2(g, p)) = d.super
    BY <1>2, SuperIs, Zenon
  <1>10. /\ ti \in Seq(Nat)
         /\ \A g \in Seq(Nat) : \A p : At(g, p, ti) =>
                Counted(ClassReads(g, pool), g, p) = [at |-> p + Len(ti), item |-> d.interfaces]
    BY <1>2, InterfacesAre, Zenon
  <1>11. ReadsMembers(tf, pool, MemberItems(cs, d.fields))
    BY <1>2, MembersFit, MembersAre, Zenon
  <1>12. ReadsMembers(tm, pool, MemberItems(cs, d.methods))
    BY <1>2, MembersFit, MembersAre, Zenon
  <1>13. ReadsAttributes(ta, pool, <<SourceItem(cs, d)>>)
    BY <1>2, SourceIs, Zenon
  <1>14. PICK q : q = 10 + Len(k)
    OBVIOUS
  <1>15. Lengths(Beginning, u, x, y, z)
    BY <1>5, <1>7, <1>8, <1>9, HeadIs, Zenon DEF Lengths
  <1>16. /\ tf \in Seq(Nat) /\ tm \in Seq(Nat) /\ ta \in Seq(Nat) /\ Beginning \in Seq(Nat)
    BY <1>11, <1>12, <1>13, HeadIs, Zenon DEF ReadsMembers, ReadsAttributes
  <1>17. /\ f \in Seq(Nat) /\ At(f, 0, Beginning) /\ At(f, 8, u) /\ At(f, 10, k) /\ q \in Nat
         /\ At(f, q, x) /\ At(f, q + 2, y) /\ At(f, q + 4, z) /\ At(f, q + 6, ti)
         /\ At(f, (q + 6) + Len(ti), tf) /\ At(f, ((q + 6) + Len(ti)) + Len(tf), tm)
         /\ At(f, (((q + 6) + Len(ti)) + Len(tf)) + Len(tm), ta)
    <2>1. /\ u \in Seq(Nat) /\ k \in Seq(Nat) /\ x \in Seq(Nat) /\ y \in Seq(Nat) /\ z \in Seq(Nat)
          /\ ti \in Seq(Nat) /\ tf \in Seq(Nat) /\ tm \in Seq(Nat) /\ ta \in Seq(Nat)
          /\ Beginning \in Seq(Nat)
      BY <1>5, <1>6, <1>7, <1>8, <1>9, <1>10, <1>16, Zenon
    <2>2. AllAt(f, Beginning, u, k, x, y, z, ti, tf, tm, ta, q)
      BY <1>3, <1>14, <1>15, <2>1, PartsAt
    <2> QED
      BY <2>2 DEF AllAt
  <1>18. SubSeq(f, 1, 4) = Magic
    BY <1>17, HeadIs, Zenon
  <1>19. ReadPool(f, 8) = [at |-> q, item |-> Raw(cs)]
    <2>1. PICK e, t : e = 8 /\ t = 10
      OBVIOUS
    <2>2. e \in Nat /\ e + 2 = t
      BY <2>1
    <2>3. U2(f, e) = Len(Format!Places(cs)) + 1
      <3>1. U2(f, e) = n
        BY <1>5, <1>17, <2>1
      <3>2. Len(Format!Places(cs)) \in Nat
        BY <1>1, BlocksFacts DEF Fit
      <3>3. n = Len(Format!Places(cs)) + 1
        BY <1>2, <3>2
      <3> QED
        BY <3>1, <3>3, Zenon
    <2>4. At(f, e + 2, FlattenSeq(Bytes(cs)))
      <3>1. At(f, t, k)
        BY <1>17, <2>1
      <3> QED
        BY <1>2, <2>2, <3>1, Zenon
    <2>5. ReadPool(f, e) = [at |-> (e + 2) + Len(FlattenSeq(Bytes(cs))),
                            item |-> PoolOf(cs, Format!Places(cs))]
      BY <1>1, <1>17, <2>2, <2>3, <2>4, PoolIs
    <2>6. (e + 2) + Len(k) = q
      BY <1>14, <2>1
    <2>7. ReadPool(f, e) = [at |-> q, item |-> Raw(cs)]
      BY <1>2, <2>5, <2>6, Zenon DEF Raw
    <2> QED
      BY <2>1, <2>7
  <1>20. Follows(f, q, pool, d, cs)
    <2>1. PICK p0, p1, p2, p3 : /\ p0 = q + 6 /\ p1 = p0 + Len(ti)
                                /\ p2 = p1 + Len(tf) /\ p3 = p2 + Len(tm)
      OBVIOUS
    <2>2. At(f, p0, ti) /\ At(f, p1, tf) /\ At(f, p2, tm) /\ At(f, p3, ta)
      BY <1>17, <2>1, Zenon
    <2>3. Counted(ClassReads(f, pool), f, p0) = [at |-> p1, item |-> d.interfaces]
      BY <1>10, <1>17, <2>1, <2>2, Zenon
    <2>4. ReadMembers(f, pool, p1) = [at |-> p2, item |-> MemberItems(cs, d.fields)]
      BY <1>11, <1>17, <2>1, <2>2, Zenon DEF ReadsMembers
    <2>5. ReadMembers(f, pool, p2) = [at |-> p3, item |-> MemberItems(cs, d.methods)]
      BY <1>12, <1>17, <2>1, <2>2, Zenon DEF ReadsMembers
    <2>6. ReadAttributes(f, pool, p3) = [at |-> p3 + Len(ta), item |-> <<SourceItem(cs, d)>>]
      BY <1>13, <1>17, <2>2, Zenon DEF ReadsAttributes
    <2>7. U2(f, q) = 1
      BY <1>7, <1>17, Zenon
    <2>8. ClassAt(pool, U2(f, q + 2)) = d.name /\ ClassAt(pool, U2(f, q + 4)) = d.super
      BY <1>8, <1>9, <1>17, Zenon
    <2>9. PICK interfaces : interfaces = Counted(ClassReads(f, pool), f, q + 6)
      OBVIOUS
    <2>10. interfaces.at = p1 /\ interfaces.item = d.interfaces
      BY <2>1, <2>3, <2>9
    <2>11. PICK fields : fields = ReadMembers(f, pool, interfaces.at)
      OBVIOUS
    <2>12. fields.at = p2 /\ fields.item = MemberItems(cs, d.fields)
      BY <2>4, <2>10, <2>11
    <2>13. PICK methods : methods = ReadMembers(f, pool, fields.at)
      OBVIOUS
    <2>14. methods.at = p3 /\ methods.item = MemberItems(cs, d.methods)
      BY <2>5, <2>12, <2>13
    <2>15. ReadAttributes(f, pool, methods.at).item = <<SourceItem(cs, d)>>
      BY <2>6, <2>14
    <2> QED
      BY <2>7, <2>8, <2>9, <2>10, <2>11, <2>12, <2>13, <2>14, <2>15, Zenon DEF Follows
  <1> QED
    BY <1>2, <1>18, <1>19, <1>20, Zenon

LEMMA LoadIs ==
    ASSUME NEW d, NEW cs, NEW C, PooledAs(cs, C, d)
    PROVE  Load(Format!ClassFile(d)) = LoadedAs(cs, d)
  <1>1. PICK f : f = Format!ClassFile(d)
    OBVIOUS
  <1>2. PICK q : /\ SubSeq(f, 1, 4) = Magic
                 /\ ReadPool(f, 8) = [at |-> q, item |-> Raw(cs)]
                 /\ Follows(f, q, Pool(cs), d, cs)
    BY <1>1, FileIs
  <1>3. PICK pool, r : pool = Pool(cs) /\ r = SourceItem(cs, d)
    OBVIOUS
  <1>4. ReadPool(f, 8).at = q /\ Processed(ReadPool(f, 8).item) = pool
    <2>1. ReadPool(f, 8).at = q /\ ReadPool(f, 8).item = Raw(cs)
      BY <1>2
    <2> QED
      BY <1>3, <2>1, Zenon DEF Pool
  <1>5. PICK interfaces : interfaces = Counted(ClassReads(f, pool), f, q + 6)
    OBVIOUS
  <1>6. PICK fields : fields = ReadMembers(f, pool, interfaces.at)
    OBVIOUS
  <1>7. PICK methods : methods = ReadMembers(f, pool, fields.at)
    OBVIOUS
  <1>8. PICK attributes : attributes = ReadAttributes(f, pool, methods.at)
    OBVIOUS
  <1>9. /\ U2(f, q) = 1 /\ ClassAt(pool, U2(f, q + 2)) = d.name /\ ClassAt(pool, U2(f, q + 4)) = d.super
        /\ interfaces.item = d.interfaces /\ fields.item = MemberItems(cs, d.fields)
        /\ methods.item = MemberItems(cs, d.methods) /\ attributes.item = <<r>>
    BY <1>2, <1>3, <1>5, <1>6, <1>7, <1>8, Zenon DEF Follows
  <1>10. /\ Named(<<r>>, "SourceFile") = <<r>> /\ TextAt(pool, U2(r.info, 0)) = d.source
         /\ d.source \in Texts
    BY <1>3, SourceIs, Zenon
  <1>11. Kept(d.interfaces, Texts) = d.interfaces
    BY InterfacesAre, KeepsAll, Zenon
  <1>12. d.name # NoText
    <2>1. d.name \in Texts
      BY ClassNameIs
    <2> QED
      BY <2>1, EncodingAssumption
  <1>13. <<r>> # <<>> /\ <<r>>[1] = r
    OBVIOUS
  <1>14. SubSeq(f, 1, 4) = Magic
    BY <1>2, Zenon
  <1>15. Load(f) = [name |-> ClassAt(pool, U2(f, q + 2)), super |-> ClassAt(pool, U2(f, q + 4)),
                    interfaces |-> Kept(interfaces.item, Texts),
                    fields |-> fields.item, methods |-> methods.item, flags |-> U2(f, q),
                    source |-> IF Named(attributes.item, "SourceFile") = <<>> THEN NoText
                               ELSE TextAt(pool, U2(Named(attributes.item, "SourceFile")[1].info, 0)),
                    pool |-> pool]
    <2>1. ~(SubSeq(f, 1, 4) # Magic \/ ClassAt(pool, U2(f, q + 2)) = NoText)
      BY <1>9, <1>12, <1>14, Zenon
    <2>2. ClassReads(f, pool)
              = [p \in Offsets(f) |-> [at |-> p + 2, item |-> ClassAt(pool, U2(f, p))]]
      BY Zenon DEF ClassReads
    <2> QED
      BY <1>4, <1>5, <1>6, <1>7, <1>8, <2>1, <2>2, ZenonT(60) DEF Load
  <1>16. Load(f) = LoadedAs(cs, d)
    BY <1>3, <1>9, <1>10, <1>11, <1>13, <1>15, Zenon DEF LoadedAs
  <1> QED
    BY <1>1, <1>16, Zenon

\* What is read for a class is what was written, whatever the classes are.
LEMMA LoadedIsRead ==
    ASSUME NEW d \in Descriptions
    PROVE  ClassRead(Load(Format!ClassFile(d)), d)
  <1>1. PICK cs, C : cs = Format!Constants(d) /\ C = Possible(d)
    OBVIOUS
  <1>2. PooledAs(cs, C, d) /\ Fit(cs, C)
    <2>1. DescriptionFits(d)
      BY FilesAssumption
    <2> QED
      BY <1>1, <2>1, ClassConstants, Zenon DEF PooledAs
  <1>3. PICK t : t = LoadedAs(cs, d)
    OBVIOUS
  <1>4. Load(Format!ClassFile(d)) = t
    BY <1>2, <1>3, LoadIs
  <1>5. /\ t.name = d.name /\ t.super = d.super /\ t.interfaces = d.interfaces /\ t.source = d.source
        /\ t.fields = MemberItems(cs, d.fields) /\ t.methods = MemberItems(cs, d.methods)
        /\ t.pool = Pool(cs)
    BY <1>3 DEF LoadedAs
  <1>6. ASSUME NEW ms, ms = d.fields \/ ms = d.methods
        PROVE  /\ Len(MemberItems(cs, ms)) = Len(ms) /\ MemberItems(cs, ms) \in Seq(Members)
               /\ \A i \in DOMAIN ms : MemberRead(MemberItems(cs, ms)[i], ms[i], Pool(cs))
    <2>1. /\ ms \in Seq(Range(ms)) /\ \A i \in 1..Len(ms) : MemberPooled(cs, C, d, ms[i])
      BY <1>2, <1>6, MembersFit
    <2>2. Len(ms) \in Nat /\ DOMAIN ms = 1..Len(ms)
      BY <2>1
    <2>3. \A i \in 1..Len(ms) : /\ MemberRead(MemberItem(cs, ms[i]), ms[i], Pool(cs))
                                /\ MemberItem(cs, ms[i]) \in Members
      BY <2>1, MemberItemIsRead, Zenon
    <2>4. MemberItems(cs, ms) \in [1..Len(ms) -> Members]
      BY <2>3, Zenon DEF MemberItems
    <2>5. MemberItems(cs, ms) \in Seq(Members) /\ Len(MemberItems(cs, ms)) = Len(ms)
      BY <2>2, <2>4, FunctionIsSeq, Zenon
    <2>6. \A i \in DOMAIN ms : MemberRead(MemberItems(cs, ms)[i], ms[i], Pool(cs))
      BY <2>2, <2>3, Zenon DEF MemberItems
    <2> QED
      BY <2>5, <2>6, Zenon
  <1>7. t # NoItem
    <2>1. /\ d.name \in Names /\ d.super \in Names /\ d.source \in Names
          /\ d.interfaces \in Seq(Names)
      <3>1. /\ d.super \in Names /\ d.source \in Texts /\ d.interfaces \in Seq(Texts)
        BY <1>2, SuperIs, SourceIs, InterfacesAre, Zenon
      <3>2. d.name \in Texts
        BY <1>2, ClassNameIs
      <3>3. \A x \in Texts : x \in Names
        BY DEF Names
      <3>4. d.interfaces \in Seq(Names)
        BY <3>1, WiderSeq, Zenon DEF Names
      <3> QED
        BY <3>1, <3>2, <3>3, <3>4, Zenon
    <2>2. Pool(cs) \in Seq(Pooled)
      BY <1>2, PoolType, Zenon
    <2>3. 1 \in Nat
      OBVIOUS
    <2>4. MemberItems(cs, d.fields) \in Seq(Members) /\ MemberItems(cs, d.methods) \in Seq(Members)
      BY <1>6, Zenon
    <2>5. t \in Loaded
      BY <1>3, <2>1, <2>2, <2>3, <2>4, Zenon DEF LoadedAs, Loaded
    <2> QED
      BY <2>5, NoItemAssumption, Zenon
  <1>8. ASSUME NEW p \in Numbering[d] PROVE ConstantRead(Pool(cs), p)
    <2>1. PICK c \in Used(d) : p = <<Format!Index(cs, c), c>>
      BY <1>1, <1>8 DEF Numbering, Used
    <2>2. MeaningsAreRead(c)
      BY NamesAreRead, Zenon DEF Used
    <2>3. ConstantRead(Pool(cs), <<Format!Index(cs, c), c>>)
      BY <1>2, <2>2, ConstantIsRead
    <2> QED
      BY <2>1, <2>3, Zenon
  <1>9. ClassRead(t, d)
    BY <1>5, <1>6, <1>7, <1>8, Zenon DEF ClassRead
  <1> QED
    BY <1>4, <1>9, Zenon

\* Reading a class file gives what the compiler wrote, for every class that
\* fits into one: the pool, the fields and methods with their attributes, what
\* the constants refer to, the types they name and the parameters that
\* descriptors have.
THEOREM FilesAreReadHolds == FilesAreRead
  <1>1. \A d \in Descriptions : ReadClass[d] = Load(Format!ClassFile(d))
    BY Zenon DEF ReadClass
  <1> QED
    BY <1>1, LoadedIsRead, Zenon DEF FilesAreRead

=============================================================================
