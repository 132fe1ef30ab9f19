---------------------------- MODULE ProgramProofs ----------------------------
(***************************************************************************)
(* Proofs about Program.                                                   *)
(***************************************************************************)
EXTENDS ReaderProofs

-----------------------------------------------------------------------------
(* Integers in two's complement                                            *)

\* Half of the numbers of w bits are negative.
LEMMA Halved ==
    ASSUME NEW w \in Nat \ {0}
    PROVE  /\ Pow[w - 1] \in Nat \ {0} /\ Pow[w] \in Nat \ {0}
           /\ Pow[w] = 2 * Pow[w - 1]
           /\ Java!Ints(w) = -(Pow[w - 1]) .. (Pow[w - 1] - 1)
  <1>1. w - 1 \in Nat /\ (w - 1) + 1 = w
    OBVIOUS
  <1> QED
    BY <1>1, PowFacts, SamePow DEF Java!Ints

LEMMA IntsAreIntegers == \A w \in Nat \ {0} : Java!Ints(w) \subseteq Int
  BY Halved

LEMMA ZeroIsOne == \A w \in Nat \ {0} : 0 \in Java!Ints(w)
  BY Halved

LEMMA NarrowFacts ==
    ASSUME NEW w \in Nat \ {0}, NEW n \in Int
    PROVE  Narrow(w, n) \in Java!Ints(w) /\ Narrow(w, n) % Pow[w] = n % Pow[w]
  <1>1. PICK h \in Nat \ {0} : h = Pow[w - 1] /\ Pow[w] = 2 * h
                                 /\ Java!Ints(w) = -h .. (h - 1)
    BY Halved
  <1>2. PICK m \in Nat \ {0} : m = Pow[w] /\ m = 2 * h
    BY <1>1
  <1>3. PICK q \in Int, r \in 0..(m - 1) :
            q = (n + h) \div m /\ r = (n + h) % m /\ n + h = (m * q) + r
    <2>1. n + h \in Int
      OBVIOUS
    <2> QED
      BY <2>1, Divides
  <1>4. Narrow(w, n) = r - h
    BY <1>1, <1>2, <1>3 DEF Narrow
  <1>5. r - h \in -h .. (h - 1)
    BY <1>2, <1>3
  <1>6. r - h = n + (m * (-q))
    BY <1>3
  <1>7. (r - h) % m = n % m
    <2>1. -q \in Int
      OBVIOUS
    <2>2. (n + (m * (-q))) % m = n % m
      BY <2>1, MultiplesVanish
    <2> QED
      BY <1>6, <2>2
  <1> QED
    BY <1>1, <1>2, <1>4, <1>5, <1>7

\* Of the numbers of w bits only one has a given remainder.
LEMMA OneOfWidth ==
    ASSUME NEW w \in Nat \ {0}, NEW i \in Java!Ints(w), NEW j \in Java!Ints(w),
           i % Pow[w] = j % Pow[w]
    PROVE  i = j
  <1>1. PICK h \in Nat \ {0} : h = Pow[w - 1] /\ Pow[w] = 2 * h
                                 /\ Java!Ints(w) = -h .. (h - 1)
    BY Halved
  <1>2. PICK m \in Nat \ {0} : m = Pow[w] /\ m = 2 * h
    BY <1>1
  <1>3. i \in -h .. (h - 1) /\ j \in -h .. (h - 1) /\ i \in Int /\ j \in Int
    BY <1>1
  <1>4. PICK q \in Int : i = j + (m * q)
    <2>1. i % m = j % m
      BY <1>2
    <2> QED
      BY <1>3, <2>1, SameRemainder
  <1>5. i - j < m /\ j - i < m
    BY <1>2, <1>3
  <1>6. q = 0
    BY <1>2, <1>3, <1>4, <1>5
  <1> QED
    BY <1>3, <1>4, <1>6

\* A number of w bits that differs from n by a multiple of 2^w is what Java
\* makes of n.
LEMMA SignedIs ==
    ASSUME NEW w \in Nat \ {0}, NEW n \in Int, NEW i \in Java!Ints(w),
           i % Pow[w] = n % Pow[w]
    PROVE  Java!Signed(w, n) = i
  <1>1. \E j \in Java!Ints(w) : j % Pow[w] = n % Pow[w]
    OBVIOUS
  <1>2. Java!Signed(w, n) = CHOOSE j \in Java!Ints(w) : j % Pow[w] = n % Pow[w]
    BY SamePow, Zenon DEF Java!Signed
  <1>3. PICK j \in Java!Ints(w) : j = Java!Signed(w, n) /\ j % Pow[w] = n % Pow[w]
    BY <1>1, <1>2
  <1> QED
    BY <1>3, OneOfWidth

LEMMA SignedNarrows ==
    ASSUME NEW w \in Nat \ {0}, NEW n \in Int
    PROVE  Java!Signed(w, n) = Narrow(w, n)
  BY NarrowFacts, SignedIs

LEMMA SignedKeeps ==
    ASSUME NEW w \in Nat \ {0}, NEW n \in Java!Ints(w)
    PROVE  Java!Signed(w, n) = n
  <1>1. n \in Int
    BY Halved
  <1> QED
    BY <1>1, SignedIs

\* The widths of int and long, and what shifts take of their counts.
LEMMA Widths ==
    /\ ShiftBits \in Nat /\ Bits \in Nat \ {0} /\ 2 * Bits \in Nat \ {0}
    /\ ByteBits \in Nat \ {0} /\ ByteBits <= Bits
    /\ Java!Pow[ShiftBits] = Bits /\ Java!Pow[ShiftBits + 1] = 2 * Bits
  <1>1. ShiftBits \in Nat /\ Bits = Pow[ShiftBits] /\ ByteBits \in 1..Bits
    BY NumbersAssumption
  <1> QED
    BY <1>1, PowFacts, SamePow

\* A number of fewer bits is also one of more.
LEMMA Wider ==
    ASSUME NEW v \in Nat \ {0}, NEW k \in Nat
    PROVE  Java!Ints(v) \subseteq Java!Ints(v + k)
  <1>1. v - 1 \in Nat /\ v + k \in Nat \ {0} /\ (v + k) - 1 = (v - 1) + k
    OBVIOUS
  <1>2. Pow[(v + k) - 1] = Pow[v - 1] * Pow[k]
    BY <1>1, PowOfSum
  <1>3. PICK h \in Nat \ {0}, p \in Nat \ {0} : h = Pow[v - 1] /\ p = Pow[k]
    BY <1>1, PowFacts
  <1>4. h <= h * p
    BY <1>3
  <1>5. Java!Ints(v) = -h .. (h - 1)
    BY <1>3, Halved
  <1>6. Java!Ints(v + k) = -(h * p) .. ((h * p) - 1)
    BY <1>1, <1>2, <1>3, Halved
  <1>7. PICK g \in Int : g = h * p /\ h <= g
    BY <1>3, <1>4
  <1>8. -h .. (h - 1) \subseteq -g .. (g - 1)
    BY <1>7
  <1> QED
    BY <1>5, <1>6, <1>7, <1>8

-----------------------------------------------------------------------------
(* Division                                                                *)

LEMMA Products ==
    ASSUME NEW b \in Nat \ {0}, NEW k \in Int
    PROVE  /\ b * k \in Int /\ k * b = b * k /\ (-k) * (-b) = b * k
           /\ k * (-b) = -(b * k) /\ (-k) * b = -(b * k)
           /\ k <= -1 => b * k <= -b
           /\ k >= 0 => b * k >= k
           /\ b # 1 /\ k >= 1 => b * k >= k + 1
  <1>1. k <= -1 => b * k <= -b
    OBVIOUS
  <1>2. k >= 0 => b * k >= k
    OBVIOUS
  <1>3. ASSUME b # 1, k >= 1 PROVE b * k >= k + 1
    <2>1. b - 1 \in Nat \ {0} /\ k \in Nat
      BY <1>3
    <2>2. (b - 1) * k >= k
      BY <2>1
    <2>3. b * k = ((b - 1) * k) + k
      OBVIOUS
    <2> QED
      BY <1>3, <2>2, <2>3
  <1>4. b * k \in Int /\ k * b = b * k
    OBVIOUS
  <1>5. (-k) * (-b) = b * k
    OBVIOUS
  <1>6. k * (-b) = -(b * k)
    OBVIOUS
  <1>7. (-k) * b = -(b * k)
    OBVIOUS
  <1> QED
    BY <1>1, <1>2, <1>3, <1>4, <1>5, <1>6, <1>7

\* The quotient of a natural number lies between it and zero.
LEMMA QuotientOfMagnitudes ==
    ASSUME NEW a \in Nat, NEW b \in Nat \ {0}
    PROVE  \E k \in Nat, r \in 0..(b - 1) :
               /\ k = a \div b /\ a = (b * k) + r
               /\ k <= a /\ (b # 1 /\ a # 0 => k < a)
  <1>1. PICK k \in Int, r \in 0..(b - 1) : k = a \div b /\ r = a % b /\ a = (b * k) + r
    BY Divides
  <1>2. a = (b * k) + r
    BY <1>1
  <1>3. /\ b * k \in Int
        /\ k <= -1 => b * k <= -b
        /\ k >= 0 => b * k >= k
        /\ b # 1 /\ k >= 1 => b * k >= k + 1
    BY Products
  <1>4. k \in Nat
    BY <1>2, <1>3
  <1>5. k <= a /\ (b # 1 /\ a # 0 => k < a)
    BY <1>2, <1>3, <1>4
  <1> QED
    BY <1>1, <1>4, <1>5

\* Rounding the quotient of the magnitudes towards zero.
LEMMA RoundedFacts ==
    ASSUME NEW x \in Int, NEW y \in Int \ {0}
    PROVE  /\ Rounded(x, y) \in Int
           /\ Java!IsQuotient(Rounded(x, y), x, y)
           /\ Rounded(x, y) \in -Java!Abs(x) .. Java!Abs(x)
           /\ y # 1 /\ y # -1 /\ x # 0 => Java!Abs(Rounded(x, y)) < Java!Abs(x)
  <1>1. PICK a \in Nat, b \in Nat \ {0} :
            /\ a = Magnitude(x) /\ b = Magnitude(y)
            /\ a = Java!Abs(x) /\ b = Java!Abs(y)
            /\ x = (IF x < 0 THEN -a ELSE a) /\ y = (IF y < 0 THEN -b ELSE b)
    BY DEF Magnitude, Java!Abs
  <1>2. PICK k \in Nat, r \in 0..(b - 1) :
            /\ k = Magnitude(x) \div Magnitude(y) /\ a = (b * k) + r
            /\ k <= a /\ (b # 1 /\ a # 0 => k < a)
    <2>1. \E k \in Nat, r \in 0..(b - 1) :
              /\ k = a \div b /\ a = (b * k) + r
              /\ k <= a /\ (b # 1 /\ a # 0 => k < a)
      BY QuotientOfMagnitudes
    <2> QED
      BY <1>1, <2>1, Zenon
  <1>3. k <= a /\ (b # 1 /\ a # 0 => k < a) /\ a = (b * k) + r
    BY <1>2
  <1>4. Rounded(x, y) = (IF (x < 0) = (y < 0) THEN 1 ELSE -1) * k
    BY <1>2, Zenon DEF Rounded
  <1>5. Rounded(x, y) * y = IF x < 0 THEN -(b * k) ELSE b * k
    <2>1. /\ k * b = b * k /\ (-k) * (-b) = b * k
          /\ k * (-b) = -(b * k) /\ (-k) * b = -(b * k)
      BY Products
    <2>2. CASE x < 0 /\ y < 0
      <3>1. Rounded(x, y) = k /\ y = -b
        BY <1>1, <1>4, <2>2
      <3> QED
        BY <2>1, <2>2, <3>1
    <2>3. CASE x < 0 /\ ~(y < 0)
      <3>1. Rounded(x, y) = -k /\ y = b
        BY <1>1, <1>4, <2>3
      <3> QED
        BY <2>1, <2>3, <3>1
    <2>4. CASE ~(x < 0) /\ y < 0
      <3>1. Rounded(x, y) = -k /\ y = -b
        BY <1>1, <1>4, <2>4
      <3> QED
        BY <2>1, <2>4, <3>1
    <2>5. CASE ~(x < 0) /\ ~(y < 0)
      <3>1. Rounded(x, y) = k /\ y = b
        BY <1>1, <1>4, <2>5
      <3> QED
        BY <2>1, <2>5, <3>1
    <2> QED
      BY <2>2, <2>3, <2>4, <2>5
  <1>6. x - Rounded(x, y) * y = IF x < 0 THEN -r ELSE r
    <2>1. b * k \in Int
      BY Products
    <2>2. PICK c \in Int : c = b * k
      BY <2>1
    <2>3. a = c + r /\ (Rounded(x, y) * y = IF x < 0 THEN -c ELSE c)
      BY <1>3, <1>5, <2>2
    <2> QED
      BY <1>1, <2>3
  <1>7. Java!IsQuotient(Rounded(x, y), x, y)
    BY <1>1, <1>2, <1>6 DEF Java!IsQuotient, Java!Abs
  <1>8. Rounded(x, y) \in -a .. a
    BY <1>1, <1>3, <1>4
  <1>9. b = 1 => y = 1 \/ y = -1
    BY <1>1
  <1>10. a = 0 => x = 0
    BY <1>1
  <1>11. y # 1 /\ y # -1 /\ x # 0 => Java!Abs(Rounded(x, y)) < a
    BY <1>1, <1>3, <1>4, <1>9, <1>10 DEF Java!Abs
  <1> QED
    BY <1>1, <1>3, <1>4, <1>7, <1>8, <1>11

LEMMA OneQuotient ==
    ASSUME NEW x \in Int, NEW y \in Int \ {0}, NEW p \in Int, NEW q \in Int,
           Java!IsQuotient(p, x, y), Java!IsQuotient(q, x, y)
    PROVE  p = q
  <1>1. PICK r \in Int, s \in Int : r = x - p * y /\ s = x - q * y
    OBVIOUS
  <1>2. PICK b \in Nat \ {0} : b = Java!Abs(y)
    BY DEF Java!Abs
  <1>3. /\ Java!Abs(r) < b /\ (r # 0 => (r < 0) = (x < 0))
        /\ Java!Abs(s) < b /\ (s # 0 => (s < 0) = (x < 0))
    BY <1>1, <1>2 DEF Java!IsQuotient
  <1>4. r - s < b /\ s - r < b
    BY <1>2, <1>3 DEF Java!Abs
  <1>5. r - s = (q - p) * y
    BY <1>1
  <1>6. PICK d \in Int : d = q - p
    OBVIOUS
  <1>7. d * y < b /\ -(d * y) < b
    BY <1>1, <1>4, <1>5, <1>6
  <1>8. d = 0
    BY <1>2, <1>6, <1>7 DEF Java!Abs
  <1> QED
    BY <1>6, <1>8

LEMMA QuotientIsRounded ==
    ASSUME NEW x \in Int, NEW y \in Int \ {0}
    PROVE  Java!Quotient(x, y) = Rounded(x, y)
  <1>1. Java!Abs(x) \in Nat
    BY DEF Java!Abs
  <1> DEFINE R == -Java!Abs(x) .. Java!Abs(x)
  <1>2. R \subseteq Int
    BY <1>1
  <1>3. Rounded(x, y) \in R /\ Java!IsQuotient(Rounded(x, y), x, y)
    BY RoundedFacts
  <1>4. Java!Quotient(x, y) = CHOOSE q \in R : Java!IsQuotient(q, x, y)
    BY DEF Java!Quotient
  <1> HIDE DEF R
  <1>5. PICK q \in R : q = Java!Quotient(x, y) /\ Java!IsQuotient(q, x, y)
    BY <1>3, <1>4
  <1> QED
    BY <1>2, <1>3, <1>5, OneQuotient

\* Of magnitudes only that of the lowest number is beyond the others.
LEMMA SmallerStays ==
    ASSUME NEW h \in Nat \ {0}, NEW x \in -h .. (h - 1), NEW n \in Int,
           Java!Abs(n) < Java!Abs(x)
    PROVE  n \in -h .. (h - 1)
  BY DEF Java!Abs

LEMMA DivisionStays ==
    ASSUME NEW w \in Nat \ {0}, NEW x \in Java!Ints(w), NEW y \in Java!Ints(w) \ {0},
           ~(x = Lowest(w) /\ y = -1)
    PROVE  Rounded(x, y) \in Java!Ints(w) /\ x - y * Rounded(x, y) \in Java!Ints(w)
  <1>1. PICK h \in Nat \ {0} : h = Pow[w - 1] /\ Java!Ints(w) = -h .. (h - 1)
    BY Halved
  <1>2. /\ x \in Int /\ y \in Int \ {0} /\ x >= -h /\ x < h /\ y >= -h /\ y < h
        /\ ~(x = -h /\ y = -1)
    BY <1>1 DEF Lowest
  <1>3. PICK q \in Int : q = Rounded(x, y)
    BY <1>2, RoundedFacts
  <1>4. /\ Java!IsQuotient(q, x, y) /\ q \in -Java!Abs(x) .. Java!Abs(x)
        /\ y # 1 /\ y # -1 /\ x # 0 => Java!Abs(q) < Java!Abs(x)
    BY <1>2, <1>3, RoundedFacts
  <1>5. q \in -h .. (h - 1)
    <2>1. CASE y = 1
      <3>1. q = x
        BY <1>2, <1>4, <2>1 DEF Java!IsQuotient, Java!Abs
      <3> QED
        BY <1>2, <3>1
    <2>2. CASE x = 0
      <3>1. Java!Abs(x) = 0
        BY <2>2 DEF Java!Abs
      <3>2. q = 0
        BY <1>4, <3>1
      <3> QED
        BY <3>2
    <2>3. CASE x # 0 /\ y # 1 /\ y # -1
      <3>1. Java!Abs(q) < Java!Abs(x) /\ x \in -h .. (h - 1)
        BY <1>1, <1>4, <2>3
      <3> QED
        BY <3>1, SmallerStays
    <2>4. CASE y = -1
      <3>1. x # -h
        BY <1>2, <2>4
      <3>2. Java!Abs(x) < h
        BY <1>2, <3>1 DEF Java!Abs
      <3>3. Java!Abs(x) \in Int
        BY <1>2 DEF Java!Abs
      <3> QED
        BY <1>4, <3>2, <3>3
    <2> QED
      BY <2>1, <2>2, <2>3, <2>4
  <1>6. PICK r \in Int : r = x - q * y
    BY <1>2
  <1>7. Java!Abs(r) < Java!Abs(y)
    BY <1>4, <1>6 DEF Java!IsQuotient
  <1>8. r \in -h .. (h - 1)
    <2>1. y \in -h .. (h - 1)
      BY <1>1
    <2> QED
      BY <1>7, <2>1, SmallerStays
  <1>9. x - y * q = r
    BY <1>2, <1>6
  <1> QED
    BY <1>1, <1>3, <1>5, <1>8, <1>9

-----------------------------------------------------------------------------
(* Shifts                                                                  *)

\* The shift to the right that keeps the sign.
LEMMA ShiftStays ==
    ASSUME NEW w \in Nat \ {0}, NEW x \in Java!Ints(w), NEW p \in Nat \ {0}
    PROVE  x \div p \in Java!Ints(w)
  <1>1. PICK h \in Nat \ {0} : h = Pow[w - 1] /\ Java!Ints(w) = -h .. (h - 1)
    BY Halved
  <1>2. x \in Int /\ x >= -h /\ x < h
    BY <1>1
  <1>3. PICK q \in Int, r \in 0..(p - 1) : q = x \div p /\ x = (p * q) + r
    BY <1>2, Divides
  <1>4. q >= -h
    <2> SUFFICES ASSUME q + 1 <= -h PROVE FALSE
      BY <1>3
    <2>1. p * (q + 1) <= q + 1
      BY <1>1, <1>3
    <2>2. p * (q + 1) = (p * q) + p
      BY <1>3
    <2>3. p * q \in Int
      BY <1>3
    <2> QED
      BY <1>2, <1>3, <2>1, <2>2, <2>3
  <1>5. q < h
    <2> SUFFICES ASSUME q >= h PROVE FALSE
      BY <1>3
    <2>1. p * q >= q
      BY <1>1, <1>3
    <2>2. p * q \in Int
      BY <1>3
    <2> QED
      BY <1>2, <1>3, <2>1, <2>2
  <1> QED
    BY <1>1, <1>3, <1>4, <1>5

LEMMA ShiftIsTheQuotient ==
    ASSUME NEW w \in Nat \ {0}, NEW x \in Java!Ints(w), NEW p \in Nat \ {0}
    PROVE  (CHOOSE q \in Java!Ints(w) : x - q * p \in 0..(p - 1)) = x \div p
  <1>1. x \in Int /\ \A q \in Java!Ints(w) : q \in Int
    BY Halved
  <1>2. PICK q \in Int, r \in 0..(p - 1) : q = x \div p /\ x = (p * q) + r
    BY <1>1, Divides
  <1>3. q \in Java!Ints(w) /\ x - q * p \in 0..(p - 1)
    <2>1. q * p = p * q /\ p * q \in Int
      BY <1>2
    <2>2. x - q * p = r
      BY <1>1, <1>2, <2>1
    <2> QED
      BY <1>2, <2>2, ShiftStays
  <1>4. ASSUME NEW s \in Java!Ints(w), x - s * p \in 0..(p - 1) PROVE s = q
    <2>1. s \in Int
      BY <1>1
    <2>2. PICK t \in 0..(p - 1) : t = x - s * p
      BY <1>4
    <2>3. (p * q) + r = (p * s) + t
      <3>1. p * s \in Int /\ p * s = s * p
        BY <2>1
      <3> QED
        BY <1>1, <1>2, <2>1, <2>2, <3>1
    <2>4. q = s
      BY <2>1, <2>3, DivisionIsUnique
    <2> QED
      BY <2>4
  <1> DEFINE P(s) == x - s * p \in 0..(p - 1)
  <1>5. \A s \in Java!Ints(w) : P(s) => s = q
    BY <1>4
  <1>6. P(q)
    BY <1>3
  <1> HIDE DEF P
  <1>7. (CHOOSE s \in Java!Ints(w) : P(s)) = q
    BY <1>3, <1>5, <1>6
  <1> QED
    BY <1>2, <1>7 DEF P

\* The count of a shift: taken modulo the width it is the one Java takes.
LEMMA ShiftCounts ==
    ASSUME NEW w \in {Bits, 2 * Bits}, NEW y \in Int
    PROVE  /\ Java!Unsigned(IF w = Bits THEN ShiftBits ELSE ShiftBits + 1, y) = y % w
           /\ y % w \in Nat /\ y % w < w /\ w \in Nat \ {0}
           /\ Pow[y % w] \in Nat \ {0}
  <1>1. w \in Nat \ {0}
    BY Widths
  <1>2. y % w \in Nat /\ y % w < w
    BY <1>1, Divides
  <1>3. Pow[IF w = Bits THEN ShiftBits ELSE ShiftBits + 1] = w
    BY Widths, SamePow
  <1> QED
    BY <1>1, <1>2, <1>3, PowFacts, SamePow DEF Java!Unsigned

\* The addition in a shift without sign: to the number with its sign bit it
\* adds what a number without sign has more.
LEMMA UshrAdds ==
    ASSUME NEW c \in Nat, c < Bits
    PROVE  2 * Pow[(-(c + 1)) % Bits] = Pow[Bits - c]
  <1>1. Bits \in Nat \ {0}
    BY Widths
  <1>2. PICK d \in Nat : d = Bits - (c + 1) /\ d < Bits
    BY <1>1
  <1>3. (-(c + 1)) % Bits = d
    <2>1. -(c + 1) \in Int /\ d \in 0..(Bits - 1) /\ -1 \in Int
      BY <1>1, <1>2
    <2>2. -(c + 1) = (Bits * (-1)) + d
      BY <1>1, <1>2
    <2> QED
      BY <1>1, <2>1, <2>2, Quotients
  <1>4. Bits - c = d + 1
    BY <1>1, <1>2
  <1> QED
    BY <1>2, <1>3, <1>4, PowFacts

\* Shifting without sign what has one: the quotient of x and that of x as a
\* number without sign.
LEMMA UnsignedQuotient ==
    ASSUME NEW w \in Nat \ {0}, NEW x \in Java!Ints(w), NEW c \in Nat, c <= w
    PROVE  /\ Java!Unsigned(w, x) \in Nat
           /\ Java!Unsigned(w, x) \div Pow[c]
                  = (x \div Pow[c]) + (IF x < 0 THEN Pow[w - c] ELSE 0)
  <1>1. PICK h \in Nat \ {0}, m \in Nat \ {0} :
            /\ h = Pow[w - 1] /\ m = Pow[w] /\ m = 2 * h
            /\ x \in -h .. (h - 1)
    BY Halved
  <1>2. x \in Int /\ Java!Unsigned(w, x) = x % m
    <2>1. x \in Int
      BY <1>1
    <2>2. Java!Unsigned(w, x) = x % Java!Pow[w]
      BY Zenon DEF Java!Unsigned
    <2> QED
      BY <1>1, <2>1, <2>2, SamePow, Zenon
  <1>3. x % m = IF x < 0 THEN x + m ELSE x
    <2>1. CASE x < 0
      <3>1. x + m \in 0..(m - 1) /\ -1 \in Int /\ x = (m * (-1)) + (x + m)
        BY <1>1, <2>1
      <3>2. x % m = x + m
        BY <1>2, <3>1, Quotients
      <3> QED
        BY <2>1, <3>2
    <2>2. CASE ~(x < 0)
      <3>1. x \in 0..(m - 1) /\ x = (m * 0) + x
        BY <1>1, <2>2
      <3>2. x % m = x
        BY <1>2, <3>1, Quotients
      <3> QED
        BY <2>2, <3>2
    <2> QED
      BY <2>1, <2>2
  <1>4. PICK p \in Nat \ {0}, k \in Nat \ {0} : p = Pow[c] /\ k = Pow[w - c]
    <2>1. w - c \in Nat
      OBVIOUS
    <2> QED
      BY <2>1, PowFacts
  <1>5. m = p * k
    <2>1. w - c \in Nat /\ c + (w - c) = w
      OBVIOUS
    <2>2. Pow[c + (w - c)] = Pow[c] * Pow[w - c]
      BY <2>1, PowOfSum
    <2> QED
      BY <1>1, <1>4, <2>1, <2>2
  <1>6. (x + (p * k)) \div p = (x \div p) + k
    <2>1. x \in Int /\ k \in Int
      BY <1>2
    <2> QED
      BY <2>1, MultiplesVanish
  <1>7. x % m \in Nat
    BY <1>1, <1>2, <1>3
  <1>8. x \div p \in Int
    BY <1>2, Divides
  <1>9. CASE x < 0
    BY <1>2, <1>3, <1>4, <1>5, <1>6, <1>7, <1>9
  <1>10. CASE ~(x < 0)
    BY <1>2, <1>3, <1>4, <1>7, <1>8, <1>10
  <1> QED
    BY <1>9, <1>10

\* Sums of numbers with the same remainders.
LEMMA SameSums ==
    ASSUME NEW m \in Nat \ {0}, NEW n \in Int, NEW i \in Int, NEW j \in Int, i % m = j % m
    PROVE  (n + i) % m = (n + j) % m
  <1>1. PICK q \in Int : i = j + (m * q)
    BY SameRemainder
  <1>2. PICK k \in Int : k = n + j
    OBVIOUS
  <1>3. n + i = k + (m * q)
    <2>1. m * q \in Int
      OBVIOUS
    <2> QED
      BY <1>1, <1>2, <2>1
  <1>4. (k + (m * q)) % m = k % m
    BY MultiplesVanish
  <1> QED
    BY <1>2, <1>3, <1>4, Zenon

\* What is added for the sign bit differs from what Java has there by a
\* multiple of 2^w: for int at every count, for long at 0.
LEMMA UshrCarries ==
    ASSUME NEW w \in {Bits, 2 * Bits}, NEW c \in Nat, c < w, w = Bits \/ c = 0
    PROVE  \E a \in Int : /\ a = Narrow(Bits, 2 * Pow[(-(c + 1)) % Bits])
                          /\ a % Pow[w] = Pow[w - c] % Pow[w]
  <1>1. Bits \in Nat \ {0} /\ w \in Nat \ {0} /\ c < Bits
    BY Widths
  <1>2. 2 * Pow[(-(c + 1)) % Bits] = Pow[Bits - c]
    BY <1>1, UshrAdds
  <1>3. PICK s \in Nat \ {0} : s = Pow[Bits - c]
    <2>1. Bits - c \in Nat
      BY <1>1
    <2> QED
      BY <2>1, PowFacts
  <1>4. PICK a \in Int : a \in Java!Ints(Bits) /\ a = Narrow(Bits, s) /\ a % Pow[Bits] = s % Pow[Bits]
    <2>1. s \in Int
      OBVIOUS
    <2>2. Narrow(Bits, s) \in Java!Ints(Bits) /\ Narrow(Bits, s) % Pow[Bits] = s % Pow[Bits]
      BY <1>1, <2>1, NarrowFacts
    <2>3. Narrow(Bits, s) \in Int
      BY <1>1, <2>2, IntsAreIntegers
    <2> QED
      BY <2>2, <2>3
  <1>5. a % Pow[w] = Pow[w - c] % Pow[w]
    <2>1. CASE w = Bits
      BY <1>3, <1>4, <2>1
    <2>2. CASE c = 0
      <3>1. s = Pow[Bits] /\ Pow[w - c] = Pow[w]
        BY <1>1, <1>3, <2>2
      <3>2. \A m \in Nat \ {0} : m % m = 0 % m
        <4> TAKE m \in Nat \ {0}
        <4>1. (0 + (m * 1)) % m = 0 % m
          BY MultiplesVanish
        <4>2. 0 + (m * 1) = m
          OBVIOUS
        <4> QED
          BY <4>1, <4>2
      <3>3. 0 \in Java!Ints(Bits)
        BY <1>1, ZeroIsOne, Zenon
      <3>4. a = 0
        <4>1. a % Pow[Bits] = 0 % Pow[Bits]
          BY <1>4, <3>1, <3>2
        <4> QED
          BY <1>1, <1>4, <3>3, <4>1, OneOfWidth
      <3>5. PICK m \in Nat \ {0} : m = Pow[w]
        BY <1>1, PowFacts
      <3> QED
        BY <3>1, <3>2, <3>4, <3>5
    <2> QED
      BY <2>1, <2>2
  <1> QED
    BY <1>2, <1>3, <1>4, <1>5

LEMMA UshrNarrows ==
    ASSUME NEW w \in {Bits, 2 * Bits}, NEW c \in Nat, c < w, w = Bits \/ c = 0, NEW q \in Int
    PROVE  Narrow(w, q + Narrow(Bits, 2 * Pow[(-(c + 1)) % Bits]))
               = Java!Signed(w, q + Pow[w - c])
  <1>1. PICK a \in Int : /\ a = Narrow(Bits, 2 * Pow[(-(c + 1)) % Bits])
                         /\ a % Pow[w] = Pow[w - c] % Pow[w]
    BY UshrCarries
  <1>2. w \in Nat \ {0}
    BY Widths
  <1>3. PICK k \in Int, m \in Nat \ {0} : k = Pow[w - c] /\ m = Pow[w]
    <2>1. w - c \in Nat
      BY <1>2
    <2> QED
      BY <1>2, <2>1, PowFacts
  <1>4. a % m = k % m
    BY <1>1, <1>3
  <1>5. (q + a) % m = (q + k) % m
    BY <1>4, SameSums
  <1>6. PICK n \in Int, i \in Int : n = q + a /\ i = q + k
    OBVIOUS
  <1>7. Narrow(w, n) \in Java!Ints(w) /\ Narrow(w, n) % m = n % m
    BY <1>2, <1>3, NarrowFacts
  <1>8. Narrow(w, n) % Pow[w] = i % Pow[w]
    BY <1>3, <1>5, <1>6, <1>7
  <1>9. Java!Signed(w, i) = Narrow(w, n)
    BY <1>2, <1>7, <1>8, SignedIs
  <1> QED
    BY <1>1, <1>3, <1>6, <1>9

\* A shift without sign: Java's for int, and for what has no sign bit or is
\* not shifted.
LEMMA UshrOfCount ==
    ASSUME NEW w \in {Bits, 2 * Bits}, NEW x \in Java!Ints(w), NEW c \in Nat, c < w,
           w = Bits \/ x >= 0 \/ c = 0
    PROVE  Java!Signed(w, Java!Unsigned(w, x) \div Pow[c])
               = IF x >= 0 THEN x \div Pow[c]
                 ELSE Narrow(w, (x \div Pow[c]) + Narrow(Bits, 2 * Pow[(-(c + 1)) % Bits]))
  <1>1. w \in Nat \ {0}
    BY Widths
  <1>2. PICK p \in Nat \ {0} : p = Pow[c]
    BY PowFacts
  <1>3. PICK q \in Int : q = x \div p /\ q \in Java!Ints(w)
    <2>1. x \div p \in Java!Ints(w)
      BY <1>1, ShiftStays
    <2> QED
      BY <1>1, <2>1, IntsAreIntegers
  <1>4. x \in Int
    BY <1>1, IntsAreIntegers
  <1>5. Java!Unsigned(w, x) \div p = q + (IF x < 0 THEN Pow[w - c] ELSE 0)
    BY <1>1, <1>2, <1>3, UnsignedQuotient
  <1>6. CASE x >= 0
    <2>1. Java!Unsigned(w, x) \div p = q
      BY <1>4, <1>5, <1>6
    <2>2. Java!Signed(w, q) = q
      BY <1>1, <1>3, SignedKeeps
    <2> QED
      BY <1>2, <1>3, <1>6, <2>1, <2>2
  <1>7. CASE x < 0
    <2>1. Java!Unsigned(w, x) \div p = q + Pow[w - c]
      BY <1>5, <1>7
    <2>2. ~(x >= 0) /\ (w = Bits \/ c = 0)
      BY <1>4, <1>7
    <2>3. Narrow(w, q + Narrow(Bits, 2 * Pow[(-(c + 1)) % Bits])) = Java!Signed(w, q + Pow[w - c])
      BY <2>2, UshrNarrows
    <2> QED
      BY <1>2, <1>3, <2>1, <2>2, <2>3, Zenon
  <1> QED
    BY <1>4, <1>6, <1>7

LEMMA UshrFollowsJava ==
    ASSUME NEW w \in {Bits, 2 * Bits}, NEW x \in Java!Ints(w), NEW y \in Int,
           w = Bits \/ x >= 0 \/ y % (2 * Bits) = 0
    PROVE  Ushr(w, x, y) = Java!Signed(w, Java!Unsigned(w, x) \div Pow[y % w])
  <1>1. PICK c \in Nat : c = y % w /\ c < w
    BY ShiftCounts
  <1>2. w = Bits \/ x >= 0 \/ c = 0
    BY <1>1
  <1>3. Ushr(w, x, y) = IF x >= 0 THEN x \div Pow[c]
                        ELSE Narrow(w, (x \div Pow[c]) + Narrow(Bits, 2 * Pow[(-(c + 1)) % Bits]))
    BY <1>1, Zenon DEF Ushr
  <1> QED
    BY <1>1, <1>2, <1>3, UshrOfCount, Zenon

-----------------------------------------------------------------------------
(* Instructions on numbers                                                 *)

\* What NumbersFollowJava says of an instruction on two numbers.
FollowsJava(op, w, x, y, o) ==
    \/ o = JavaOutcome(op, w, x, y)
    \/ op = "REM" /\ y = 0
    \/ op \in {"DIV", "REM"} /\ x = Lowest(w) /\ y = -1
    \/ op = "USHR" /\ w # Bits /\ x < 0 /\ y % (2 * Bits) # 0

LEMMA SumsFollowJava ==
    ASSUME NEW w \in {Bits, 2 * Bits}, NEW x \in Java!Ints(w), NEW y \in Java!Ints(w),
           NEW op \in {"ADD", "SUB", "MUL"}, NEW o \in Operate(op, w, x, y)
    PROVE  FollowsJava(op, w, x, y, o)
  <1>1. w \in Nat \ {0} /\ x \in Int /\ y \in Int
    BY Widths, IntsAreIntegers
  <1>2. x + y \in Int /\ x - y \in Int /\ x * y \in Int
    BY <1>1
  <1>3. /\ Java!Signed(w, x + y) = Narrow(w, x + y)
        /\ Java!Signed(w, x - y) = Narrow(w, x - y)
        /\ Java!Signed(w, x * y) = Narrow(w, x * y)
    BY <1>1, <1>2, SignedNarrows
  <1>4. CASE op = "ADD"
    BY <1>3, <1>4 DEF Operate, FollowsJava, JavaOutcome
  <1>5. CASE op = "SUB"
    BY <1>3, <1>5 DEF Operate, FollowsJava, JavaOutcome
  <1>6. CASE op = "MUL"
    BY <1>3, <1>6 DEF Operate, FollowsJava, JavaOutcome
  <1> QED
    BY <1>4, <1>5, <1>6

LEMMA DivisionsFollowJava ==
    ASSUME NEW w \in {Bits, 2 * Bits}, NEW x \in Java!Ints(w), NEW y \in Java!Ints(w),
           NEW op \in {"DIV", "REM"}, NEW o \in Operate(op, w, x, y)
    PROVE  FollowsJava(op, w, x, y, o)
  <1>1. w \in Nat \ {0} /\ x \in Int /\ y \in Int
    BY Widths, IntsAreIntegers
  <1>2. CASE y = 0
    BY <1>2 DEF Operate, FollowsJava, JavaOutcome
  <1>3. CASE x = Lowest(w) /\ y = -1
    BY <1>3 DEF FollowsJava
  <1>4. CASE y # 0 /\ ~(x = Lowest(w) /\ y = -1)
    <2>1. Rounded(x, y) \in Java!Ints(w) /\ x - y * Rounded(x, y) \in Java!Ints(w)
      BY <1>1, <1>4, DivisionStays
    <2>2. Java!Quotient(x, y) = Rounded(x, y)
      BY <1>1, <1>4, QuotientIsRounded
    <2>3. /\ Java!Signed(w, Rounded(x, y)) = Rounded(x, y)
          /\ Java!Signed(w, x - y * Rounded(x, y)) = x - y * Rounded(x, y)
      BY <1>1, <2>1, SignedKeeps
    <2>4. CASE op = "DIV"
      <3>1. o = Value(Rounded(x, y))
        BY <1>4, <2>4, Zenon DEF Operate
      <3>2. JavaOutcome(op, w, x, y) = Value(Java!Signed(w, Java!Quotient(x, y)))
        BY <1>4, <2>4 DEF JavaOutcome
      <3> QED
        BY <2>2, <2>3, <3>1, <3>2 DEF FollowsJava
    <2>5. CASE op = "REM"
      <3>1. o = Value(x - y * Rounded(x, y))
        BY <1>4, <2>5 DEF Operate
      <3>2. JavaOutcome(op, w, x, y) = Value(Java!Signed(w, x - y * Java!Quotient(x, y)))
        BY <1>4, <2>5 DEF JavaOutcome
      <3> QED
        BY <2>2, <2>3, <3>1, <3>2 DEF FollowsJava
    <2> QED
      BY <2>4, <2>5
  <1> QED
    BY <1>2, <1>3, <1>4

LEMMA ShiftsFollowJava ==
    ASSUME NEW w \in {Bits, 2 * Bits}, NEW x \in Java!Ints(w), NEW y \in Java!Ints(Bits),
           NEW op \in {"SHL", "SHR", "USHR"}, NEW o \in Operate(op, w, x, y)
    PROVE  FollowsJava(op, w, x, y, o)
  <1>1. w \in Nat \ {0} /\ x \in Int /\ y \in Int
    BY Widths, IntsAreIntegers
  <1>2. /\ Java!Unsigned(IF w = Bits THEN ShiftBits ELSE ShiftBits + 1, y) = y % w
        /\ Pow[y % w] \in Nat \ {0}
    BY <1>1, ShiftCounts
  <1>3. CASE op = "SHL"
    <2>1. x * Pow[y % w] \in Int
      BY <1>1, <1>2
    <2>2. Java!Signed(w, x * Pow[y % w]) = Narrow(w, x * Pow[y % w])
      BY <1>1, <2>1, SignedNarrows
    <2>3. o = Value(Narrow(w, x * Pow[y % w]))
      BY <1>3 DEF Operate
    <2>4. JavaOutcome(op, w, x, y) = Value(Java!Signed(w, x * Pow[y % w]))
      BY <1>2, <1>3 DEF JavaOutcome
    <2> QED
      BY <2>2, <2>3, <2>4 DEF FollowsJava
  <1>4. CASE op = "SHR"
    <2>1. (CHOOSE q \in Java!Ints(w) : x - q * Pow[y % w] \in 0..(Pow[y % w] - 1))
              = x \div Pow[y % w]
      BY <1>1, <1>2, ShiftIsTheQuotient
    <2>2. o = Value(x \div Pow[y % w])
      BY <1>4 DEF Operate
    <2>3. JavaOutcome(op, w, x, y)
              = Value(CHOOSE q \in Java!Ints(w) : x - q * Pow[y % w] \in 0..(Pow[y % w] - 1))
      BY <1>2, <1>4, Zenon DEF JavaOutcome
    <2> QED
      BY <2>1, <2>2, <2>3 DEF FollowsJava
  <1>5. CASE op = "USHR"
    <2>1. CASE w # Bits /\ x < 0 /\ y % (2 * Bits) # 0
      BY <1>5, <2>1 DEF FollowsJava
    <2>2. CASE w = Bits \/ x >= 0 \/ y % (2 * Bits) = 0
      <3>1. Ushr(w, x, y) = Java!Signed(w, Java!Unsigned(w, x) \div Pow[y % w])
        BY <1>1, <2>2, UshrFollowsJava
      <3>2. o = Value(Ushr(w, x, y))
        BY <1>5 DEF Operate
      <3>3. JavaOutcome(op, w, x, y)
                = Value(Java!Signed(w, Java!Unsigned(w, x) \div Pow[y % w]))
        BY <1>2, <1>5 DEF JavaOutcome
      <3> QED
        BY <3>1, <3>2, <3>3 DEF FollowsJava
    <2> QED
      BY <1>1, <2>1, <2>2
  <1> QED
    BY <1>3, <1>4, <1>5

LEMMA ComparisonsFollowJava ==
    ASSUME NEW w \in {Bits, 2 * Bits}, NEW x \in Java!Ints(w), NEW y \in Java!Ints(w),
           NEW o \in Operate("CMP", w, x, y)
    PROVE  FollowsJava("CMP", w, x, y, o)
  <1>1. x \in Int /\ y \in Int
    BY Widths, IntsAreIntegers
  <1>2. o = Value(IF y > x THEN -1 ELSE IF y < x THEN 1 ELSE 0)
    BY DEF Operate
  <1>3. JavaOutcome("CMP", w, x, y) = Value(IF x < y THEN -1 ELSE IF x = y THEN 0 ELSE 1)
    BY DEF JavaOutcome
  <1> QED
    BY <1>1, <1>2, <1>3 DEF FollowsJava

LEMMA OnTwoFollowsJava == OnTwo => NumbersFollowJava'
  <1> SUFFICES ASSUME NEW op \in Binary, NEW w \in {Bits, 2 * Bits}, NEW x \in Operands(w),
                      NEW y \in Operands(IF op \in {"SHL", "SHR", "USHR"} THEN Bits ELSE w),
                      NEW o \in Operate(op, w, x, y),
                      answer' = [op |-> op, width |-> w, x |-> x, y |-> y, outcome |-> o]
               PROVE  NumbersFollowJava'
    BY ZenonT(40) DEF OnTwo, Answers
  <1>1. x \in Java!Ints(w) /\ y \in Java!Ints(IF op \in {"SHL", "SHR", "USHR"} THEN Bits ELSE w)
    BY DEF Operands
  <1>2. FollowsJava(op, w, x, y, o)
    <2>1. CASE op \in {"ADD", "SUB", "MUL"}
      BY <1>1, <2>1, SumsFollowJava
    <2>2. CASE op \in {"DIV", "REM"}
      BY <1>1, <2>2, DivisionsFollowJava
    <2>3. CASE op \in {"SHL", "SHR", "USHR"}
      BY <1>1, <2>3, ShiftsFollowJava
    <2>4. CASE op = "CMP"
      BY <1>1, <2>4, ComparisonsFollowJava
    <2> QED
      BY <2>1, <2>2, <2>3, <2>4 DEF Binary
  <1>3. op \notin Unary \cup {"IINC", "IF", "LOOKUPSWITCH"}
    BY DEF Binary, Unary
  <1> QED
    BY <1>2, <1>3 DEF NumbersFollowJava, FollowsJava

LEMMA OnOneFollowsJava == OnOne => NumbersFollowJava'
  <1> SUFFICES ASSUME NEW op \in Unary,
                      NEW x \in Java!Ints(IF op = "L2I" THEN 2 * Bits ELSE Bits),
                      answer' = [op |-> op, x |-> x, outcome |-> Value(Convert(op, Bits, x))]
               PROVE  NumbersFollowJava'
    BY Zenon DEF OnOne, Answers
  <1>1. x \in Int /\ -x \in Int /\ Bits \in Nat \ {0}
    BY Widths, IntsAreIntegers
  <1>2. Java!Signed(Bits, -x) = Narrow(Bits, -x) /\ Java!Signed(Bits, x) = Narrow(Bits, x)
    BY <1>1, SignedNarrows
  <1>3. op \notin Binary \cup {"IINC", "IF", "LOOKUPSWITCH"}
    BY DEF Binary, Unary
  <1> DEFINE java == CASE op = "NEG" -> Java!Signed(Bits, -x)
                       [] op = "L2I" -> Java!Signed(Bits, x)
                       [] op = "I2L" -> x
                       [] op = "I2C" -> Java!Unsigned(ByteBits, x)
                       [] OTHER -> Java!Signed(ByteBits, x)
  <1>4. \/ Value(Convert(op, Bits, x)) = Value(java)
        \/ op \in {"I2B", "I2C", "I2S"} /\ java # x
    <2>1. CASE op = "NEG"
      BY <1>2, <2>1 DEF Convert
    <2>2. CASE op = "L2I"
      BY <1>2, <2>2 DEF Convert
    <2>3. CASE op = "I2L"
      BY <2>3 DEF Convert
    <2>4. CASE op \in {"I2B", "I2C", "I2S"}
      <3>1. Convert(op, Bits, x) = x
        BY <2>4 DEF Convert
      <3> QED
        BY <2>4, <3>1
    <2> QED
      BY <2>1, <2>2, <2>3, <2>4 DEF Unary
  <1> HIDE DEF java
  <1>5. answer'.op = op /\ answer'.x = x /\ answer'.outcome = Value(Convert(op, Bits, x))
    OBVIOUS
  <1> QED
    BY <1>3, <1>4, <1>5 DEF NumbersFollowJava, java

LEMMA IncrementsFollowJava == Increments => NumbersFollowJava'
  <1> SUFFICES ASSUME NEW x \in Java!Ints(Bits), NEW c \in Java!Ints(ByteBits),
                      answer' = [op |-> "IINC", x |-> x, y |-> c, outcome |-> Value(Iinc(x, c))]
               PROVE  NumbersFollowJava'
    BY Zenon DEF Increments, Answers
  <1>1. x \in Int /\ c \in Int /\ x + c \in Int /\ Bits \in Nat \ {0}
    BY Widths, IntsAreIntegers
  <1>2. Iinc(x, c) = Java!Signed(Bits, x + c)
    BY <1>1, SignedNarrows DEF Iinc
  <1>3. "IINC" \notin Binary \cup Unary
    BY DEF Binary, Unary
  <1> QED
    BY <1>2, <1>3 DEF NumbersFollowJava

LEMMA ComparesFollowsJava == Compares => NumbersFollowJava'
  <1> SUFFICES ASSUME NEW cond \in Conditions, NEW x \in Java!Ints(Bits), NEW y \in Java!Ints(Bits),
                      answer' = [op |-> "IF", cond |-> cond, x |-> x, y |-> y,
                                 taken |-> Taken(cond, x, y)]
               PROVE  NumbersFollowJava'
    BY Zenon DEF Compares, Answers
  <1>1. x \in Int /\ y \in Int
    BY Widths, IntsAreIntegers
  <1>2. "IF" \notin Binary \cup Unary
    BY DEF Binary, Unary
  <1> DEFINE d == Java!Abs(x - y) * (IF x < y THEN -1 ELSE 1)
  <1>3. d = x - y /\ x - y \in Int
    BY <1>1 DEF Java!Abs
  <1> DEFINE set == CASE cond = "EQ" -> {0}
                      [] cond = "NE" -> Int \ {0}
                      [] cond = "LT" -> Int \ Nat
                      [] cond = "GE" -> Nat
                      [] cond = "GT" -> Nat \ {0}
                      [] cond = "LE" -> (Int \ Nat) \cup {0}
  <1>4. Taken(cond, x, y) = (x - y \in set)
    BY <1>1 DEF Taken, Conditions
  <1>5. Taken(cond, x, y) = (d \in set)
    BY <1>3, <1>4, Zenon
  <1>6. /\ answer'.op = "IF" /\ answer'.cond = cond /\ answer'.x = x /\ answer'.y = y
        /\ answer'.taken = Taken(cond, x, y)
    OBVIOUS
  <1> QED
    BY <1>2, <1>5, <1>6 DEF NumbersFollowJava

-----------------------------------------------------------------------------
(* LOOKUPSWITCH                                                            *)

\* Targets and keys of switches.
LEMMA SwitchFacts ==
    ASSUME NEW s \in Switches
    PROVE  /\ s.default \in Int
           /\ \A pc \in 8..11 : pc + s.default \in 0..(Pow[2 * Bits] - 1)
           /\ s.pairs \in Seq(Int \X Int) /\ Len(s.pairs) < Pow[2 * Bits]
           /\ \A i \in DOMAIN s.pairs : s.pairs[i][1] \in Java!Ints(Bits)
           /\ \A i \in DOMAIN s.pairs : \A pc \in 8..11 :
                  pc + s.pairs[i][2] \in 0..(Pow[2 * Bits] - 1)
           /\ \A i, j \in DOMAIN s.pairs : s.pairs[i][1] = s.pairs[j][1] => i = j
  <1>1. Java!Ints(Bits) = -(Pow[Bits - 1]) .. (Pow[Bits - 1] - 1)
    BY Widths, Halved
  <1> QED
    BY <1>1, NumbersAssumption, Zenon

\* Both find where the table starts.
LEMMA TableStarts ==
    ASSUME NEW pc \in 8..11
    PROVE  /\ (CHOOSE p \in (pc + 1)..(pc + 4) : p % 4 = 0) = 12
           /\ (IF pc % 4 = 0 THEN pc + 4 ELSE pc + (4 - (pc % 4))) = 12
  <1>1. 12 \in (pc + 1)..(pc + 4) /\ 12 % 4 = 0
    OBVIOUS
  <1>2. \A p \in (pc + 1)..(pc + 4) : p % 4 = 0 => p = 12
    OBVIOUS
  <1>3. (CHOOSE p \in (pc + 1)..(pc + 4) : p % 4 = 0) = 12
    BY <1>1, <1>2
  <1>4. (IF pc % 4 = 0 THEN pc + 4 ELSE pc + (4 - (pc % 4))) = 12
    OBVIOUS
  <1> QED
    BY <1>3, <1>4

\* The words of the table.
LEMMA LayoutFacts ==
    ASSUME NEW s \in Switches, NEW pc \in 8..11
    PROVE  /\ Layout(s, pc)[12] = Java!Unsigned(2 * Bits, s.default)
           /\ Layout(s, pc)[16] = Java!Unsigned(2 * Bits, Len(s.pairs))
           /\ \A i \in 1..Len(s.pairs) :
                  /\ Layout(s, pc)[12 + 8 * i] = Java!Unsigned(2 * Bits, s.pairs[i][1])
                  /\ Layout(s, pc)[12 + 8 * i + 4] = Java!Unsigned(2 * Bits, s.pairs[i][2])
  <1> DEFINE n == Len(s.pairs)
             word(i) == IF i = 0 THEN s.default ELSE IF i = 1 THEN n
                        ELSE s.pairs[i \div 2][1 + (i % 2)]
             offsets == {12 + (4 * i) : i \in 0..(1 + (2 * n))}
             at == CHOOSE p \in (pc + 1)..(pc + 4) : p % 4 = 0
  <1>1. n \in Nat
    BY SwitchFacts
  <1>2. Layout(s, pc) = [p \in offsets |-> Java!Unsigned(2 * Bits, word((p - 12) \div 4))]
    <2>1. at = 12
      BY TableStarts
    <2>2. Layout(s, pc) = [p \in {at + (4 * i) : i \in 0..(1 + (2 * n))} |->
                               Java!Unsigned(2 * Bits, word((p - at) \div 4))]
      BY DEF Layout
    <2> HIDE DEF at, word
    <2> QED
      BY <2>1, <2>2
  <1>3. \A i \in 0..(1 + (2 * n)) : Layout(s, pc)[12 + (4 * i)] = Java!Unsigned(2 * Bits, word(i))
    <2> TAKE i \in 0..(1 + (2 * n))
    <2>1. 12 + (4 * i) \in offsets
      BY <1>1
    <2>2. ((12 + (4 * i)) - 12) \div 4 = i
      BY <1>1
    <2> HIDE DEF word, offsets
    <2> QED
      BY <1>2, <2>1, <2>2
  <1>4. Layout(s, pc)[12] = Java!Unsigned(2 * Bits, s.default)
    <2>1. 0 \in 0..(1 + (2 * n)) /\ 12 + (4 * 0) = 12 /\ word(0) = s.default
      BY <1>1
    <2> HIDE DEF word
    <2> QED
      BY <1>3, <2>1
  <1>5. Layout(s, pc)[16] = Java!Unsigned(2 * Bits, n)
    <2>1. 1 \in 0..(1 + (2 * n)) /\ 12 + (4 * 1) = 16 /\ word(1) = n
      BY <1>1
    <2> HIDE DEF word, n
    <2> QED
      BY <1>3, <2>1
  <1>6. ASSUME NEW i \in 1..n
        PROVE  /\ Layout(s, pc)[12 + 8 * i] = Java!Unsigned(2 * Bits, s.pairs[i][1])
               /\ Layout(s, pc)[12 + 8 * i + 4] = Java!Unsigned(2 * Bits, s.pairs[i][2])
    <2>1. PICK j \in 0..(1 + (2 * n)), k \in 0..(1 + (2 * n)) : j = 2 * i /\ k = (2 * i) + 1
      BY <1>1
    <2>2. j \div 2 = i /\ j % 2 = 0 /\ k \div 2 = i /\ k % 2 = 1 /\ j >= 2 /\ k >= 2
      BY <1>1, <2>1
    <2>3. word(j) = s.pairs[i][1] /\ word(k) = s.pairs[i][2]
      BY <2>2
    <2>4. 12 + (4 * j) = 12 + 8 * i /\ 12 + (4 * k) = 12 + 8 * i + 4
      BY <1>1, <2>1
    <2> HIDE DEF word, n
    <2> QED
      BY <1>3, <2>3, <2>4
  <1> QED
    BY <1>4, <1>5, <1>6

\* What is in a range of numbers without sign is found again in its words.
LEMMA SmallStays ==
    ASSUME NEW m \in Nat \ {0}, NEW n \in 0..(m - 1)
    PROVE  n % m = n
  OBVIOUS

LEMMA TargetStays ==
    ASSUME NEW m \in Nat \ {0}, NEW n \in Int, NEW pc \in Nat, pc + n \in 0..(m - 1)
    PROVE  ((n % m) + pc) % m = pc + n
  <1>1. PICK q \in Int, r \in 0..(m - 1) : q = n \div m /\ r = n % m /\ n = (m * q) + r
    BY Divides
  <1>2. PICK t \in 0..(m - 1) : t = pc + n
    OBVIOUS
  <1>3. r + pc = (m * (-q)) + t
    <2>1. m * q \in Int /\ m * (-q) = -(m * q) /\ n = (m * q) + r
      BY <1>1
    <2> QED
      BY <1>2, <2>1
  <1>4. r + pc \in Int /\ -q \in Int
    OBVIOUS
  <1>5. (r + pc) % m = t
    BY <1>3, <1>4, Quotients
  <1> QED
    BY <1>1, <1>2, <1>5

LEMMA BranchesFollowJava == Branches => NumbersFollowJava'
  <1> SUFFICES ASSUME NEW s \in Switches, NEW pc \in 8..11, NEW top \in Java!Ints(Bits),
                      answer' = [op |-> "LOOKUPSWITCH", switch |-> s, pc |-> pc, top |-> top,
                                 target |-> SwitchTarget(Layout(s, pc), pc, top)]
               PROVE  NumbersFollowJava'
    BY Zenon DEF Branches, Answers
  <1> DEFINE code == Layout(s, pc)
             n == Len(s.pairs)
             m == Pow[2 * Bits]
             hits == {p \in Range(s.pairs) : p[1] = top}
             keys == {i \in 1..n : s.pairs[i][1] = top}
             java == IF hits = {} THEN s.default ELSE (CHOOSE p \in hits : TRUE)[2]
  <1>1. m \in Nat \ {0} /\ pc \in Nat /\ n \in Nat /\ n \in 0..(m - 1)
    <2>1. m \in Nat \ {0}
      BY Widths, PowFacts
    <2>2. n \in Nat /\ n < m
      BY SwitchFacts
    <2> QED
      BY <2>1, <2>2
  <1>2. \A i \in Int : Java!Unsigned(2 * Bits, i) = i % m
    BY SamePow DEF Java!Unsigned
  <1>3. code[12] = s.default % m /\ code[16] = n
    <2>1. code[12] = Java!Unsigned(2 * Bits, s.default) /\ code[16] = Java!Unsigned(2 * Bits, n)
      BY LayoutFacts
    <2>2. s.default \in Int
      BY SwitchFacts
    <2> HIDE DEF code, m, n
    <2>3. n % m = n
      BY <1>1, SmallStays
    <2> QED
      BY <1>1, <1>2, <2>1, <2>2, <2>3
  <1>4. ASSUME NEW i \in 1..n
        PROVE  /\ s.pairs[i] \in Int \X Int
               /\ code[12 + 8 * i] = s.pairs[i][1] % m
               /\ code[12 + 8 * i + 4] = s.pairs[i][2] % m
    <2>1. s.pairs[i] \in Int \X Int
      BY SwitchFacts
    <2> QED
      BY <1>2, <2>1, LayoutFacts
  <1>5. ASSUME NEW i \in 1..n
        PROVE  s.pairs[i][1] % m = top % m <=> s.pairs[i][1] = top
    <2>1. s.pairs[i][1] \in Java!Ints(Bits) /\ Java!Ints(Bits) \subseteq Java!Ints(2 * Bits)
      <3>1. 2 * Bits = Bits + Bits /\ Bits \in Nat /\ Bits \in Nat \ {0}
        BY Widths
      <3>2. Java!Ints(Bits) \subseteq Java!Ints(Bits + Bits)
        BY <3>1, Wider
      <3> QED
        BY <3>1, <3>2, SwitchFacts
    <2>2. s.pairs[i][1] \in Java!Ints(2 * Bits) /\ top \in Java!Ints(2 * Bits)
      BY <2>1
    <2> QED
      BY <2>2, Widths, OneOfWidth
  <1> DEFINE least(set) == CHOOSE i \in set : \A j \in set : i <= j
             offset == IF keys = {} THEN code[12] ELSE code[12 + 8 * least(keys) + 4]
  <1>6. SwitchTarget(code, pc, top) = (offset + pc) % m
    <2> HIDE DEF code, n, m
    <2>1. {i \in 1..code[12 + 4] : code[12 + 8 * i] = top % m} = keys
      <3>1. {i \in 1..code[16] : code[12 + 8 * i] = top % m} = keys
        BY <1>3, <1>4, <1>5, Zenon DEF keys
      <3> QED
        BY <3>1
    <2> DEFINE at == IF pc % 4 = 0 THEN pc + 4 ELSE pc + (4 - (pc % 4))
               found(a) == {i \in 1..code[a + 4] : code[a + 8 * i] = top % m}
               target(a) ==
                   ((IF found(a) = {} THEN code[a]
                     ELSE code[a + 8 * least(found(a)) + 4])
                    + pc) % m
    <2>2. SwitchTarget(code, pc, top) = target(at)
      BY Zenon DEF SwitchTarget, m
    <2>3. at = 12
      BY TableStarts
    <2>4. found(12) = keys
      BY <2>1
    <2> HIDE DEF at, found, keys, least
    <2>5. target(12) = (offset + pc) % m
      BY <2>4, Zenon
    <2> HIDE DEF target, offset
    <2> QED
      BY <2>2, <2>3, <2>5
  <1>7. ASSUME keys = {} PROVE SwitchTarget(code, pc, top) = pc + java
    <2>1. hits = {}
      <3> SUFFICES ASSUME NEW p \in hits PROVE FALSE
        OBVIOUS
      <3>1. PICK i \in 1..n : s.pairs[i] = p
        BY SwitchFacts DEF Range
      <3> QED
        BY <1>7, <3>1
    <2>2. offset = s.default % m
      BY <1>3, <1>7
    <2>3. s.default \in Int /\ pc + s.default \in 0..(m - 1)
      BY SwitchFacts
    <2>4. java = s.default
      BY <2>1
    <2> HIDE DEF offset, java, m, code
    <2> QED
      BY <1>1, <1>6, <2>2, <2>3, <2>4, TargetStays
  <1>8. ASSUME keys # {} PROVE SwitchTarget(code, pc, top) = pc + java
    <2>1. PICK i \in 1..n : i \in keys
      BY <1>8
    <2>2. s.pairs[i][1] = top /\ DOMAIN s.pairs = 1..n
      BY <2>1, SwitchFacts
    <2>3. \A j \in 1..n : s.pairs[j][1] = top => j = i
      BY <2>2, SwitchFacts
    <2>4. keys = {i}
      BY <2>1, <2>3
    <2>5. hits = {s.pairs[i]}
      <3>1. hits \subseteq {s.pairs[i]}
        <4> SUFFICES ASSUME NEW p \in hits PROVE p = s.pairs[i]
          OBVIOUS
        <4>1. PICK j \in 1..n : s.pairs[j] = p
          BY <2>2 DEF Range
        <4> QED
          BY <2>3, <4>1
      <3>2. s.pairs[i] \in hits
        BY <2>2 DEF Range
      <3> QED
        BY <3>1, <3>2
    <2>6. java = s.pairs[i][2]
      BY <2>5
    <2>7. least(keys) = i
      BY <2>4
    <2>8. offset = s.pairs[i][2] % m
      <3> HIDE DEF keys, code, m, n, least
      <3> QED
        BY <1>4, <1>8, <2>7
    <2>9. s.pairs[i][2] \in Int /\ pc + s.pairs[i][2] \in 0..(m - 1)
      BY <1>4, <2>2, SwitchFacts
    <2> HIDE DEF offset, java, m, code
    <2> QED
      BY <1>1, <1>6, <2>6, <2>8, <2>9, TargetStays
  <1>9. SwitchTarget(code, pc, top) = pc + java
    BY <1>7, <1>8
  <1>10. "LOOKUPSWITCH" \notin Binary \cup Unary
    BY DEF Binary, Unary
  <1>11. /\ answer'.op = "LOOKUPSWITCH" /\ answer'.switch = s /\ answer'.pc = pc
         /\ answer'.top = top /\ answer'.target = SwitchTarget(code, pc, top)
    OBVIOUS
  <1> HIDE DEF code
  <1> QED
    BY <1>9, <1>10, <1>11, Zenon DEF NumbersFollowJava

-----------------------------------------------------------------------------
(* The other instructions                                                  *)

\* The instructions of each action.
LEMMA OpsOfLookups ==
    /\ \A i : InvokeInstance(i) => answer'.op = i
    /\ InvokeClass => answer'.op = "INVOKESTATIC"
    /\ \A i : UseField(i) => answer'.op = i
    /\ \A i : UseStaticField(i) => answer'.op = i
    /\ \A i : TestType(i) => answer'.op = i
    /\ TestArrayType => answer'.op = "CHECKCAST_array"
    /\ LoadClass => answer'.op = "LDC"
    /\ FindLine => answer'.op = "line"
  <1>1. ASSUME NEW i, InvokeInstance(i) PROVE answer'.op = i
    BY <1>1 DEF InvokeInstance, Answers
  <1>2. InvokeClass => answer'.op = "INVOKESTATIC"
    BY DEF InvokeClass, Answers
  <1>3. ASSUME NEW i, UseField(i) PROVE answer'.op = i
    BY <1>3 DEF UseField, Answers
  <1>4. ASSUME NEW i, UseStaticField(i) PROVE answer'.op = i
    BY <1>4 DEF UseStaticField, Answers
  <1>5. ASSUME NEW i, TestType(i) PROVE  answer'.op = i
    BY <1>5 DEF TestType, Answers
  <1>6. TestArrayType => answer'.op = "CHECKCAST_array"
    <2>1. TestArrayType => \E r, c, result : answer' = [op |-> "CHECKCAST_array", ref |-> r,
                                                      receiver |-> c, result |-> result]
      BY Zenon DEF TestArrayType, Answers
    <2> QED
      BY <2>1
  <1>7. LoadClass => answer'.op = "LDC"
    BY DEF LoadClass, Answers
  <1>8. FindLine => answer'.op = "line"
    <2>1. FindLine => \E m, n, found : answer' = [op |-> "line", method |-> m, offset |-> n,
                                               line |-> found]
      BY Zenon DEF FindLine, Answers
    <2> QED
      BY <2>1
  <1> QED
    BY <1>1, <1>2, <1>3, <1>4, <1>5, <1>6, <1>7, <1>8

LEMMA OpsOfArrays ==
    Reads \/ Stores \/ Copies \/ Creates
        => answer'.op \in {"AALOAD", "AASTORE", "dies", "arraycopy", "MULTIANEWARRAY"}
  <1>1. Reads => answer'.op = "AALOAD"
    BY DEF Reads, Done
  <1>2. Stores => answer'.op = "AASTORE"
    BY DEF Stores, Done
  <1>3. Copies => answer'.op \in {"dies", "arraycopy"}
    BY DEF Copies, Done
  <1>4. Creates => answer'.op = "MULTIANEWARRAY"
    BY DEF Creates, Done
  <1> QED
    BY <1>1, <1>2, <1>3, <1>4

Numbers == Binary \cup Unary \cup {"IINC", "IF", "LOOKUPSWITCH"}

LEMMA OpsOfNumbers ==
    OnTwo \/ OnOne \/ Increments \/ Compares \/ Branches => answer'.op \in Numbers
  <1>1. OnTwo => answer'.op \in Binary
    BY DEF OnTwo, Answers
  <1>2. OnOne => answer'.op \in Unary
    BY DEF OnOne, Answers
  <1>3. Increments => answer'.op = "IINC"
    BY DEF Increments, Answers
  <1>4. Compares => answer'.op = "IF"
    BY DEF Compares, Answers
  <1>5. Branches => answer'.op = "LOOKUPSWITCH"
    BY DEF Branches, Answers
  <1> QED
    BY <1>1, <1>2, <1>3, <1>4, <1>5 DEF Numbers

\* What is no instruction on numbers.
LEMMA OthersFollowJava ==
    ASSUME answer'.op \notin Numbers
    PROVE  NumbersFollowJava'
  BY DEF NumbersFollowJava, Numbers

LEMMA SameAnswer ==
    ASSUME NumbersFollowJava, UNCHANGED answer
    PROVE  NumbersFollowJava'
  BY DEF NumbersFollowJava

LEMMA LookupsFollowJava ==
    ASSUME \/ \E i \in {"INVOKEVIRTUAL", "INVOKESPECIAL", "INVOKEINTERFACE"} : InvokeInstance(i)
           \/ InvokeClass
           \/ \E i \in {"GETFIELD", "PUTFIELD"} : UseField(i)
           \/ \E i \in {"GETSTATIC", "PUTSTATIC"} : UseStaticField(i)
           \/ \E i \in {"CHECKCAST", "INSTANCEOF", "isAssignableFrom"} : TestType(i)
           \/ TestArrayType \/ LoadClass \/ FindLine
    PROVE  NumbersFollowJava'
  <1> DEFINE Ops == {"INVOKEVIRTUAL", "INVOKESPECIAL", "INVOKEINTERFACE", "INVOKESTATIC",
                     "GETFIELD", "PUTFIELD", "GETSTATIC", "PUTSTATIC", "CHECKCAST", "INSTANCEOF",
                     "isAssignableFrom", "CHECKCAST_array", "LDC", "line"}
  <1>1. answer'.op \in Ops
    BY OpsOfLookups, Zenon
  <1>2. Ops \cap Numbers = {}
    BY DEF Numbers, Binary, Unary
  <1> HIDE DEF Ops
  <1> QED
    BY <1>1, <1>2, OthersFollowJava, Zenon

LEMMA ArraysAreNoNumbers ==
    ASSUME Reads \/ Stores \/ Copies \/ Creates
    PROVE  NumbersFollowJava'
  <1> DEFINE Ops == {"AALOAD", "AASTORE", "dies", "arraycopy", "MULTIANEWARRAY"}
  <1>1. Ops \cap Numbers = {}
    BY DEF Numbers, Binary, Unary
  <1> QED
    BY <1>1, OpsOfArrays, OthersFollowJava

-----------------------------------------------------------------------------
\* At all values of all widths of int, an instruction on integers gives what
\* Java says, but for the exceptions that NumbersFollowJava names.
THEOREM NumbersFollowJavaHolds == Spec => []NumbersFollowJava
  <1>1. Init => NumbersFollowJava
    <2>1. "none" \notin Binary \cup Unary
      BY DEF Binary, Unary
    <2> QED
      BY <2>1 DEF Init, NoAnswer, NumbersFollowJava
  <1>2. NumbersFollowJava /\ [Next]_vars => NumbersFollowJava'
    <2> SUFFICES ASSUME NumbersFollowJava, [Next]_vars PROVE NumbersFollowJava'
      OBVIOUS
    <2>1. CASE AddClassFile
      BY <2>1, SameAnswer DEF AddClassFile
    <2>2. CASE UNCHANGED vars
      BY <2>2, SameAnswer DEF vars
    <2>3. CASE OnTwo \/ OnOne \/ Increments \/ Compares \/ Branches
      BY <2>3, OnTwoFollowsJava, OnOneFollowsJava, IncrementsFollowJava,
         ComparesFollowsJava, BranchesFollowJava
    <2> QED
      BY <2>1, <2>2, <2>3, LookupsFollowJava, ArraysAreNoNumbers, Zenon DEF Next
  <1> QED
    BY <1>1, <1>2, PTL DEF Spec

-----------------------------------------------------------------------------
(* Sequences and their first elements in a set                             *)

Hits(s, S) == {i \in 1..Len(s) : s[i] \in S}

\* The first element that is in S.
FirstIn(s, S, none) == IF Hits(s, S) = {} THEN none ELSE s[Min(Hits(s, S))]

LEMMA FirstInFacts ==
    ASSUME NEW T, NEW s \in Seq(T), NEW S, NEW none, NEW i \in 1..Len(s), s[i] \in S
    PROVE  \E j \in 1..i : /\ FirstIn(s, S, none) = s[j] /\ s[j] \in S /\ s[j] \in T
                           /\ \A k \in 1..(j - 1) : s[k] \notin S
  <1>1. Hits(s, S) \in SUBSET Nat /\ i \in Hits(s, S)
    BY DEF Hits
  <1> DEFINE j == Min(Hits(s, S))
  <1>2. j \in Hits(s, S) /\ \A k \in Hits(s, S) : j <= k
    BY <1>1, MinFacts
  <1> HIDE DEF j
  <1>3. j \in 1..i /\ s[j] \in S /\ s[j] \in T
    BY <1>1, <1>2 DEF Hits
  <1>4. \A k \in 1..(j - 1) : s[k] \notin S
    <2> SUFFICES ASSUME NEW k \in 1..(j - 1), s[k] \in S PROVE FALSE
      OBVIOUS
    <2>1. k \in 1..Len(s) /\ ~(j <= k)
      BY <1>2, <1>3 DEF Hits
    <2> QED
      BY <1>2, <2>1 DEF Hits
  <1>5. FirstIn(s, S, none) = s[j]
    BY <1>1 DEF FirstIn, j
  <1> QED
    BY <1>3, <1>4, <1>5

LEMMA NoneIn ==
    ASSUME NEW s, NEW S, NEW none, \A i \in 1..Len(s) : s[i] \notin S
    PROVE  FirstIn(s, S, none) = none
  BY DEF FirstIn, Hits

\* Of the elements of a sequence it only matters whether they are in the set.
LEMMA SameFirst ==
    ASSUME NEW T, NEW s \in Seq(T), NEW S, NEW R, NEW none, \A x \in T : x \in S <=> x \in R
    PROVE  FirstIn(s, S, none) = FirstIn(s, R, none)
  <1>1. Hits(s, S) = Hits(s, R)
    BY DEF Hits
  <1> QED
    BY <1>1 DEF FirstIn

\* What First and Nearest are made of.
LEMMA FirstOfHits ==
    ASSUME NEW s, NEW S, NEW none, NEW H, H = Hits(s, S)
    PROVE  (LET i == IF H # {} THEN Min(H) ELSE 0 IN IF i = 0 THEN none ELSE s[i])
           = FirstIn(s, S, none)
  <1>1. H \in SUBSET (Nat \ {0})
    BY DEF Hits
  <1>2. H # {} => Min(H) \in Nat \ {0}
    BY <1>1, MinFacts
  <1> QED
    BY <1>2 DEF FirstIn

-----------------------------------------------------------------------------
(* Hierarchies                                                             *)

ClassNames == Range(Order)

LEMMA HierarchyFacts ==
    ASSUME NEW w, WellFormed(w)
    PROVE  /\ DOMAIN w = ClassNames
           /\ \A c \in ClassNames :
                  /\ w[c].super \in (ClassNames \ InterfaceNames) \cup {NoText}
                  /\ w[c].super = NoText <=> c = Object
                  /\ c \in InterfaceNames => w[c].super = Object
                  /\ Range(w[c].interfaces) \subseteq InterfaceNames \cap ClassNames
                  /\ w[c].interfaces \in Seq(ClassNames)
                  /\ c = Object => Range(w[c].interfaces) = {}
           /\ NoText \notin ClassNames /\ Object \in ClassNames \ InterfaceNames
  <1>1. DOMAIN w = ClassNames
    BY Zenon DEF WellFormed, ClassNames
  <1>2. ASSUME NEW c \in ClassNames
        PROVE  /\ w[c].super \in (ClassNames \ InterfaceNames) \cup {NoText}
               /\ w[c].super = NoText <=> c = Object
               /\ c \in InterfaceNames => w[c].super = Object
               /\ w[c].interfaces \in Seq(InterfaceNames \cap ClassNames)
               /\ c = Object => w[c].interfaces = <<>>
    BY <1>1, Zenon DEF WellFormed, ClassNames
  <1>3. ASSUME NEW c \in ClassNames
        PROVE  /\ Range(w[c].interfaces) \subseteq InterfaceNames \cap ClassNames
               /\ w[c].interfaces \in Seq(ClassNames)
               /\ c = Object => Range(w[c].interfaces) = {}
    <2>1. w[c].interfaces \in Seq(InterfaceNames \cap ClassNames)
      BY <1>2
    <2>2. c = Object => w[c].interfaces = <<>>
      BY <1>2, Zenon
    <2> QED
      BY <2>1, <2>2 DEF Range
  <1>4. NoText \notin ClassNames /\ Object \in ClassNames \ InterfaceNames
    BY WorldsAssumption, Zenon DEF ClassNames
  <1> QED
    BY <1>1, <1>2, <1>3, <1>4, Zenon

LEMMA HierarchyInduction ==
    ASSUME NEW w, WellFormed(w), NEW S,
           \A c \in ClassNames :
               /\ w[c].super \in ClassNames => w[c].super \in S
               /\ \A i \in Range(w[c].interfaces) : i \in S
               => c \in S
    PROVE  ClassNames \subseteq S
  <1> DEFINE T == ClassNames \ S
  <1> SUFFICES ASSUME T # {} PROVE FALSE
    OBVIOUS
  <1>1. DOMAIN w = ClassNames
    BY DEF WellFormed, ClassNames
  <1>2. PICK c \in T : w[c].super \notin T /\ Range(w[c].interfaces) \cap T = {}
    <2>1. T \in (SUBSET DOMAIN w) \ {{}}
      BY <1>1
    <2> HIDE DEF T
    <2> QED
      BY <2>1, Zenon DEF WellFormed
  <1>3. \A i \in Range(w[c].interfaces) : i \in ClassNames
    BY HierarchyFacts
  <1> QED
    BY <1>2, <1>3

\* The superclasses of a class.
Path(w, c, s) ==
    /\ s \in Seq(ClassNames) /\ s # <<>> /\ s[1] = c
    /\ \A i \in 1..(Len(s) - 1) : w[s[i]].super = s[i + 1]
    /\ w[s[Len(s)]].super \notin ClassNames

LEMMA PathGrows ==
    ASSUME NEW w, NEW c \in ClassNames, NEW s
    PROVE  /\ w[c].super \notin ClassNames => Path(w, c, <<c>>)
           /\ Path(w, w[c].super, s) => Path(w, c, <<c>> \o s)
  <1>1. w[c].super \notin ClassNames => Path(w, c, <<c>>)
    BY DEF Path
  <1>2. ASSUME Path(w, w[c].super, s) PROVE Path(w, c, <<c>> \o s)
    <2> DEFINE t == <<c>> \o s
    <2>1. s \in Seq(ClassNames) /\ s # <<>> /\ Len(s) \in Nat \ {0} /\ s[1] = w[c].super
      BY <1>2 DEF Path
    <2>2. /\ t \in Seq(ClassNames) /\ t # <<>> /\ t[1] = c /\ Len(t) = Len(s) + 1
          /\ \A i \in 1..Len(s) : t[i + 1] = s[i]
      BY <2>1
    <2> HIDE DEF t
    <2>3. ASSUME NEW i \in 1..(Len(t) - 1) PROVE w[t[i]].super = t[i + 1]
      <3>1. CASE i = 1
        <4>1. 1 \in 1..Len(s) /\ t[1 + 1] = s[1]
          BY <2>1, <2>2
        <4> QED
          BY <2>1, <2>2, <3>1, <4>1
      <3>2. CASE i # 1
        <4>1. i - 1 \in 1..(Len(s) - 1) /\ i - 1 \in 1..Len(s) /\ i \in 1..Len(s) /\ (i - 1) + 1 = i
          BY <2>1, <2>2, <3>2
        <4>2. t[(i - 1) + 1] = s[i - 1] /\ t[i + 1] = s[i]
          BY <2>2, <4>1
        <4>3. w[s[i - 1]].super = s[(i - 1) + 1]
          BY <1>2, <4>1 DEF Path
        <4> QED
          BY <4>1, <4>2, <4>3
      <3> QED
        BY <3>1, <3>2
    <2>4. w[t[Len(t)]].super \notin ClassNames
      <3>1. t[Len(s) + 1] = s[Len(s)]
        BY <2>1, <2>2
      <3> QED
        BY <1>2, <2>2, <3>1 DEF Path
    <2> QED
      BY <2>2, <2>3, <2>4 DEF Path, t
  <1> QED
    BY <1>1, <1>2

LEMMA PathExists ==
    ASSUME NEW w, WellFormed(w)
    PROVE  \A c \in ClassNames : \E s : Path(w, c, s)
  <1> DEFINE S == {c \in ClassNames : \E s : Path(w, c, s)}
  <1>1. ASSUME NEW c \in ClassNames, w[c].super \in ClassNames => w[c].super \in S
        PROVE  c \in S
    BY <1>1, PathGrows
  <1> HIDE DEF S
  <1>2. ClassNames \subseteq S
    BY <1>1, HierarchyInduction, Zenon
  <1> QED
    BY <1>2 DEF S

LEMMA PathShrinks ==
    ASSUME NEW w, NEW c, NEW s, Path(w, c, s)
    PROVE  \/ w[c].super \notin ClassNames /\ s = <<c>>
           \/ /\ w[c].super \in ClassNames /\ s = <<c>> \o Tail(s)
              /\ Path(w, w[c].super, Tail(s))
  <1>1. s \in Seq(ClassNames) /\ Len(s) \in Nat \ {0} /\ s[1] = c
    BY DEF Path
  <1>2. CASE Len(s) = 1
    <2>1. s = <<c>>
      BY <1>1, <1>2
    <2>2. w[c].super \notin ClassNames
      BY <1>1, <1>2 DEF Path
    <2> QED
      BY <2>1, <2>2
  <1>3. CASE Len(s) # 1
    <2>0. Len(s) > 1
      <3>1. ASSUME NEW n \in Nat \ {0}, n # 1 PROVE n > 1
        BY <3>1
      <3> QED
        BY <1>1, <1>3, <3>1, Zenon
    <2>1. w[c].super = s[2] /\ s[2] \in ClassNames
      <3>1. 1 \in 1..(Len(s) - 1) /\ 1 + 1 = 2 /\ 2 \in 1..Len(s)
        BY <2>0
      <3>2. w[s[1]].super = s[1 + 1]
        BY <3>1, Zenon DEF Path
      <3> QED
        BY <1>1, <3>1, <3>2
    <2> DEFINE t == Tail(s)
    <2>2. /\ t \in Seq(ClassNames) /\ Len(t) = Len(s) - 1 /\ t # <<>>
          /\ \A i \in 1..Len(t) : t[i] = s[i + 1]
      <3>1. Len(s) > 1
        BY <2>0
      <3>2. t \in Seq(ClassNames) /\ Len(t) = Len(s) - 1
        BY <1>1, <3>1
      <3>3. t # <<>>
        <4>1. Len(t) # 0
          BY <1>1, <2>0, <3>2
        <4> HIDE DEF t
        <4> QED
          BY <4>1
      <3>4. \A i \in 1..Len(t) : t[i] = s[i + 1]
        BY <1>1, <3>1, <3>2
      <3> QED
        BY <3>2, <3>3, <3>4
    <2>3. s = <<c>> \o t
      BY <1>1, <1>3
    <2> HIDE DEF t
    <2>4. t[1] = w[c].super
      <3>1. 1 \in 1..Len(t)
        BY <1>1, <1>3, <2>2
      <3> QED
        BY <1>1, <2>1, <2>2, <3>1
    <2>5. ASSUME NEW i \in 1..(Len(t) - 1) PROVE w[t[i]].super = t[i + 1]
      <3>1. i + 1 \in 1..(Len(s) - 1) /\ i \in 1..Len(t) /\ i + 1 \in 1..Len(t)
        BY <1>1, <2>2
      <3> QED
        BY <2>2, <3>1 DEF Path
    <2>6. w[t[Len(t)]].super \notin ClassNames
      <3>1. Len(t) \in 1..Len(t) /\ Len(t) + 1 = Len(s)
        BY <1>1, <1>3, <2>2
      <3>2. t[Len(t)] = s[Len(s)]
        BY <2>2, <3>1
      <3> QED
        BY <3>2 DEF Path
    <2> QED
      BY <1>1, <2>1, <2>2, <2>3, <2>4, <2>5, <2>6 DEF Path, t
  <1> QED
    BY <1>2, <1>3

LEMMA PathUnique ==
    ASSUME NEW w, WellFormed(w)
    PROVE  \A c \in ClassNames : \A s, t : Path(w, c, s) /\ Path(w, c, t) => s = t
  <1> DEFINE S == {c \in ClassNames : \A s, t : Path(w, c, s) /\ Path(w, c, t) => s = t}
  <1>1. ASSUME NEW c \in ClassNames, w[c].super \in ClassNames => w[c].super \in S
        PROVE  c \in S
    <2> SUFFICES ASSUME NEW s, NEW t, Path(w, c, s), Path(w, c, t) PROVE s = t
      OBVIOUS
    <2>1. CASE w[c].super \notin ClassNames
      BY <2>1, PathShrinks, ZenonT(60)
    <2>2. CASE w[c].super \in ClassNames
      <3>1. /\ s = <<c>> \o Tail(s) /\ Path(w, w[c].super, Tail(s))
            /\ t = <<c>> \o Tail(t) /\ Path(w, w[c].super, Tail(t))
        BY <2>2, PathShrinks, ZenonT(60)
      <3>2. Tail(s) = Tail(t)
        BY <1>1, <2>2, <3>1
      <3> QED
        BY <3>1, <3>2
    <2> QED
      BY <2>1, <2>2
  <1> HIDE DEF S
  <1>2. ClassNames \subseteq S
    BY <1>1, HierarchyInduction, Zenon
  <1> QED
    BY <1>2 DEF S

ChainRule(w, f) == f = [c \in ClassNames |->
    <<c>> \o (IF w[c].super \in ClassNames THEN f[w[c].super] ELSE <<>>)]

LEMMA ChainExists ==
    ASSUME NEW w, WellFormed(w)
    PROVE  \E f : ChainRule(w, f)
  <1> DEFINE path(c) == CHOOSE s : Path(w, c, s)
             f == [c \in ClassNames |-> path(c)]
  <1>1. \A c \in ClassNames : Path(w, c, path(c))
    BY PathExists
  <1> HIDE DEF path
  <1>2. ASSUME NEW c \in ClassNames
        PROVE  f[c] = <<c>> \o (IF w[c].super \in ClassNames THEN f[w[c].super] ELSE <<>>)
    <2>1. CASE w[c].super \notin ClassNames
      <3>1. path(c) = <<c>>
        BY <1>1, <2>1, PathShrinks, Zenon
      <3> QED
        BY <2>1, <3>1
    <2>2. CASE w[c].super \in ClassNames
      <3>1. Path(w, c, <<c>> \o path(w[c].super))
        BY <1>1, <2>2, PathGrows
      <3>2. path(c) = <<c>> \o path(w[c].super)
        BY <1>1, <3>1, PathUnique, Zenon
      <3> QED
        BY <2>2, <3>2
    <2> QED
      BY <2>1, <2>2
  <1>3. f = [c \in ClassNames |-> f[c]]
    OBVIOUS
  <1> HIDE DEF f
  <1>4. ChainRule(w, f)
    BY <1>2, <1>3 DEF ChainRule
  <1> QED
    BY <1>4

LEMMA ChainsArePaths ==
    ASSUME NEW w, WellFormed(w), NEW f, ChainRule(w, f)
    PROVE  \A c \in ClassNames : Path(w, c, f[c])
  <1> DEFINE S == {c \in ClassNames : Path(w, c, f[c])}
  <1>1. ASSUME NEW c \in ClassNames, w[c].super \in ClassNames => w[c].super \in S
        PROVE  c \in S
    <2>1. f[c] = <<c>> \o (IF w[c].super \in ClassNames THEN f[w[c].super] ELSE <<>>)
      BY DEF ChainRule
    <2>2. CASE w[c].super \notin ClassNames
      <3>1. f[c] = <<c>>
        BY <2>1, <2>2
      <3> QED
        BY <2>2, <3>1, PathGrows
    <2>3. CASE w[c].super \in ClassNames
      <3>1. f[c] = <<c>> \o f[w[c].super]
        BY <2>1, <2>3
      <3> QED
        BY <1>1, <2>3, <3>1, PathGrows
    <2> QED
      BY <2>2, <2>3
  <1> HIDE DEF S
  <1>2. ClassNames \subseteq S
    BY <1>1, HierarchyInduction, Zenon
  <1> QED
    BY <1>2 DEF S

\* The functions of JavaRules in program w.
JavaClasses(w) == CHOOSE f : f = [c \in DOMAIN w |->
    <<c>> \o (IF w[c].super = NoText THEN <<>> ELSE f[w[c].super])]

LEMMA ClassesFollowRule ==
    ASSUME NEW w, WellFormed(w)
    PROVE  ChainRule(w, JavaClasses(w))
  <1> DEFINE Rule(f) == f = [c \in DOMAIN w |->
                 <<c>> \o (IF w[c].super = NoText THEN <<>> ELSE f[w[c].super])]
  <1>1. DOMAIN w = ClassNames
    BY DEF WellFormed, ClassNames
  <1>2. \A c \in ClassNames : w[c].super = NoText <=> w[c].super \notin ClassNames
    BY HierarchyFacts
  <1>3. ASSUME NEW f PROVE Rule(f) <=> ChainRule(w, f)
    <2>1. [c \in DOMAIN w |-> <<c>> \o (IF w[c].super = NoText THEN <<>> ELSE f[w[c].super])]
          = [c \in ClassNames |->
                 <<c>> \o (IF w[c].super \in ClassNames THEN f[w[c].super] ELSE <<>>)]
      BY <1>1, <1>2
    <2> QED
      BY <2>1 DEF ChainRule
  <1>4. JavaClasses(w) = CHOOSE f : Rule(f)
    BY DEF JavaClasses
  <1> HIDE DEF Rule
  <1> QED
    BY <1>3, <1>4, ChainExists

\* Two chains of the same classes are the same.
LEMMA ChainsAreClasses ==
    ASSUME NEW w, WellFormed(w), NEW f, ChainRule(w, f), NEW c \in ClassNames
    PROVE  f[c] = JavaClasses(w)[c]
  <1>1. Path(w, c, f[c])
    BY ChainsArePaths
  <1>2. Path(w, c, JavaClasses(w)[c])
    BY ClassesFollowRule, ChainsArePaths
  <1> QED
    BY <1>1, <1>2, PathUnique, Zenon

\* The superclasses as a set.
Line(w, c) == Range(JavaClasses(w)[c])

LEMMA LineFacts ==
    ASSUME NEW w, WellFormed(w), NEW c \in ClassNames
    PROVE  /\ JavaClasses(w)[c] \in Seq(ClassNames) /\ Line(w, c) \subseteq ClassNames
           /\ Line(w, c) = {c} \cup (IF w[c].super \in ClassNames THEN Line(w, w[c].super) ELSE {})
  <1> DEFINE s == JavaClasses(w)[c]
             t == JavaClasses(w)[w[c].super]
  <1>1. Path(w, c, s)
    BY ClassesFollowRule, ChainsArePaths, Zenon
  <1>2. s \in Seq(ClassNames)
    BY <1>1, Zenon DEF Path
  <1>3. s = <<c>> \o (IF w[c].super \in ClassNames THEN t ELSE <<>>)
    BY ClassesFollowRule DEF ChainRule
  <1>4. CASE w[c].super \notin ClassNames
    <2>1. s = <<c>>
      BY <1>3, <1>4
    <2>2. Line(w, c) = {c}
      BY <2>1 DEF Line, Range
    <2> QED
      BY <1>2, <1>4, <2>2
  <1>5. CASE w[c].super \in ClassNames
    <2>1. t \in Seq(ClassNames)
      BY <1>5, ClassesFollowRule, ChainsArePaths, Zenon DEF Path
    <2>2. s = <<c>> \o t
      BY <1>3, <1>5
    <2> HIDE DEF s, t
    <2>3. Range(s) = {c} \cup Range(t)
      <3>1. Len(s) = Len(t) + 1 /\ Len(t) \in Nat /\ s[1] = c /\ DOMAIN s = 1..Len(s)
            /\ DOMAIN t = 1..Len(t)
        BY <1>2, <2>1, <2>2
      <3>2. \A i \in 1..Len(t) : s[i + 1] = t[i]
        BY <2>1, <2>2
      <3>3. ASSUME NEW i \in DOMAIN s PROVE s[i] \in {c} \cup Range(t)
        <4>1. CASE i = 1
          BY <3>1, <4>1
        <4>2. CASE i # 1
          <5>1. i - 1 \in 1..Len(t) /\ (i - 1) + 1 = i
            BY <3>1, <4>2
          <5>2. s[i] = t[i - 1]
            BY <3>2, <5>1
          <5> QED
            BY <3>1, <5>1, <5>2 DEF Range
        <4> QED
          BY <4>1, <4>2
      <3>4. c \in Range(s)
        <4>1. 1 \in DOMAIN s
          BY <3>1
        <4> QED
          BY <3>1, <4>1, Zenon DEF Range
      <3>5. ASSUME NEW i \in DOMAIN t PROVE t[i] \in Range(s)
        <4>1. i + 1 \in DOMAIN s
          BY <3>1
        <4> QED
          BY <3>1, <3>2, <4>1 DEF Range
      <3> QED
        BY <3>3, <3>4, <3>5 DEF Range
    <2>4. Line(w, c) = Range(s) /\ Line(w, w[c].super) = Range(t)
      BY DEF Line, s, t
    <2>5. Range(s) \subseteq ClassNames
      BY <1>2 DEF Range, s
    <2> QED
      BY <1>2, <1>5, <2>3, <2>4, <2>5 DEF s
  <1> QED
    BY <1>4, <1>5

LEMMA ObjectIsOnTop ==
    ASSUME NEW w, WellFormed(w)
    PROVE  \A c \in ClassNames : Object \in Line(w, c)
  <1> DEFINE S == {c \in ClassNames : Object \in Line(w, c)}
  <1>1. ASSUME NEW c \in ClassNames, w[c].super \in ClassNames => w[c].super \in S
        PROVE  c \in S
    <2>1. w[c].super \notin ClassNames => c = Object
      BY HierarchyFacts
    <2> QED
      BY <1>1, <2>1, LineFacts
  <1> HIDE DEF S
  <1>2. ClassNames \subseteq S
    BY <1>1, HierarchyInduction, Zenon
  <1> QED
    BY <1>2 DEF S

-----------------------------------------------------------------------------
(* Supertypes                                                              *)

JavaSupertypes(w) == CHOOSE f : f = [c \in DOMAIN w |->
    {c} \cup (UNION {f[i] : i \in Range(w[c].interfaces)})
        \cup (IF w[c].super = NoText THEN {} ELSE f[w[c].super])]

\* The types that a class names.
Parents(w, c) == Range(w[c].interfaces) \cup (ClassNames \cap {w[c].super})

SupertypesRule(w, f) == f = [c \in ClassNames |-> {c} \cup (UNION {f[i] : i \in Parents(w, c)})]

\* What every set of types that has c, and the parents of all its types, has.
Closed(w, S) == \A c \in S : Parents(w, c) \subseteq S
Up(w, c) == {x \in ClassNames : \A S \in SUBSET ClassNames : Closed(w, S) /\ c \in S => x \in S}

LEMMA SupertypesExist ==
    ASSUME NEW w, WellFormed(w)
    PROVE  SupertypesRule(w, [c \in ClassNames |-> Up(w, c)])
  <1> DEFINE f == [c \in ClassNames |-> Up(w, c)]
  <1>1. \A c \in ClassNames : Parents(w, c) \subseteq ClassNames
    BY HierarchyFacts DEF Parents
  <1>2. ASSUME NEW c \in ClassNames PROVE f[c] = {c} \cup (UNION {f[i] : i \in Parents(w, c)})
    <2> DEFINE S == {c} \cup (UNION {Up(w, i) : i \in Parents(w, c)})
    <2>1. S = {c} \cup (UNION {f[i] : i \in Parents(w, c)})
      BY <1>1
    <2>2. S \in SUBSET ClassNames
      BY DEF Up
    <2>3. ASSUME NEW x \in ClassNames, NEW y \in Parents(w, x) PROVE y \in Up(w, y)
      BY <1>1, <2>3, Zenon DEF Up
    <2>4. ASSUME NEW x \in S, NEW y \in Parents(w, x) PROVE y \in S
      <3>1. CASE x = c
        BY <2>3, <3>1
      <3>2. ASSUME NEW i \in Parents(w, c), x \in Up(w, i) PROVE y \in S
        <4>1. x \in ClassNames /\ y \in ClassNames
          BY <1>1, <3>2 DEF Up
        <4>2. \A R \in SUBSET ClassNames : Closed(w, R) /\ i \in R => x \in R
          BY <3>2, Zenon DEF Up
        <4>3. \A R \in SUBSET ClassNames : Closed(w, R) /\ i \in R => y \in R
          BY <4>2, Zenon DEF Closed
        <4>4. y \in Up(w, i)
          BY <4>1, <4>3, Zenon DEF Up
        <4> QED
          BY <4>4
      <3> QED
        BY <3>1, <3>2
    <2>5. Closed(w, S)
      <3> HIDE DEF S
      <3> QED
        BY <2>4, Zenon DEF Closed
    <2>6. c \in S
      OBVIOUS
    <2>7. Up(w, c) \subseteq S
      <3> HIDE DEF S
      <3> QED
        BY <2>2, <2>5, <2>6, Zenon DEF Up
    <2>8. c \in Up(w, c)
      BY Zenon DEF Up
    <2>9. ASSUME NEW i \in Parents(w, c) PROVE Up(w, i) \subseteq Up(w, c)
      <3>1. \A R \in SUBSET ClassNames : Closed(w, R) /\ c \in R => i \in R
        BY Zenon DEF Closed
      <3> QED
        BY <3>1, Zenon DEF Up
    <2>10. S \subseteq Up(w, c)
      BY <2>8, <2>9
    <2> QED
      BY <2>1, <2>7, <2>10
  <1> HIDE DEF f
  <1>3. f = [c \in ClassNames |-> f[c]]
    BY DEF f
  <1>4. SupertypesRule(w, f)
    BY <1>2, <1>3 DEF SupertypesRule
  <1> QED
    BY <1>4 DEF f

LEMMA SupertypesFollowRule ==
    ASSUME NEW w, WellFormed(w)
    PROVE  SupertypesRule(w, JavaSupertypes(w))
  <1> DEFINE Rule(f) == f = [c \in DOMAIN w |->
                 {c} \cup (UNION {f[i] : i \in Range(w[c].interfaces)})
                     \cup (IF w[c].super = NoText THEN {} ELSE f[w[c].super])]
  <1>1. DOMAIN w = ClassNames
    BY DEF WellFormed, ClassNames
  <1>2. \A c \in ClassNames : /\ w[c].super = NoText <=> w[c].super \notin ClassNames
    BY HierarchyFacts
  <1>3. ASSUME NEW f PROVE Rule(f) <=> SupertypesRule(w, f)
    <2>1. ASSUME NEW c \in ClassNames
          PROVE  {c} \cup (UNION {f[i] : i \in Range(w[c].interfaces)})
                     \cup (IF w[c].super = NoText THEN {} ELSE f[w[c].super])
                 = {c} \cup (UNION {f[i] : i \in Parents(w, c)})
      <3>1. CASE w[c].super = NoText
        <4>1. Parents(w, c) = Range(w[c].interfaces)
          BY <1>2, <3>1 DEF Parents
        <4> QED
          BY <3>1, <4>1
      <3>2. CASE w[c].super # NoText
        <4>1. Parents(w, c) = Range(w[c].interfaces) \cup {w[c].super}
          BY <1>2, <3>2 DEF Parents
        <4>2. UNION {f[i] : i \in Parents(w, c)}
              = (UNION {f[i] : i \in Range(w[c].interfaces)}) \cup f[w[c].super]
          BY <4>1
        <4> QED
          BY <3>2, <4>2
      <3> QED
        BY <3>1, <3>2
    <2> QED
      BY <1>1, <2>1 DEF SupertypesRule
  <1>4. JavaSupertypes(w) = CHOOSE f : Rule(f)
    BY DEF JavaSupertypes
  <1> HIDE DEF Rule
  <1> QED
    BY <1>3, <1>4, SupertypesExist

LEMMA SupertypeFacts ==
    ASSUME NEW w, WellFormed(w), NEW c \in ClassNames
    PROVE  /\ c \in JavaSupertypes(w)[c]
           /\ \A i \in Parents(w, c) : JavaSupertypes(w)[i] \subseteq JavaSupertypes(w)[c]
           /\ \A x \in JavaSupertypes(w)[c] :
                  x = c \/ \E i \in Parents(w, c) : x \in JavaSupertypes(w)[i]
           /\ Parents(w, c) \subseteq ClassNames
  <1>1. JavaSupertypes(w)[c] = {c} \cup (UNION {JavaSupertypes(w)[i] : i \in Parents(w, c)})
    BY SupertypesFollowRule DEF SupertypesRule
  <1>2. Parents(w, c) \subseteq ClassNames
    BY HierarchyFacts DEF Parents
  <1> QED
    BY <1>1, <1>2

\* The types that a class, or a superclass of it, names.
NamedBy(w, c) == UNION {{k} \cup Range(w[k].interfaces) : k \in Line(w, c)}

\* They are supertypes, and all of those that are no interfaces.
LEMMA SupertypesOfLine ==
    ASSUME NEW w, WellFormed(w)
    PROVE  \A c \in ClassNames :
               /\ JavaSupertypes(w)[c] \subseteq ClassNames
               /\ NamedBy(w, c) \subseteq JavaSupertypes(w)[c]
               /\ JavaSupertypes(w)[c] \ InterfaceNames \subseteq Line(w, c)
  <1> DEFINE J(c) == JavaSupertypes(w)[c]
             S == {c \in ClassNames : /\ J(c) \subseteq ClassNames
                                      /\ NamedBy(w, c) \subseteq J(c)
                                      /\ J(c) \ InterfaceNames \subseteq Line(w, c)}
  <1>1. ASSUME NEW c \in ClassNames, w[c].super \in ClassNames => w[c].super \in S,
               \A i \in Range(w[c].interfaces) : i \in S
        PROVE  c \in S
    <2>1. /\ c \in J(c) /\ Parents(w, c) \subseteq ClassNames
          /\ \A i \in Parents(w, c) : J(i) \subseteq J(c)
          /\ \A x \in J(c) : x = c \/ \E i \in Parents(w, c) : x \in J(i)
      BY SupertypeFacts
    <2>2. \A i \in Parents(w, c) : i \in S
      BY <1>1 DEF Parents
    <2>3. /\ \A i \in Range(w[c].interfaces) : i \in Parents(w, c)
          /\ w[c].super \in ClassNames => w[c].super \in Parents(w, c)
      BY DEF Parents
    <2>4. Line(w, c) = {c} \cup (IF w[c].super \in ClassNames THEN Line(w, w[c].super) ELSE {})
      BY LineFacts
    <2> HIDE DEF J
    <2>5. J(c) \subseteq ClassNames
      BY <2>1, <2>2
    <2>6. ASSUME NEW k \in Line(w, c), NEW x \in {k} \cup Range(w[k].interfaces)
          PROVE  x \in J(c)
      <3>1. CASE k = c
        <4>1. ASSUME x \in Range(w[c].interfaces) PROVE x \in J(c)
          <5>1. x \in Parents(w, c) /\ x \in ClassNames
            BY <2>1, <2>3, <4>1
          <5>2. x \in J(x)
            BY <5>1, SupertypeFacts DEF J
          <5> QED
            BY <2>1, <5>1, <5>2
        <4> QED
          BY <2>1, <2>6, <3>1, <4>1
      <3>2. CASE k # c
        <4>1. w[c].super \in ClassNames /\ k \in Line(w, w[c].super)
          BY <2>4, <2>6, <3>2
        <4>2. x \in NamedBy(w, w[c].super)
          BY <2>6, <4>1 DEF NamedBy
        <4>3. x \in J(w[c].super)
          BY <1>1, <4>1, <4>2
        <4> QED
          BY <2>1, <2>3, <4>1, <4>3
      <3> QED
        BY <3>1, <3>2
    <2>7. NamedBy(w, c) \subseteq J(c)
      BY <2>6 DEF NamedBy
    <2>8. ASSUME NEW x \in J(c), x \notin InterfaceNames PROVE x \in Line(w, c)
      <3>1. CASE x = c
        BY <2>4, <3>1
      <3>2. ASSUME NEW i \in Range(w[c].interfaces), x \in J(i) PROVE x \in Line(w, c)
        <4>1. i \in ClassNames /\ i \in InterfaceNames
          BY HierarchyFacts
        <4>2. x \in Line(w, i)
          BY <1>1, <2>8, <3>2
        <4>3. Line(w, i) = {i} \cup Line(w, Object)
          BY <4>1, HierarchyFacts, LineFacts
        <4>4. Line(w, Object) = {Object}
          BY HierarchyFacts, LineFacts
        <4>5. x = Object
          BY <2>8, <4>1, <4>2, <4>3, <4>4
        <4> QED
          BY <4>5, ObjectIsOnTop
      <3>3. ASSUME w[c].super \in ClassNames, x \in J(w[c].super) PROVE x \in Line(w, c)
        BY <1>1, <2>4, <2>8, <3>3
      <3>4. x = c \/ \E i \in Parents(w, c) : x \in J(i)
        BY <2>1
      <3> QED
        BY <3>1, <3>2, <3>3, <3>4 DEF Parents
    <2> QED
      BY <2>5, <2>7, <2>8
  <1> HIDE DEF S
  <1>2. ClassNames \subseteq S
    BY <1>1, HierarchyInduction, Zenon
  <1> QED
    BY <1>2 DEF S

-----------------------------------------------------------------------------
(* What the properties say, of a program and an answer                     *)

LEMMA JavaIs == Java!Classes = JavaClasses(world) /\ Java!Supertypes = JavaSupertypes(world)
  <1>1. Java!Classes = JavaClasses(world)
    BY DEF Java!Classes, JavaClasses
  <1>2. Java!Supertypes = JavaSupertypes(world)
    BY DEF Java!Supertypes, JavaSupertypes, Java!Range, Range
  <1> QED
    BY <1>1, <1>2

\* The classes that have a method or field.
WithField(w, static, x, d) == {c \in ClassNames : Java!Described(w[c].fields, static, x, d) # {}}
WithMethod(w, static, x, d) == {c \in ClassNames : Java!Described(w[c].methods, static, x, d) # {}}

NearestOwner(w, c, static, x, d) == FirstIn(JavaClasses(w)[c], WithField(w, static, x, d), Nowhere)

\* Java!NearestField, of a program.
SeenIn(w, c, static, x, d) ==
    LET i == SelectInSeq(JavaClasses(w)[c], LAMBDA k : Java!Described(w[k].fields, static, x, d) # {})
    IN  IF i = 0 THEN Nowhere ELSE JavaClasses(w)[c][i]

LEMMA SeenOfWorld ==
    \A c, static, x, d : Java!NearestField(c, static, x, d) = SeenIn(world, c, static, x, d)
  <1> SUFFICES ASSUME NEW c, NEW static, NEW x, NEW d
               PROVE  Java!NearestField(c, static, x, d) = SeenIn(world, c, static, x, d)
    OBVIOUS
  <1>1. Java!Classes = JavaClasses(world)
    BY JavaIs
  <1> QED
    <2> DEFINE s == JavaClasses(world)[c]
               has(k) == Java!Described(world[k].fields, static, x, d) # {}
    <2>1. Java!NearestField(c, static, x, d) =
            LET i == Java!SelectInSeq(Java!Classes[c], LAMBDA k : has(k))
            IN  IF i = 0 THEN Nowhere ELSE Java!Classes[c][i]
      BY Zenon DEF Java!NearestField, Java!Nearest
    <2>2. SeenIn(world, c, static, x, d) =
            LET i == SelectInSeq(s, LAMBDA k : has(k)) IN IF i = 0 THEN Nowhere ELSE s[i]
      BY Zenon DEF SeenIn
    <2>3. Java!SelectInSeq(s, LAMBDA k : has(k)) = SelectInSeq(s, LAMBDA k : has(k))
      BY Zenon DEF Java!SelectInSeq, Java!Min, SelectInSeq, Min
    <2>4. Java!Classes[c] = s
      BY <1>1
    <2> HIDE DEF s, has
    <2> QED
      BY <2>1, <2>2, <2>3, <2>4, Zenon

LEMMA SeenInIs ==
    ASSUME NEW w, WellFormed(w), NEW c \in ClassNames, NEW static, NEW x, NEW d
    PROVE  SeenIn(w, c, static, x, d) = NearestOwner(w, c, static, x, d)
  <1> DEFINE s == JavaClasses(w)[c]
             H == {i \in 1..Len(s) : Java!Described(w[s[i]].fields, static, x, d) # {}}
  <1>1. s \in Seq(ClassNames)
    BY LineFacts
  <1>2. H = Hits(s, WithField(w, static, x, d))
    <2>1. \A i \in 1..Len(s) : s[i] \in ClassNames
      BY <1>1
    <2> HIDE DEF s
    <2>2. \A i \in 1..Len(s) : s[i] \in WithField(w, static, x, d)
              <=> Java!Described(w[s[i]].fields, static, x, d) # {}
      BY <2>1, Zenon DEF WithField
    <2> QED
      BY <2>2, Zenon DEF Hits
  <1>3. SeenIn(w, c, static, x, d)
        = LET i == IF H # {} THEN Min(H) ELSE 0 IN IF i = 0 THEN Nowhere ELSE s[i]
    BY Zenon DEF SeenIn, SelectInSeq
  <1>4. H \in SUBSET (Nat \ {0})
    OBVIOUS
  <1> HIDE DEF H, s
  <1>5. H # {} => Min(H) \in Nat \ {0}
    BY <1>4, MinFacts
  <1>6. SeenIn(w, c, static, x, d) = IF H = {} THEN Nowhere ELSE s[Min(H)]
    BY <1>3, <1>5
  <1> QED
    BY <1>2, <1>6 DEF FirstIn, NearestOwner, s

LEMMA FoundSomewhere ==
    ASSUME NEW s, NEW S, NEW none, NEW other, FirstIn(s, S, none) # none
    PROVE  /\ FirstIn(s, S, other) = FirstIn(s, S, none)
           /\ \E i \in 1..Len(s) : s[i] \in S
  BY DEF FirstIn, Hits

-----------------------------------------------------------------------------
(* Resolution of fields                                                    *)

\* Java!OwnerOf and Java!FieldOf, of a program.
HasField(w, k, x, d) == \E f \in Range(w[k].fields) : f.name = x /\ f.desc = d
Above(w, k) == w[k].interfaces \o (IF w[k].super = NoText THEN <<>> ELSE <<w[k].super>>)
OwnerStep(w, x, d, k, f) ==
    LET hits == {i \in 1..Len(Above(w, k)) : f[Above(w, k)[i]] # Nowhere}
    IN  IF HasField(w, k, x, d) THEN k
        ELSE IF hits = {} THEN Nowhere ELSE f[Above(w, k)[Min(hits)]]
OwnerRule(w, x, d, f) == f = [k \in DOMAIN w |-> OwnerStep(w, x, d, k, f)]
Owners(w, x, d) == CHOOSE f : OwnerRule(w, x, d, f)
FieldIn(w, c, static, x, d) ==
    LET owner == Owners(w, x, d)[c]
    IN  IF owner # Nowhere /\ Java!Described(w[owner].fields, static, x, d) # {}
        THEN owner ELSE Nowhere

LEMMA FieldOfWorld ==
    \A c, static, x, d : Java!FieldOf(c, static, x, d) = FieldIn(world, c, static, x, d)
  <1> SUFFICES ASSUME NEW c, NEW static, NEW x, NEW d
               PROVE  Java!FieldOf(c, static, x, d) = FieldIn(world, c, static, x, d)
    OBVIOUS
  <1>1. Java!OwnerOf(c, x, d) = Owners(world, x, d)[c]
    BY DEF Java!OwnerOf, Owners, OwnerRule, OwnerStep, HasField, Above,
           Java!Range, Range, Java!Min, Min
  <1> QED
    BY <1>1, Zenon DEF Java!FieldOf, FieldIn

LEMMA LastOfLonger ==
    ASSUME NEW T, NEW s \in Seq(T), NEW v \in T, NEW i \in 1..Len(s \o <<v>>), i > Len(s)
    PROVE  (s \o <<v>>)[i] = v
  OBVIOUS

LEMMA AboveIs ==
    ASSUME NEW w, WellFormed(w), NEW k \in ClassNames, NEW i \in 1..Len(Above(w, k))
    PROVE  Above(w, k)[i] \in Parents(w, k)
  <1> DEFINE s == w[k].interfaces
             t == IF w[k].super = NoText THEN <<>> ELSE <<w[k].super>>
  <1>1. s \in Seq(ClassNames) /\ w[k].super \in ClassNames \cup {NoText} /\ NoText \notin ClassNames
    BY HierarchyFacts
  <1>2. Above(w, k) = s \o t /\ t \in Seq(ClassNames)
    BY <1>1 DEF Above
  <1>3. CASE i <= Len(s)
    <2>1. i \in DOMAIN s /\ Above(w, k)[i] = s[i]
      BY <1>1, <1>2, <1>3
    <2> QED
      BY <2>1, Zenon DEF Parents, Range
  <1>4. CASE i > Len(s)
    <2>1. w[k].super # NoText
      <3> SUFFICES ASSUME w[k].super = NoText PROVE FALSE
        OBVIOUS
      <3>1. t = <<>>
        OBVIOUS
      <3> QED
        BY <1>1, <1>2, <1>4, <3>1
    <2>2. w[k].super \in ClassNames /\ Above(w, k) = s \o <<w[k].super>>
      BY <1>1, <2>1, Zenon DEF Above
    <2>3. Above(w, k)[i] = w[k].super
      <3> HIDE DEF s
      <3>1. (s \o <<w[k].super>>)[i] = w[k].super
        BY <1>1, <1>4, <2>2, LastOfLonger, Zenon
      <3> QED
        BY <2>2, <3>1
    <2> QED
      BY <2>2, <2>3, Zenon DEF Parents
  <1> QED
    BY <1>1, <1>3, <1>4

LEMMA StepIs ==
    ASSUME NEW w, WellFormed(w), NEW k \in ClassNames, NEW x, NEW d, NEW f
    PROVE  \/ HasField(w, k, x, d) /\ OwnerStep(w, x, d, k, f) = k
           \/ /\ ~HasField(w, k, x, d)
              /\ \/ OwnerStep(w, x, d, k, f) = Nowhere
                 \/ \E i \in Parents(w, k) : OwnerStep(w, x, d, k, f) = f[i]
  <1> DEFINE hits == {i \in 1..Len(Above(w, k)) : f[Above(w, k)[i]] # Nowhere}
  <1>1. hits \in SUBSET (Nat \ {0}) /\ hits \subseteq 1..Len(Above(w, k))
    OBVIOUS
  <1>2. OwnerStep(w, x, d, k, f) = IF HasField(w, k, x, d) THEN k
                                   ELSE IF hits = {} THEN Nowhere ELSE f[Above(w, k)[Min(hits)]]
    BY DEF OwnerStep
  <1> HIDE DEF hits
  <1>3. hits # {} => Above(w, k)[Min(hits)] \in Parents(w, k)
    BY <1>1, MinFacts, AboveIs
  <1> QED
    BY <1>2, <1>3

\* What a class has depends on what the types it names have.
SameAbove(w, k, f, g) == \A i \in Parents(w, k) : f[i] = g[i]
StepsMeet(w, k, f, g) == \A x, d : OwnerStep(w, x, d, k, f) = OwnerStep(w, x, d, k, g)

LEMMA StepsAgree ==
    ASSUME NEW w, WellFormed(w), NEW k \in ClassNames, NEW f, NEW g, SameAbove(w, k, f, g)
    PROVE  StepsMeet(w, k, f, g)
  <1> SUFFICES ASSUME NEW x, NEW d
               PROVE  OwnerStep(w, x, d, k, f) = OwnerStep(w, x, d, k, g)
    BY Zenon DEF StepsMeet
  <1> DEFINE hits(h) == {i \in 1..Len(Above(w, k)) : h[Above(w, k)[i]] # Nowhere}
  <1>1. \A i \in 1..Len(Above(w, k)) : f[Above(w, k)[i]] = g[Above(w, k)[i]]
    BY AboveIs DEF SameAbove
  <1>2. hits(f) = hits(g)
    BY <1>1
  <1>3. hits(f) \in SUBSET (Nat \ {0}) /\ hits(f) \subseteq 1..Len(Above(w, k))
    OBVIOUS
  <1>4. \A h : OwnerStep(w, x, d, k, h) = IF HasField(w, k, x, d) THEN k
                 ELSE IF hits(h) = {} THEN Nowhere ELSE h[Above(w, k)[Min(hits(h))]]
    BY DEF OwnerStep
  <1> HIDE DEF hits
  <1>5. hits(f) # {} => Min(hits(f)) \in 1..Len(Above(w, k))
    BY <1>3, MinFacts
  <1> QED
    BY <1>1, <1>2, <1>4, <1>5

\* f resolves the field in all classes of a set.
ResolvedOn(w, x, d, D, f) ==
    /\ D \in SUBSET ClassNames /\ Closed(w, D)
    /\ \A k \in D : f[k] = OwnerStep(w, x, d, k, f)

LEMMA ResolutionsAgree ==
    ASSUME NEW w, WellFormed(w), NEW x, NEW d, NEW D, NEW f, ResolvedOn(w, x, d, D, f),
           NEW E, NEW g, ResolvedOn(w, x, d, E, g)
    PROVE  \A k \in D \cap E : f[k] = g[k]
  <1> DEFINE S == {k \in ClassNames : k \in D \cap E => f[k] = g[k]}
  <1>1. ASSUME NEW k \in ClassNames, w[k].super \in ClassNames => w[k].super \in S,
               \A i \in Range(w[k].interfaces) : i \in S
        PROVE  k \in S
    <2> SUFFICES ASSUME k \in D \cap E PROVE f[k] = g[k]
      OBVIOUS
    <2>1. \A i \in Parents(w, k) : i \in S /\ i \in D \cap E
      <3>1. \A i \in Parents(w, k) : i \in S
        BY <1>1 DEF Parents
      <3> HIDE DEF S
      <3> QED
        BY <3>1, Zenon DEF ResolvedOn, Closed
    <2>2. SameAbove(w, k, f, g)
      BY <2>1 DEF SameAbove
    <2>3. StepsMeet(w, k, f, g)
      BY <2>2, StepsAgree, Zenon
    <2>4. OwnerStep(w, x, d, k, f) = OwnerStep(w, x, d, k, g)
      BY <2>3, Zenon DEF StepsMeet
    <2> QED
      BY <2>4, Zenon DEF ResolvedOn
  <1> HIDE DEF S
  <1>2. ClassNames \subseteq S
    BY <1>1, HierarchyInduction, Zenon
  <1> QED
    BY <1>2 DEF S, ResolvedOn

LEMMA OwnersExist ==
    ASSUME NEW w, WellFormed(w), NEW x, NEW d
    PROVE  \E f : OwnerRule(w, x, d, f)
  <1> DEFINE is(k, v) == \E D, f : ResolvedOn(w, x, d, D, f) /\ k \in D /\ v = f[k]
             value(k) == CHOOSE v : is(k, v)
             S == {k \in ClassNames : \E v : is(k, v)}
             old == [k \in ClassNames |-> value(k)]
             g == [k \in ClassNames |-> IF k \in S THEN value(k) ELSE OwnerStep(w, x, d, k, old)]
  <1>1. \A k \in ClassNames : Parents(w, k) \subseteq ClassNames
    BY HierarchyFacts DEF Parents
  <1>2. ASSUME NEW D, NEW f, ResolvedOn(w, x, d, D, f), NEW k \in D PROVE k \in S /\ value(k) = f[k]
    <2>1. k \in ClassNames /\ is(k, f[k])
      BY <1>2, Zenon DEF ResolvedOn
    <2>2. is(k, value(k))
      <3> HIDE DEF is
      <3> QED
        BY <2>1
    <2>3. PICK E, h : ResolvedOn(w, x, d, E, h) /\ k \in E /\ value(k) = h[k]
      <3> HIDE DEF value
      <3> QED
        BY <2>2
    <2>4. h[k] = f[k]
      BY <1>2, <2>3, ResolutionsAgree
    <2> HIDE DEF value, is
    <2> QED
      BY <2>1, <2>3, <2>4
  <1>3. ASSUME NEW k \in S
        PROVE  \E D, f : ResolvedOn(w, x, d, D, f) /\ k \in D
    OBVIOUS
  <1> HIDE DEF is, value
  <1>4. Closed(w, S)
    <2> SUFFICES ASSUME NEW k \in S PROVE Parents(w, k) \subseteq S
      BY Zenon DEF Closed
    <2>1. PICK D, f : ResolvedOn(w, x, d, D, f) /\ k \in D
      BY <1>3
    <2>2. Parents(w, k) \subseteq D
      BY <2>1, Zenon DEF ResolvedOn, Closed
    <2> HIDE DEF S
    <2> QED
      BY <1>2, <2>1, <2>2
  <1>5. S \subseteq ClassNames
    OBVIOUS
  <1>6. /\ \A k \in S : g[k] = value(k) /\ old[k] = value(k)
        /\ \A k \in ClassNames \ S : g[k] = OwnerStep(w, x, d, k, old)
        /\ g = [k \in ClassNames |-> g[k]]
    <2> HIDE DEF S
    <2> QED
      BY <1>5
  <1> HIDE DEF S, g, old
  <1>7. ASSUME NEW k \in S PROVE g[k] = OwnerStep(w, x, d, k, g)
    <2>1. PICK D, f : ResolvedOn(w, x, d, D, f) /\ k \in D
      BY <1>3
    <2>2. k \in ClassNames /\ f[k] = OwnerStep(w, x, d, k, f) /\ Parents(w, k) \subseteq D
      BY <1>5, <2>1, Zenon DEF ResolvedOn, Closed
    <2>3. \A i \in D : i \in S /\ f[i] = value(i)
      BY <1>2, <2>1
    <2>4. SameAbove(w, k, f, g)
      BY <1>6, <2>2, <2>3 DEF SameAbove
    <2>5. StepsMeet(w, k, f, g)
      BY <2>2, <2>4, StepsAgree, Zenon
    <2>6. OwnerStep(w, x, d, k, f) = OwnerStep(w, x, d, k, g)
      BY <2>5, Zenon DEF StepsMeet
    <2> QED
      BY <1>6, <2>1, <2>2, <2>3, <2>6
  <1>8. ASSUME NEW c \in ClassNames, Parents(w, c) \subseteq S, c \notin S
        PROVE  g[c] = OwnerStep(w, x, d, c, g)
    <2>1. SameAbove(w, c, old, g)
      BY <1>6, <1>8 DEF SameAbove
    <2>2. StepsMeet(w, c, old, g)
      BY <2>1, StepsAgree, Zenon
    <2>3. OwnerStep(w, x, d, c, old) = OwnerStep(w, x, d, c, g)
      BY <2>2, Zenon DEF StepsMeet
    <2> QED
      BY <1>6, <1>8, <2>3
  <1>9. ASSUME NEW c \in ClassNames, w[c].super \in ClassNames => w[c].super \in S,
               \A i \in Range(w[c].interfaces) : i \in S
        PROVE  c \in S
    <2> SUFFICES ASSUME c \notin S PROVE FALSE
      OBVIOUS
    <2>1. Parents(w, c) \subseteq S
      BY <1>9 DEF Parents
    <2>2. S \cup {c} \in SUBSET ClassNames
      BY <1>5
    <2>3. Closed(w, S \cup {c})
      BY <1>4, <2>1 DEF Closed
    <2>4. \A k \in S \cup {c} : g[k] = OwnerStep(w, x, d, k, g)
      BY <1>7, <1>8, <2>1
    <2>5. ResolvedOn(w, x, d, S \cup {c}, g)
      BY <2>2, <2>3, <2>4, Zenon DEF ResolvedOn
    <2> QED
      BY <1>2, <2>5
  <1>10. ClassNames \subseteq S
    BY <1>9, HierarchyInduction, Zenon
  <1>11. g = [k \in ClassNames |-> OwnerStep(w, x, d, k, g)]
    BY <1>6, <1>7, <1>10
  <1>12. DOMAIN w = ClassNames
    BY HierarchyFacts
  <1> QED
    BY <1>11, <1>12 DEF OwnerRule

LEMMA ObjectHasNoFields ==
    ASSUME NEW w, WellFormed(w), NEW x, NEW d
    PROVE  ~HasField(w, Object, x, d) /\ \A static : Object \notin WithField(w, static, x, d)
  <1>1. w[Object].fields = <<>>
    BY HierarchyFacts, Zenon DEF WellFormed
  <1>2. Range(w[Object].fields) = {}
    BY <1>1 DEF Range
  <1> QED
    BY <1>2, Zenon DEF HasField, WithField, Java!Described, Java!Range, Range

LEMMA FirstInLonger ==
    ASSUME NEW T, NEW t \in Seq(T), NEW k \in T, NEW S, k \notin S, NEW none, FirstIn(t, S, none) # none
    PROVE  FirstIn(<<k>> \o t, S, none) = FirstIn(t, S, none)
  <1> DEFINE s == <<k>> \o t
  <1>1. PICK i \in 1..Len(t) : t[i] \in S
    BY FoundSomewhere
  <1>2. PICK j \in 1..i : /\ FirstIn(t, S, none) = t[j] /\ t[j] \in S
                          /\ \A m \in 1..(j - 1) : t[m] \notin S
    BY <1>1, FirstInFacts
  <1>3. s \in Seq(T) /\ Len(s) = Len(t) + 1 /\ s[1] = k /\ \A m \in 1..Len(t) : s[m + 1] = t[m]
    OBVIOUS
  <1>4. j \in 1..Len(t) /\ j + 1 \in 1..Len(s) /\ s[j + 1] \in S /\ s[j + 1] = t[j]
    BY <1>2, <1>3
  <1> HIDE DEF s
  <1>5. PICK n \in 1..(j + 1) : /\ FirstIn(s, S, none) = s[n] /\ s[n] \in S
                                /\ \A m \in 1..(n - 1) : s[m] \notin S
    <2> DEFINE l == j + 1
    <2>1. s \in Seq(T) /\ l \in 1..Len(s) /\ s[l] \in S
      BY <1>3, <1>4
    <2> HIDE DEF l
    <2>2. \E n \in 1..l : /\ FirstIn(s, S, none) = s[n] /\ s[n] \in S
                          /\ \A m \in 1..(n - 1) : s[m] \notin S
      BY <2>1, FirstInFacts
    <2> QED
      BY <2>2, Zenon DEF l
  <1>6. n # 1
    BY <1>3, <1>5
  <1>7. n - 1 \in 1..Len(t) /\ s[n] = t[n - 1]
    <2>1. n - 1 \in 1..Len(t) /\ (n - 1) + 1 = n
      BY <1>4, <1>5, <1>6
    <2> QED
      BY <1>3, <2>1
  <1>8. n - 1 \notin 1..(j - 1)
    BY <1>2, <1>5, <1>7
  <1>9. n = j + 1
    BY <1>5, <1>6, <1>8
  <1> QED
    BY <1>2, <1>4, <1>5, <1>9 DEF s

LEMMA FirstInSubset ==
    ASSUME NEW T, NEW s \in Seq(T), NEW S, NEW none, FirstIn(s, S, none) # none,
           NEW R \in SUBSET S, FirstIn(s, S, none) \in R
    PROVE  FirstIn(s, R, none) = FirstIn(s, S, none)
  <1>1. PICK i \in 1..Len(s) : s[i] \in S
    BY FoundSomewhere
  <1>2. PICK j \in 1..i : /\ FirstIn(s, S, none) = s[j] /\ s[j] \in S
                          /\ \A m \in 1..(j - 1) : s[m] \notin S
    BY <1>1, FirstInFacts
  <1>3. j \in 1..Len(s) /\ s[j] \in R
    BY <1>2
  <1>4. PICK n \in 1..j : FirstIn(s, R, none) = s[n] /\ s[n] \in R
    BY <1>3, FirstInFacts
  <1>5. n \notin 1..(j - 1)
    BY <1>2, <1>4
  <1>6. n = j
    BY <1>4, <1>5
  <1> QED
    BY <1>2, <1>4, <1>6

\* A field that Java finds in a class and not in an interface, or in the type
\* itself, is the nearest that the superclasses have.
Having(w, x, d) == {c \in ClassNames : HasField(w, c, x, d)}

OwnerFits(w, x, d, c, o) ==
    /\ o \in Having(w, x, d)
    /\ c \in InterfaceNames => o \in InterfaceNames
    /\ o \notin InterfaceNames \/ o = c =>
           FirstIn(JavaClasses(w)[c], Having(w, x, d), Nowhere) = o

LEMMA ResolvedIs ==
    ASSUME NEW w, WellFormed(w), NEW x, NEW d
    PROVE  \A c \in ClassNames : \/ Owners(w, x, d)[c] = Nowhere
                                 \/ OwnerFits(w, x, d, c, Owners(w, x, d)[c])
  <1> DEFINE f == Owners(w, x, d)
             H == Having(w, x, d)
             line(c) == JavaClasses(w)[c]
             S == {c \in ClassNames :
                      /\ f[c] # Nowhere => f[c] \in H
                      /\ f[c] # Nowhere /\ c \in InterfaceNames => f[c] \in InterfaceNames
                      /\ f[c] # Nowhere /\ (f[c] \notin InterfaceNames \/ f[c] = c) =>
                             FirstIn(line(c), H, Nowhere) = f[c]}
  <1>1. \A c \in ClassNames : f[c] = OwnerStep(w, x, d, c, f)
    <2>1. OwnerRule(w, x, d, f)
      BY OwnersExist, Zenon DEF Owners
    <2>2. DOMAIN w = ClassNames
      BY HierarchyFacts
    <2> HIDE DEF f
    <2> QED
      BY <2>1, <2>2 DEF OwnerRule
  <1>2. Nowhere \notin ClassNames /\ H \subseteq ClassNames
    BY WorldsAssumption DEF ClassNames, Having
  <1>3. Object \notin H
    BY ObjectHasNoFields DEF Having
  <1>4. ASSUME NEW c \in ClassNames
        PROVE  /\ line(c) \in Seq(ClassNames)
               /\ line(c) = <<c>> \o (IF w[c].super \in ClassNames THEN line(w[c].super) ELSE <<>>)
    <2>1. line(c) \in Seq(ClassNames)
      BY LineFacts
    <2>2. ChainRule(w, JavaClasses(w))
      BY ClassesFollowRule
    <2> QED
      BY <2>1, <2>2 DEF ChainRule
  <1> HIDE DEF f, line
  <1>5. ASSUME NEW c \in ClassNames, w[c].super \in ClassNames => w[c].super \in S,
               \A i \in Range(w[c].interfaces) : i \in S
        PROVE  c \in S
    <2>1. CASE HasField(w, c, x, d)
      <3>1. f[c] = c /\ c \in H
        BY <1>1, <2>1, StepIs DEF Having
      <3>2. FirstIn(line(c), H, Nowhere) = c
        <4>1. 1 \in 1..Len(line(c)) /\ line(c)[1] = c
          <5> DEFINE t == IF w[c].super \in ClassNames THEN line(w[c].super) ELSE <<>>
          <5>1. t \in Seq(ClassNames)
            <6>1. CASE w[c].super \in ClassNames
              BY <1>4, <6>1
            <6>2. CASE w[c].super \notin ClassNames
              BY <6>2
            <6> QED
              BY <6>1, <6>2
          <5>2. line(c) = <<c>> \o t
            BY <1>4
          <5> HIDE DEF t
          <5> QED
            BY <5>1, <5>2
        <4>2. line(c) \in Seq(ClassNames)
          BY <1>4
        <4>3. \E j \in 1..1 : FirstIn(line(c), H, Nowhere) = line(c)[j]
          BY <3>1, <4>1, <4>2, FirstInFacts
        <4> QED
          BY <4>1, <4>3
      <3> HIDE DEF H
      <3> QED
        BY <3>1, <3>2
    <2>2. CASE ~HasField(w, c, x, d) /\ f[c] = Nowhere
      BY <2>2
    <2>3. ASSUME ~HasField(w, c, x, d), f[c] # Nowhere, NEW i \in Parents(w, c), f[c] = f[i]
          PROVE  c \in S
      <3>1. i \in S /\ i \in ClassNames /\ c \notin H
        BY <1>5, <2>3 DEF Parents, Having
      <3>2. f[c] \in H /\ f[c] # c /\ (i \in InterfaceNames => f[c] \in InterfaceNames)
        <4> HIDE DEF H
        <4> QED
          BY <2>3, <3>1
      <3>3. c \in InterfaceNames => f[c] \in InterfaceNames
        <4> SUFFICES ASSUME c \in InterfaceNames, i \notin InterfaceNames PROVE FALSE
          BY <3>2
        <4>1. i = Object
          BY HierarchyFacts DEF Parents
        <4>2. ~HasField(w, Object, x, d) /\ Parents(w, Object) = {}
          <5>1. Object \in ClassNames
            BY HierarchyFacts
          <5>2. Range(w[Object].interfaces) = {} /\ w[Object].super = NoText /\ NoText \notin ClassNames
            BY <5>1, HierarchyFacts
          <5> QED
            BY <5>2, ObjectHasNoFields DEF Parents
        <4>3. f[Object] = Nowhere
          BY <1>1, <4>2, HierarchyFacts, StepIs
        <4> QED
          BY <2>3, <4>1, <4>3
      <3>4. ASSUME f[c] \notin InterfaceNames
            PROVE  FirstIn(line(c), H, Nowhere) = f[c]
        <4>1. i \notin InterfaceNames
          BY <3>2, <3>4
        <4>2. i = w[c].super
          BY <4>1, HierarchyFacts DEF Parents
        <4>3. FirstIn(line(i), H, Nowhere) = f[c]
          <5> HIDE DEF H
          <5> QED
            BY <2>3, <3>1, <3>4
        <4>4. line(c) = <<c>> \o line(i) /\ line(i) \in Seq(ClassNames)
          BY <1>4, <3>1, <4>2
        <4> HIDE DEF H
        <4>5. FirstIn(<<c>> \o line(i), H, Nowhere) = FirstIn(line(i), H, Nowhere)
          BY <2>3, <3>1, <4>3, <4>4, FirstInLonger
        <4> QED
          BY <4>3, <4>4, <4>5
      <3> HIDE DEF H
      <3> QED
        BY <3>2, <3>3, <3>4
    <2>4. \/ HasField(w, c, x, d)
          \/ ~HasField(w, c, x, d) /\ f[c] = Nowhere
          \/ ~HasField(w, c, x, d) /\ f[c] # Nowhere /\ \E i \in Parents(w, c) : f[c] = f[i]
      BY <1>1, StepIs
    <2> HIDE DEF S
    <2> QED
      BY <2>1, <2>2, <2>3, <2>4
  <1> HIDE DEF S
  <1>6. ClassNames \subseteq S
    BY <1>5, HierarchyInduction, Zenon
  <1> QED
    BY <1>6 DEF S, f, line, OwnerFits

FieldFits(w, c, static, x, d, field) ==
    field # Nowhere =>
        /\ field \in WithField(w, static, x, d)
        /\ field \notin InterfaceNames \/ field = c => NearestOwner(w, c, static, x, d) = field

LEMMA FieldInIs ==
    ASSUME NEW w, WellFormed(w), NEW c \in ClassNames, NEW static, NEW x, NEW d
    PROVE  FieldFits(w, c, static, x, d, FieldIn(w, c, static, x, d))
  <1> SUFFICES ASSUME NEW field, field = FieldIn(w, c, static, x, d), field # Nowhere
               PROVE  /\ field \in WithField(w, static, x, d)
                      /\ field \notin InterfaceNames \/ field = c
                             => NearestOwner(w, c, static, x, d) = field
    BY Zenon DEF FieldFits
  <1> DEFINE o == Owners(w, x, d)[c]
             W == WithField(w, static, x, d)
             H == Having(w, x, d)
             s == JavaClasses(w)[c]
  <1>1. field = o /\ o # Nowhere
        /\ Java!Described(w[o].fields, static, x, d) # {}
    BY Zenon DEF FieldIn
  <1>2. /\ o \in H
        /\ o \notin InterfaceNames \/ o = c => FirstIn(s, H, Nowhere) = o
    <2>1. OwnerFits(w, x, d, c, o)
      BY <1>1, ResolvedIs, Zenon
    <2> HIDE DEF o
    <2> QED
      BY <2>1, Zenon DEF OwnerFits
  <1>3. o \in W
    <2>1. o \in ClassNames
      BY <1>2 DEF Having
    <2> HIDE DEF o
    <2> QED
      BY <1>1, <2>1, Zenon DEF WithField
  <1>4. W \subseteq H
    <2> SUFFICES ASSUME NEW k \in W PROVE k \in H
      OBVIOUS
    <2>1. k \in ClassNames /\ \E f \in Range(w[k].fields) : f.name = x /\ f.desc = d
      BY Zenon DEF WithField, Java!Described, Java!Range, Range
    <2> QED
      BY <2>1 DEF Having, HasField
  <1>5. s \in Seq(ClassNames)
    BY LineFacts
  <1> HIDE DEF o, W, H, s
  <1>6. ASSUME FirstIn(s, H, Nowhere) = o PROVE FirstIn(s, W, Nowhere) = o
    <2>1. FirstIn(s, H, Nowhere) # Nowhere /\ FirstIn(s, H, Nowhere) \in W /\ W \in SUBSET H
      BY <1>1, <1>3, <1>4, <1>6
    <2>2. FirstIn(s, W, Nowhere) = FirstIn(s, H, Nowhere)
      BY <1>5, <2>1, FirstInSubset
    <2> QED
      BY <1>6, <2>2
  <1> QED
    BY <1>1, <1>2, <1>3, <1>6 DEF NearestOwner, W, s

-----------------------------------------------------------------------------
(* The classes that have been read                                         *)

AllRead == world \in Worlds /\ types = [c \in Range(Order) |-> ReadClass[world[c]]]

LEMMA ReadFacts ==
    ASSUME FilesAreRead, AllRead
    PROVE  /\ WellFormed(world) /\ DOMAIN types = ClassNames
           /\ \A c \in ClassNames : ClassRead(types[c], world[c])
  <1>1. WellFormed(world)
    BY WorldsAssumption, Zenon DEF AllRead
  <1>2. DOMAIN types = ClassNames
    BY DEF AllRead, ClassNames
  <1>3. ASSUME NEW c \in ClassNames PROVE ClassRead(types[c], world[c])
    <2>1. types[c] = ReadClass[world[c]]
      BY DEF AllRead, ClassNames
    <2>2. world[c] \in Descriptions
      BY DEF AllRead, Descriptions, ClassNames
    <2> QED
      BY <2>1, <2>2, Zenon DEF FilesAreRead
  <1> QED
    BY <1>1, <1>2, <1>3

LEMMA SupersAreRead ==
    ASSUME FilesAreRead, AllRead, NEW c \in ClassNames
    PROVE  /\ types[c].super = world[c].super
           /\ types[c].interfaces = world[c].interfaces
  BY ReadFacts, Zenon DEF ClassRead

LEMMA ChainIs ==
    ASSUME FilesAreRead, AllRead
    PROVE  \A c \in ClassNames : Chain[c] = JavaClasses(world)[c]
  <1> DEFINE Rule(f) == f = [c \in DOMAIN types |->
                 <<c>> \o (IF types[c].super \in DOMAIN types THEN f[types[c].super] ELSE <<>>)]
  <1>1. DOMAIN types = ClassNames /\ WellFormed(world)
    BY ReadFacts
  <1>2. ASSUME NEW f PROVE Rule(f) <=> ChainRule(world, f)
    <2>1. [c \in DOMAIN types |->
              <<c>> \o (IF types[c].super \in DOMAIN types THEN f[types[c].super] ELSE <<>>)]
          = [c \in ClassNames |->
                 <<c>> \o (IF world[c].super \in ClassNames THEN f[world[c].super] ELSE <<>>)]
      BY <1>1, SupersAreRead
    <2> QED
      BY <2>1 DEF ChainRule
  <1>3. Chain = CHOOSE f : Rule(f)
    BY DEF Chain
  <1> HIDE DEF Rule
  <1>4. ChainRule(world, Chain)
    BY <1>1, <1>2, <1>3, ChainExists
  <1> QED
    BY <1>1, <1>4, ChainsAreClasses, Zenon

\* A member is found if it is described, and as it was written.
LEMMA MemberIs ==
    ASSUME NEW T, NEW ds \in Seq(T), NEW ms, NEW pool, Len(ms) = Len(ds),
           \A i \in DOMAIN ds : MemberRead(ms[i], ds[i], pool),
           NEW static, NEW x, NEW d
    PROVE  \/ Member(ms, static, x, d) = NoItem /\ Java!Described(ds, static, x, d) = {}
           \/ \E i \in DOMAIN ds : /\ Member(ms, static, x, d) = ms[i]
                                   /\ ds[i] \in Java!Described(ds, static, x, d)
                                   /\ MemberRead(ms[i], ds[i], pool)
  <1> DEFINE H == {i \in 1..Len(ms) : /\ ms[i].name = x /\ ms[i].desc = d
                                      /\ HasFlag(ms[i].flags, Static) = static}
  <1>1. DOMAIN ds = 1..Len(ms)
    BY DEF Range
  <1>2. Member(ms, static, x, d)
        = LET i == IF H # {} THEN Min(H) ELSE 0 IN IF i = 0 THEN NoItem ELSE ms[i]
    BY Zenon DEF Member, First, SelectInSeq
  <1>3. H \in SUBSET (Nat \ {0})
    OBVIOUS
  <1>4. \A i \in 1..Len(ms) : i \in H <=> ds[i] \in Java!Described(ds, static, x, d)
    <2> TAKE i \in 1..Len(ms)
    <2>1. ms[i].name = ds[i].name /\ ms[i].desc = ds[i].desc /\ ms[i].flags = ds[i].flags
      BY <1>1, Zenon DEF MemberRead
    <2>2. ds[i] \in Java!Range(ds)
      BY <1>1, Zenon DEF Java!Range
    <2>3. HasFlag(ms[i].flags, Static) = ((ds[i].flags \div 8) % 2 = 1)
      BY <2>1 DEF HasFlag, Static
    <2>4. i \in H <=> /\ ds[i].name = x /\ ds[i].desc = d
                      /\ HasFlag(ms[i].flags, Static) = static
      BY <2>1, Zenon
    <2>5. ds[i] \in Java!Described(ds, static, x, d)
          <=> /\ ds[i].name = x /\ ds[i].desc = d
              /\ ((ds[i].flags \div 8) % 2 = 1) = static
      BY <2>2, Zenon DEF Java!Described
    <2> QED
      BY <2>3, <2>4, <2>5, Zenon
  <1>5. \A m \in Java!Described(ds, static, x, d) : \E i \in 1..Len(ms) : m = ds[i]
    BY <1>1, Zenon DEF Java!Described, Java!Range
  <1>6. H \subseteq 1..Len(ms)
    OBVIOUS
  <1> HIDE DEF H
  <1>7. CASE H = {}
    <2>1. Member(ms, static, x, d) = NoItem
      BY <1>2, <1>7
    <2>2. Java!Described(ds, static, x, d) = {}
      BY <1>4, <1>5, <1>7
    <2> QED
      BY <2>1, <2>2
  <1>8. CASE H # {}
    <2>1. Min(H) \in H /\ Min(H) # 0
      BY <1>3, <1>8, MinFacts
    <2>2. Member(ms, static, x, d) = ms[Min(H)]
      BY <1>2, <1>8, <2>1, Zenon
    <2>3. Min(H) \in DOMAIN ds /\ ds[Min(H)] \in Java!Described(ds, static, x, d)
      BY <1>1, <1>4, <1>6, <2>1
    <2> QED
      BY <2>2, <2>3
  <1> QED
    BY <1>7, <1>8

LEMMA FieldIsRead ==
    ASSUME FilesAreRead, AllRead, NEW c \in ClassNames, NEW static, NEW x, NEW d
    PROVE  Member(types[c].fields, static, x, d) # NoItem <=> c \in WithField(world, static, x, d)
  <1>1. ClassRead(types[c], world[c]) /\ WellFormed(world)
    BY ReadFacts
  <1>2. world[c].fields \in Seq(Range(world[c].fields))
    BY <1>1, Zenon DEF WellFormed, ClassNames
  <1>3. /\ Len(types[c].fields) = Len(world[c].fields)
        /\ \A i \in DOMAIN world[c].fields :
               MemberRead(types[c].fields[i], world[c].fields[i], types[c].pool)
    BY <1>1, Zenon DEF ClassRead
  <1>4. \/ /\ Member(types[c].fields, static, x, d) = NoItem
           /\ Java!Described(world[c].fields, static, x, d) = {}
        \/ \E i \in DOMAIN world[c].fields :
               /\ Member(types[c].fields, static, x, d) = types[c].fields[i]
               /\ world[c].fields[i] \in Java!Described(world[c].fields, static, x, d)
               /\ MemberRead(types[c].fields[i], world[c].fields[i], types[c].pool)
    BY <1>2, <1>3, MemberIs, Zenon
  <1>5. \A i : MemberRead(types[c].fields[i], world[c].fields[i], types[c].pool)
               => types[c].fields[i] # NoItem
    BY Zenon DEF MemberRead
  <1>6. c \in WithField(world, static, x, d)
        <=> Java!Described(world[c].fields, static, x, d) # {}
    BY Zenon DEF WithField
  <1> QED
    BY <1>4, <1>5, <1>6, Zenon

LEMMA FieldOwnerIs ==
    ASSUME FilesAreRead, AllRead, NEW c \in ClassNames, NEW static, NEW x, NEW d
    PROVE  FieldOwner(c, static, x, d) = FirstIn(JavaClasses(world)[c], WithField(world, static, x, d), NoItem)
  <1> DEFINE s == JavaClasses(world)[c]
             H == {i \in 1..Len(s) : Member(types[s[i]].fields, static, x, d) # NoItem}
  <1>1. s \in Seq(ClassNames) /\ Chain[c] = s
    BY LineFacts, ChainIs, ReadFacts
  <1>2. H = Hits(s, WithField(world, static, x, d))
    <2>1. \A i \in 1..Len(s) : s[i] \in ClassNames
      BY <1>1
    <2> HIDE DEF s
    <2>2. \A i \in 1..Len(s) : s[i] \in WithField(world, static, x, d)
              <=> Member(types[s[i]].fields, static, x, d) # NoItem
      BY <2>1, FieldIsRead, Zenon
    <2> QED
      BY <2>2, Zenon DEF Hits
  <1>3. FieldOwner(c, static, x, d)
        = LET i == IF H # {} THEN Min(H) ELSE 0 IN IF i = 0 THEN NoItem ELSE s[i]
    <2> HIDE DEF s
    <2> QED
      BY <1>1, Zenon DEF FieldOwner, First, SelectInSeq
  <1>4. H \in SUBSET (Nat \ {0})
    OBVIOUS
  <1> HIDE DEF H, s
  <1>5. H # {} => Min(H) \in Nat \ {0}
    BY <1>4, MinFacts
  <1>6. FieldOwner(c, static, x, d) = IF H = {} THEN NoItem ELSE s[Min(H)]
    BY <1>3, <1>5
  <1> QED
    BY <1>2, <1>6 DEF FirstIn, s

LEMMA ConstantFacts ==
    ASSUME FilesAreRead, AllRead, NEW tag, NEW p \in Constants(tag)
    PROVE  /\ p[2].tag = tag
           /\ ConstantRead(types[Self].pool, p)
           /\ tag \in {9, 10, 11} => p[2].class \in ClassNames
           /\ tag = 7 => /\ Meaning[p[2].text].dims \in Nat
                         /\ Meaning[p[2].text].dims = 0 => Meaning[p[2].text].base = p[2].text
  <1>1. p \in Numbering[world[Self]] /\ p[2].tag = tag
    BY DEF Constants
  <1>2. Self \in ClassNames
    BY WorldsAssumption DEF ClassNames
  <1>3. ConstantRead(types[Self].pool, p)
    BY <1>1, <1>2, ReadFacts, Zenon DEF ClassRead
  <1>4. world[Self] \in Descriptions
    BY <1>2 DEF AllRead, Descriptions, ClassNames
  <1>5. p[2] \in Range(world[Self].refs) \cup Range(world[Self].numbers)
    BY <1>1, <1>4 DEF Numbering
  <1>6. /\ p[2].tag \in {9, 10, 11} => p[2].class \in ClassNames
        /\ p[2].tag = 7 => /\ Meaning[p[2].text].dims \in Nat
                           /\ Meaning[p[2].text].dims = 0 => Meaning[p[2].text].base = p[2].text
    BY <1>5, ReadFacts, Zenon DEF WellFormed, ClassNames
  <1>7. /\ tag \in {9, 10, 11} => p[2].class \in ClassNames
        /\ tag = 7 => /\ Meaning[p[2].text].dims \in Nat
                      /\ Meaning[p[2].text].dims = 0 => Meaning[p[2].text].base = p[2].text
    <2> DEFINE t == p[2].tag
    <2>1. t = tag
      BY <1>1
    <2>2. /\ t \in {9, 10, 11} => p[2].class \in ClassNames
          /\ t = 7 => /\ Meaning[p[2].text].dims \in Nat
                      /\ Meaning[p[2].text].dims = 0 => Meaning[p[2].text].base = p[2].text
      BY <1>6, Zenon
    <2> HIDE DEF t
    <2> QED
      BY <2>1, <2>2, Zenon
  <1> QED
    BY <1>1, <1>3, <1>7, Zenon

LEMMA TypeConstants ==
    ASSUME FilesAreRead, AllRead, NEW p \in Constants(7)
    PROVE  /\ GetItemAt(types[Self].pool, p[1], 7) # NoItem
           /\ GetItemAt(types[Self].pool, p[1], 7).text = p[2].text
           /\ TypeRead(p[2].text)
  <1>1. p[2].tag = 7 /\ ConstantRead(types[Self].pool, p)
    BY ConstantFacts
  <1>2. ASSUME NEW pool, ConstantRead(pool, p)
        PROVE  /\ GetItemAt(pool, p[1], 7) # NoItem
               /\ GetItemAt(pool, p[1], 7).text = p[2].text
               /\ TypeRead(p[2].text)
    BY <1>1, <1>2 DEF ConstantRead
  <1> QED
    BY <1>1, <1>2, Zenon

LEMMA ResolveIs ==
    ASSUME FilesAreRead, AllRead, NEW tag \in {9, 10, 11}, NEW p \in Constants(tag)
    PROVE  /\ Resolve(types[Self].pool, p[1], tag)
                  = [class |-> p[2].class, name |-> p[2].text, desc |-> p[2].desc]
           /\ Resolve(types[Self].pool, p[1], tag) # NoItem
           /\ tag # 9 => ParameterCount(p[2].desc) = Arity[p[2].desc]
  <1>1. p[2].tag = tag /\ ConstantRead(types[Self].pool, p)
    BY ConstantFacts
  <1> QED
    BY <1>1 DEF ConstantRead

\* The instance of a superclass is found.
LEMMA LevelIs ==
    ASSUME FilesAreRead, AllRead, NEW c \in ClassNames, NEW x \in JavaSupertypes(world)[c],
           x \notin InterfaceNames
    PROVE  GetInstanceByClassType(c, x) = x
  <1> DEFINE s == JavaClasses(world)[c]
             H == {i \in 1..Len(s) : x = s[i] \/ x \in Range(Interfaces(s[i]))}
  <1>1. s \in Seq(ClassNames) /\ Chain[c] = s /\ Line(world, c) = Range(s)
    BY LineFacts, ChainIs, ReadFacts DEF Line
  <1>2. x \in Range(s) /\ x \in ClassNames
    BY <1>1, ReadFacts, SupertypesOfLine
  <1>3. \A i \in 1..Len(s) : i \in H <=> s[i] = x
    <2> TAKE i \in 1..Len(s)
    <2>1. s[i] \in ClassNames
      BY <1>1
    <2> HIDE DEF s
    <2>2. Range(Interfaces(s[i])) \subseteq InterfaceNames
      <3>1. Interfaces(s[i]) = world[s[i]].interfaces
        BY <2>1, SupersAreRead, Zenon DEF Interfaces
      <3>2. Range(world[s[i]].interfaces) \subseteq InterfaceNames \cap ClassNames
        BY <2>1, ReadFacts, HierarchyFacts, Zenon
      <3> QED
        BY <3>1, <3>2
    <2> QED
      BY <2>2
  <1>4. GetInstanceByClassType(c, x)
        = LET i == IF H # {} THEN Min(H) ELSE 0 IN IF i = 0 THEN NoItem ELSE s[i]
    <2> HIDE DEF s
    <2> QED
      BY <1>1, Zenon DEF GetInstanceByClassType, First, SelectInSeq
  <1>5. H \in SUBSET (Nat \ {0}) /\ H \subseteq 1..Len(s)
    OBVIOUS
  <1>6. H # {}
    <2>1. PICK i \in DOMAIN s : s[i] = x
      BY <1>2 DEF Range
    <2>2. i \in 1..Len(s)
      BY <1>1
    <2> HIDE DEF H, s
    <2> QED
      BY <1>3, <2>1, <2>2
  <1> HIDE DEF H, s
  <1>7. Min(H) \in H /\ Min(H) # 0
    BY <1>5, <1>6, MinFacts
  <1> QED
    BY <1>3, <1>4, <1>5, <1>6, <1>7

\* What has instance fields is no interface.
LEMMA InterfacesHaveNoFields ==
    ASSUME NEW w, WellFormed(w), NEW x, NEW d, NEW k \in WithField(w, FALSE, x, d)
    PROVE  k \notin InterfaceNames
  <1> SUFFICES ASSUME k \in InterfaceNames PROVE FALSE
    OBVIOUS
  <1>1. k \in ClassNames
    BY DEF WithField
  <1>2. PICK f \in Range(w[k].fields) : ((f.flags \div 8) % 2 = 1) = FALSE
    BY Zenon DEF WithField, Java!Described, Java!Range, Range
  <1>3. HasFlag(f.flags, Static)
    BY <1>1, Zenon DEF WellFormed, ClassNames
  <1> QED
    BY <1>2, <1>3 DEF HasFlag, Static

\* So only classes inherit them.
LEMMA OwnersOfInterfaces ==
    ASSUME NEW w, WellFormed(w), NEW c \in ClassNames, NEW x, NEW d,
           NearestOwner(w, c, FALSE, x, d) # Nowhere
    PROVE  c \notin InterfaceNames
  <1> SUFFICES ASSUME c \in InterfaceNames PROVE FALSE
    OBVIOUS
  <1> DEFINE s == JavaClasses(w)[c]
  <1>1. PICK i \in 1..Len(s) : s[i] \in WithField(w, FALSE, x, d)
    BY FoundSomewhere DEF NearestOwner
  <1>2. s[i] \in Line(w, c)
    <2>1. s \in Seq(ClassNames)
      BY LineFacts
    <2> QED
      BY <2>1 DEF Line, Range
  <1>3. Line(w, c) = {c} \cup Line(w, Object) /\ Line(w, Object) = {Object}
    BY HierarchyFacts, LineFacts
  <1>4. s[i] \in {c, Object}
    BY <1>2, <1>3
  <1> HIDE DEF s
  <1> QED
    BY <1>1, <1>4, InterfacesHaveNoFields, ObjectHasNoFields

\* A field of an object is the one that Java means.
LEMMA FieldIs ==
    ASSUME FilesAreRead, AllRead, NEW inst \in {"GETFIELD", "PUTFIELD"}, NEW p \in Constants(9),
           NEW c \in {o \in Objects : Is(o, p[2].class)} \cup {Null},
           FieldIn(world, p[2].class, FALSE, p[2].text, p[2].desc) # Nowhere
    PROVE  IF c = Null THEN Field(inst, Self, p[1], c).outcome # "field"
           ELSE Field(inst, Self, p[1], c) =
                    [outcome |-> "field",
                     class |-> FieldIn(world, p[2].class, FALSE, p[2].text, p[2].desc)]
  <1> DEFINE class == p[2].class
             x == p[2].text
             d == p[2].desc
             ref == Resolve(types[Self].pool, p[1], 9)
  <1>0. /\ ref = [class |-> class, name |-> x, desc |-> d] /\ ref # NoItem
        /\ class \in ClassNames
    <2>1. 9 \in {9, 10, 11}
      OBVIOUS
    <2> QED
      BY <2>1, ResolveIs, ConstantFacts, Zenon
  <1>1. /\ ref # NoItem /\ ref.class = class /\ ref.name = x /\ ref.desc = d
        /\ class \in ClassNames
    BY <1>0
  <1> HIDE DEF class, x, d, ref
  <1>2. CASE c = Null
    <2>1. Field(inst, Self, p[1], c) = IF inst = "GETFIELD" THEN Throws("NullPointerException") ELSE Internal
      BY <1>2, Zenon DEF Field
    <2> QED
      BY <1>2, <2>1 DEF Throws, Internal
  <1>3. CASE c # Null
    <2> DEFINE owner == FieldIn(world, class, FALSE, x, d)
    <2>1. c \in ClassNames /\ class \in JavaSupertypes(world)[c]
      BY <1>3, JavaIs DEF Objects, Is, ClassNames, class
    <2>2. WellFormed(world)
      BY ReadFacts
    <2>3. owner # Nowhere
      BY DEF class, x, d
    <2>4. /\ owner \in WithField(world, FALSE, x, d)
          /\ owner \notin InterfaceNames \/ owner = class => NearestOwner(world, class, FALSE, x, d) = owner
      <3> DEFINE static == FALSE
      <3> HIDE DEF static
      <3>1. owner = FieldIn(world, class, static, x, d)
        BY DEF static
      <3> HIDE DEF owner
      <3>2. FieldFits(world, class, static, x, d, FieldIn(world, class, static, x, d))
        BY <1>1, <2>2, FieldInIs, Zenon
      <3>3. /\ owner \in WithField(world, static, x, d)
            /\ owner \notin InterfaceNames \/ owner = class
                   => NearestOwner(world, class, static, x, d) = owner
        BY <2>3, <3>1, <3>2, Zenon DEF FieldFits
      <3> QED
        BY <3>3 DEF static
    <2> HIDE DEF owner
    <2>5. NearestOwner(world, class, FALSE, x, d) = owner
      BY <2>2, <2>4, InterfacesHaveNoFields, Zenon
    <2>6. GetInstanceByClassType(c, class) = class
      <3>1. class \notin InterfaceNames
        BY <1>1, <2>2, <2>3, <2>5, OwnersOfInterfaces, Zenon
      <3> QED
        BY <2>1, <3>1, LevelIs, Zenon
    <2>7. FieldOwner(class, FALSE, x, d) = owner
      <3>1. FieldOwner(class, FALSE, x, d)
            = FirstIn(JavaClasses(world)[class], WithField(world, FALSE, x, d), NoItem)
        BY <1>1, FieldOwnerIs, Zenon
      <3> QED
        BY <2>3, <2>5, <3>1, FoundSomewhere DEF NearestOwner
    <2>8. class # NoItem /\ owner # NoItem
      BY <1>1, <2>4, WorldsAssumption DEF ClassNames, WithField
    <2>9. Field(inst, Self, p[1], c) = [outcome |-> "field", class |-> owner]
      BY <1>1, <1>3, <2>6, <2>7, <2>8, Zenon DEF Field, ref
    <2> QED
      BY <1>3, <2>9 DEF owner, class, x, d
  <1> QED
    BY <1>2, <1>3

\* What a search that looks at no interfaces gives.
SeenFits(seen, nearest, found) ==
    /\ seen = nearest
    /\ seen = Nowhere => found = NoItem
    /\ seen # Nowhere => found = seen /\ seen # NoItem

LEMMA SeenIs ==
    ASSUME FilesAreRead, AllRead, NEW c \in ClassNames, NEW static, NEW x, NEW d
    PROVE  SeenFits(SeenIn(world, c, static, x, d), NearestOwner(world, c, static, x, d),
                    FieldOwner(c, static, x, d))
  <1> DEFINE s == JavaClasses(world)[c]
             W == WithField(world, static, x, d)
  <1>1. s \in Seq(ClassNames) /\ WellFormed(world)
    BY ReadFacts, LineFacts
  <1>2. FieldOwner(c, static, x, d) = FirstIn(s, W, NoItem)
    BY FieldOwnerIs, Zenon
  <1>3. SeenIn(world, c, static, x, d) = NearestOwner(world, c, static, x, d)
    BY <1>1, SeenInIs, Zenon
  <1>4. NoItem \notin ClassNames /\ Nowhere \notin ClassNames
    BY WorldsAssumption DEF ClassNames
  <1>5. NearestOwner(world, c, static, x, d) = FirstIn(s, W, Nowhere)
    BY DEF NearestOwner
  <1>6. W \subseteq ClassNames
    BY Zenon DEF WithField
  <1> HIDE DEF s, W
  <1>7. CASE Hits(s, W) = {}
    BY <1>2, <1>3, <1>5, <1>7 DEF FirstIn, SeenFits
  <1>8. CASE Hits(s, W) # {}
    <2>1. PICK i \in 1..Len(s) : s[i] \in W
      BY <1>8 DEF Hits
    <2>2. FirstIn(s, W, Nowhere) \in W
      BY <1>1, <2>1, FirstInFacts
    <2>3. FirstIn(s, W, NoItem) = FirstIn(s, W, Nowhere)
      BY <1>8 DEF FirstIn
    <2> QED
      BY <1>2, <1>3, <1>4, <1>5, <1>6, <2>2, <2>3 DEF SeenFits
  <1> QED
    BY <1>7, <1>8

\* What an instruction on a static field gives in class c, whose field Java
\* finds in owner, and a search that looks at no interfaces in seen.
StaticAnswer(inst, class, owner, seen, result) ==
    /\ inst = "GETSTATIC" =>
           result = IF owner \notin InterfaceNames \ {class} THEN [outcome |-> "field", class |-> owner]
                    ELSE IF seen = Nowhere THEN Missing ELSE [outcome |-> "field", class |-> seen]
    /\ inst = "PUTSTATIC" =>
           result = IF owner = class THEN [outcome |-> "field", class |-> class] ELSE NotRun

LEMMA StaticFieldIs ==
    ASSUME FilesAreRead, AllRead, NEW inst \in {"GETSTATIC", "PUTSTATIC"}, NEW p \in Constants(9),
           NEW owner, NEW seen,
           owner = FieldIn(world, p[2].class, TRUE, p[2].text, p[2].desc),
           owner # Nowhere, inst = "PUTSTATIC" => owner \notin InterfaceNames,
           seen = SeenIn(world, p[2].class, TRUE, p[2].text, p[2].desc)
    PROVE  StaticAnswer(inst, p[2].class, owner, seen, StaticField(inst, Self, p[1]))
  <1> DEFINE class == p[2].class
             x == p[2].text
             d == p[2].desc
             ref == Resolve(types[Self].pool, p[1], 9)
             found == FieldOwner(class, TRUE, x, d)
  <1>0. /\ ref = [class |-> class, name |-> x, desc |-> d] /\ ref # NoItem
        /\ class \in ClassNames
    <2>1. 9 \in {9, 10, 11}
      OBVIOUS
    <2> QED
      BY <2>1, ResolveIs, ConstantFacts, Zenon
  <1>1. /\ ref # NoItem /\ ref.class = class /\ ref.name = x /\ ref.desc = d
        /\ class \in ClassNames /\ class \in DOMAIN types /\ WellFormed(world)
    BY <1>0, ReadFacts
  <1> HIDE DEF ref, class, x, d
  <1>2. owner = FieldIn(world, class, TRUE, x, d) /\ seen = SeenIn(world, class, TRUE, x, d)
    BY Zenon DEF class, x, d
  <1>3. /\ seen = NearestOwner(world, class, TRUE, x, d)
        /\ seen = Nowhere => found = NoItem
        /\ seen # Nowhere => found = seen /\ seen # NoItem
    <2> DEFINE static == TRUE
    <2> HIDE DEF static
    <2>1. SeenFits(SeenIn(world, class, static, x, d), NearestOwner(world, class, static, x, d),
                   FieldOwner(class, static, x, d))
      BY <1>1, SeenIs, Zenon
    <2> QED
      BY <1>2, <2>1, Zenon DEF SeenFits, static
  <1>4. owner \notin InterfaceNames \/ owner = class => seen = owner
    <2> DEFINE static == TRUE
    <2> HIDE DEF static
    <2>1. owner = FieldIn(world, class, static, x, d)
      BY <1>2 DEF static
    <2>2. FieldFits(world, class, static, x, d, FieldIn(world, class, static, x, d))
      BY <1>1, FieldInIs, Zenon
    <2>3. owner \notin InterfaceNames \/ owner = class
              => NearestOwner(world, class, static, x, d) = owner
      BY <2>1, <2>2, Zenon DEF FieldFits
    <2> QED
      BY <1>3, <2>3, Zenon DEF static
  <1> HIDE DEF found
  <1>5. StaticField(inst, Self, p[1]) =
            IF inst = "GETSTATIC" /\ found = NoItem THEN Missing
            ELSE IF inst = "GETSTATIC" \/ found = class
            THEN [outcome |-> "field", class |-> found] ELSE NotRun
    BY <1>1, Zenon DEF StaticField, ref, found
  <1> HIDE DEF ref
  <1>6. class # Nowhere
    BY <1>1, WorldsAssumption DEF ClassNames
  <1>7. CASE inst = "GETSTATIC"
    <2>1. StaticField(inst, Self, p[1]) =
              IF found = NoItem THEN Missing ELSE [outcome |-> "field", class |-> found]
      BY <1>5, <1>7
    <2> QED
      BY <1>3, <1>4, <1>7, <2>1 DEF StaticAnswer, class
  <1>8. CASE inst = "PUTSTATIC"
    <2>1. StaticField(inst, Self, p[1]) =
              IF found = class THEN [outcome |-> "field", class |-> found] ELSE NotRun
      BY <1>5, <1>8
    <2>2. seen = owner /\ found = owner
      BY <1>3, <1>4, <1>8
    <2> QED
      BY <1>8, <2>1, <2>2 DEF StaticAnswer, class
  <1> QED
    BY <1>7, <1>8

-----------------------------------------------------------------------------
(* Casts                                                                   *)

LEMMA CanCastToIs ==
    ASSUME FilesAreRead, AllRead, NEW c \in ClassNames, NEW x
    PROVE  CanCastTo(c, x) <=> x \in NamedBy(world, c)
  <1>1. Range(Chain[c]) = Line(world, c)
    BY ChainIs DEF Line
  <1>2. \A l \in Line(world, c) : Interfaces(l) = world[l].interfaces
    BY LineFacts, ReadFacts, SupersAreRead DEF Interfaces
  <1> QED
    BY <1>1, <1>2 DEF CanCastTo, NamedBy

LEMMA CastIs ==
    ASSUME FilesAreRead, AllRead, NEW inst \in {"CHECKCAST", "INSTANCEOF", "isAssignableFrom"},
           NEW p \in Constants(7), NEW c \in Objects \cup {Null}, inst = "isAssignableFrom" => c # Null,
           NEW result,
           result = CASE inst = "CHECKCAST" -> CheckCast(Self, p[1], c)
                      [] inst = "INSTANCEOF" -> InstanceOf(Self, p[1], c)
                      [] inst = "isAssignableFrom" -> IsAssignableFrom(c, p[2].text)
    PROVE  result.outcome \in {"pushed", "true"} <=>
               IF c = Null THEN inst = "CHECKCAST" ELSE p[2].text \in NamedBy(world, c)
  <1> DEFINE class == GetItemAt(types[Self].pool, p[1], 7)
  <1>1. class # NoItem /\ class.text = p[2].text
    BY TypeConstants
  <1>2. c # Null => c \in ClassNames /\ (CanCastTo(c, p[2].text) <=> p[2].text \in NamedBy(world, c))
    BY CanCastToIs DEF Objects, ClassNames
  <1> HIDE DEF class
  <1>3. CASE inst = "CHECKCAST"
    <2>1. result = IF c = Null \/ CanCastTo(c, p[2].text)
                   THEN [outcome |-> "pushed", class |-> class.text] ELSE Throws("ClassCastException")
      BY <1>1, <1>3 DEF CheckCast, class
    <2> QED
      BY <1>2, <1>3, <2>1 DEF Throws
  <1>4. CASE inst = "INSTANCEOF"
    <2>1. result = [outcome |-> IF c # Null /\ CanCastTo(c, p[2].text)
                                THEN "true" ELSE "false", class |-> class.text]
      BY <1>1, <1>4 DEF InstanceOf, class
    <2> QED
      BY <1>2, <1>4, <2>1
  <1>5. CASE inst = "isAssignableFrom"
    <2>1. result = [outcome |-> IF CanCastTo(c, p[2].text) THEN "true" ELSE "false", class |-> p[2].text]
      BY <1>5 DEF IsAssignableFrom
    <2> QED
      BY <1>2, <1>5, <2>1
  <1> QED
    BY <1>3, <1>4, <1>5

\* The type that a constant names, as it is found.
LEMMA TypeIs ==
    ASSUME FilesAreRead, AllRead, NEW p \in Constants(7)
    PROVE  /\ GetItemAt(types[Self].pool, p[1], 7).text = p[2].text
           /\ CreateTypeByName(p[2].text, DOMAIN types) = Meaning[p[2].text]
           /\ Meaning[p[2].text] # NoItem
           /\ Meaning[p[2].text].dims \in Nat
           /\ Meaning[p[2].text].dims > 0 =>
                  /\ \A k \in ClassNames : GetClassNameFromDescriptor(p[2].text) = k
                                           <=> Meaning[p[2].text].base = k
                  /\ IsPrimitiveType(GetClassNameFromDescriptor(p[2].text))
                         <=> Meaning[p[2].text].base \notin ClassNames
  <1>1. GetItemAt(types[Self].pool, p[1], 7).text = p[2].text /\ TypeRead(p[2].text)
    BY TypeConstants
  <1>2. DOMAIN types = Range(Order)
    BY ReadFacts DEF ClassNames
  <1> QED
    BY <1>1, <1>2, ConstantFacts DEF TypeRead, ClassNames

LEMMA ArrayCastIs ==
    ASSUME FilesAreRead, AllRead, NEW p \in Constants(7), NEW c \in Range(Order) \cup {NoItem}
    PROVE  LET type == Meaning[p[2].text]
           IN  CheckCastArray(Self, p[1], c) = "pushed"
               <=> /\ type.dims > 0 /\ c # NoItem
                   /\ type.base \in JavaSupertypes(world)[c] /\ type.base \in NamedBy(world, c)
  <1> DEFINE x == p[2].text
             type == Meaning[x]
             name == GetClassNameFromDescriptor(x)
  <1>1. /\ GetItemAt(types[Self].pool, p[1], 7).text = x
        /\ CreateTypeByName(x, DOMAIN types) = type
        /\ type # NoItem /\ type.dims \in Nat
        /\ type.dims > 0 => \A k \in ClassNames : name = k <=> type.base = k
    BY TypeIs
  <1>2. c # NoItem => /\ c \in ClassNames
                      /\ CanCastTo(c, name) <=> name \in NamedBy(world, c)
                      /\ NamedBy(world, c) \subseteq JavaSupertypes(world)[c]
                      /\ JavaSupertypes(world)[c] \subseteq ClassNames
    BY ReadFacts, SupertypesOfLine, CanCastToIs DEF ClassNames
  <1>3. CheckCastArray(Self, p[1], c) =
            IF c = NoItem THEN "dies"
            ELSE IF type.dims > 0 /\ CanCastTo(c, name) THEN "pushed" ELSE "internal"
    BY <1>1 DEF CheckCastArray
  <1> HIDE DEF x, type, name
  <1> QED
    BY <1>1, <1>2, <1>3 DEF x, type

LEMMA LdcIs ==
    ASSUME FilesAreRead, AllRead, NEW p \in Constants(7)
    PROVE  LdcClass(Self, p[1]) = [outcome |-> "pushed", class |-> Meaning[p[2].text]]
  BY TypeIs DEF LdcClass

-----------------------------------------------------------------------------
(* Steps                                                                   *)

\* FieldsFollowJava and CastsFollowJava, of program w and answer a.
FieldsAnswer(w, a) ==
    LET r == a.ref
        owner(static) == FieldIn(w, r.class, static, r.text, r.desc)
        seen == SeenIn(w, r.class, TRUE, r.text, r.desc)
    IN  /\ a.op \in {"GETFIELD", "PUTFIELD"} =>
               IF a.receiver = Null
               THEN a.result.outcome # "field"
               ELSE a.result = [outcome |-> "field", class |-> owner(FALSE)]
        /\ StaticAnswer(a.op, r.class, owner(TRUE), seen, a.result)

CastsAnswer(w, a) ==
    LET type == Meaning[a.ref.text]
        c == a.receiver
        passes == a.result.outcome \in {"pushed", "true"}
        arraypasses == a.result = "pushed"
        is == type.base \in JavaSupertypes(w)[c]
    IN  /\ a.op \in {"CHECKCAST", "INSTANCEOF", "isAssignableFrom"} =>
               IF c = Null THEN passes = (a.op = "CHECKCAST")
               ELSE passes = (is /\ type.base \in NamedBy(w, c))
        /\ a.op = "CHECKCAST_array" =>
               arraypasses = (type.dims > 0 /\ c # NoItem /\ is /\ type.base \in NamedBy(w, c))
        /\ a.op = "LDC" => a.result = [outcome |-> "pushed", class |-> type]

LEMMA FieldsMean == FieldsFollowJava <=> FieldsAnswer(world, answer)
  BY SeenOfWorld, FieldOfWorld, Zenon DEF FieldsFollowJava, FieldsAnswer, StaticAnswer

LEMMA DirectIs == \A c : Direct(c) = NamedBy(world, c)
  BY JavaIs, Zenon DEF Direct, DirectlyOf, NamedBy, Line

LEMMA CastsMean == CastsFollowJava <=> CastsAnswer(world, answer)
  BY JavaIs, DirectIs, Zenon DEF CastsFollowJava, CastsAnswer, Is

LEMMA FieldsMeanNext == FieldsFollowJava' <=> FieldsAnswer(world', answer')
  <1>1. (FieldsFollowJava <=> FieldsAnswer(world, answer))'
    BY FieldsMean, PTL
  <1> QED
    BY <1>1

LEMMA CastsMeanNext == CastsFollowJava' <=> CastsAnswer(world', answer')
  <1>1. (CastsFollowJava <=> CastsAnswer(world, answer))'
    BY CastsMean, PTL
  <1> QED
    BY <1>1

\* The program stays, and its classes once they have been read.
ProgramStays == world \in Worlds /\ (task # "files" => types = [c \in Range(Order) |-> ReadClass[world[c]]])

LEMMA OthersKeepClasses ==
    [Next]_vars => AddClassFile \/ UNCHANGED <<world, task, types>>
  <1>1. /\ \A i : InvokeInstance(i) => UNCHANGED <<world, task, types>>
        /\ InvokeClass => UNCHANGED <<world, task, types>>
    BY DEF InvokeInstance, InvokeClass, Answers
  <1>2. /\ \A i : UseField(i) => UNCHANGED <<world, task, types>>
        /\ \A i : UseStaticField(i) => UNCHANGED <<world, task, types>>
    BY DEF UseField, UseStaticField, Answers
  <1>3. /\ \A i : TestType(i) => UNCHANGED <<world, task, types>>
        /\ TestArrayType \/ LoadClass \/ FindLine => UNCHANGED <<world, task, types>>
    BY DEF TestType, TestArrayType, LoadClass, FindLine, Answers
  <1>4. Reads \/ Stores \/ Copies \/ Creates => UNCHANGED <<world, task, types>>
    BY DEF Reads, Stores, Copies, Creates, Done
  <1>5. OnTwo \/ OnOne \/ Increments \/ Compares \/ Branches => UNCHANGED <<world, task, types>>
    BY DEF OnTwo, OnOne, Increments, Compares, Branches, Answers
  <1>6. UNCHANGED vars => UNCHANGED <<world, task, types>>
    BY DEF vars
  <1> QED
    BY <1>1, <1>2, <1>3, <1>4, <1>5, <1>6, Zenon DEF Next

LEMMA NothingElseChanges ==
    [Next]_vars => UNCHANGED <<world, task>> /\ (task # "files" => UNCHANGED types)
  <1>1. AddClassFile => UNCHANGED <<world, task>> /\ task = "files"
    BY DEF AddClassFile
  <1> QED
    BY <1>1, OthersKeepClasses

LEMMA ProgramStaysHolds == Spec => []ProgramStays
  <1>1. Init => ProgramStays
    BY WorldsAssumption DEF Init, ProgramStays
  <1>2. ProgramStays /\ [Next]_vars => ProgramStays'
    BY NothingElseChanges DEF ProgramStays
  <1> QED
    BY <1>1, <1>2, PTL DEF Spec

LEMMA UseFieldFollowsJava ==
    ASSUME FilesAreRead, ProgramStays, NEW inst \in {"GETFIELD", "PUTFIELD"}, UseField(inst)
    PROVE  FieldsAnswer(world', answer')
  <1>1. AllRead
    BY DEF ProgramStays, AllRead, UseField, LooksUp
  <1>2a. PICK p \in Constants(9) : \E c \in {o \in Objects : Is(o, p[2].class)} \cup {Null} :
            /\ Java!FieldOf(p[2].class, FALSE, p[2].text, p[2].desc) # Nowhere
            /\ Answers([op |-> inst, ref |-> p[2], receiver |-> c,
                        result |-> Field(inst, Self, p[1], c)])
    BY Zenon DEF UseField
  <1>2. PICK c \in {o \in Objects : Is(o, p[2].class)} \cup {Null} :
            /\ Java!FieldOf(p[2].class, FALSE, p[2].text, p[2].desc) # Nowhere
            /\ Answers([op |-> inst, ref |-> p[2], receiver |-> c,
                        result |-> Field(inst, Self, p[1], c)])
    BY <1>2a, Zenon
  <1> DEFINE owner == FieldIn(world, p[2].class, FALSE, p[2].text, p[2].desc)
             result == Field(inst, Self, p[1], c)
  <1>3. owner # Nowhere
    BY <1>2, FieldOfWorld, Zenon
  <1>4. IF c = Null THEN result.outcome # "field" ELSE result = [outcome |-> "field", class |-> owner]
    BY <1>1, <1>3, FieldIs, Zenon
  <1>5. world' = world /\ answer' = [op |-> inst, ref |-> p[2], receiver |-> c, result |-> result]
    BY <1>2 DEF Answers
  <1>6. /\ answer'.op = inst /\ answer'.ref = p[2] /\ answer'.receiver = c
        /\ answer'.result = result
    BY <1>5
  <1>7. FieldIn(world', answer'.ref.class, FALSE, answer'.ref.text, answer'.ref.desc) = owner
    BY <1>5, <1>6, Zenon
  <1> HIDE DEF owner, result
  <1>8. inst \notin {"GETSTATIC", "PUTSTATIC"}
    OBVIOUS
  <1> QED
    BY <1>4, <1>6, <1>7, <1>8, Zenon DEF FieldsAnswer, StaticAnswer

LEMMA UseStaticFieldFollowsJava ==
    ASSUME FilesAreRead, ProgramStays, NEW inst \in {"GETSTATIC", "PUTSTATIC"}, UseStaticField(inst)
    PROVE  FieldsAnswer(world', answer')
  <1>1. AllRead
    BY DEF ProgramStays, AllRead, UseStaticField, LooksUp
  <1>2. PICK p \in Constants(9) :
            /\ Java!FieldOf(p[2].class, TRUE, p[2].text, p[2].desc)
                   \notin {Nowhere} \cup (IF inst = "PUTSTATIC" THEN InterfaceNames ELSE {})
            /\ Answers([op |-> inst, ref |-> p[2], receiver |-> Null,
                        result |-> StaticField(inst, Self, p[1])])
    BY Zenon DEF UseStaticField
  <1> DEFINE class == p[2].class
             owner == FieldIn(world, class, TRUE, p[2].text, p[2].desc)
             seen == SeenIn(world, class, TRUE, p[2].text, p[2].desc)
             result == StaticField(inst, Self, p[1])
  <1>3. owner \notin {Nowhere} \cup (IF inst = "PUTSTATIC" THEN InterfaceNames ELSE {})
    BY <1>2, FieldOfWorld, Zenon
  <1>4. StaticAnswer(inst, class, owner, seen, result)
    <2>1. owner # Nowhere /\ (inst = "PUTSTATIC" => owner \notin InterfaceNames)
      <3> HIDE DEF owner
      <3> QED
        BY <1>3
    <2> QED
      BY <1>1, <2>1, StaticFieldIs, Zenon
  <1>5. world' = world /\ answer' = [op |-> inst, ref |-> p[2], receiver |-> Null, result |-> result]
    BY <1>2 DEF Answers
  <1>6. answer'.op = inst /\ answer'.ref = p[2] /\ answer'.result = result
    BY <1>5
  <1>7. /\ FieldIn(world', answer'.ref.class, TRUE, answer'.ref.text, answer'.ref.desc) = owner
        /\ SeenIn(world', answer'.ref.class, TRUE, answer'.ref.text, answer'.ref.desc) = seen
        /\ answer'.ref.class = class
    BY <1>5, <1>6, Zenon
  <1> HIDE DEF owner, seen, result, class
  <1>8. inst \notin {"GETFIELD", "PUTFIELD"}
    OBVIOUS
  <1> QED
    BY <1>4, <1>6, <1>7, <1>8, Zenon DEF FieldsAnswer

\* In every well-formed program, an instruction on a field, found through the
\* class files that have been read, uses the field that Java says.
THEOREM FieldsFollowJavaHolds == Spec => []FieldsFollowJava
  <1> FilesAreRead
    BY FilesAreReadHolds
  <1>1. Init => FieldsFollowJava
    BY DEF Init, NoAnswer, FieldsFollowJava
  <1>2. ProgramStays /\ FieldsFollowJava /\ [Next]_vars => FieldsFollowJava'
    <2> SUFFICES ASSUME ProgramStays, FieldsFollowJava, [Next]_vars
                 PROVE  FieldsAnswer(world', answer')
      BY FieldsMeanNext
    <2> DEFINE Ops == {"GETFIELD", "PUTFIELD", "GETSTATIC", "PUTSTATIC"}
    <2>1. answer'.op \notin Ops => FieldsAnswer(world', answer')
      BY DEF FieldsAnswer, StaticAnswer
    <2>2. UNCHANGED answer => FieldsAnswer(world', answer')
      BY NothingElseChanges, FieldsMean, Zenon
    <2>3. AddClassFile \/ UNCHANGED vars => UNCHANGED answer
      BY DEF AddClassFile, vars
    <2>4. /\ \A i \in {"INVOKEVIRTUAL", "INVOKESPECIAL", "INVOKEINTERFACE"} : i \notin Ops
          /\ \A i \in {"CHECKCAST", "INSTANCEOF", "isAssignableFrom"} : i \notin Ops
          /\ "INVOKESTATIC" \notin Ops /\ "CHECKCAST_array" \notin Ops /\ "LDC" \notin Ops
          /\ "line" \notin Ops
          /\ \A i \in {"AALOAD", "AASTORE", "dies", "arraycopy", "MULTIANEWARRAY"} : i \notin Ops
          /\ \A i \in Numbers : i \notin Ops
      BY DEF Numbers, Binary, Unary
    <2> HIDE DEF Ops
    <2>5. /\ \A i \in {"INVOKEVIRTUAL", "INVOKESPECIAL", "INVOKEINTERFACE"} :
                 InvokeInstance(i) => FieldsAnswer(world', answer')
          /\ \A i \in {"CHECKCAST", "INSTANCEOF", "isAssignableFrom"} :
                 TestType(i) => FieldsAnswer(world', answer')
          /\ InvokeClass \/ TestArrayType \/ LoadClass \/ FindLine => FieldsAnswer(world', answer')
      BY <2>1, <2>4, OpsOfLookups, Zenon
    <2>6. Reads \/ Stores \/ Copies \/ Creates => FieldsAnswer(world', answer')
      BY <2>1, <2>4, OpsOfArrays, Zenon
    <2>7. OnTwo \/ OnOne \/ Increments \/ Compares \/ Branches => FieldsAnswer(world', answer')
      BY <2>1, <2>4, OpsOfNumbers, Zenon
    <2>8. /\ \A i \in {"GETFIELD", "PUTFIELD"} : UseField(i) => FieldsAnswer(world', answer')
          /\ \A i \in {"GETSTATIC", "PUTSTATIC"} : UseStaticField(i) => FieldsAnswer(world', answer')
      BY UseFieldFollowsJava, UseStaticFieldFollowsJava, Zenon
    <2> QED
      BY <2>2, <2>3, <2>5, <2>6, <2>7, <2>8, Zenon DEF Next
  <1> QED
    BY <1>1, <1>2, ProgramStaysHolds, PTL DEF Spec

LEMMA TestTypeFollowsJava ==
    ASSUME FilesAreRead, ProgramStays, NEW inst \in {"CHECKCAST", "INSTANCEOF", "isAssignableFrom"},
           TestType(inst)
    PROVE  CastsAnswer(world', answer')
  <1>1. AllRead
    BY DEF ProgramStays, AllRead, TestType, LooksUp
  <1> DEFINE result(p, c) == CASE inst = "CHECKCAST" -> CheckCast(Self, p[1], c)
                               [] inst = "INSTANCEOF" -> InstanceOf(Self, p[1], c)
                               [] inst = "isAssignableFrom" -> IsAssignableFrom(c, p[2].text)
  <1>2. PICK p \in Constants(7), c \in Objects \cup {Null} :
            /\ Meaning[p[2].text].dims = 0
            /\ inst = "isAssignableFrom" => c # Null
            /\ Answers([op |-> inst, ref |-> p[2], receiver |-> c, result |-> result(p, c)])
    BY Zenon DEF TestType
  <1> DEFINE type == Meaning[p[2].text]
             passes == result(p, c).outcome \in {"pushed", "true"}
             answered == [op |-> inst, ref |-> p[2], receiver |-> c, result |-> result(p, c)]
  <1>3. type.base = p[2].text
    BY <1>1, <1>2, ConstantFacts
  <1>4. world' = world /\ answer' = answered
    BY <1>2 DEF Answers
  <1>5. answer'.op = inst /\ answer'.ref = p[2] /\ answer'.receiver = c /\ answer'.result = result(p, c)
    <2> HIDE DEF result
    <2> QED
      BY <1>4
  <1>6. passes <=> IF c = Null THEN inst = "CHECKCAST" ELSE p[2].text \in NamedBy(world, c)
    <2> DEFINE r == result(p, c)
    <2>1. r = result(p, c)
      OBVIOUS
    <2> HIDE DEF r
    <2> QED
      BY <1>1, <1>2, <2>1, CastIs
  <1>7. c # Null /\ p[2].text \in NamedBy(world, c) => p[2].text \in JavaSupertypes(world)[c]
    <2> SUFFICES ASSUME c # Null PROVE NamedBy(world, c) \subseteq JavaSupertypes(world)[c]
      OBVIOUS
    <2>1. c \in ClassNames
      BY DEF Objects, ClassNames
    <2> QED
      BY <1>1, <2>1, ReadFacts, SupertypesOfLine, Zenon
  <1>8. inst # "CHECKCAST_array" /\ inst # "LDC"
    OBVIOUS
  <1> HIDE DEF result
  <1>9. type = Meaning[answer'.ref.text]
    BY <1>5, Zenon
  <1> HIDE DEF type
  <1> DEFINE is == type.base \in JavaSupertypes(world)[c]
             named == type.base \in NamedBy(world, c)
  <1>10. IF c = Null THEN passes = (inst = "CHECKCAST") ELSE passes = (is /\ named)
    <2>1. passes <=> IF c = Null THEN inst = "CHECKCAST" ELSE is /\ named
      BY <1>3, <1>6, <1>7, Zenon
    <2> HIDE DEF passes, is, named
    <2>2. (passes \in BOOLEAN) /\ (is \in BOOLEAN) /\ (named \in BOOLEAN)
      BY DEF passes, is, named
    <2> QED
      BY <2>1, <2>2
  <1>11. (answer'.result.outcome \in {"pushed", "true"}) = passes
    BY <1>5, Zenon
  <1> HIDE DEF passes, is, named
  <1>12. is = (type.base \in JavaSupertypes(world')[c]) /\ named = (type.base \in NamedBy(world', c))
    BY <1>4, Zenon DEF is, named
  <1> QED
    BY <1>5, <1>8, <1>9, <1>10, <1>11, <1>12, Zenon DEF CastsAnswer

LEMMA TestArrayTypeFollowsJava ==
    ASSUME FilesAreRead, ProgramStays, TestArrayType
    PROVE  CastsAnswer(world', answer')
  <1>1. AllRead
    BY DEF ProgramStays, AllRead, TestArrayType, LooksUp
  <1>2. PICK p \in Constants(7), c \in Range(Order) \cup {NoItem} :
            Answers([op |-> "CHECKCAST_array", ref |-> p[2], receiver |-> c,
                     result |-> CheckCastArray(Self, p[1], c)])
    BY Zenon DEF TestArrayType
  <1> DEFINE result == CheckCastArray(Self, p[1], c)
             type == Meaning[p[2].text]
             is == type.base \in JavaSupertypes(world)[c]
             named == type.base \in NamedBy(world, c)
  <1>3. (result = "pushed") = (type.dims > 0 /\ c # NoItem /\ is /\ named)
    BY <1>1, ArrayCastIs
  <1>4. world' = world /\ answer' = [op |-> "CHECKCAST_array", ref |-> p[2], receiver |-> c, result |-> result]
    BY <1>2 DEF Answers
  <1> HIDE DEF result
  <1>5. /\ answer'.op = "CHECKCAST_array" /\ answer'.ref = p[2] /\ answer'.receiver = c
        /\ answer'.result = result
    BY <1>4
  <1>6. answer'.op \notin {"CHECKCAST", "INSTANCEOF", "isAssignableFrom"} /\ answer'.op # "LDC"
    BY <1>5
  <1> QED
    BY <1>3, <1>4, <1>5, <1>6, Zenon DEF CastsAnswer

LEMMA LoadClassFollowsJava ==
    ASSUME FilesAreRead, ProgramStays, LoadClass
    PROVE  CastsAnswer(world', answer')
  <1>1. AllRead
    BY DEF ProgramStays, AllRead, LoadClass, LooksUp
  <1>2. PICK p \in Constants(7) :
            answer' = [op |-> "LDC", ref |-> p[2], result |-> LdcClass(Self, p[1])]
    BY Zenon DEF LoadClass, Answers
  <1>3. /\ answer'.op = "LDC" /\ answer'.ref = p[2]
        /\ answer'.result = [outcome |-> "pushed", class |-> Meaning[p[2].text]]
    BY <1>1, <1>2, LdcIs
  <1>4. answer'.op \notin {"CHECKCAST", "INSTANCEOF", "isAssignableFrom", "CHECKCAST_array"}
    BY <1>3
  <1> QED
    BY <1>3, <1>4, Zenon DEF CastsAnswer

\* So do casts, tests of types, and constants that name types.
THEOREM CastsFollowJavaHolds == Spec => []CastsFollowJava
  <1> FilesAreRead
    BY FilesAreReadHolds
  <1>1. Init => CastsFollowJava
    BY DEF Init, NoAnswer, CastsFollowJava
  <1>2. ProgramStays /\ CastsFollowJava /\ [Next]_vars => CastsFollowJava'
    <2> SUFFICES ASSUME ProgramStays, CastsFollowJava, [Next]_vars
                 PROVE  CastsAnswer(world', answer')
      BY CastsMeanNext
    <2> DEFINE Ops == {"CHECKCAST", "INSTANCEOF", "isAssignableFrom", "CHECKCAST_array", "LDC"}
    <2>1. answer'.op \notin Ops => CastsAnswer(world', answer')
      BY DEF CastsAnswer
    <2>2. UNCHANGED answer => CastsAnswer(world', answer')
      BY NothingElseChanges, CastsMean, Zenon
    <2>3. AddClassFile \/ UNCHANGED vars => UNCHANGED answer
      BY DEF AddClassFile, vars
    <2>4. /\ \A i \in {"INVOKEVIRTUAL", "INVOKESPECIAL", "INVOKEINTERFACE"} : i \notin Ops
          /\ \A i \in {"GETFIELD", "PUTFIELD"} : i \notin Ops
          /\ \A i \in {"GETSTATIC", "PUTSTATIC"} : i \notin Ops
          /\ "INVOKESTATIC" \notin Ops /\ "line" \notin Ops
          /\ \A i \in {"AALOAD", "AASTORE", "dies", "arraycopy", "MULTIANEWARRAY"} : i \notin Ops
          /\ \A i \in Numbers : i \notin Ops
      BY DEF Numbers, Binary, Unary
    <2> HIDE DEF Ops
    <2>5. /\ \A i \in {"INVOKEVIRTUAL", "INVOKESPECIAL", "INVOKEINTERFACE"} :
                 InvokeInstance(i) => CastsAnswer(world', answer')
          /\ \A i \in {"GETFIELD", "PUTFIELD"} : UseField(i) => CastsAnswer(world', answer')
          /\ \A i \in {"GETSTATIC", "PUTSTATIC"} : UseStaticField(i) => CastsAnswer(world', answer')
          /\ InvokeClass \/ FindLine => CastsAnswer(world', answer')
      BY <2>1, <2>4, OpsOfLookups, Zenon
    <2>6. Reads \/ Stores \/ Copies \/ Creates => CastsAnswer(world', answer')
      BY <2>1, <2>4, OpsOfArrays, Zenon
    <2>7. OnTwo \/ OnOne \/ Increments \/ Compares \/ Branches => CastsAnswer(world', answer')
      BY <2>1, <2>4, OpsOfNumbers, Zenon
    <2>8. /\ \A i \in {"CHECKCAST", "INSTANCEOF", "isAssignableFrom"} :
                 TestType(i) => CastsAnswer(world', answer')
          /\ TestArrayType \/ LoadClass => CastsAnswer(world', answer')
      BY TestTypeFollowsJava, TestArrayTypeFollowsJava, LoadClassFollowsJava, Zenon
    <2> QED
      BY <2>2, <2>3, <2>5, <2>6, <2>7, <2>8, Zenon DEF Next
  <1> QED
    BY <1>1, <1>2, ProgramStaysHolds, PTL DEF Spec

-----------------------------------------------------------------------------
(* Methods                                                                 *)

MethodsIn(w, c, static, x, d) == Java!Described(w[c].methods, static, x, d)

ImplementsIn(w, c, static, x, d) ==
    \E m \in MethodsIn(w, c, static, x, d) : Java!HasBody(m)

\* A method that is native, or that has code, can run.
LEMMA BodyIs == \A m : Java!HasBody(m) <=> m.body \/ HasFlag(m.flags, Native)
  BY DEF Java!HasBody, HasFlag, Native

\* No two methods of a class have the same name and descriptor.
LEMMA MethodIsUnique ==
    ASSUME NEW w, WellFormed(w), NEW c \in ClassNames, NEW static, NEW x, NEW d,
           NEW m \in MethodsIn(w, c, static, x, d)
    PROVE  /\ \A n \in MethodsIn(w, c, static, x, d) : n = m
           /\ m.body => ~HasFlag(m.flags, Native)
           /\ static = TRUE \/ c = Object => Java!HasBody(m)
  <1>1. /\ m \in Range(w[c].methods) /\ m.name = x /\ m.desc = d
        /\ ((m.flags \div 8) % 2 = 1) = static
    BY Zenon DEF MethodsIn, Java!Described, Java!Range, Range
  <1>2. /\ m.body => ~HasFlag(m.flags, Native)
        /\ HasFlag(m.flags, Static) \/ c = Object => m.body \/ HasFlag(m.flags, Native)
        /\ \A n \in Range(w[c].methods) : m.name = n.name /\ m.desc = n.desc => m = n
    BY <1>1, Zenon DEF WellFormed, ClassNames
  <1>3. ASSUME NEW n \in MethodsIn(w, c, static, x, d) PROVE n = m
    <2>1. n \in Range(w[c].methods) /\ n.name = x /\ n.desc = d
      BY Zenon DEF MethodsIn, Java!Described, Java!Range, Range
    <2> QED
      BY <1>1, <1>2, <2>1, Zenon
  <1>4. static = TRUE => HasFlag(m.flags, Static)
    BY <1>1 DEF HasFlag, Static
  <1>5. static = TRUE \/ c = Object => Java!HasBody(m)
    BY <1>2, <1>4, BodyIs, Zenon
  <1> QED
    BY <1>2, <1>3, <1>5, Zenon

LEMMA MethodIsRead ==
    ASSUME FilesAreRead, AllRead, NEW c \in ClassNames, NEW static, NEW x, NEW d
    PROVE  LET m == Member(types[c].methods, static, x, d)
               described == MethodsIn(world, c, static, x, d)
           IN  \/ m = NoItem /\ described = {}
               \/ /\ m # NoItem
                  /\ \E n \in described : m.flags = n.flags /\ HasCode(m) = n.body
  <1>1. ClassRead(types[c], world[c]) /\ WellFormed(world)
    BY ReadFacts
  <1>2. world[c].methods \in Seq(Range(world[c].methods))
    BY <1>1, Zenon DEF WellFormed, ClassNames
  <1>3. /\ Len(types[c].methods) = Len(world[c].methods)
        /\ \A i \in DOMAIN world[c].methods :
               MemberRead(types[c].methods[i], world[c].methods[i], types[c].pool)
    BY <1>1, Zenon DEF ClassRead
  <1>4. \/ /\ Member(types[c].methods, static, x, d) = NoItem
           /\ MethodsIn(world, c, static, x, d) = {}
        \/ \E i \in DOMAIN world[c].methods :
               /\ Member(types[c].methods, static, x, d) = types[c].methods[i]
               /\ world[c].methods[i] \in MethodsIn(world, c, static, x, d)
               /\ MemberRead(types[c].methods[i], world[c].methods[i], types[c].pool)
    BY <1>2, <1>3, MemberIs, Zenon DEF MethodsIn
  <1>5. \A i : MemberRead(types[c].methods[i], world[c].methods[i], types[c].pool)
               => /\ types[c].methods[i] # NoItem
                  /\ types[c].methods[i].flags = world[c].methods[i].flags
                  /\ HasCode(types[c].methods[i]) = world[c].methods[i].body
    BY Zenon DEF MemberRead
  <1> QED
    BY <1>4, <1>5, Zenon

LEMMA InvokableIs ==
    ASSUME FilesAreRead, AllRead, NEW c \in ClassNames, NEW static, NEW x, NEW d
    PROVE  Invokable(c, static, x, d) <=> ImplementsIn(world, c, static, x, d)
  <1> DEFINE m == Member(types[c].methods, static, x, d)
             described == MethodsIn(world, c, static, x, d)
  <1>1. Invokable(c, static, x, d) <=> m # NoItem /\ (HasFlag(m.flags, Native) \/ HasCode(m))
    BY Zenon DEF Invokable, MethodIsInvokable
  <1>2. CASE m = NoItem /\ described = {}
    BY <1>1, <1>2, Zenon DEF ImplementsIn
  <1>3. ASSUME m # NoItem, NEW n \in described, m.flags = n.flags, HasCode(m) = n.body
        PROVE  Invokable(c, static, x, d) <=> ImplementsIn(world, c, static, x, d)
    <2>1. described = {n}
      <3>1. WellFormed(world)
        BY ReadFacts
      <3>2. n \in MethodsIn(world, c, static, x, d)
        BY <1>3
      <3>3. \A e \in MethodsIn(world, c, static, x, d) : e = n
        BY <3>1, <3>2, MethodIsUnique, Zenon
      <3> QED
        BY <3>2, <3>3, Zenon
    <2>2. ImplementsIn(world, c, static, x, d) <=> Java!HasBody(n)
      BY <2>1, Zenon DEF ImplementsIn
    <2>3. Java!HasBody(n) <=> n.body \/ HasFlag(n.flags, Native)
      BY BodyIs, Zenon
    <2>4. HasFlag(m.flags, Native) <=> HasFlag(n.flags, Native)
      BY <1>3, Zenon
    <2>5. HasCode(m) <=> n.body
      BY <1>3, Zenon
    <2> HIDE DEF m, described
    <2> QED
      BY <1>1, <1>3, <2>2, <2>3, <2>4, <2>5, Zenon
  <1>4. \/ m = NoItem /\ described = {}
        \/ m # NoItem /\ \E n \in described : m.flags = n.flags /\ HasCode(m) = n.body
    BY MethodIsRead, Zenon
  <1> QED
    BY <1>2, <1>3, <1>4, Zenon

\* How the method of class j runs, in program w.
RunsIn(w, j, x, d, static) ==
    LET m == CHOOSE m \in MethodsIn(w, j, static, x, d) : TRUE
    IN  [class |-> j, outcome |-> IF <<j, x>> \in Registered THEN "native"
                                  ELSE IF m.body THEN "code" ELSE "UnsatisfiedLinkError"]

\* The classes in which a call stops.
Callable(w, static, x, d) ==
    {k \in ClassNames : /\ k \in WithMethod(w, static, x, d)
                        /\ <<k, x>> \in Registered \/ ImplementsIn(w, k, static, x, d)}

LEMMA CallRuns ==
    ASSUME FilesAreRead, AllRead, NEW k \in ClassNames, NEW static, NEW x, NEW d, NEW l \in ClassNames,
           l \in Callable(world, static, x, d),
           l = FirstIn(JavaClasses(world)[k], Callable(world, static, x, d), NoItem)
    PROVE  Call(k, static, x, d) = RunsIn(world, l, x, d, static)
  <1> DEFINE s == JavaClasses(world)[k]
             H == {i \in 1..Len(s) :
                      /\ Member(types[s[i]].methods, static, x, d) # NoItem
                      /\ <<s[i], x>> \in Registered \/ Invokable(s[i], static, x, d)}
             m == Member(types[l].methods, static, x, d)
             outcome == IF l = NoItem THEN "invalid"
                        ELSE IF <<l, x>> \in Registered THEN "native"
                        ELSE IF HasFlag(m.flags, Native) THEN "UnsatisfiedLinkError" ELSE "code"
  <1>1. s \in Seq(ClassNames) /\ Chain[k] = s /\ WellFormed(world)
    BY LineFacts, ChainIs, ReadFacts
  <1>2. ASSUME NEW c \in ClassNames
        PROVE  Member(types[c].methods, static, x, d) # NoItem <=> c \in WithMethod(world, static, x, d)
    <2>1. c \in WithMethod(world, static, x, d) <=> MethodsIn(world, c, static, x, d) # {}
      BY Zenon DEF WithMethod, MethodsIn
    <2>2. \/ Member(types[c].methods, static, x, d) = NoItem
             /\ MethodsIn(world, c, static, x, d) = {}
          \/ /\ Member(types[c].methods, static, x, d) # NoItem
             /\ \E n \in MethodsIn(world, c, static, x, d) :
                    /\ Member(types[c].methods, static, x, d).flags = n.flags
                    /\ HasCode(Member(types[c].methods, static, x, d)) = n.body
      BY MethodIsRead, Zenon
    <2> QED
      BY <2>1, <2>2, Zenon
  <1>3. H = Hits(s, Callable(world, static, x, d))
    <2>1. \A i \in 1..Len(s) : s[i] \in ClassNames
      BY <1>1
    <2> HIDE DEF s
    <2>2. \A i \in 1..Len(s) : s[i] \in Callable(world, static, x, d)
              <=> /\ Member(types[s[i]].methods, static, x, d) # NoItem
                  /\ <<s[i], x>> \in Registered \/ Invokable(s[i], static, x, d)
      BY <1>2, <2>1, InvokableIs, Zenon DEF Callable
    <2> QED
      BY <2>2, Zenon DEF Hits
  <1>4. l = LET i == IF H # {} THEN Min(H) ELSE 0 IN IF i = 0 THEN NoItem ELSE s[i]
    <2>1. l = FirstIn(s, Callable(world, static, x, d), NoItem)
      OBVIOUS
    <2> HIDE DEF H, s
    <2>2. (LET i == IF H # {} THEN Min(H) ELSE 0 IN IF i = 0 THEN NoItem ELSE s[i])
          = FirstIn(s, Callable(world, static, x, d), NoItem)
      BY <1>3, FirstOfHits, Zenon
    <2> QED
      BY <2>1, <2>2
  <1>5. Call(k, static, x, d) = [class |-> l, outcome |-> outcome]
    <2> HIDE DEF s
    <2> QED
      BY <1>1, <1>4, Zenon DEF Call, First, SelectInSeq
  <1>6. PICK n \in MethodsIn(world, l, static, x, d) :
            m.flags = n.flags /\ HasCode(m) = n.body
    <2>1. m # NoItem
      BY <1>2, Zenon DEF Callable
    <2>2. \/ m = NoItem /\ MethodsIn(world, l, static, x, d) = {}
          \/ /\ m # NoItem
             /\ \E n \in MethodsIn(world, l, static, x, d) :
                    m.flags = n.flags /\ HasCode(m) = n.body
      BY MethodIsRead, ZenonT(60)
    <2> QED
      BY <2>1, <2>2, Zenon
  <1>7. /\ MethodsIn(world, l, static, x, d) = {n}
        /\ n.body => ~HasFlag(n.flags, Native)
    <2>1. /\ \A e \in MethodsIn(world, l, static, x, d) : e = n
          /\ n.body => ~HasFlag(n.flags, Native)
      BY <1>1, MethodIsUnique, Zenon
    <2> QED
      BY <1>6, <2>1, Zenon
  <1>8. l # NoItem
    BY WorldsAssumption DEF ClassNames
  <1>9. <<l, x>> \notin Registered => n.body \/ HasFlag(n.flags, Native)
    BY <1>7, BodyIs, Zenon DEF Callable, ImplementsIn
  <1>10. HasFlag(m.flags, Native) <=> HasFlag(n.flags, Native)
    BY <1>6, Zenon
  <1>11. (CHOOSE e \in MethodsIn(world, l, static, x, d) : TRUE) = n
    BY <1>7
  <1>12. RunsIn(world, l, x, d, static) =
            [class |-> l, outcome |-> IF <<l, x>> \in Registered THEN "native"
                                      ELSE IF n.body THEN "code" ELSE "UnsatisfiedLinkError"]
    BY <1>11, Zenon DEF RunsIn
  <1>13. outcome = IF <<l, x>> \in Registered THEN "native"
                   ELSE IF n.body THEN "code" ELSE "UnsatisfiedLinkError"
    <2> HIDE DEF m
    <2> QED
      BY <1>7, <1>8, <1>9, <1>10, Zenon
  <1> HIDE DEF outcome
  <1> QED
    BY <1>5, <1>12, <1>13, Zenon

\* A class that implements the method is where its own call stops.
LEMMA CallOfImplementer ==
    ASSUME FilesAreRead, AllRead, NEW k \in ClassNames, NEW static, NEW x, NEW d,
           ImplementsIn(world, k, static, x, d)
    PROVE  Call(k, static, x, d) = RunsIn(world, k, x, d, static)
  <1> DEFINE s == JavaClasses(world)[k]
             C == Callable(world, static, x, d)
  <1>1. k \in C
    BY Zenon DEF Callable, ImplementsIn, WithMethod, MethodsIn
  <1>2. s \in Seq(ClassNames) /\ s # <<>> /\ s[1] = k
    <2>1. Path(world, k, s)
      BY ReadFacts, ClassesFollowRule, ChainsArePaths, Zenon
    <2> QED
      BY <2>1, Zenon DEF Path
  <1>3. 1 \in 1..Len(s)
    BY <1>2
  <1> HIDE DEF s, C
  <1>4. PICK j \in 1..1 : FirstIn(s, C, NoItem) = s[j]
    BY <1>1, <1>2, <1>3, FirstInFacts
  <1>5. FirstIn(s, C, NoItem) = k
    BY <1>2, <1>4
  <1> QED
    BY <1>1, <1>5, CallRuns DEF s, C

LEMMA SupplierIs ==
    ASSUME FilesAreRead, AllRead, NEW c \in ClassNames, NEW x, NEW d
    PROVE  LET f == Supplier(c, x, d)
               near == {c} \cup Range(world[c].interfaces)
               has(k) == ImplementsIn(world, k, FALSE, x, d)
           IN  \/ f = NoItem /\ \A k \in near : ~has(k)
               \/ f \in near /\ f \in ClassNames /\ has(f) /\ (has(c) => f = c)
  <1> DEFINE t == world[c].interfaces
             s == <<c>> \o t
             S == {k \in ClassNames : ImplementsIn(world, k, FALSE, x, d)}
             H == {i \in 1..Len(s) : s[i] \in DOMAIN types /\ Invokable(s[i], FALSE, x, d)}
             f == Supplier(c, x, d)
  <1>1. t \in Seq(ClassNames)
    BY ReadFacts, HierarchyFacts
  <1> HIDE DEF t
  <1>2. s \in Seq(ClassNames) /\ s[1] = c /\ 1 \in 1..Len(s) /\ Len(s) = Len(t) + 1
    BY <1>1
  <1>3. \A i \in 1..Len(t) : s[i + 1] = t[i]
    BY <1>1
  <1>4. \A k \in {c} \cup Range(t) : \E i \in 1..Len(s) : s[i] = k
    <2>1. ASSUME NEW k \in Range(t) PROVE \E i \in 1..Len(s) : s[i] = k
      <3>1. PICK i \in 1..Len(t) : t[i] = k
        BY <1>1 DEF Range
      <3>2. i + 1 \in 1..Len(s) /\ s[i + 1] = k
        BY <1>1, <1>2, <1>3, <3>1
      <3> QED
        BY <3>2
    <2> QED
      BY <1>2, <2>1
  <1>5. \A i \in 1..Len(s) : s[i] \in {c} \cup Range(t)
    <2> TAKE i \in 1..Len(s)
    <2>1. CASE i = 1
      BY <1>2, <2>1
    <2>2. CASE i # 1
      <3>1. i - 1 \in 1..Len(t) /\ (i - 1) + 1 = i
        BY <1>1, <1>2, <2>2
      <3>2. s[i] = t[i - 1]
        BY <1>3, <3>1
      <3> QED
        BY <1>1, <3>1, <3>2 DEF Range
    <2> QED
      BY <2>1, <2>2
  <1> HIDE DEF s
  <1>6. Interfaces(c) = t
    BY SupersAreRead DEF Interfaces, t
  <1>7. H = Hits(s, S)
    <2>1. \A i \in 1..Len(s) : s[i] \in ClassNames
      BY <1>2
    <2>2. \A i \in 1..Len(s) : s[i] \in S
              <=> s[i] \in DOMAIN types /\ Invokable(s[i], FALSE, x, d)
      BY <2>1, ReadFacts, InvokableIs, Zenon
    <2> HIDE DEF S
    <2> QED
      BY <2>2, Zenon DEF Hits
  <1>8. f = LET i == IF H # {} THEN Min(H) ELSE 0 IN IF i = 0 THEN NoItem ELSE s[i]
    BY <1>6, Zenon DEF Supplier, First, SelectInSeq, s
  <1>9. f = FirstIn(s, S, NoItem)
    <2> HIDE DEF H, S, f
    <2> QED
      BY <1>7, <1>8, FirstOfHits, Zenon
  <1>10. CASE \E i \in 1..Len(s) : s[i] \in S
    <2>1. PICK i \in 1..Len(s) : s[i] \in S
      BY <1>10
    <2> HIDE DEF S
    <2>2. PICK j \in 1..i : FirstIn(s, S, NoItem) = s[j] /\ s[j] \in S /\ \A k \in 1..(j - 1) : s[k] \notin S
      BY <1>2, <2>1, FirstInFacts
    <2>3. j \in 1..Len(s)
      BY <2>1, <2>2
    <2>4. c \in S => j = 1
      <3> SUFFICES ASSUME c \in S, j # 1 PROVE FALSE
        OBVIOUS
      <3>1. 1 \in 1..(j - 1)
        BY <2>2
      <3> QED
        BY <1>2, <2>2, <3>1
    <2>5. f \in {c} \cup Range(t) /\ f \in S /\ (c \in S => f = c)
      BY <1>2, <1>5, <1>9, <2>2, <2>3, <2>4
    <2> QED
      BY <2>5, Zenon DEF S, t
  <1>11. CASE \A i \in 1..Len(s) : s[i] \notin S
    <2>1. f = NoItem
      BY <1>9, <1>11, NoneIn, Zenon
    <2>2. \A k \in {c} \cup Range(t) : k \notin S /\ k \in ClassNames
      <3> TAKE k \in {c} \cup Range(t)
      <3>1. PICK i \in 1..Len(s) : s[i] = k
        BY <1>4, Zenon
      <3>2. s[i] \notin S
        BY <1>11, Zenon
      <3>3. s[i] \in ClassNames
        BY <1>2
      <3> HIDE DEF S
      <3> QED
        BY <3>1, <3>2, <3>3
    <2> QED
      BY <2>1, <2>2, Zenon DEF S, t
  <1> QED
    BY <1>10, <1>11, Zenon

\* The nearest class that declares a method, and what Java selects, of a
\* program.
NearestIn(w, c, static, x, d) ==
    LET i == SelectInSeq(JavaClasses(w)[c], LAMBDA k : MethodsIn(w, k, static, x, d) # {})
    IN  IF i = 0 THEN Nowhere ELSE JavaClasses(w)[c][i]

SelectGiven(w, super, c, class, x, d) ==
    LET declare == {i \in super[c] \cap InterfaceNames : MethodsIn(w, i, FALSE, x, d) # {}}
        most == {i \in declare : ~\E j \in declare \ {i} : i \in super[j]}
    IN  IF class # Nowhere
        THEN IF ImplementsIn(w, class, FALSE, x, d) THEN class ELSE Nowhere
        ELSE IF \E i \in most : most = {i} /\ ImplementsIn(w, i, FALSE, x, d)
        THEN CHOOSE i \in most : TRUE ELSE Nowhere

SelectIn(w, c, x, d) == SelectGiven(w, JavaSupertypes(w), c, NearestIn(w, c, FALSE, x, d), x, d)

LEMMA NearestOfWorld ==
    ASSUME NEW c, NEW static, NEW x, NEW d
    PROVE  Java!SelectStatic(c, x, d) = NearestIn(world, c, TRUE, x, d)
  <1> DEFINE s == JavaClasses(world)[c]
             has(k) == MethodsIn(world, k, TRUE, x, d) # {}
  <1>1. Java!SelectStatic(c, x, d) =
          LET i == Java!SelectInSeq(Java!Classes[c], LAMBDA k : has(k))
          IN  IF i = 0 THEN Nowhere ELSE Java!Classes[c][i]
    BY Zenon DEF Java!SelectStatic, Java!Nearest, Java!Method, MethodsIn
  <1>2. NearestIn(world, c, TRUE, x, d) =
          LET i == SelectInSeq(s, LAMBDA k : has(k)) IN IF i = 0 THEN Nowhere ELSE s[i]
    BY Zenon DEF NearestIn
  <1>3. Java!SelectInSeq(s, LAMBDA k : has(k)) = SelectInSeq(s, LAMBDA k : has(k))
    BY Zenon DEF Java!SelectInSeq, Java!Min, SelectInSeq, Min
  <1>4. Java!Classes[c] = s
    BY JavaIs
  <1> HIDE DEF s, has
  <1> QED
    BY <1>1, <1>2, <1>3, <1>4, Zenon

LEMMA SelectOfWorld ==
    ASSUME NEW c, NEW x, NEW d
    PROVE  Java!Select(c, x, d) = SelectIn(world, c, x, d)
  <1> DEFINE s == JavaClasses(world)[c]
             has(k) == MethodsIn(world, k, FALSE, x, d) # {}
             result(class) == SelectGiven(world, Java!Supertypes, c, class, x, d)
  <1>1. Java!Select(c, x, d) =
          LET i == Java!SelectInSeq(Java!Classes[c], LAMBDA k : has(k))
          IN  result(IF i = 0 THEN Nowhere ELSE Java!Classes[c][i])
    BY Zenon DEF Java!Select, Java!Nearest, Java!Method, Java!Implements, MethodsIn, ImplementsIn,
       SelectGiven
  <1>2. NearestIn(world, c, FALSE, x, d) =
          LET i == SelectInSeq(s, LAMBDA k : has(k)) IN IF i = 0 THEN Nowhere ELSE s[i]
    BY Zenon DEF NearestIn
  <1>3. Java!SelectInSeq(s, LAMBDA k : has(k)) = SelectInSeq(s, LAMBDA k : has(k))
    BY Zenon DEF Java!SelectInSeq, Java!Min, SelectInSeq, Min
  <1>4. Java!Classes[c] = s /\ Java!Supertypes = JavaSupertypes(world)
    BY JavaIs
  <1>5. \A class : SelectGiven(world, JavaSupertypes(world), c, class, x, d) = result(class)
    BY <1>4
  <1> HIDE DEF s, has, result
  <1> QED
    BY <1>1, <1>2, <1>3, <1>4, <1>5, Zenon DEF SelectIn

LEMMA NearestIs ==
    ASSUME NEW w, WellFormed(w), NEW c \in ClassNames, NEW static, NEW x, NEW d
    PROVE  NearestIn(w, c, static, x, d) = FirstIn(JavaClasses(w)[c], WithMethod(w, static, x, d), Nowhere)
  <1> DEFINE s == JavaClasses(w)[c]
             H == {i \in 1..Len(s) : MethodsIn(w, s[i], static, x, d) # {}}
  <1>1. s \in Seq(ClassNames)
    BY LineFacts
  <1>2. H = Hits(s, WithMethod(w, static, x, d))
    <2>1. \A i \in 1..Len(s) : s[i] \in ClassNames
      BY <1>1
    <2> HIDE DEF s
    <2>2. \A i \in 1..Len(s) : s[i] \in WithMethod(w, static, x, d)
              <=> MethodsIn(w, s[i], static, x, d) # {}
      BY <2>1, Zenon DEF WithMethod, MethodsIn
    <2> QED
      BY <2>2, Zenon DEF Hits
  <1>3. NearestIn(w, c, static, x, d)
        = LET i == IF H # {} THEN Min(H) ELSE 0 IN IF i = 0 THEN Nowhere ELSE s[i]
    BY Zenon DEF NearestIn, SelectInSeq
  <1> HIDE DEF H, s
  <1>4. (LET i == IF H # {} THEN Min(H) ELSE 0 IN IF i = 0 THEN Nowhere ELSE s[i])
        = FirstIn(s, WithMethod(w, static, x, d), Nowhere)
    BY <1>2, FirstOfHits, Zenon
  <1>5. NearestIn(w, c, static, x, d) = FirstIn(s, WithMethod(w, static, x, d), Nowhere)
    BY <1>3, <1>4
  <1> QED
    BY <1>5 DEF s

\* What the nearest class is: no class before it declares the method.
LEMMA NearestFacts ==
    ASSUME NEW w, WellFormed(w), NEW c \in ClassNames, NEW static, NEW x, NEW d
    PROVE  LET s == JavaClasses(w)[c]
               k == NearestIn(w, c, static, x, d)
               has == WithMethod(w, static, x, d)
           IN  \/ k = Nowhere /\ \A i \in 1..Len(s) : s[i] \notin has
               \/ /\ k # Nowhere /\ k \in has
                  /\ \E n \in 1..Len(s) : k = s[n] /\ \A i \in 1..(n - 1) : s[i] \notin has
  <1> DEFINE s == JavaClasses(w)[c]
             k == NearestIn(w, c, static, x, d)
             has == WithMethod(w, static, x, d)
  <1>1. s \in Seq(ClassNames) /\ k = FirstIn(s, has, Nowhere)
    BY LineFacts, NearestIs
  <1>2. Nowhere \notin has
    BY WorldsAssumption DEF WithMethod, ClassNames
  <1> HIDE DEF s, k, has
  <1>3. CASE \A i \in 1..Len(s) : s[i] \notin has
    BY <1>1, <1>3, NoneIn, Zenon DEF s, k, has
  <1>4. ASSUME NEW m \in 1..Len(s), s[m] \in has
        PROVE  /\ k # Nowhere /\ k \in has
               /\ \E n \in 1..Len(s) : k = s[n] /\ \A i \in 1..(n - 1) : s[i] \notin has
    <2>1. PICK n \in 1..m : k = s[n] /\ s[n] \in has /\ \A i \in 1..(n - 1) : s[i] \notin has
      BY <1>1, <1>4, FirstInFacts
    <2>2. n \in 1..Len(s)
      BY <2>1
    <2> QED
      BY <1>2, <2>1, <2>2, Zenon
  <1> QED
    BY <1>3, <1>4, Zenon DEF s, k, has

\* What Java selects has a body, and is of a class with nothing declared
\* before it, or of an interface if no class declares it.
SelectedIn(w, c, x, d, j) ==
    /\ j \in ClassNames /\ ImplementsIn(w, j, FALSE, x, d)
    /\ LET s == JavaClasses(w)[c]
           has == WithMethod(w, FALSE, x, d)
       IN  \/ \E n \in 1..Len(s) : j = s[n] /\ \A i \in 1..(n - 1) : s[i] \notin has
           \/ j \in InterfaceNames /\ \A i \in 1..Len(s) : s[i] \notin has

LEMMA SelectFacts ==
    ASSUME NEW w, WellFormed(w), NEW c \in ClassNames, NEW x, NEW d,
           SelectIn(w, c, x, d) # Nowhere
    PROVE  SelectedIn(w, c, x, d, SelectIn(w, c, x, d))
  <1> DEFINE s == JavaClasses(w)[c]
             k == NearestIn(w, c, FALSE, x, d)
             has == WithMethod(w, FALSE, x, d)
             j == SelectIn(w, c, x, d)
             declare == {i \in JavaSupertypes(w)[c] \cap InterfaceNames : MethodsIn(w, i, FALSE, x, d) # {}}
             most == {i \in declare : ~\E e \in declare \ {i} : i \in JavaSupertypes(w)[e]}
  <1>1. \/ k = Nowhere /\ \A i \in 1..Len(s) : s[i] \notin has
        \/ /\ k # Nowhere /\ k \in has
           /\ \E n \in 1..Len(s) : k = s[n] /\ \A i \in 1..(n - 1) : s[i] \notin has
    BY NearestFacts
  <1>2. JavaSupertypes(w)[c] \subseteq ClassNames
    BY SupertypesOfLine
  <1>3. has \subseteq ClassNames
    BY DEF WithMethod
  <1>4. j = IF k # Nowhere
            THEN IF ImplementsIn(w, k, FALSE, x, d) THEN k ELSE Nowhere
            ELSE IF \E i \in most : most = {i} /\ ImplementsIn(w, i, FALSE, x, d)
            THEN CHOOSE i \in most : TRUE ELSE Nowhere
    BY Zenon DEF SelectIn, SelectGiven
  <1>5. most \subseteq ClassNames \cap InterfaceNames
    BY <1>2
  <1> HIDE DEF most, declare, s, k, has
  <1>6. CASE k # Nowhere
    <2>1. j = k /\ ImplementsIn(w, k, FALSE, x, d)
      BY <1>4, <1>6
    <2>2. k \in ClassNames
      BY <1>1, <1>3, <1>6
    <2> HIDE DEF j
    <2> QED
      BY <1>1, <1>6, <2>1, <2>2, Zenon DEF SelectedIn, s, has, j
  <1>7. CASE k = Nowhere
    <2>1. /\ \E i \in most : most = {i} /\ ImplementsIn(w, i, FALSE, x, d)
          /\ j = CHOOSE i \in most : TRUE
      BY <1>4, <1>7
    <2>2. PICK i \in most : most = {i} /\ ImplementsIn(w, i, FALSE, x, d)
      BY <2>1, Zenon
    <2>3. j = i
      BY <2>1, <2>2
    <2>4. j \in ClassNames /\ j \in InterfaceNames /\ ImplementsIn(w, j, FALSE, x, d)
      BY <1>5, <2>2, <2>3
    <2>5. \A e \in 1..Len(s) : s[e] \notin has
      BY <1>1, <1>7
    <2> QED
      BY <2>4, <2>5, Zenon DEF SelectedIn, s, has
  <1> QED
    BY <1>6, <1>7

\* The classes further up a chain are superclasses of those before.
LEMMA LineBelow ==
    ASSUME NEW w, WellFormed(w), NEW c \in ClassNames
    PROVE  LET s == JavaClasses(w)[c]
           IN  \A k \in 1..Len(s) : \A i \in 1..k : s[k] \in Line(w, s[i])
  <1> DEFINE P(e) == LET s == JavaClasses(w)[e]
                     IN  \A k \in 1..Len(s) : \A i \in 1..k : s[k] \in Line(w, s[i])
             S == {e \in ClassNames : P(e)}
  <1>1. ASSUME NEW e \in ClassNames, w[e].super \in ClassNames => w[e].super \in S
        PROVE  e \in S
    <2> DEFINE s == JavaClasses(w)[e]
               t == JavaClasses(w)[w[e].super]
    <2>1. Path(w, e, s) /\ s \in Seq(ClassNames) /\ Line(w, e) = Range(s)
      <3>1. Path(w, e, s)
        BY ClassesFollowRule, ChainsArePaths, SMTT(40)
      <3> QED
        BY <3>1, Zenon DEF Path, Line
    <2>2. s[1] = e
      BY <2>1, Zenon DEF Path
    <2>3. s = <<e>> \o (IF w[e].super \in ClassNames THEN t ELSE <<>>)
      BY ClassesFollowRule DEF ChainRule
    <2>4. w[e].super \in ClassNames => t \in Seq(ClassNames)
      BY LineFacts
    <2>5. w[e].super \in ClassNames => P(w[e].super)
      BY <1>1
    <2>6. w[e].super \in ClassNames =>
             \A k \in 1..Len(t) : \A i \in 1..k : t[k] \in Line(w, t[i])
      BY <2>5
    <2> HIDE DEF s, t, P
    <2>7. ASSUME NEW k \in 1..Len(s), NEW i \in 1..k PROVE s[k] \in Line(w, s[i])
      <3>1. CASE i = 1
        <4>1. s[k] \in Range(s)
          BY <2>1 DEF Range
        <4> QED
          BY <2>1, <2>2, <3>1, <4>1
      <3>2. CASE i # 1
        <4>0. Len(s) \in Nat
          BY <2>1
        <4>1. Len(s) # 1
          <5>1. ASSUME NEW n \in Nat, NEW a \in 1..n, NEW b \in 1..a, b # 1 PROVE n # 1
            BY <5>1
          <5> QED
            BY <3>2, <4>0, <5>1, Zenon
        <4>2. w[e].super \in ClassNames
          <5>1. ASSUME w[e].super \notin ClassNames PROVE FALSE
            BY <2>3, <4>1, <5>1
          <5> QED
            BY <5>1
        <4>3. s = <<e>> \o t /\ t \in Seq(ClassNames)
          BY <2>3, <2>4, <4>2
        <4>4. Len(s) = Len(t) + 1 /\ \A n \in 1..Len(t) : s[n + 1] = t[n]
          BY <4>3
        <4>5. /\ k - 1 \in 1..Len(t) /\ i - 1 \in 1..(k - 1) /\ i - 1 \in 1..Len(t)
              /\ (k - 1) + 1 = k /\ (i - 1) + 1 = i
          BY <3>2, <4>3, <4>4
        <4>6. s[k] = t[k - 1] /\ s[i] = t[i - 1]
          BY <4>4, <4>5
        <4> QED
          BY <2>6, <4>2, <4>5, <4>6
      <3> QED
        BY <3>1, <3>2
    <2>8. P(e)
      BY <2>7 DEF P, s
    <2> QED
      BY <2>8
  <1> HIDE DEF S
  <1>2. ClassNames \subseteq S
    BY <1>1, HierarchyInduction, Zenon
  <1>3. c \in S
    BY <1>2
  <1> QED
    BY <1>3 DEF S

\* No class has an interface above it, but for an interface itself.
LEMMA NoInterfacesAbove ==
    ASSUME NEW w, WellFormed(w)
    PROVE  \A c \in ClassNames \ InterfaceNames : Line(w, c) \cap InterfaceNames = {}
  <1> DEFINE S == {c \in ClassNames : c \notin InterfaceNames => Line(w, c) \cap InterfaceNames = {}}
  <1>1. ASSUME NEW c \in ClassNames, w[c].super \in ClassNames => w[c].super \in S
        PROVE  c \in S
    <2>1. w[c].super \in (ClassNames \ InterfaceNames) \cup {NoText}
      BY HierarchyFacts
    <2>2. Line(w, c) = {c} \cup (IF w[c].super \in ClassNames THEN Line(w, w[c].super) ELSE {})
      BY LineFacts
    <2>3. NoText \notin ClassNames
      BY HierarchyFacts
    <2> QED
      BY <1>1, <2>1, <2>2, <2>3
  <1> HIDE DEF S
  <1>2. ClassNames \subseteq S
    BY <1>1, HierarchyInduction, Zenon
  <1> QED
    BY <1>2 DEF S

\* OtherDefault, of a program.
OtherDefaultIn(w, c, j, x, d) ==
    \E k \in {k \in Line(w, c) : j \in Line(w, c) => k # j /\ j \in JavaSupertypes(w)[k]} :
    \E i \in Range(w[k].interfaces) : i # j /\ ImplementsIn(w, i, FALSE, x, d)

LEMMA OtherDefaultOfWorld ==
    ASSUME NEW c, NEW j, NEW r
    PROVE  OtherDefault(c, j, r) = OtherDefaultIn(world, c, j, r.text, r.desc)
  BY JavaIs, Zenon DEF OtherDefault, Below, Is, OtherDefaultIn, Line, ImplementsIn, MethodsIn,
     Java!Implements, Java!Method

\* What the nearest level that has something supplies is what Java selects,
\* or another default.
LEMMA SuppliedIsSelected ==
    ASSUME NEW w, WellFormed(w), NEW c \in ClassNames \ InterfaceNames, NEW x, NEW d, NEW j,
           SelectedIn(w, c, x, d, j),
           NEW m \in 1..Len(JavaClasses(w)[c]), NEW f,
           \A i \in 1..(m - 1) : ~ImplementsIn(w, JavaClasses(w)[c][i], FALSE, x, d),
           LET l == JavaClasses(w)[c][m]
           IN  /\ f \in {l} \cup Range(w[l].interfaces)
               /\ ImplementsIn(w, f, FALSE, x, d)
               /\ ImplementsIn(w, l, FALSE, x, d) => f = l
    PROVE  f = j \/ OtherDefaultIn(w, c, j, x, d)
  <1> DEFINE s == JavaClasses(w)[c]
             l == s[m]
             has == WithMethod(w, FALSE, x, d)
             implements(k) == ImplementsIn(w, k, FALSE, x, d)
  <1>1. s \in Seq(ClassNames) /\ Line(w, c) = Range(s) /\ Line(w, c) \cap InterfaceNames = {}
    BY LineFacts, NoInterfacesAbove DEF Line
  <1>2. l \in Line(w, c) /\ l \in ClassNames /\ l \notin InterfaceNames
    <2>1. l \in Range(s)
      BY <1>1 DEF Range
    <2> QED
      BY <1>1, <2>1, LineFacts
  <1>3. Range(w[l].interfaces) \subseteq InterfaceNames
    BY <1>2, HierarchyFacts
  <1>4. \A k \in ClassNames : implements(k) => k \in has
    BY Zenon DEF ImplementsIn, MethodsIn, WithMethod
  <1>5. /\ f \in {l} \cup Range(w[l].interfaces) /\ implements(f)
        /\ implements(l) => f = l
        /\ \A i \in 1..(m - 1) : ~implements(s[i])
    OBVIOUS
  <1>6. /\ j \in ClassNames /\ implements(j)
        /\ \/ \E n \in 1..Len(s) : j = s[n] /\ \A i \in 1..(n - 1) : s[i] \notin has
           \/ j \in InterfaceNames /\ \A i \in 1..Len(s) : s[i] \notin has
    BY Zenon DEF SelectedIn
  <1>7. \A n \in 1..Len(s) : \A i \in 1..n : s[n] \in Line(w, s[i])
    BY LineBelow
  <1>8. Line(w, l) \subseteq JavaSupertypes(w)[l]
    BY <1>2, SupertypesOfLine DEF NamedBy
  <1> HIDE DEF s, l, has, implements
  <1>9. ASSUME f \in Range(w[l].interfaces), f # j,
               j \in Line(w, c) => l # j /\ j \in JavaSupertypes(w)[l]
        PROVE  OtherDefaultIn(w, c, j, x, d)
    BY <1>2, <1>5, <1>9, Zenon DEF OtherDefaultIn, implements
  <1>10. CASE j \in InterfaceNames /\ \A i \in 1..Len(s) : s[i] \notin has
    <2>1. l \notin has
      BY <1>10 DEF l, s
    <2>2. f \in Range(w[l].interfaces)
      BY <1>2, <1>4, <1>5, <2>1
    <2>3. j \notin Line(w, c)
      BY <1>1, <1>10
    <2> QED
      BY <1>9, <2>2, <2>3
  <1>11. ASSUME NEW n \in 1..Len(s), j = s[n], \A i \in 1..(n - 1) : s[i] \notin has
         PROVE  f = j \/ OtherDefaultIn(w, c, j, x, d)
    <2>0. m \in 1..Len(s) /\ l = s[m]
      BY DEF l, s
    <2>1. CASE n < m
      <3>1. n \in 1..(m - 1)
        BY <2>0, <2>1
      <3> QED
        BY <1>5, <1>6, <1>11, <3>1
    <2>2. CASE n = m
      BY <1>5, <1>6, <1>11, <2>0, <2>2
    <2>3. CASE m < n
      <3>1. m \in 1..(n - 1) /\ m \in 1..n
        BY <2>0, <2>3
      <3>2. l \notin has /\ l # j
        BY <1>4, <1>6, <1>11, <2>0, <3>1
      <3>3. f \in Range(w[l].interfaces)
        BY <1>2, <1>4, <1>5, <3>2
      <3>4. j \in JavaSupertypes(w)[l]
        BY <1>7, <1>8, <1>11, <2>0, <3>1
      <3> QED
        BY <1>9, <3>2, <3>3, <3>4
    <2> QED
      BY <2>0, <2>1, <2>2, <2>3
  <1> QED
    BY <1>6, <1>10, <1>11

LEMMA VirtualIs ==
    ASSUME FilesAreRead, AllRead, NEW c \in ClassNames, NEW x, NEW d
    PROVE  LET f == VirtualInterface(c, x, d)
               s == JavaClasses(world)[c]
               has(k) == ImplementsIn(world, k, FALSE, x, d)
           IN  \/ f = NoItem /\ \A k \in NamedBy(world, c) : ~has(k)
               \/ /\ f \in ClassNames /\ has(f)
                  /\ \E m \in 1..Len(s) : /\ \A i \in 1..(m - 1) : ~has(s[i])
                                          /\ f \in {s[m]} \cup Range(world[s[m]].interfaces)
                                          /\ has(s[m]) => f = s[m]
  <1> DEFINE s == JavaClasses(world)[c]
             S == {k \in ClassNames : Supplier(k, x, d) # NoItem}
             H == {i \in 1..Len(s) : Supplier(s[i], x, d) # NoItem}
             l == FirstIn(s, S, NoItem)
             has(k) == ImplementsIn(world, k, FALSE, x, d)
             f == VirtualInterface(c, x, d)
  <1>1. s \in Seq(ClassNames) /\ Chain[c] = s /\ Line(world, c) = Range(s)
    BY LineFacts, ChainIs, ReadFacts DEF Line
  <1>2. ASSUME NEW k \in ClassNames
        PROVE  \/ k \notin S /\ \A e \in {k} \cup Range(world[k].interfaces) : ~has(e)
               \/ /\ k \in S
                  /\ Supplier(k, x, d) \in {k} \cup Range(world[k].interfaces)
                  /\ Supplier(k, x, d) \in ClassNames /\ has(Supplier(k, x, d))
                  /\ has(k) => Supplier(k, x, d) = k
    <2>1. \/ /\ Supplier(k, x, d) = NoItem
             /\ \A e \in {k} \cup Range(world[k].interfaces) : ~has(e)
          \/ /\ Supplier(k, x, d) \in {k} \cup Range(world[k].interfaces)
             /\ Supplier(k, x, d) \in ClassNames /\ has(Supplier(k, x, d))
             /\ has(k) => Supplier(k, x, d) = k
      BY SupplierIs, Zenon
    <2>2. NoItem \notin ClassNames
      BY WorldsAssumption DEF ClassNames
    <2> HIDE DEF has
    <2> QED
      BY <2>1, <2>2, Zenon
  <1>3. H = Hits(s, S)
    <2>1. \A i \in 1..Len(s) : s[i] \in ClassNames
      BY <1>1
    <2> HIDE DEF s
    <2> QED
      BY <2>1, Zenon DEF Hits
  <1>4. l = LET i == IF H # {} THEN Min(H) ELSE 0 IN IF i = 0 THEN NoItem ELSE s[i]
    <2> HIDE DEF H, S, s
    <2> QED
      BY <1>3, FirstOfHits, Zenon
  <1>5. f = IF l = NoItem THEN NoItem ELSE Supplier(l, x, d)
    <2> DEFINE e == LET i == IF H # {} THEN Min(H) ELSE 0 IN IF i = 0 THEN NoItem ELSE s[i]
    <2>1. f = IF e = NoItem THEN NoItem ELSE Supplier(e, x, d)
      <3> HIDE DEF s
      <3> QED
        BY <1>1, Zenon DEF VirtualInterface, First, SelectInSeq
    <2>2. l = e
      BY <1>4
    <2> HIDE DEF e, l, f
    <2> QED
      BY <2>1, <2>2, Zenon
  <1> HIDE DEF s, S, H, has, f
  <1>6. CASE \A i \in 1..Len(s) : s[i] \notin S
    <2>1. f = NoItem
      BY <1>5, <1>6, NoneIn, Zenon
    <2>2. ASSUME NEW k \in NamedBy(world, c) PROVE ~has(k)
      <3>1. PICK e \in Range(s) : k \in {e} \cup Range(world[e].interfaces)
        BY <1>1 DEF NamedBy
      <3>2. PICK i \in 1..Len(s) : s[i] = e
        BY <1>1, <3>1 DEF Range
      <3>3. e \in ClassNames /\ e \notin S
        BY <1>1, <1>6, <3>2
      <3> QED
        BY <1>2, <3>1, <3>3, Zenon
    <2> QED
      BY <2>1, <2>2, Zenon DEF f, has
  <1>7. CASE \E i \in 1..Len(s) : s[i] \in S
    <2>1. PICK n \in 1..Len(s) : s[n] \in S
      BY <1>7
    <2>2. PICK m \in 1..n : /\ l = s[m] /\ s[m] \in S /\ s[m] \in ClassNames
                            /\ \A i \in 1..(m - 1) : s[i] \notin S
      BY <1>1, <2>1, FirstInFacts
    <2>3. m \in 1..Len(s) /\ \A i \in 1..(m - 1) : s[i] \in ClassNames
      BY <1>1, <2>1, <2>2
    <2>4. /\ Supplier(s[m], x, d) \in {s[m]} \cup Range(world[s[m]].interfaces)
          /\ Supplier(s[m], x, d) \in ClassNames /\ has(Supplier(s[m], x, d))
          /\ has(s[m]) => Supplier(s[m], x, d) = s[m]
      BY <1>2, <2>2, Zenon
    <2>5. \A i \in 1..(m - 1) : ~has(s[i])
      <3> TAKE i \in 1..(m - 1)
      <3>1. s[i] \in ClassNames /\ s[i] \notin S
        BY <2>2, <2>3, Zenon
      <3>2. s[i] \in {s[i]} \cup Range(world[s[i]].interfaces)
        OBVIOUS
      <3> QED
        BY <1>2, <3>1, <3>2, Zenon
    <2>6. f = Supplier(s[m], x, d)
      <3>1. l # NoItem
        BY <2>2, WorldsAssumption DEF ClassNames
      <3> QED
        BY <1>5, <2>2, <3>1, Zenon
    <2>7. /\ f \in ClassNames /\ has(f)
          /\ f \in {s[m]} \cup Range(world[s[m]].interfaces)
          /\ has(s[m]) => f = s[m]
      BY <2>4, <2>6, Zenon
    <2> QED
      BY <2>3, <2>5, <2>7, Zenon DEF f, s, has
  <1> QED
    BY <1>6, <1>7, Zenon

\* The methods of an array are those of Object.
LEMMA MethodsOfObject ==
    ASSUME FilesAreRead, AllRead, NEW x, NEW d,
           \E k \in JavaSupertypes(world)[Object] : MethodsIn(world, k, FALSE, x, d) # {}
    PROVE  /\ SelectIn(world, Object, x, d) = Object
           /\ Call(Object, FALSE, x, d) = RunsIn(world, Object, x, d, FALSE)
  <1>1. WellFormed(world) /\ Object \in ClassNames
    BY ReadFacts, HierarchyFacts
  <1>2. JavaSupertypes(world)[Object] = {Object}
    <2>0. world[Object].super \notin ClassNames /\ Range(world[Object].interfaces) = {}
      <3>1. world[Object].super = NoText /\ NoText \notin ClassNames
        BY <1>1, HierarchyFacts, Zenon
      <3> QED
        BY <1>1, <3>1, HierarchyFacts, Zenon
    <2>1. Parents(world, Object) = {}
      BY <2>0 DEF Parents
    <2> QED
      BY <1>1, <2>1, SupertypeFacts
  <1>3. PICK m : m \in MethodsIn(world, Object, FALSE, x, d)
    BY <1>2
  <1>4. Java!HasBody(m)
    BY <1>1, <1>3, MethodIsUnique, Zenon
  <1>5. ImplementsIn(world, Object, FALSE, x, d)
    BY <1>3, <1>4, Zenon DEF ImplementsIn
  <1>6. NearestIn(world, Object, FALSE, x, d) = Object
    <2> DEFINE s == JavaClasses(world)[Object]
               k == NearestIn(world, Object, FALSE, x, d)
               has == WithMethod(world, FALSE, x, d)
    <2>1. Object \in has
      BY <1>1, <1>3 DEF WithMethod, MethodsIn
    <2>2. Range(s) = {Object} /\ s \in Seq(ClassNames)
      <3>1. world[Object].super \notin ClassNames
        BY <1>1, HierarchyFacts, Zenon
      <3>2. Line(world, Object) = {Object} /\ s \in Seq(ClassNames)
        BY <1>1, <3>1, LineFacts
      <3> QED
        BY <3>2, Zenon DEF Line
    <2>3. \A i \in 1..Len(s) : s[i] = Object
      <3> TAKE i \in 1..Len(s)
      <3>1. DOMAIN s = 1..Len(s)
        BY <2>2
      <3> HIDE DEF s
      <3> QED
        BY <2>2, <3>1, Zenon DEF Range
    <2>4. \E i \in 1..Len(s) : s[i] = Object
      <3>1. DOMAIN s = 1..Len(s)
        BY <2>2
      <3> HIDE DEF s
      <3> QED
        BY <2>2, <3>1, Zenon DEF Range
    <2>5. \/ k = Nowhere /\ \A i \in 1..Len(s) : s[i] \notin has
          \/ \E n \in 1..Len(s) : k = s[n] /\ \A i \in 1..(n - 1) : s[i] \notin has
      BY <1>1, NearestFacts, Zenon
    <2> HIDE DEF s, k, has
    <2>6. k = Object
      BY <2>1, <2>3, <2>4, <2>5, Zenon
    <2> QED
      BY <2>6 DEF k
  <1>7. Object # Nowhere
    BY <1>1, WorldsAssumption DEF ClassNames
  <1>8. SelectIn(world, Object, x, d) = Object
    BY <1>5, <1>6, <1>7, Zenon DEF SelectIn, SelectGiven
  <1> QED
    BY <1>1, <1>5, <1>8, CallOfImplementer, Zenon

\* What a call does, other than to run the method j.
LEMMA InvokeVirtualIs ==
    ASSUME FilesAreRead, AllRead, NEW inst \in {"INVOKEVIRTUAL", "INVOKEINTERFACE"},
           NEW p \in Constants(IF inst = "INVOKEINTERFACE" THEN 11 ELSE 10), NEW c \in Objects,
           SelectIn(world, c, p[2].text, p[2].desc) # Nowhere
    PROVE  LET x == p[2].text
               d == p[2].desc
               j == SelectIn(world, c, x, d)
               result == Invoke(inst, Self, p[1], c)
           IN  \/ OtherDefaultIn(world, c, j, x, d)
               \/ j \notin NamedBy(world, c) /\ result = Internal
               \/ result = RunsIn(world, j, x, d, FALSE)
  <1> DEFINE tag == IF inst = "INVOKEINTERFACE" THEN 11 ELSE 10
             x == p[2].text
             d == p[2].desc
             ref == Resolve(types[Self].pool, p[1], tag)
             j == SelectIn(world, c, x, d)
             f == VirtualInterface(c, x, d)
             result == Invoke(inst, Self, p[1], c)
  <1>1. ref = [class |-> p[2].class, name |-> x, desc |-> d] /\ ref # NoItem
    <2>1. tag \in {9, 10, 11}
      OBVIOUS
    <2> QED
      BY <2>1, ResolveIs, Zenon
  <1>2. ref # NoItem /\ ref.name = x /\ ref.desc = d
    BY <1>1
  <1>3. c \in ClassNames /\ c \notin InterfaceNames /\ c # Null /\ c # Array /\ WellFormed(world)
    BY WorldsAssumption, ReadFacts DEF Objects, ClassNames
  <1>4. inst # "INVOKESPECIAL"
    OBVIOUS
  <1>5. result = IF f = NoItem THEN Internal ELSE Call(f, FALSE, x, d)
    <2>1. result = LET found == VirtualInterface(c, ref.name, ref.desc)
                   IN  IF ref = NoItem \/ c = Null THEN Internal
                       ELSE IF c = Array THEN Call(Object, FALSE, ref.name, ref.desc)
                       ELSE IF found = NoItem THEN Internal
                       ELSE Call(found, FALSE, ref.name, ref.desc)
      BY <1>4, Zenon DEF Invoke
    <2> HIDE DEF ref, x, d, result, f
    <2> QED
      BY <1>2, <1>3, <2>1, Zenon DEF f
  <1>6. SelectedIn(world, c, x, d, j)
    BY <1>3, SelectFacts
  <1>7. j \in ClassNames /\ ImplementsIn(world, j, FALSE, x, d)
    BY <1>6, Zenon DEF SelectedIn
  <1> HIDE DEF tag, x, d, ref, j, f, result
  <1>8. CASE f = NoItem /\ \A k \in NamedBy(world, c) : ~ImplementsIn(world, k, FALSE, x, d)
    <2>1. j \notin NamedBy(world, c)
      BY <1>7, <1>8
    <2> QED
      BY <1>5, <1>8, <2>1, Zenon DEF x, d, j, result
  <1>9. ASSUME f \in ClassNames, ImplementsIn(world, f, FALSE, x, d),
               NEW m \in 1..Len(JavaClasses(world)[c]),
               \A i \in 1..(m - 1) : ~ImplementsIn(world, JavaClasses(world)[c][i], FALSE, x, d),
               LET l == JavaClasses(world)[c][m]
               IN  /\ f \in {l} \cup Range(world[l].interfaces)
                   /\ ImplementsIn(world, l, FALSE, x, d) => f = l
        PROVE  OtherDefaultIn(world, c, j, x, d) \/ result = RunsIn(world, j, x, d, FALSE)
    <2>1. f = j \/ OtherDefaultIn(world, c, j, x, d)
      BY <1>3, <1>6, <1>9, SuppliedIsSelected
    <2>2. result = RunsIn(world, f, x, d, FALSE)
      <3>1. f # NoItem
        BY <1>9, WorldsAssumption DEF ClassNames
      <3> QED
        BY <1>5, <1>9, <3>1, CallOfImplementer, Zenon
    <2> QED
      BY <2>1, <2>2, Zenon
  <1>10. \/ f = NoItem /\ \A k \in NamedBy(world, c) : ~ImplementsIn(world, k, FALSE, x, d)
         \/ /\ f \in ClassNames /\ ImplementsIn(world, f, FALSE, x, d)
            /\ \E m \in 1..Len(JavaClasses(world)[c]) :
                   /\ \A i \in 1..(m - 1) : ~ImplementsIn(world, JavaClasses(world)[c][i], FALSE, x, d)
                   /\ f \in {JavaClasses(world)[c][m]} \cup Range(world[JavaClasses(world)[c][m]].interfaces)
                   /\ ImplementsIn(world, JavaClasses(world)[c][m], FALSE, x, d)
                          => f = JavaClasses(world)[c][m]
    BY <1>3, VirtualIs, Zenon DEF f
  <1>11. OtherDefaultIn(world, c, j, x, d)
         \/ (j \notin NamedBy(world, c) /\ result = Internal)
         \/ result = RunsIn(world, j, x, d, FALSE)
    BY <1>8, <1>9, <1>10, Zenon DEF x, d, j, result
  <1> QED
    BY <1>11, Zenon DEF x, d, j, result

\* INVOKESPECIAL looks at one level only.
LEMMA InvokeSpecialIs ==
    ASSUME FilesAreRead, AllRead, NEW p \in Constants(10),
           p[2].class \in {Self, world[Self].super},
           SelectIn(world, p[2].class, p[2].text, p[2].desc) # Nowhere
    PROVE  LET x == p[2].text
               d == p[2].desc
               c == p[2].class
               j == SelectIn(world, c, x, d)
               result == Invoke("INVOKESPECIAL", Self, p[1], Self)
           IN  \/ OtherDefaultIn(world, c, j, x, d)
               \/ j \notin {c} \cup Range(world[c].interfaces) /\ result = Internal
               \/ result = RunsIn(world, j, x, d, FALSE)
  <1> DEFINE x == p[2].text
             d == p[2].desc
             c == p[2].class
             ref == Resolve(types[Self].pool, p[1], 10)
             j == SelectIn(world, c, x, d)
             f == Supplier(c, x, d)
             result == Invoke("INVOKESPECIAL", Self, p[1], Self)
  <1>1. ref = [class |-> c, name |-> x, desc |-> d] /\ ref # NoItem /\ c \in ClassNames
    <2>1. 10 \in {9, 10, 11}
      OBVIOUS
    <2> QED
      BY <2>1, ResolveIs, ConstantFacts, Zenon
  <1>2. ref # NoItem /\ ref.class = c /\ ref.name = x /\ ref.desc = d
    BY <1>1
  <1>3. /\ Self \in ClassNames /\ Self \notin InterfaceNames /\ Self # Null /\ Self # Array
        /\ WellFormed(world)
    BY WorldsAssumption, ReadFacts DEF ClassNames
  <1>4. c \in Range(Chain[Self]) /\ c \notin InterfaceNames
    <2>1. Range(Chain[Self]) = Line(world, Self)
      BY <1>3, ChainIs DEF Line
    <2>2. c = Self \/ c = world[Self].super
      OBVIOUS
    <2> HIDE DEF c
    <2>3. c \in Line(world, Self)
      BY <1>1, <1>3, <2>2, LineFacts
    <2>4. c \notin InterfaceNames
      BY <1>3, <2>3, NoInterfacesAbove
    <2> QED
      BY <2>1, <2>3, <2>4
  <1>5. result = IF f = NoItem THEN Internal ELSE Call(f, FALSE, x, d)
    <2>1. result = LET found == Special(Self, ref.class, ref.name, ref.desc)
                   IN  IF ref = NoItem \/ Self = Null THEN Internal
                       ELSE IF Self = Array THEN Call(Object, FALSE, ref.name, ref.desc)
                       ELSE IF found = NoItem THEN Internal
                       ELSE Call(found, FALSE, ref.name, ref.desc)
      BY Zenon DEF Invoke
    <2>2. Special(Self, c, x, d) = f
      BY <1>4, Zenon DEF Special
    <2> HIDE DEF ref, x, d, c, result, f
    <2> QED
      BY <1>2, <1>3, <2>1, <2>2, Zenon
  <1>6. SelectedIn(world, c, x, d, j)
    BY <1>1, <1>3, SelectFacts
  <1>7. j \in ClassNames /\ ImplementsIn(world, j, FALSE, x, d)
    BY <1>6, Zenon DEF SelectedIn
  <1> HIDE DEF x, d, c, ref, j, f, result
  <1>8. CASE f = NoItem /\ \A k \in {c} \cup Range(world[c].interfaces) :
                               ~ImplementsIn(world, k, FALSE, x, d)
    <2>1. j \notin {c} \cup Range(world[c].interfaces)
      BY <1>7, <1>8
    <2> QED
      BY <1>5, <1>8, <2>1, Zenon DEF x, d, c, j, result
  <1>9. ASSUME f \in {c} \cup Range(world[c].interfaces), f \in ClassNames,
               ImplementsIn(world, f, FALSE, x, d), ImplementsIn(world, c, FALSE, x, d) => f = c
        PROVE  OtherDefaultIn(world, c, j, x, d) \/ result = RunsIn(world, j, x, d, FALSE)
    <2>1. f = j \/ OtherDefaultIn(world, c, j, x, d)
      <3> DEFINE s == JavaClasses(world)[c]
      <3>1. s \in Seq(ClassNames) /\ s # <<>> /\ s[1] = c
        <4>1. Path(world, c, s)
          BY <1>1, <1>3, ClassesFollowRule, ChainsArePaths, Zenon
        <4> QED
          BY <4>1, Zenon DEF Path
      <3>2. 1 \in 1..Len(s) /\ \A i \in 1..(1 - 1) : FALSE
        BY <3>1
      <3>3. c \in ClassNames \ InterfaceNames
        BY <1>1, <1>4
      <3> HIDE DEF s
      <3>4. /\ \A i \in 1..(1 - 1) : ~ImplementsIn(world, s[i], FALSE, x, d)
            /\ f \in {s[1]} \cup Range(world[s[1]].interfaces)
            /\ ImplementsIn(world, s[1], FALSE, x, d) => f = s[1]
        BY <1>9, <3>1, <3>2, Zenon
      <3> QED
        BY <1>3, <1>6, <1>9, <3>2, <3>3, <3>4, SuppliedIsSelected, Zenon DEF s
    <2>2. result = RunsIn(world, f, x, d, FALSE)
      <3>1. f # NoItem
        BY <1>9, WorldsAssumption DEF ClassNames
      <3> QED
        BY <1>5, <1>9, <3>1, CallOfImplementer, Zenon
    <2> QED
      BY <2>1, <2>2, Zenon
  <1>10. \/ f = NoItem /\ \A k \in {c} \cup Range(world[c].interfaces) :
                              ~ImplementsIn(world, k, FALSE, x, d)
         \/ /\ f \in {c} \cup Range(world[c].interfaces) /\ f \in ClassNames
            /\ ImplementsIn(world, f, FALSE, x, d) /\ (ImplementsIn(world, c, FALSE, x, d) => f = c)
    BY <1>1, SupplierIs, Zenon DEF f
  <1>11. \/ OtherDefaultIn(world, c, j, x, d)
         \/ j \notin {c} \cup Range(world[c].interfaces) /\ result = Internal
         \/ result = RunsIn(world, j, x, d, FALSE)
    BY <1>8, <1>9, <1>10, Zenon DEF x, d, c, j, result
  <1> QED
    BY <1>11, Zenon DEF x, d, c, j, result

\* All static methods can run, so the nearest is the one that does.
LEMMA InvokeStaticIs ==
    ASSUME FilesAreRead, AllRead, NEW p \in Constants(10),
           NearestIn(world, p[2].class, TRUE, p[2].text, p[2].desc) # Nowhere
    PROVE  InvokeStatic(Self, p[1]) =
               RunsIn(world, NearestIn(world, p[2].class, TRUE, p[2].text, p[2].desc),
                      p[2].text, p[2].desc, TRUE)
  <1> DEFINE x == p[2].text
             d == p[2].desc
             c == p[2].class
             ref == Resolve(types[Self].pool, p[1], 10)
             j == NearestIn(world, c, TRUE, x, d)
             s == JavaClasses(world)[c]
             has == WithMethod(world, TRUE, x, d)
             C == Callable(world, TRUE, x, d)
  <1>1. ref = [class |-> c, name |-> x, desc |-> d] /\ ref # NoItem /\ c \in ClassNames
    <2>1. 10 \in {9, 10, 11}
      OBVIOUS
    <2> QED
      BY <2>1, ResolveIs, ConstantFacts, Zenon
  <1>2. ref # NoItem /\ ref.class = c /\ ref.name = x /\ ref.desc = d
    BY <1>1
  <1>3. DOMAIN types = ClassNames /\ WellFormed(world)
    BY ReadFacts
  <1>4. InvokeStatic(Self, p[1]) = Call(c, TRUE, x, d)
    <2>1. InvokeStatic(Self, p[1]) =
              IF ref = NoItem THEN NotRun
              ELSE IF ref.class \notin DOMAIN types THEN NotRun
              ELSE Call(ref.class, TRUE, ref.name, ref.desc)
      BY Zenon DEF InvokeStatic
    <2> HIDE DEF ref, x, d, c
    <2> QED
      BY <1>1, <1>2, <1>3, <2>1, Zenon
  <1>5. \A k \in ClassNames : k \in has <=> k \in C
    <2> SUFFICES ASSUME NEW k \in ClassNames, k \in has PROVE k \in C
      BY Zenon DEF Callable
    <2>1. PICK m : m \in MethodsIn(world, k, TRUE, x, d)
      BY DEF WithMethod, MethodsIn
    <2>2. Java!HasBody(m)
      BY <1>3, <2>1, MethodIsUnique, Zenon
    <2> QED
      BY <2>1, <2>2, Zenon DEF Callable, ImplementsIn
  <1>6. s \in Seq(ClassNames)
    BY <1>1, <1>3, LineFacts
  <1>7. j = FirstIn(s, has, Nowhere)
    <2> DEFINE static == TRUE
    <2>1. c \in ClassNames
      BY <1>1
    <2> HIDE DEF static, x, d, c
    <2>2. NearestIn(world, c, static, x, d)
          = FirstIn(JavaClasses(world)[c], WithMethod(world, static, x, d), Nowhere)
      BY <1>3, <2>1, NearestIs, Zenon
    <2> QED
      BY <2>2 DEF static
  <1>8. FirstIn(s, has, Nowhere) # Nowhere
    BY <1>7
  <1>9. j \in has
    BY <1>1, <1>3, NearestFacts, Zenon
  <1>10. j \in ClassNames /\ j \in C
    <2>1. j \in ClassNames
      BY <1>9, Zenon DEF WithMethod
    <2> HIDE DEF j, C, has
    <2> QED
      BY <1>5, <1>9, <2>1
  <1> HIDE DEF x, d, c, s, has, C, j
  <1>11. j = FirstIn(s, C, NoItem)
    <2>1. FirstIn(s, has, NoItem) = j
      BY <1>7, <1>8, FoundSomewhere
    <2>2. FirstIn(s, has, NoItem) = FirstIn(s, C, NoItem)
      BY <1>5, <1>6, SameFirst
    <2> QED
      BY <2>1, <2>2
  <1>12. Call(c, TRUE, x, d) = RunsIn(world, j, x, d, TRUE)
    <2> DEFINE static == TRUE
    <2>1. /\ c \in ClassNames /\ j \in ClassNames
          /\ j \in Callable(world, static, x, d)
          /\ j = FirstIn(JavaClasses(world)[c], Callable(world, static, x, d), NoItem)
      BY <1>1, <1>10, <1>11 DEF s, C
    <2> HIDE DEF static
    <2>2. Call(c, static, x, d) = RunsIn(world, j, x, d, static)
      BY <2>1, CallRuns
    <2> QED
      BY <2>2 DEF static
  <1> QED
    BY <1>4, <1>12, Zenon DEF x, d, c, j

\* CallsFollowJava, of program w and answer a.
CallsAnswer(w, a) ==
    LET r == a.ref
        c == CASE a.op = "INVOKESPECIAL" -> r.class
               [] a.op # "INVOKESPECIAL" /\ a.receiver = Array -> Object
               [] OTHER -> a.receiver
        j == SelectIn(w, c, r.text, r.desc)
    IN  /\ a.op \in {"INVOKEVIRTUAL", "INVOKESPECIAL", "INVOKEINTERFACE"} =>
               /\ a.slots = 1 + Arity[r.desc]
               /\ a.receiver = Null => a.result = Internal
               /\ \/ a.receiver = Null \/ OtherDefaultIn(w, c, j, r.text, r.desc)
                  \/ j \notin NamedBy(w, c) /\ a.result = Internal
                  \/ /\ a.op = "INVOKESPECIAL"
                     /\ j \notin {c} \cup Range(w[c].interfaces) /\ a.result = Internal
                  \/ a.result = RunsIn(w, j, r.text, r.desc, FALSE)
        /\ a.op = "INVOKESTATIC" =>
               /\ a.slots = Arity[r.desc]
               /\ a.result = RunsIn(w, NearestIn(w, r.class, TRUE, r.text, r.desc),
                                    r.text, r.desc, TRUE)

LEMMA RunsOfWorld ==
    ASSUME NEW j, NEW r, NEW static
    PROVE  Runs(j, r, static) = RunsIn(world, j, r.text, r.desc, static)
  BY Zenon DEF Runs, RunsIn, MethodsIn, Java!Method

LEMMA CallsMean == CallsFollowJava <=> CallsAnswer(world, answer)
  BY SelectOfWorld, NearestOfWorld, OtherDefaultOfWorld, RunsOfWorld, DirectIs, ZenonT(60)
     DEF CallsFollowJava, CallsAnswer, DirectlyOf

LEMMA CallsMeanNext == CallsFollowJava' <=> CallsAnswer(world', answer')
  <1>1. (CallsFollowJava <=> CallsAnswer(world, answer))'
    BY CallsMean, PTL
  <1> QED
    BY <1>1

LEMMA InvokeClassFollowsJava ==
    ASSUME FilesAreRead, ProgramStays, InvokeClass
    PROVE  CallsAnswer(world', answer')
  <1>1. AllRead
    BY DEF ProgramStays, AllRead, InvokeClass, LooksUp
  <1>2. PICK p \in Constants(10) :
            /\ Java!SelectStatic(p[2].class, p[2].text, p[2].desc) # Nowhere
            /\ Answers([op |-> "INVOKESTATIC", ref |-> p[2], receiver |-> Null,
                        slots |-> ParameterCount(p[2].desc),
                        result |-> InvokeStatic(Self, p[1])])
    BY Zenon DEF InvokeClass
  <1> DEFINE j == NearestIn(world, p[2].class, TRUE, p[2].text, p[2].desc)
             result == InvokeStatic(Self, p[1])
             slots == ParameterCount(p[2].desc)
  <1>3. j # Nowhere
    BY <1>2, NearestOfWorld, Zenon
  <1>4. result = RunsIn(world, j, p[2].text, p[2].desc, TRUE)
    BY <1>1, <1>3, InvokeStaticIs, Zenon
  <1>5. slots = Arity[p[2].desc]
    <2>1. 10 \in {9, 10, 11} /\ 10 # 9
      OBVIOUS
    <2> QED
      BY <1>1, <2>1, ResolveIs, Zenon
  <1>6. world' = world /\ answer' = [op |-> "INVOKESTATIC", ref |-> p[2], receiver |-> Null,
                                     slots |-> slots, result |-> result]
    BY <1>2 DEF Answers
  <1> HIDE DEF result, slots
  <1>7. /\ answer'.op = "INVOKESTATIC" /\ answer'.ref = p[2] /\ answer'.slots = slots
        /\ answer'.result = result
    BY <1>6
  <1>8. answer'.op \notin {"INVOKEVIRTUAL", "INVOKESPECIAL", "INVOKEINTERFACE"}
    BY <1>7
  <1> QED
    BY <1>4, <1>5, <1>6, <1>7, <1>8, Zenon DEF CallsAnswer

\* What a call on an object, null or an array answers.
LEMMA ReceiverIs ==
    ASSUME FilesAreRead, AllRead, NEW inst \in {"INVOKEVIRTUAL", "INVOKESPECIAL", "INVOKEINTERFACE"},
           NEW p \in Constants(IF inst = "INVOKEINTERFACE" THEN 11 ELSE 10),
           NEW c \in Receivers(inst, p[2]), Declared(p[2])
    PROVE  LET x == p[2].text
               d == p[2].desc
               class == IF inst = "INVOKESPECIAL" THEN p[2].class
                        ELSE IF c = Array THEN Object ELSE c
               j == SelectIn(world, class, x, d)
               result == Invoke(inst, Self, p[1], c)
           IN  /\ c = Null => result = Internal
               /\ \/ c = Null \/ OtherDefaultIn(world, class, j, x, d)
                  \/ j \notin NamedBy(world, class) /\ result = Internal
                  \/ /\ inst = "INVOKESPECIAL"
                     /\ j \notin {class} \cup Range(world[class].interfaces) /\ result = Internal
                  \/ result = RunsIn(world, j, x, d, FALSE)
  <1> DEFINE x == p[2].text
             d == p[2].desc
             class == IF inst = "INVOKESPECIAL" THEN p[2].class
                      ELSE IF c = Array THEN Object ELSE c
             j == SelectIn(world, class, x, d)
             result == Invoke(inst, Self, p[1], c)
             answers == \/ OtherDefaultIn(world, class, j, x, d)
                        \/ j \notin NamedBy(world, class) /\ result = Internal
                        \/ /\ inst = "INVOKESPECIAL"
                           /\ j \notin {class} \cup Range(world[class].interfaces) /\ result = Internal
                        \/ result = RunsIn(world, j, x, d, FALSE)
  <1>1. c = Null => result = Internal
    BY Zenon DEF Invoke
  <1>2. CASE inst = "INVOKESPECIAL"
    <2>1. /\ c = Self /\ Java!Select(p[2].class, x, d) # Nowhere
          /\ p[2].class \in {Self, world[Self].super}
      <3>1. c \in {e \in {Self} : /\ Java!Select(p[2].class, x, d) # Nowhere
                                  /\ \/ p[2].class = world[Self].super
                                     \/ p[2].class = Self /\ Java!Method(Self, FALSE, x, d) # {}}
        BY <1>2, Zenon DEF Receivers
      <3> QED
        BY <3>1, Zenon
    <2>2. SelectIn(world, p[2].class, x, d) # Nowhere
      BY <2>1, SelectOfWorld, Zenon
    <2>3. p \in Constants(10) /\ class = p[2].class
      BY <1>2
    <2>4. result = Invoke("INVOKESPECIAL", Self, p[1], Self)
      BY <1>2, <2>1
    <2>5. LET k == SelectIn(world, p[2].class, x, d)
              called == Invoke("INVOKESPECIAL", Self, p[1], Self)
          IN  \/ OtherDefaultIn(world, p[2].class, k, x, d)
              \/ k \notin {p[2].class} \cup Range(world[p[2].class].interfaces) /\ called = Internal
              \/ called = RunsIn(world, k, x, d, FALSE)
      BY <2>1, <2>2, <2>3, InvokeSpecialIs, Zenon
    <2>6. answers
      <3> HIDE DEF x, d, class, result
      <3> QED
        BY <1>2, <2>3, <2>4, <2>5, Zenon
    <2> QED
      BY <1>1, <2>6, Zenon
  <1>3. CASE inst # "INVOKESPECIAL"
    <2>1. \/ c \in Objects /\ Java!Select(c, x, d) # Nowhere
          \/ c = Null
          \/ c = Array /\ p[2].class = Object
      <3>1. c \in {e \in Objects : Is(e, p[2].class) /\ Java!Select(e, x, d) # Nowhere}
                  \cup {Null} \cup (IF p[2].class = Object THEN {Array} ELSE {})
        BY <1>3, Zenon DEF Receivers
      <3> QED
        BY <3>1
    <2>2. ASSUME c \in Objects, Java!Select(c, x, d) # Nowhere PROVE answers
      <3>1. SelectIn(world, c, x, d) # Nowhere /\ inst \in {"INVOKEVIRTUAL", "INVOKEINTERFACE"}
        BY <1>3, <2>2, SelectOfWorld
      <3>2. c # Array
        BY <2>2, WorldsAssumption DEF Objects
      <3>3. class = c
        BY <1>3, <3>2
      <3>4. LET k == SelectIn(world, c, x, d)
            IN  \/ OtherDefaultIn(world, c, k, x, d)
                \/ k \notin NamedBy(world, c) /\ result = Internal
                \/ result = RunsIn(world, k, x, d, FALSE)
        BY <2>2, <3>1, InvokeVirtualIs, Zenon
      <3> HIDE DEF x, d, class, result
      <3> QED
        BY <3>3, <3>4, Zenon
    <2>3. ASSUME c = Array, c # Null, p[2].class = Object PROVE answers
      <3>1. \E k \in JavaSupertypes(world)[Object] : MethodsIn(world, k, FALSE, x, d) # {}
        BY <2>3, JavaIs, Zenon DEF Declared, Java!Method, MethodsIn
      <3>2. /\ SelectIn(world, Object, x, d) = Object
            /\ Call(Object, FALSE, x, d) = RunsIn(world, Object, x, d, FALSE)
        BY <3>1, MethodsOfObject, Zenon
      <3>3. class = Object
        BY <1>3, <2>3
      <3>4. result = Call(Object, FALSE, x, d)
        <4> DEFINE tag == IF inst = "INVOKEINTERFACE" THEN 11 ELSE 10
                   ref == Resolve(types[Self].pool, p[1], tag)
        <4>1. ref = [class |-> p[2].class, name |-> x, desc |-> d] /\ ref # NoItem
          <5>1. tag \in {9, 10, 11}
            OBVIOUS
          <5> QED
            BY <5>1, ResolveIs, Zenon
        <4>2. ref # NoItem /\ ref.name = x /\ ref.desc = d
          BY <4>1
        <4>3. result = LET found == VirtualInterface(c, ref.name, ref.desc)
                       IN  IF ref = NoItem \/ c = Null THEN Internal
                           ELSE IF c = Array THEN Call(Object, FALSE, ref.name, ref.desc)
                           ELSE IF found = NoItem THEN Internal
                           ELSE Call(found, FALSE, ref.name, ref.desc)
          BY <1>3, Zenon DEF Invoke
        <4> HIDE DEF ref, x, d, result
        <4> QED
          BY <2>3, <4>2, <4>3, Zenon
      <3> HIDE DEF x, d, class, result
      <3> QED
        BY <3>2, <3>3, <3>4, Zenon
    <2> QED
      BY <1>1, <2>1, <2>2, <2>3, Zenon
  <1> QED
    BY <1>2, <1>3, Zenon

LEMMA InvokeInstanceFollowsJava ==
    ASSUME FilesAreRead, ProgramStays,
           NEW inst \in {"INVOKEVIRTUAL", "INVOKESPECIAL", "INVOKEINTERFACE"}, InvokeInstance(inst)
    PROVE  CallsAnswer(world', answer')
  <1>1. AllRead
    BY DEF ProgramStays, AllRead, InvokeInstance, LooksUp
  <1>2a. PICK p \in Constants(IF inst = "INVOKEINTERFACE" THEN 11 ELSE 10) :
             \E c \in Receivers(inst, p[2]) :
                 /\ Declared(p[2])
                 /\ Answers([op |-> inst, ref |-> p[2], receiver |-> c,
                             slots |-> 1 + ParameterCount(p[2].desc),
                             result |-> Invoke(inst, Self, p[1], c)])
    BY Zenon DEF InvokeInstance
  <1>2. PICK c \in Receivers(inst, p[2]) :
            /\ Declared(p[2])
            /\ Answers([op |-> inst, ref |-> p[2], receiver |-> c,
                        slots |-> 1 + ParameterCount(p[2].desc),
                        result |-> Invoke(inst, Self, p[1], c)])
    BY <1>2a, Zenon
  <1> DEFINE x == p[2].text
             d == p[2].desc
             class == IF inst = "INVOKESPECIAL" THEN p[2].class
                      ELSE IF c = Array THEN Object ELSE c
             j == SelectIn(world, class, x, d)
             result == Invoke(inst, Self, p[1], c)
             slots == 1 + ParameterCount(d)
  <1>3. /\ c = Null => result = Internal
        /\ \/ c = Null \/ OtherDefaultIn(world, class, j, x, d)
           \/ j \notin NamedBy(world, class) /\ result = Internal
           \/ /\ inst = "INVOKESPECIAL"
              /\ j \notin {class} \cup Range(world[class].interfaces) /\ result = Internal
           \/ result = RunsIn(world, j, x, d, FALSE)
    BY <1>1, <1>2, ReceiverIs, Zenon
  <1>4. slots = 1 + Arity[d]
    <2> DEFINE tag == IF inst = "INVOKEINTERFACE" THEN 11 ELSE 10
    <2>1. tag \in {9, 10, 11} /\ tag # 9
      OBVIOUS
    <2>2. ParameterCount(d) = Arity[d]
      BY <1>1, <2>1, ResolveIs, Zenon
    <2> QED
      BY <2>2
  <1>5. world' = world /\ answer' = [op |-> inst, ref |-> p[2], receiver |-> c,
                                     slots |-> slots, result |-> result]
    BY <1>2 DEF Answers
  <1> HIDE DEF result, slots
  <1>6. /\ answer'.op = inst /\ answer'.ref = p[2] /\ answer'.receiver = c
        /\ answer'.slots = slots /\ answer'.result = result
    BY <1>5
  <1>7. inst # "INVOKESTATIC"
    OBVIOUS
  <1>8. class = CASE inst = "INVOKESPECIAL" -> p[2].class
                  [] inst # "INVOKESPECIAL" /\ c = Array -> Object
                  [] OTHER -> c
    OBVIOUS
  <1> HIDE DEF class
  <1> QED
    BY <1>3, <1>4, <1>5, <1>6, <1>7, <1>8, Zenon DEF CallsAnswer

\* Every call, resolved through the class files that have been read, runs the
\* method that Java selects with as many values as its descriptor says, or
\* departs from Java as the property says.
THEOREM CallsFollowJavaHolds == Spec => []CallsFollowJava
  <1> FilesAreRead
    BY FilesAreReadHolds
  <1>1. Init => CallsFollowJava
    BY DEF Init, NoAnswer, CallsFollowJava
  <1>2. ProgramStays /\ CallsFollowJava /\ [Next]_vars => CallsFollowJava'
    <2> SUFFICES ASSUME ProgramStays, CallsFollowJava, [Next]_vars
                 PROVE  CallsAnswer(world', answer')
      BY CallsMeanNext
    <2> DEFINE Ops == {"INVOKEVIRTUAL", "INVOKESPECIAL", "INVOKEINTERFACE", "INVOKESTATIC"}
    <2>1. answer'.op \notin Ops => CallsAnswer(world', answer')
      BY DEF CallsAnswer
    <2>2. UNCHANGED answer => CallsAnswer(world', answer')
      BY NothingElseChanges, CallsMean, Zenon
    <2>3. AddClassFile \/ UNCHANGED vars => UNCHANGED answer
      BY DEF AddClassFile, vars
    <2>4. /\ \A i \in {"GETFIELD", "PUTFIELD"} : i \notin Ops
          /\ \A i \in {"GETSTATIC", "PUTSTATIC"} : i \notin Ops
          /\ \A i \in {"CHECKCAST", "INSTANCEOF", "isAssignableFrom"} : i \notin Ops
          /\ "CHECKCAST_array" \notin Ops /\ "LDC" \notin Ops /\ "line" \notin Ops
          /\ \A i \in {"AALOAD", "AASTORE", "dies", "arraycopy", "MULTIANEWARRAY"} : i \notin Ops
          /\ \A i \in Numbers : i \notin Ops
      BY DEF Numbers, Binary, Unary
    <2> HIDE DEF Ops
    <2>5. /\ \A i \in {"GETFIELD", "PUTFIELD"} : UseField(i) => CallsAnswer(world', answer')
          /\ \A i \in {"GETSTATIC", "PUTSTATIC"} : UseStaticField(i) => CallsAnswer(world', answer')
          /\ \A i \in {"CHECKCAST", "INSTANCEOF", "isAssignableFrom"} :
                 TestType(i) => CallsAnswer(world', answer')
          /\ TestArrayType \/ LoadClass \/ FindLine => CallsAnswer(world', answer')
      BY <2>1, <2>4, OpsOfLookups, Zenon
    <2>6. Reads \/ Stores \/ Copies \/ Creates => CallsAnswer(world', answer')
      BY <2>1, <2>4, OpsOfArrays, Zenon
    <2>7. OnTwo \/ OnOne \/ Increments \/ Compares \/ Branches => CallsAnswer(world', answer')
      BY <2>1, <2>4, OpsOfNumbers, Zenon
    <2>8. /\ \A i \in {"INVOKEVIRTUAL", "INVOKESPECIAL", "INVOKEINTERFACE"} :
                 InvokeInstance(i) => CallsAnswer(world', answer')
          /\ InvokeClass => CallsAnswer(world', answer')
      BY InvokeInstanceFollowsJava, InvokeClassFollowsJava, Zenon
    <2> QED
      BY <2>2, <2>3, <2>5, <2>6, <2>7, <2>8, Zenon DEF Next
  <1> QED
    BY <1>1, <1>2, ProgramStaysHolds, PTL DEF Spec

-----------------------------------------------------------------------------
(* Arrays                                                                  *)

Items == Objects \cup {Null, Array, NoItem}

\* What an element may be in the VM.
Held(class, v) == v = NoItem \/ Fits(class, v)

\* Arrays that hold what SetAt lets pass.
AllFit(A) ==
    \A a \in DOMAIN A :
        /\ A[a] \in [class : Range(Order), elements : [1..Size -> Items]]
        /\ \A i \in 1..Size : Held(A[a].class, A[a].elements[i])

\* So do all there are; there are none in the other tasks.
ElementsFit ==
    /\ task # "arrays" => arrays = <<>>
    /\ AllFit(arrays)

\* What fits is what Java allows, of the types that classes name.
LEMMA FitsIs ==
    ASSUME FilesAreRead, AllRead, NEW class, NEW v \in Items
    PROVE  /\ Fits(class, v) => v = NoItem \/ Assignable(class, v)
           /\ Assignable(class, v) => Fits(class, v) \/ class \notin Direct(v)
  <1>1. DOMAIN types = ClassNames
    BY ReadFacts
  <1>2. CASE v \in Objects
    <2>1. v \in ClassNames
      BY <1>2 DEF Objects, ClassNames
    <2>2. CanCastTo(v, class) <=> class \in Direct(v)
      BY <2>1, CanCastToIs, DirectIs
    <2>3. class \in Direct(v) => Is(v, class)
      <3>1. Direct(v) = NamedBy(world, v)
        BY DirectIs
      <3>2. NamedBy(world, v) \subseteq JavaSupertypes(world)[v]
        BY <2>1, SupertypesOfLine, ReadFacts
      <3> QED
        BY <3>1, <3>2, JavaIs DEF Is
    <2>4. v # Null /\ v # Array
      BY <1>2, WorldsAssumption DEF Objects
    <2> QED
      BY <1>1, <1>2, <2>1, <2>2, <2>3, <2>4, Zenon DEF Fits, Assignable
  <1>3. CASE v \in {Null, Array, NoItem}
    <2>1. v \notin ClassNames
      BY <1>3, WorldsAssumption DEF ClassNames
    <2>2. v \notin Objects
      BY <2>1 DEF Objects, ClassNames
    <2> QED
      BY <1>1, <1>3, <2>1, <2>2, Zenon DEF Fits, Assignable
  <1> QED
    BY <1>2, <1>3 DEF Items

LEMMA InitElementsFit == Init => ElementsFit
  <1> SUFFICES ASSUME Init PROVE ElementsFit
    OBVIOUS
  <1>1. PICK p \in ArrayPairs : arrays =
           IF task = "arrays"
           THEN [a \in 1..2 |-> [class |-> p[a], elements |-> [i \in 1..Size |-> NoItem]]]
           ELSE <<>>
    BY DEF Init
  <1>2. p[1] \in Range(Order) /\ p[2] \in Range(Order)
    BY ArraysAssumption
  <1>3. CASE task # "arrays"
    <2>1. arrays = <<>>
      BY <1>1, <1>3
    <2>2. DOMAIN arrays = {}
      BY <2>1
    <2> QED
      BY <2>1, <2>2 DEF ElementsFit, AllFit
  <1>4. CASE task = "arrays"
    <2>1. DOMAIN arrays = {1, 2}
      BY <1>1, <1>4
    <2>2. ASSUME NEW a \in {1, 2}
          PROVE  /\ arrays[a] \in [class : Range(Order), elements : [1..Size -> Items]]
                 /\ \A i \in 1..Size : arrays[a].elements[i] = NoItem
      <3>1. arrays[a] = [class |-> p[a], elements |-> [i \in 1..Size |-> NoItem]]
        BY <1>1, <1>4
      <3>2. [i \in 1..Size |-> NoItem] \in [1..Size -> Items]
        BY DEF Items
      <3> QED
        BY <1>2, <3>1, <3>2
    <2> QED
      BY <1>4, <2>1, <2>2 DEF ElementsFit, AllFit, Held
  <1> QED
    BY <1>3, <1>4

LEMMA LengthIs ==
    ASSUME ElementsFit, NEW a \in DOMAIN arrays
    PROVE  /\ DOMAIN arrays[a].elements = 1..Size
           /\ Length(a) = Size
           /\ \A i \in Int : InRange(a, i) <=> i \in 0..(Size - 1)
           /\ \A i \in 1..Size : arrays[a].elements[i] \in Items
  <1>1. arrays[a].elements \in [1..Size -> Items]
    BY DEF ElementsFit, AllFit
  <1>2. Len(arrays[a].elements) = Size
    BY <1>1, ArraysAssumption
  <1> QED
    BY <1>1, <1>2, ArraysAssumption DEF Length, InRange

\* When an element of one array changes, the rest stays.
LEMMA GetAtIs ==
    ASSUME ElementsFit, NEW a \in DOMAIN arrays, NEW i \in 0..(Size - 1)
    PROVE  /\ GetAt(a, i) = IF arrays[a].elements[i + 1] = NoItem THEN Null
                            ELSE arrays[a].elements[i + 1]
           /\ GetAt(a, i) \in Items
           /\ Fits(arrays[a].class, GetAt(a, i))
  <1>1. i + 1 \in 1..Size
    BY ArraysAssumption
  <1>2. GetAt(a, i) = IF arrays[a].elements[i + 1] = NoItem THEN Null
                      ELSE arrays[a].elements[i + 1]
    BY DEF GetAt, Element
  <1>3. arrays[a].elements[i + 1] \in Items /\ Held(arrays[a].class, arrays[a].elements[i + 1])
    BY <1>1 DEF ElementsFit, AllFit
  <1> QED
    BY <1>2, <1>3 DEF Held, Fits, Items


\* An array is given elements that fit.
LEMMA ElementsReplaced ==
    ASSUME NEW A, AllFit(A), NEW a \in DOMAIN A, NEW e \in [1..Size -> Items],
           \A i \in 1..Size : Held(A[a].class, e[i]),
           NEW B, B = [A EXCEPT ![a].elements = e]
    PROVE  /\ AllFit(B)
           /\ DOMAIN B = DOMAIN A
           /\ \A b \in DOMAIN A : B[b].class = A[b].class
           /\ \A b \in DOMAIN A : b # a => B[b] = A[b]
  <1>1. DOMAIN B = DOMAIN A /\ \A b \in DOMAIN A : b # a => B[b] = A[b]
    OBVIOUS
  <1>2. A[a] \in [class : Range(Order), elements : [1..Size -> Items]]
    BY DEF AllFit
  <1>3. B[a] = [class |-> A[a].class, elements |-> e]
    BY <1>2
  <1>4. /\ B[a] \in [class : Range(Order), elements : [1..Size -> Items]]
        /\ B[a].class = A[a].class /\ B[a].elements = e
    BY <1>2, <1>3
  <1> HIDE DEF Items
  <1> QED
    BY <1>1, <1>4 DEF AllFit

LEMMA AllFitStays ==
    ASSUME UNCHANGED types, AllFit(arrays')
    PROVE  AllFit(arrays)'
  <1>1. Chain' = Chain
    BY DEF Chain
  <1>2. \A class, v : Held(class, v)' <=> Held(class, v)
    BY <1>1 DEF Held, Fits, CanCastTo, Interfaces
  <1> QED
    BY <1>2 DEF AllFit, Items, Objects

LEMMA ReadsKeepsFit == ElementsFit /\ Reads => ElementsFit'
  <1> SUFFICES ASSUME ElementsFit, Reads PROVE ElementsFit'
    OBVIOUS
  <1>1. task = "arrays" /\ UNCHANGED <<world, task, types>>
    BY DEF Reads, UsesArrays, Done
  <1>2. PICK a \in DOMAIN arrays, i \in 0..Size : AaLoad(a, i)
    BY DEF Reads
  <1>3. CASE ~InRange(a, i)
    <2>1. arrays' = arrays
      BY <1>2, <1>3 DEF AaLoad
    <2> QED
      BY <1>1, <2>1, AllFitStays DEF ElementsFit
  <1>4. CASE InRange(a, i)
    <2>1. i \in 0..(Size - 1)
      BY <1>4, LengthIs
    <2> DEFINE v == GetAt(a, i)
               e == [arrays[a].elements EXCEPT ![i + 1] = v]
    <2>2. v \in Items /\ Fits(arrays[a].class, v)
      BY <2>1, GetAtIs
    <2>3. arrays' = [arrays EXCEPT ![a].elements = e]
      BY <1>2, <1>4 DEF AaLoad
    <2> HIDE DEF v
    <2>4. e \in [1..Size -> Items] /\ \A j \in 1..Size : Held(arrays[a].class, e[j])
      BY <2>2 DEF ElementsFit, AllFit, Held
    <2> HIDE DEF e
    <2>5. AllFit(arrays')
      BY <2>3, <2>4, ElementsReplaced DEF ElementsFit
    <2> QED
      BY <1>1, <2>5, AllFitStays DEF ElementsFit
  <1> QED
    BY <1>3, <1>4

LEMMA StoresKeepsFit == ElementsFit /\ Stores => ElementsFit'
  <1> SUFFICES ASSUME ElementsFit, Stores PROVE ElementsFit'
    OBVIOUS
  <1>1. task = "arrays" /\ UNCHANGED <<world, task, types>>
    BY DEF Stores, UsesArrays, Done
  <1>2. PICK a \in DOMAIN arrays, i \in 0..Size, v \in Objects \cup {Null, Array} : AaStore(a, i, v)
    BY DEF Stores
  <1>3. CASE AaStoreOutcome(a, i, v) # "stored"
    <2>1. arrays' = arrays
      BY <1>2, <1>3 DEF AaStore
    <2> QED
      BY <1>1, <2>1, AllFitStays DEF ElementsFit
  <1>4. CASE AaStoreOutcome(a, i, v) = "stored"
    <2>1. InRange(a, i) /\ Fits(arrays[a].class, v)
      BY <1>4 DEF AaStoreOutcome
    <2>2. i \in 0..(Size - 1)
      BY <2>1, LengthIs
    <2> DEFINE e == [arrays[a].elements EXCEPT ![i + 1] = v]
    <2>3. arrays' = [arrays EXCEPT ![a].elements = e]
      BY <1>2, <1>4 DEF AaStore
    <2>4. v \in Items
      BY DEF Items
    <2>5. e \in [1..Size -> Items] /\ \A j \in 1..Size : Held(arrays[a].class, e[j])
      BY <2>1, <2>4 DEF ElementsFit, AllFit, Held
    <2> HIDE DEF e
    <2>6. AllFit(arrays')
      BY <2>3, <2>5, ElementsReplaced DEF ElementsFit
    <2> QED
      BY <1>1, <2>6, AllFitStays DEF ElementsFit
  <1> QED
    BY <1>3, <1>4


\* What arraycopy reads, and so what it makes of the first array.
ReadElements(a, sp, n) ==
    [i \in 1..Size |-> IF i - 1 \in sp..(sp + n - 1) THEN GetAt(a, i - 1) ELSE arrays[a].elements[i]]

\* The elements of the second when they are overwritten.
OldElements(a, sp, b, n) == IF a = b THEN ReadElements(a, sp, n) ELSE arrays[b].elements

\* And what it writes into the second, whose elements were old.
Written(a, sp, b, dp, n, old) ==
    [i \in 1..Size |-> IF /\ i - 1 \in dp..(dp + n - 1)
                          /\ Fits(arrays[b].class, Copied(a, sp, n)[i - dp])
                       THEN Copied(a, sp, n)[i - dp] ELSE old[i]]

LEMMA CopiedIs ==
    ASSUME ElementsFit, NEW a \in DOMAIN arrays, NEW sp \in 0..Size, NEW n \in 0..Size, NEW j \in 1..n
    PROVE  /\ Copied(a, sp, n)[j] \in Items
           /\ sp + j <= Size => /\ Copied(a, sp, n)[j] = GetAt(a, sp + j - 1)
                                /\ sp + j - 1 \in 0..(Size - 1)
  <1>1. Copied(a, sp, n)[j] = IF InRange(a, sp + j - 1) THEN GetAt(a, sp + j - 1) ELSE NoItem
    BY DEF Copied
  <1>2. sp + j - 1 \in Int /\ (sp + j - 1 \in 0..(Size - 1) <=> sp + j <= Size)
    BY ArraysAssumption
  <1>3. InRange(a, sp + j - 1) <=> sp + j <= Size
    BY <1>2, LengthIs
  <1>4. sp + j <= Size => GetAt(a, sp + j - 1) \in Items
    BY <1>2, GetAtIs
  <1>5. NoItem \in Items
    BY DEF Items
  <1> QED
    BY <1>1, <1>2, <1>3, <1>4, <1>5

LEMMA CopyIs ==
    ASSUME ElementsFit, NEW a \in DOMAIN arrays, NEW b \in DOMAIN arrays,
           NEW sp \in 0..Size, NEW dp \in 0..Size, NEW n \in 0..Size, ArrayCopy(a, sp, b, dp, n)
    PROVE  /\ AllFit(arrays')
           /\ \A i \in 1..Size :
                  arrays'[b].elements[i] = Written(a, sp, b, dp, n, OldElements(a, sp, b, n))[i]
  <1> DEFINE e == ReadElements(a, sp, n)
             read == [arrays EXCEPT ![a].elements = e]
             w == Written(a, sp, b, dp, n, read[b].elements)
  <1>1. DOMAIN arrays[a].elements = 1..Size /\ DOMAIN arrays[b].elements = 1..Size
    BY LengthIs
  <1>2. e \in [1..Size -> Items] /\ \A i \in 1..Size : Held(arrays[a].class, e[i])
    <2> SUFFICES ASSUME NEW i \in 1..Size PROVE e[i] \in Items /\ Held(arrays[a].class, e[i])
      BY DEF ReadElements
    <2>1. i - 1 \in 0..(Size - 1)
      BY ArraysAssumption
    <2>2. GetAt(a, i - 1) \in Items /\ Held(arrays[a].class, GetAt(a, i - 1))
      BY <2>1, GetAtIs DEF Held
    <2>3. arrays[a].elements[i] \in Items /\ Held(arrays[a].class, arrays[a].elements[i])
      BY DEF ElementsFit, AllFit
    <2> QED
      BY <2>2, <2>3 DEF ReadElements
  <1>3. /\ AllFit(read)
        /\ DOMAIN read = DOMAIN arrays
        /\ read[a].elements = e
        /\ read[b].class = arrays[b].class
        /\ b # a => read[b] = arrays[b]
    <2>1. read = [arrays EXCEPT ![a].elements = e]
      OBVIOUS
    <2> HIDE DEF read
    <2> HIDE DEF e
    <2>2. AllFit(arrays)
      BY DEF ElementsFit
    <2>3. /\ AllFit(read)
          /\ DOMAIN read = DOMAIN arrays
          /\ read[a].elements = e
          /\ \A c \in DOMAIN arrays : read[c].class = arrays[c].class
          /\ \A c \in DOMAIN arrays : c # a => read[c] = arrays[c]
      <3>1. AllFit(read)
        BY <1>2, <2>1, <2>2, ElementsReplaced
      <3>2. DOMAIN read = DOMAIN arrays
        BY <1>2, <2>1, <2>2, ElementsReplaced
      <3>3. read[a].elements = e
        <4>1. arrays[a] \in [class : Range(Order), elements : [1..Size -> Items]]
          BY <2>2 DEF AllFit
        <4> HIDE DEF Items
        <4>2. read[a] = [arrays[a] EXCEPT !.elements = e]
          BY <2>1
        <4> QED
          BY <4>1, <4>2
      <3> QED
        BY <1>2, <2>1, <2>2, <3>1, <3>2, <3>3, ElementsReplaced
    <2> QED
      BY <2>3
  <1>4. DOMAIN read[b].elements = 1..Size /\ read[b].elements \in [1..Size -> Items]
        /\ \A i \in 1..Size : Held(arrays[b].class, read[b].elements[i])
    <2> HIDE DEF read
    <2>1. read[b].elements \in [1..Size -> Items]
      BY <1>3 DEF AllFit
    <2> QED
      BY <2>1, <1>3 DEF AllFit
  <1>5. read = [arrays EXCEPT ![a].elements =
                    [i \in DOMAIN @ |-> IF i - 1 \in sp..(sp + n - 1) THEN GetAt(a, i - 1) ELSE @[i]]]
    BY <1>1 DEF ReadElements
  <1>6. arrays' = [read EXCEPT ![b].elements =
            [i \in DOMAIN @ |-> IF /\ i - 1 \in dp..(dp + n - 1)
                                   /\ Fits(arrays[b].class, Copied(a, sp, n)[i - dp])
                                THEN Copied(a, sp, n)[i - dp] ELSE @[i]]]
    <2> HIDE DEF read
    <2> QED
      BY <1>5 DEF ArrayCopy
  <1>7. arrays' = [read EXCEPT ![b].elements = w]
    <2> HIDE DEF read
    <2> QED
      BY <1>4, <1>6 DEF Written
  <1>8. w \in [1..Size -> Items] /\ \A i \in 1..Size : Held(arrays[b].class, w[i])
    <2> HIDE DEF read
    <2> SUFFICES ASSUME NEW i \in 1..Size PROVE w[i] \in Items /\ Held(arrays[b].class, w[i])
      BY DEF Written
    <2>1. CASE i - 1 \in dp..(dp + n - 1) /\ Fits(arrays[b].class, Copied(a, sp, n)[i - dp])
      <3>1. i - dp \in 1..n
        BY <2>1, ArraysAssumption
      <3>2. Copied(a, sp, n)[i - dp] \in Items
        BY <3>1, CopiedIs
      <3>3. w[i] = Copied(a, sp, n)[i - dp]
        BY <2>1 DEF Written
      <3> QED
        BY <2>1, <3>2, <3>3 DEF Held
    <2>2. CASE ~(i - 1 \in dp..(dp + n - 1) /\ Fits(arrays[b].class, Copied(a, sp, n)[i - dp]))
      BY <1>4, <2>2 DEF Written
    <2> QED
      BY <2>1, <2>2
  <1>9. AllFit(arrays') /\ arrays'[b].elements = w
    <2> HIDE DEF read, w
    <2>1. b \in DOMAIN read /\ \A i \in 1..Size : Held(read[b].class, w[i])
      BY <1>3, <1>8
    <2>2. AllFit(read) /\ w \in [1..Size -> Items]
      BY <1>3, <1>8
    <2> QED
      <3>1. AllFit(arrays')
        BY <1>7, <2>1, <2>2, ElementsReplaced
      <3>2. arrays'[b].elements = w
        <4>1. read[b] \in [class : Range(Order), elements : [1..Size -> Items]]
          BY <2>1, <2>2 DEF AllFit
        <4> HIDE DEF Items
        <4>2. arrays'[b] = [read[b] EXCEPT !.elements = w]
          BY <1>7, <2>1
        <4> QED
          BY <4>1, <4>2
      <3> QED
        BY <3>1, <3>2
  <1>10. read[b].elements = OldElements(a, sp, b, n)
    <2>1. read[b].elements = IF a = b THEN e ELSE arrays[b].elements
      <3> HIDE DEF read, e
      <3> QED
        BY <1>3
    <2> QED
      BY <2>1 DEF OldElements
  <1> HIDE DEF read
  <1> QED
    BY <1>9, <1>10

LEMMA CopiesKeepsFit == ElementsFit /\ Copies => ElementsFit'
  <1> SUFFICES ASSUME ElementsFit, Copies PROVE ElementsFit'
    OBVIOUS
  <1>1. task = "arrays" /\ UNCHANGED <<world, task, types>>
    BY DEF Copies, UsesArrays, Done
  <1>2. PICK a \in DOMAIN arrays, b \in DOMAIN arrays, sp \in 0..Size, dp \in 0..Size, n \in 0..Size :
            ArrayCopy(a, sp, b, dp, n)
    BY DEF Copies
  <1>3. AllFit(arrays')
    BY <1>2, CopyIs
  <1> QED
    BY <1>1, <1>3, AllFitStays DEF ElementsFit

LEMMA ElementsFitHolds == Spec => []ElementsFit
  <1>1. ElementsFit /\ [Next]_vars => ElementsFit'
    <2> SUFFICES ASSUME ElementsFit, [Next]_vars PROVE ElementsFit'
      OBVIOUS
    <2>1. UNCHANGED arrays => ElementsFit'
      <3> SUFFICES ASSUME UNCHANGED arrays PROVE ElementsFit'
        OBVIOUS
      <3>1. CASE task = "arrays"
        BY <3>1, NothingElseChanges, AllFitStays DEF ElementsFit
      <3>2. CASE task # "arrays"
        <4>1. arrays' = <<>> /\ DOMAIN arrays' = {}
          BY <3>2 DEF ElementsFit
        <4> QED
          BY <4>1 DEF ElementsFit, AllFit
      <3> QED
        BY <3>1, <3>2
    <2>2. /\ AddClassFile => UNCHANGED arrays
          /\ \A i : InvokeInstance(i) => UNCHANGED arrays
          /\ \A i : UseField(i) \/ UseStaticField(i) \/ TestType(i) => UNCHANGED arrays
          /\ InvokeClass \/ TestArrayType \/ LoadClass \/ FindLine => UNCHANGED arrays
          /\ OnTwo \/ OnOne \/ Increments \/ Compares \/ Branches => UNCHANGED arrays
          /\ Creates => UNCHANGED arrays
          /\ UNCHANGED vars => UNCHANGED arrays
      <3>1. /\ AddClassFile => UNCHANGED arrays
            /\ Creates => UNCHANGED arrays
            /\ UNCHANGED vars => UNCHANGED arrays
        BY Zenon DEF AddClassFile, Creates, vars
      <3>2. \A a : Answers(a) => UNCHANGED arrays
        BY DEF Answers
      <3> HIDE DEF Answers
      <3>3. /\ \A i : InvokeInstance(i) => UNCHANGED arrays
            /\ \A i : UseField(i) \/ UseStaticField(i) \/ TestType(i) => UNCHANGED arrays
        BY <3>2, Zenon DEF InvokeInstance, UseField, UseStaticField, TestType
      <3>4. InvokeClass \/ TestArrayType \/ LoadClass \/ FindLine => UNCHANGED arrays
        BY <3>2, Zenon DEF InvokeClass, TestArrayType, LoadClass, FindLine
      <3>5. OnTwo \/ OnOne \/ Increments \/ Compares \/ Branches => UNCHANGED arrays
        BY <3>2, Zenon DEF OnTwo, OnOne, Increments, Compares, Branches
      <3> QED
        BY <3>1, <3>3, <3>4, <3>5, Zenon
    <2>3. Reads \/ Stores \/ Copies => ElementsFit'
      BY ReadsKeepsFit, StoresKeepsFit, CopiesKeepsFit
    <2> QED
      BY <2>1, <2>2, <2>3, Zenon DEF Next
  <1> QED
    BY <1>1, InitElementsFit, PTL DEF Spec


\* The parts of ArraysFollowJava that are about the answer.
StoreFollowsJava ==
    LET class == arrays[answer.array].class
    IN  ~Assignable(class, answer.value) \/ class \notin Direct(answer.value)

CopyFollowsJava ==
    LET source(i) == answer.from.elements[i - answer.dp + answer.sp]
        value(i) == IF source(i) = NoItem THEN Null ELSE source(i)
        old == answer.before.elements
    IN  \A i \in 1..Size :
            LET new == Element(answer.to, i - 1)
            IN  IF i \in (answer.dp + 1)..(answer.dp + answer.n)
                THEN answer.sp + answer.n <= Size =>
                        \/ new = value(i)
                        \/ new = old[i] /\ ~Fits(answer.before.class, value(i))
                ELSE \/ new = old[i]
                     \/ new = Null /\ old[i] = NoItem

RowsFollowJava(type, n, elements) ==
    LET full == type.base \notin Range(Order) \ {Object}
    IN  /\ Len(elements) = n[1]
        /\ full => \A r \in Range(elements) :
               /\ Len(r.elements) = n[2]
               /\ \A x \in Range(r.elements) :
                      IF Len(n) = 2 THEN x = NoItem ELSE Len(x.elements) = n[3]
        /\ ~full => Range(elements) \subseteq {NoItem}
NewFollowsJava(type, n, result) ==
    IF \E d \in DOMAIN n : n[d] < 0
    THEN result.outcome = "NegativeArraySizeException"
    ELSE result.outcome = "pushed" /\ RowsFollowJava(type, n, result.array.elements)

\* They are inductive; only the task "arrays" gives such answers.
ArraysAnswer ==
    /\ answer.op \in {"AASTORE", "arraycopy", "MULTIANEWARRAY"} => task = "arrays"
    /\ answer.op = "AASTORE" /\ answer.outcome = "ArrayStoreException" => StoreFollowsJava
    /\ answer.op = "arraycopy" => CopyFollowsJava
    /\ answer.op = "MULTIANEWARRAY" => NewFollowsJava(answer.type, answer.lengths, answer.result)

LEMMA ArraysMean ==
    ASSUME FilesAreRead
    PROVE  ElementsFit /\ ProgramStays /\ ArraysAnswer => ArraysFollowJava
  <1> SUFFICES ASSUME ElementsFit, ProgramStays, ArraysAnswer PROVE ArraysFollowJava
    OBVIOUS
  <1>1. ASSUME NEW a \in DOMAIN arrays, NEW i \in 0..(Size - 1)
        PROVE  Element(a, i) = NoItem \/ Assignable(arrays[a].class, Element(a, i))
    <2>1. AllRead
      <3>1. task = "arrays"
        BY DEF ElementsFit
      <3> QED
        BY <3>1 DEF ProgramStays, AllRead
    <2>2. i + 1 \in 1..Size
      BY ArraysAssumption
    <2>3. Element(a, i) \in Items /\ Held(arrays[a].class, Element(a, i))
      BY <2>2 DEF ElementsFit, AllFit, Element
    <2> QED
      BY <2>1, <2>3, FitsIs DEF Held
  <1>2. answer.op = "AASTORE" /\ answer.outcome = "ArrayStoreException" =>
           LET class == arrays[answer.array].class
           IN  ~Assignable(class, answer.value) \/ class \notin Direct(answer.value)
    BY DEF ArraysAnswer, StoreFollowsJava
  <1>3. answer.op = "arraycopy" => CopyFollowsJava
    BY DEF ArraysAnswer
  <1>4. answer.op = "MULTIANEWARRAY" => NewFollowsJava(answer.type, answer.lengths, answer.result)
    BY DEF ArraysAnswer
  <1> QED
    BY <1>1, <1>2, <1>3, <1>4, Zenon
       DEF ArraysFollowJava, CopyFollowsJava, NewFollowsJava, RowsFollowJava

LEMMA SameAssignable ==
    ASSUME UNCHANGED world, NEW class, NEW v
    PROVE  /\ Assignable(class, v)' <=> Assignable(class, v)
           /\ Direct(v)' = Direct(v)
  <1>1. (Java!Classes = JavaClasses(world) /\ Java!Supertypes = JavaSupertypes(world))'
    BY JavaIs, PTL
  <1>2. Java!Supertypes' = Java!Supertypes
    BY <1>1, JavaIs
  <1>3. (\A c : Direct(c) = NamedBy(world, c))'
    BY DirectIs, PTL
  <1>4. Direct(v)' = Direct(v)
    BY <1>3, DirectIs
  <1> QED
    BY <1>2, <1>4 DEF Assignable, Is, Objects

LEMMA SameFits ==
    ASSUME UNCHANGED types, NEW class, NEW v
    PROVE  Fits(class, v)' <=> Fits(class, v)
  <1>1. Chain' = Chain
    BY DEF Chain
  <1> QED
    BY <1>1 DEF Fits, CanCastTo, Interfaces

LEMMA StoresFollowJava ==
    ASSUME FilesAreRead, ElementsFit, ProgramStays, Stores
    PROVE  ArraysAnswer'
  <1>1. task = "arrays" /\ UNCHANGED <<world, task, types>>
    BY DEF Stores, UsesArrays, Done
  <1>2. PICK a \in DOMAIN arrays, i \in 0..Size, v \in Objects \cup {Null, Array} :
            /\ AaStore(a, i, v)
            /\ answer' = [op |-> "AASTORE", array |-> a, value |-> v, outcome |-> AaStoreOutcome(a, i, v)]
    BY DEF Stores, Done
  <1>3. ASSUME AaStoreOutcome(a, i, v) = "ArrayStoreException"
        PROVE  StoreFollowsJava'
    <2>1. arrays' = arrays
      BY <1>2, <1>3 DEF AaStore
    <2>2. ~Fits(arrays[a].class, v)
      BY <1>3 DEF AaStoreOutcome
    <2>3. v \in Items
      BY DEF Items
    <2>4. AllRead
      BY <1>1 DEF ProgramStays, AllRead
    <2>5. ~Assignable(arrays[a].class, v) \/ arrays[a].class \notin Direct(v)
      BY <2>2, <2>3, <2>4, FitsIs
    <2>6. ~Assignable(arrays[a].class, v)' \/ arrays[a].class \notin Direct(v)'
      BY <1>1, <2>1, <2>5, SameAssignable
    <2>7. answer'.array = a /\ answer'.value = v
      BY <1>2
    <2> QED
      BY <2>1, <2>6, <2>7 DEF StoreFollowsJava
  <1>4. answer'.op = "AASTORE" /\ answer'.outcome = AaStoreOutcome(a, i, v)
    BY <1>2
  <1> QED
    BY <1>1, <1>3, <1>4 DEF ArraysAnswer

LEMMA CopiesFollowJava ==
    ASSUME ElementsFit, Copies
    PROVE  ArraysAnswer'
  <1>1. task = "arrays" /\ UNCHANGED <<world, task, types>>
    BY DEF Copies, UsesArrays, Done
  <1>2. PICK a \in DOMAIN arrays, b \in DOMAIN arrays, sp \in 0..Size, dp \in 0..Size, n \in 0..Size :
            /\ ArrayCopy(a, sp, b, dp, n)
            /\ \/ answer' = [op |-> "dies"]
               \/ answer' = [op |-> "arraycopy", from |-> arrays[a], to |-> b, before |-> arrays[b],
                             sp |-> sp, dp |-> dp, n |-> n]
    BY ZenonT(60) DEF Copies, Done
  <1>3. CASE answer'.op = "dies"
    BY <1>3 DEF ArraysAnswer
  <1>4. CASE answer'.op # "dies"
    <2>1. /\ answer'.op = "arraycopy" /\ answer'.from = arrays[a] /\ answer'.to = b
          /\ answer'.before = arrays[b] /\ answer'.sp = sp /\ answer'.dp = dp /\ answer'.n = n
      BY <1>2, <1>4
    <2> DEFINE e == OldElements(a, sp, b, n)
               from == arrays[a].elements
               old == arrays[b].elements
               value(i) == IF from[i - dp + sp] = NoItem THEN Null ELSE from[i - dp + sp]
               new(i) == arrays'[b].elements[i]
               class == arrays[b].class
               Good(i) == IF i \in (dp + 1)..(dp + n)
                          THEN sp + n <= Size => new(i) = value(i)
                                                 \/ (new(i) = old[i] /\ ~Fits(class, value(i)))
                          ELSE new(i) = old[i] \/ (new(i) = Null /\ old[i] = NoItem)
    <2>2. \A i \in 1..Size : new(i) = Written(a, sp, b, dp, n, e)[i]
      <3>1. ArrayCopy(a, sp, b, dp, n)
        BY <1>2
      <3> QED
        BY <3>1, CopyIs
    <2>3. ASSUME NEW i \in 1..Size
          PROVE  e[i] = old[i] \/ (e[i] = Null /\ old[i] = NoItem)
      <3>1. CASE a = b
        <4>1. i - 1 \in 0..(Size - 1)
          BY ArraysAssumption
        <4>2. GetAt(a, i - 1) = IF old[i] = NoItem THEN Null ELSE old[i]
          BY <3>1, <4>1, GetAtIs
        <4>3. e[i] = IF i - 1 \in sp..(sp + n - 1) THEN GetAt(a, i - 1) ELSE old[i]
          BY <3>1 DEF ReadElements, OldElements
        <4> HIDE DEF e, old
        <4> QED
          BY <4>2, <4>3
      <3>2. CASE a # b
        <4>1. e = old
          BY <3>2 DEF OldElements
        <4> HIDE DEF e, old
        <4> QED
          BY <4>1
      <3> QED
        BY <3>1, <3>2
    <2>4. ASSUME NEW i \in 1..Size PROVE Good(i)
      <3> DEFINE c == Copied(a, sp, n)[i - dp]
      <3>1. new(i) = IF i - 1 \in dp..(dp + n - 1) /\ Fits(class, c) THEN c ELSE e[i]
        BY <2>2 DEF Written
      <3>2. i - 1 \in dp..(dp + n - 1) <=> i \in (dp + 1)..(dp + n)
        BY ArraysAssumption
      <3>3. CASE i \notin (dp + 1)..(dp + n)
        <4> HIDE DEF c, e
        <4>1. new(i) = e[i]
          BY <3>1, <3>2, <3>3
        <4> HIDE DEF new, old, value, class
        <4> QED
          BY <2>3, <3>3, <4>1
      <3>4. CASE i \in (dp + 1)..(dp + n)
        <4> SUFFICES ASSUME sp + n <= Size
                     PROVE  new(i) = value(i) \/ (new(i) = old[i] /\ ~Fits(class, value(i)))
          BY <3>4
        <4>1. i - dp \in 1..n /\ sp + (i - dp) <= Size /\ sp + (i - dp) - 1 + 1 = i - dp + sp
          BY <3>4, ArraysAssumption
        <4>2. c = GetAt(a, sp + (i - dp) - 1) /\ sp + (i - dp) - 1 \in 0..(Size - 1)
          BY <4>1, CopiedIs
        <4>3. c = value(i) /\ Fits(arrays[a].class, c)
          BY <4>1, <4>2, GetAtIs
        <4>4. new(i) = IF Fits(class, c) THEN c ELSE e[i]
          BY <3>1, <3>2, <3>4
        <4>5. CASE Fits(class, c)
          <5> HIDE DEF c, e, new, value, class, old
          <5> QED
            BY <4>3, <4>4, <4>5
        <4>6. CASE ~Fits(class, c)
          <5>1. a # b
            BY <4>3, <4>6
          <5>2. e[i] = old[i]
            BY <5>1 DEF OldElements
          <5> HIDE DEF c, e, new, value, class, old
          <5> QED
            BY <4>3, <4>4, <4>6, <5>2
        <4> QED
          BY <4>5, <4>6
      <3> QED
        BY <3>3, <3>4
    <2>5. \A i \in 1..Size : Element(answer.to, i - 1)' = new(i)
      BY <2>1 DEF Element
    <2>6. \A v : Fits(answer.before.class, v)' <=> Fits(class, v)
      <3>1. \A x, v : Fits(x, v)' <=> Fits(x, v)
        BY <1>1, SameFits
      <3> QED
        BY <2>1, <3>1
    <2>7. CopyFollowsJava'
      <3> HIDE DEF new
      <3> QED
        BY <2>1, <2>4, <2>5, <2>6 DEF CopyFollowsJava
    <2> QED
      BY <1>1, <2>1, <2>7 DEF ArraysAnswer
  <1> QED
    BY <1>3, <1>4


\* An array of dimension d, from what f has for the next.
ArrayOf(class, lengths, d, f) ==
    LET new == NewArray(class, lengths[d], Len(lengths) - d + 1)
    IN  IF d = Len(lengths) THEN new
        ELSE [new EXCEPT !.elements = [i \in 1..lengths[d] |-> Row(class, f[d + 1])]]
PopulateRule(class, lengths, f) == f = [d \in DOMAIN lengths |-> ArrayOf(class, lengths, d, f)]

LEMMA PopulatedExists ==
    ASSUME NEW class, NEW k \in 2..3, NEW n \in [1..k -> 0..Size]
    PROVE  \E f : PopulateRule(class, n, f)
  <1> DEFINE A(d, f) == ArrayOf(class, n, d, f)
             nothing == <<>>
             last == A(k, nothing)
             middle == A(k - 1, [d \in 1..k |-> last])
             first == A(1, [d \in 1..k |-> middle])
             f == [d \in 1..k |-> IF d = k THEN last ELSE IF d = k - 1 THEN middle ELSE first]
  <1>1. Len(n) = k /\ DOMAIN n = 1..k
    OBVIOUS
  <1>2. \A g, h : A(k, g) = A(k, h)
    BY <1>1 DEF ArrayOf
  <1>3. \A d \in 1..k : \A g, h : d # k /\ g[d + 1] = h[d + 1] => A(d, g) = A(d, h)
    BY <1>1 DEF ArrayOf
  <1>4. f[k] = last /\ f[k - 1] = middle /\ (k = 3 => f[1] = first /\ f[2] = middle)
    <2> HIDE DEF last, middle, first
    <2> QED
      OBVIOUS
  <1> HIDE DEF A
  <1>5. f[k] = A(k, f)
    BY <1>2, <1>4
  <1>6. f[k - 1] = A(k - 1, f)
    <2> DEFINE g == [d \in 1..k |-> last]
    <2>1. g[(k - 1) + 1] = f[(k - 1) + 1]
      <3> HIDE DEF last, middle, first
      <3> QED
        BY <1>4
    <2>2. A(k - 1, g) = A(k - 1, f)
      <3> HIDE DEF f, g
      <3> QED
        BY <1>3, <2>1
    <2> QED
      BY <1>4, <2>2
  <1>7. k = 3 => f[1] = A(1, f)
    <2> SUFFICES ASSUME k = 3 PROVE f[1] = A(1, f)
      OBVIOUS
    <2> DEFINE g == [d \in 1..k |-> middle]
    <2>1. g[1 + 1] = f[1 + 1]
      <3> HIDE DEF last, middle, first
      <3> QED
        BY <1>4
    <2>2. A(1, g) = A(1, f)
      <3> HIDE DEF f, g
      <3> QED
        BY <1>3, <2>1
    <2> QED
      BY <1>4, <2>2
  <1>8. DOMAIN f = 1..k /\ f = [d \in 1..k |-> f[d]]
    <2> HIDE DEF last, middle, first
    <2> QED
      OBVIOUS
  <1> HIDE DEF f
  <1>9. \A d \in 1..k : f[d] = A(d, f)
    <2>1. \A d \in 1..k : d = k \/ d = k - 1 \/ (k = 3 /\ d = 1)
      OBVIOUS
    <2> QED
      BY <2>1, <1>5, <1>6, <1>7
  <1>10. f = [d \in 1..k |-> A(d, f)]
    BY <1>8, <1>9
  <1> QED
    BY <1>1, <1>10 DEF PopulateRule, A

\* The rows of a new array, and theirs.
HasRows(class, k, n, f) == \A d \in 1..k :
    f[d].elements = [i \in 1..n[d] |-> IF d = k THEN NoItem ELSE Row(class, f[d + 1])]

LEMMA PopulateIs ==
    ASSUME NEW class, NEW k \in 2..3, NEW n \in [1..k -> 0..Size]
    PROVE  \E f : Populate(class, n) = f[1] /\ HasRows(class, k, n, f)
  <1> DEFINE f == CHOOSE g : PopulateRule(class, n, g)
  <1>1. Len(n) = k /\ DOMAIN n = 1..k
    OBVIOUS
  <1>2. Populate(class, n) = f[1]
    BY DEF Populate, PopulateRule, ArrayOf
  <1>3. PopulateRule(class, n, f)
    BY PopulatedExists
  <1> HIDE DEF f
  <1>4. \A d \in 1..k : f[d] = ArrayOf(class, n, d, f)
    BY <1>1, <1>3 DEF PopulateRule
  <1>5. ASSUME NEW d \in 1..k
        PROVE  f[d].elements = [i \in 1..n[d] |-> IF d = k THEN NoItem ELSE Row(class, f[d + 1])]
    <2>1. CASE d = k
      <3>1. f[d] = NewArray(class, n[d], Len(n) - d + 1)
        BY <1>1, <1>4, <2>1 DEF ArrayOf
      <3>2. f[d].elements = [i \in 1..n[d] |-> NoItem]
        BY <3>1 DEF NewArray
      <3> QED
        BY <2>1, <3>2
    <2>2. CASE d # k
      <3>1. f[d].elements = [i \in 1..n[d] |-> Row(class, f[d + 1])]
        BY <1>1, <1>4, <2>2 DEF ArrayOf, NewArray
      <3> QED
        BY <2>2, <3>1
    <2> QED
      BY <2>1, <2>2
  <1> QED
    BY <1>2, <1>5 DEF HasRows

LEMMA RowsAre ==
    ASSUME FilesAreRead, AllRead, NEW p \in Constants(7), NEW k \in 2..3, NEW n \in [1..k -> 0..Size],
           k <= Meaning[p[2].text].dims
    PROVE  /\ MultiANewArray(Self, p[1], n).outcome = "pushed"
           /\ RowsFollowJava(Meaning[p[2].text], n, MultiANewArray(Self, p[1], n).array.elements)
  <1> DEFINE type == Meaning[p[2].text]
             base == GetClassNameFromDescriptor(p[2].text)
             class == IF IsPrimitiveType(base) THEN NoItem ELSE base
             full == type.base \notin Range(Order) \ {Object}
  <1>1. /\ GetItemAt(types[Self].pool, p[1], 7).text = p[2].text
        /\ \A c \in ClassNames : base = c <=> type.base = c
        /\ IsPrimitiveType(base) <=> type.base \notin ClassNames
    <2>1. type.dims \in Nat /\ type.dims > 0
      BY TypeIs
    <2> QED
      BY <2>1, TypeIs
  <1>2. MultiANewArray(Self, p[1], n) = [outcome |-> "pushed", array |-> Populate(class, n)]
    <2> DEFINE fails(x) == [outcome |-> x, array |-> NoItem]
    <2>1. MultiANewArray(Self, p[1], n)
          = IF \E i \in DOMAIN n : n[i] < 0 THEN fails("NegativeArraySizeException")
            ELSE IF class \notin DOMAIN types \cup {NoItem} THEN fails("internal")
            ELSE [outcome |-> "pushed", array |-> Populate(class, n)]
      BY <1>1, Zenon DEF MultiANewArray
    <2>2. \A i \in DOMAIN n : ~(n[i] < 0)
      BY ArraysAssumption
    <2>3. class \in DOMAIN types \cup {NoItem}
      BY <1>1, ReadFacts
    <2> HIDE DEF class
    <2> QED
      BY <2>1, <2>2, <2>3, Zenon
  <1>3. NoItem \notin ClassNames /\ Object \in ClassNames
    BY WorldsAssumption DEF ClassNames
  <1> HIDE DEF base
  <1>4. full => \A r : Row(class, r) = r
    <2>1. CASE type.base = Object
      BY <1>1, <1>3, <2>1 DEF Row
    <2>2. CASE type.base \notin ClassNames
      BY <1>1, <2>2 DEF Row
    <2> QED
      BY <2>1, <2>2 DEF ClassNames
  <1>5. ~full => \A r : Row(class, r) = NoItem
    BY <1>1, <1>3 DEF Row, ClassNames
  <1> HIDE DEF class, full
  <1>6. PICK f : Populate(class, n) = f[1] /\ HasRows(class, k, n, f)
    BY PopulateIs, Zenon
  <1>7. /\ n[1] \in Nat /\ n[2] \in Nat /\ (k = 3 => n[3] \in Nat) /\ Len(n) = k
    BY ArraysAssumption
  <1>8. /\ f[1].elements = [i \in 1..n[1] |-> Row(class, f[2])]
        /\ f[2].elements = [i \in 1..n[2] |-> IF k = 2 THEN NoItem ELSE Row(class, f[3])]
        /\ k = 3 => f[3].elements = [i \in 1..n[3] |-> NoItem]
    <2>1. 1 \in 1..k /\ 2 \in 1..k /\ 1 # k /\ (k = 3 => 3 \in 1..k) /\ (2 = k <=> k = 2)
      OBVIOUS
    <2>2. f[1].elements = [i \in 1..n[1] |-> Row(class, f[2])]
      BY <1>6, <2>1 DEF HasRows
    <2>3. f[2].elements = [i \in 1..n[2] |-> IF k = 2 THEN NoItem ELSE Row(class, f[3])]
      BY <1>6, <2>1 DEF HasRows
    <2>4. k = 3 => f[3].elements = [i \in 1..n[3] |-> NoItem]
      BY <1>6, <2>1 DEF HasRows
    <2> QED
      BY <2>2, <2>3, <2>4
  <1>9. Len(f[1].elements) = n[1]
    BY <1>7, <1>8
  <1>10. ~full => Range(f[1].elements) \subseteq {NoItem}
    BY <1>5, <1>8 DEF Range
  <1>11. full => Range(f[1].elements) \subseteq {f[2]}
    BY <1>4, <1>8 DEF Range
  <1>12. Len(f[2].elements) = n[2]
    BY <1>7, <1>8
  <1>13. full => \A x \in Range(f[2].elements) : IF k = 2 THEN x = NoItem ELSE Len(x.elements) = n[3]
    <2>1. CASE k = 2
      BY <1>8, <2>1 DEF Range
    <2>2. CASE k = 3
      <3>1. Len(f[3].elements) = n[3]
        BY <1>7, <1>8, <2>2
      <3>2. full => Range(f[2].elements) \subseteq {f[3]}
        BY <1>4, <1>8, <2>2 DEF Range
      <3> QED
        BY <2>2, <3>1, <3>2
    <2> QED
      BY <2>1, <2>2
  <1>14. full <=> type.base \notin Range(Order) \ {Object}
    BY DEF full
  <1> HIDE DEF type
  <1>15. RowsFollowJava(type, n, f[1].elements)
    BY <1>7, <1>9, <1>10, <1>11, <1>12, <1>13, <1>14, Zenon DEF RowsFollowJava
  <1> QED
    BY <1>2, <1>6, <1>15 DEF type

LEMMA NewIs ==
    ASSUME FilesAreRead, AllRead, NEW p \in Constants(7), NEW k \in 2..3, NEW n \in [1..k -> -1..Size],
           k <= Meaning[p[2].text].dims
    PROVE  NewFollowsJava(Meaning[p[2].text], n, MultiANewArray(Self, p[1], n))
  <1>1. CASE \E d \in DOMAIN n : n[d] < 0
    <2>1. MultiANewArray(Self, p[1], n).outcome = "NegativeArraySizeException"
      BY <1>1 DEF MultiANewArray
    <2> QED
      BY <1>1, <2>1 DEF NewFollowsJava
  <1>2. CASE ~\E d \in DOMAIN n : n[d] < 0
    <2>1. n \in [1..k -> 0..Size]
      BY <1>2, ArraysAssumption
    <2> QED
      BY <1>2, <2>1, RowsAre, Zenon DEF NewFollowsJava
  <1> QED
    BY <1>1, <1>2

LEMMA CreatesFollowJava ==
    ASSUME FilesAreRead, ProgramStays, Creates
    PROVE  ArraysAnswer'
  <1>1. task = "arrays" /\ UNCHANGED <<world, task, types>>
    BY DEF Creates, UsesArrays, Done
  <1>2. AllRead
    BY <1>1 DEF ProgramStays, AllRead
  <1>3. PICK p \in Constants(7), k \in 2..3 : \E lengths \in [1..k -> -1..Size] :
            /\ k <= Meaning[p[2].text].dims
            /\ answer' = [op |-> "MULTIANEWARRAY", type |-> Meaning[p[2].text], lengths |-> lengths,
                          result |-> MultiANewArray(Self, p[1], lengths)]
    BY DEF Creates, Done
  <1>4. PICK lengths \in [1..k -> -1..Size] :
            /\ k <= Meaning[p[2].text].dims
            /\ answer' = [op |-> "MULTIANEWARRAY", type |-> Meaning[p[2].text], lengths |-> lengths,
                          result |-> MultiANewArray(Self, p[1], lengths)]
    BY <1>3
  <1>5. NewFollowsJava(Meaning[p[2].text], lengths, MultiANewArray(Self, p[1], lengths))
    BY <1>2, <1>4, NewIs
  <1>6. NewFollowsJava(answer'.type, answer'.lengths, answer'.result)
    BY <1>4, <1>5
  <1>7. answer'.op = "MULTIANEWARRAY"
    BY <1>4
  <1> QED
    BY <1>1, <1>6, <1>7 DEF ArraysAnswer

\* In every well-formed program, whatever is stored and copied in arrays of any
\* classes and any length, they hold what Java allows, and a copy of a range
\* and a new array of arrays are Java's, with the exceptions of the property.
THEOREM ArraysFollowJavaHolds == Spec => []ArraysFollowJava
  <1> FilesAreRead
    BY FilesAreReadHolds
  <1>1. Init => ArraysAnswer
    BY DEF Init, NoAnswer, ArraysAnswer
  <1>2. ElementsFit /\ ProgramStays /\ ArraysAnswer /\ [Next]_vars => ArraysAnswer'
    <2> SUFFICES ASSUME ElementsFit, ProgramStays, ArraysAnswer, [Next]_vars
                 PROVE  ArraysAnswer'
      OBVIOUS
    <2> DEFINE Ops == {"AASTORE", "arraycopy", "MULTIANEWARRAY"}
    <2>1. answer'.op \notin Ops => ArraysAnswer'
      BY DEF ArraysAnswer
    <2>2. CASE UNCHANGED vars
      <3>1. UNCHANGED <<world, task, types, arrays, answer>>
        BY <2>2 DEF vars
      <3>2. answer.op = "AASTORE" /\ answer.outcome = "ArrayStoreException" => StoreFollowsJava'
        BY <3>1, SameAssignable DEF ArraysAnswer, StoreFollowsJava
      <3>3. answer.op = "arraycopy" => CopyFollowsJava'
        <4>1. \A x, v : Fits(x, v)' <=> Fits(x, v)
          BY <3>1, SameFits
        <4> QED
          BY <3>1, <4>1 DEF ArraysAnswer, CopyFollowsJava, Element
      <3> QED
        BY <3>1, <3>2, <3>3 DEF ArraysAnswer
    <2>3. CASE AddClassFile
      <3>1. task = "files" /\ UNCHANGED answer
        BY <2>3 DEF AddClassFile
      <3>2. answer'.op \notin Ops
        BY <3>1 DEF ArraysAnswer
      <3> QED
        BY <2>1, <3>2
    <2>4. /\ \A i \in {"INVOKEVIRTUAL", "INVOKESPECIAL", "INVOKEINTERFACE"} : i \notin Ops
          /\ \A i \in {"GETFIELD", "PUTFIELD", "GETSTATIC", "PUTSTATIC"} : i \notin Ops
          /\ \A i \in {"CHECKCAST", "INSTANCEOF", "isAssignableFrom"} : i \notin Ops
          /\ "INVOKESTATIC" \notin Ops /\ "CHECKCAST_array" \notin Ops /\ "LDC" \notin Ops
          /\ "line" \notin Ops /\ "AALOAD" \notin Ops
          /\ \A i \in Numbers : i \notin Ops
      BY DEF Numbers, Binary, Unary
    <2> HIDE DEF Ops
    <2>5. /\ \A i \in {"INVOKEVIRTUAL", "INVOKESPECIAL", "INVOKEINTERFACE"} :
                 InvokeInstance(i) => ArraysAnswer'
          /\ \A i \in {"GETFIELD", "PUTFIELD"} : UseField(i) => ArraysAnswer'
          /\ \A i \in {"GETSTATIC", "PUTSTATIC"} : UseStaticField(i) => ArraysAnswer'
          /\ \A i \in {"CHECKCAST", "INSTANCEOF", "isAssignableFrom"} :
                 TestType(i) => ArraysAnswer'
          /\ InvokeClass \/ TestArrayType \/ LoadClass \/ FindLine => ArraysAnswer'
      BY <2>1, <2>4, OpsOfLookups, Zenon
    <2>6. OnTwo \/ OnOne \/ Increments \/ Compares \/ Branches => ArraysAnswer'
      BY <2>1, <2>4, OpsOfNumbers, Zenon
    <2>7. Reads => ArraysAnswer'
      <3>1. Reads => answer'.op = "AALOAD"
        BY DEF Reads, Done
      <3> QED
        BY <2>1, <2>4, <3>1
    <2>8. Stores \/ Copies \/ Creates => ArraysAnswer'
      BY StoresFollowJava, CopiesFollowJava, CreatesFollowJava, Zenon
    <2> QED
      BY <2>2, <2>3, <2>5, <2>6, <2>7, <2>8, Zenon DEF Next
  <1>3. ElementsFit /\ ProgramStays /\ ArraysAnswer => ArraysFollowJava
    BY ArraysMean
  <1> QED
    BY <1>1, <1>2, <1>3, ProgramStaysHolds, ElementsFitHolds, PTL DEF Spec

-----------------------------------------------------------------------------
(* Lines                                                                   *)

\* FindLineNumber, as the recursion over sets of positions that it is.
Nearer(offset, best, e) == IF e[1] <= offset /\ e[1] >= best[1] THEN e ELSE best
NearestRule(table, offset, D, f) ==
    f = [s \in SUBSET D |-> IF s = {} THEN <<0, 0>>
                            ELSE Nearer(offset, f[s \ {Max(s)}], table[Max(s)])]

LEMMA FindIs ==
    ASSUME NEW table, NEW offset
    PROVE  FindLineNumber(table, offset)
               = (CHOOSE f : NearestRule(table, offset, DOMAIN table, f))[DOMAIN table][2]
  BY DEF FindLineNumber, FoldLeft, MapThenFoldSet, NearestRule, Nearer

LEMMA MaxOf ==
    ASSUME NEW n \in Nat, NEW S \in SUBSET (1..(n + 1)), n + 1 \in S
    PROVE  Max(S) = n + 1
  <1>1. \A y \in S : n + 1 >= y
    OBVIOUS
  <1>2. \A x \in S : (\A y \in S : x >= y) => x = n + 1
    OBVIOUS
  <1> QED
    BY <1>1, <1>2 DEF Max

LEMMA NearestExists ==
    ASSUME NEW table, NEW offset, NEW n \in Nat
    PROVE  \E f : NearestRule(table, offset, 1..n, f)
  <1> DEFINE S == {k \in Nat : \E f : NearestRule(table, offset, 1..k, f)}
  <1>1. 0 \in S
    <2> DEFINE f == [s \in SUBSET (1..0) |-> <<0, 0>>]
    <2>1. \A s \in SUBSET (1..0) : s = {}
      OBVIOUS
    <2>2. NearestRule(table, offset, 1..0, f)
      BY <2>1 DEF NearestRule
    <2> QED
      BY <2>2
  <1>2. ASSUME NEW k \in Nat, k \in S PROVE k + 1 \in S
    <2>1. PICK f : NearestRule(table, offset, 1..k, f)
      BY <1>2
    <2> DEFINE g == [s \in SUBSET (1..(k + 1)) |->
                        IF k + 1 \in s THEN Nearer(offset, f[s \ {k + 1}], table[k + 1]) ELSE f[s]]
               step(h, s) == IF s = {} THEN <<0, 0>>
                             ELSE Nearer(offset, h[s \ {Max(s)}], table[Max(s)])
    <2>2. ASSUME NEW s \in SUBSET (1..(k + 1)) PROVE g[s] = step(g, s)
      <3>1. CASE k + 1 \in s
        <4>1. Max(s) = k + 1
          BY <3>1, MaxOf
        <4>2. s \ {k + 1} \in SUBSET (1..k) /\ s \ {k + 1} \in SUBSET (1..(k + 1)) /\ k + 1 \notin s \ {k + 1}
          OBVIOUS
        <4>3. g[s \ {k + 1}] = f[s \ {k + 1}]
          BY <4>2
        <4>4. g[s] = Nearer(offset, f[s \ {k + 1}], table[k + 1])
          BY <3>1
        <4> HIDE DEF g
        <4>5. step(g, s) = Nearer(offset, g[s \ {Max(s)}], table[Max(s)])
          BY <3>1
        <4> QED
          BY <4>1, <4>3, <4>4, <4>5
      <3>2. CASE k + 1 \notin s
        <4>1. s \in SUBSET (1..k)
          BY <3>2
        <4>2. g[s] = f[s]
          BY <3>2
        <4>3. f[s] = step(f, s)
          BY <2>1, <4>1 DEF NearestRule
        <4>4. s # {} => Max(s) \in s \/ s \ {Max(s)} = s
          OBVIOUS
        <4>5. g[s \ {Max(s)}] = f[s \ {Max(s)}]
          BY <3>2
        <4> HIDE DEF g
        <4> QED
          BY <4>2, <4>3, <4>5
      <3> QED
        BY <3>1, <3>2
    <2>3. NearestRule(table, offset, 1..(k + 1), g)
      <3>1. g = [s \in SUBSET (1..(k + 1)) |-> g[s]]
        OBVIOUS
      <3> HIDE DEF g
      <3>2. g = [s \in SUBSET (1..(k + 1)) |-> step(g, s)]
        BY <2>2, <3>1
      <3> QED
        BY <3>2 DEF NearestRule
    <2> HIDE DEF g
    <2> QED
      BY <2>3
  <1> HIDE DEF S
  <1>3. n \in S
    BY <1>1, <1>2, SetInduction
  <1> QED
    BY <1>3 DEF S


\* The entry that starts nearest before the offset.
IsNearest(table, offset, e) ==
    /\ e \in Range(table) /\ e[1] <= offset
    /\ \A g \in Range(table) : g[1] <= offset => g[1] <= e[1]

\* The fold has, after k entries, the nearest of these, if any.
NearestBefore(table, offset, k, e) ==
    /\ e \in Nat \X Nat
    /\ \A i \in 1..k : table[i][1] <= offset => table[i][1] <= e[1]
    /\ \/ e = <<0, 0>> /\ \A i \in 1..k : ~(table[i][1] <= offset)
       \/ e[1] <= offset /\ \E i \in 1..k : e = table[i]

LEMMA NotAfter ==
    ASSUME NEW x \in Nat, NEW y \in Nat, NEW z \in Nat, x <= y, z >= y
    PROVE  x <= z
  OBVIOUS

LEMMA NearestOfAll ==
    ASSUME NEW table, table \in Seq(Nat \X Nat), NEW offset \in Nat,
           NEW rule, NearestRule(table, offset, DOMAIN table, rule)
    PROVE  NearestBefore(table, offset, Len(table), rule[1..Len(table)])
  <1> DEFINE len == Len(table)
             S == {k \in Nat : k <= len => NearestBefore(table, offset, k, rule[1..k])}
  <1>1. DOMAIN table = 1..len /\ len \in Nat /\ \A i \in 1..len : table[i] \in Nat \X Nat
    OBVIOUS
  <1>2. \A s \in SUBSET (1..len) : rule[s] = IF s = {} THEN <<0, 0>>
                                        ELSE Nearer(offset, rule[s \ {Max(s)}], table[Max(s)])
    BY <1>1 DEF NearestRule
  <1>3. 0 \in S
    <2>1. 1..0 = {} /\ {} \in SUBSET (1..len)
      OBVIOUS
    <2>2. rule[1..0] = <<0, 0>>
      BY <1>2, <2>1
    <2>3. \A i \in 1..0 : FALSE
      OBVIOUS
    <2>4. NearestBefore(table, offset, 0, rule[1..0])
      BY <2>2, <2>3 DEF NearestBefore
    <2> QED
      BY <2>4
  <1>4. ASSUME NEW k \in Nat, k \in S PROVE k + 1 \in S
    <2> SUFFICES ASSUME k + 1 <= len PROVE NearestBefore(table, offset, k + 1, rule[1..(k + 1)])
      OBVIOUS
    <2> DEFINE e == rule[1..k]
               new == table[k + 1]
               s == 1..(k + 1)
    <2>1. NearestBefore(table, offset, k, e)
      BY <1>1, <1>4
    <2>0. k + 1 \in s /\ s \in SUBSET (1..(k + 1))
      OBVIOUS
    <2>a. Max(s) = k + 1
      BY <2>0, MaxOf
    <2>b. s \ {k + 1} = 1..k /\ s # {}
      <3>1. \A i : i \in s /\ i # k + 1 <=> i \in 1..k
        <4>1. \A i \in Int : i \in 1..(k + 1) /\ i # k + 1 <=> i \in 1..k
          OBVIOUS
        <4>2. 1..(k + 1) \subseteq Int /\ 1..k \subseteq Int
          OBVIOUS
        <4> QED
          BY <4>1, <4>2, Zenon DEF s
      <3> HIDE DEF s
      <3>2. s \ {k + 1} = 1..k
        BY <3>1, Zenon
      <3> QED
        BY <2>0, <3>2, Zenon
    <2>c. s \in SUBSET (1..len)
      BY <1>1
    <2>2. Max(s) = k + 1 /\ s \ {k + 1} = 1..k /\ s # {} /\ s \in SUBSET (1..len)
      BY <2>a, <2>b, <2>c
    <2>3. rule[s] = Nearer(offset, e, new)
      BY <1>2, <2>2
    <2>4. new \in Nat \X Nat /\ new[1] \in Nat
      BY <1>1
    <2>5. \A i \in 1..(k + 1) : i \in 1..k \/ i = k + 1
      OBVIOUS
    <2>6. e[1] \in Nat /\ \A i \in 1..k : i \in 1..(k + 1) /\ table[i][1] \in Nat
      BY <1>1, <2>1, SMTT(40) DEF NearestBefore
    <2>7. CASE new[1] <= offset /\ new[1] >= e[1]
      <3>1. rule[s] = new
        BY <2>3, <2>7 DEF Nearer
      <3>2. \A i \in 1..(k + 1) : table[i][1] <= offset => table[i][1] <= new[1]
        <4>1. \A i \in 1..k : table[i][1] <= offset => table[i][1] <= e[1]
          BY <2>1 DEF NearestBefore
        <4> HIDE DEF e, new
        <4>2. \A i \in 1..k : table[i][1] <= offset => table[i][1] <= new[1]
          <5> SUFFICES ASSUME NEW i \in 1..k, table[i][1] <= offset PROVE table[i][1] <= new[1]
            OBVIOUS
          <5>1. table[i][1] <= e[1] /\ new[1] >= e[1]
            BY <4>1, <2>7
          <5>2. table[i][1] \in Nat /\ e[1] \in Nat /\ new[1] \in Nat
            BY <2>4, <2>6
          <5> QED
            BY <5>1, <5>2, NotAfter, Zenon
        <4> QED
          BY <4>2, <2>4, <2>5 DEF new
      <3>3. \E i \in 1..(k + 1) : new = table[i]
        OBVIOUS
      <3> HIDE DEF new, s
      <3>4. NearestBefore(table, offset, k + 1, new)
        BY <2>4, <2>7, <3>2, <3>3 DEF NearestBefore
      <3> QED
        BY <3>1, <3>4 DEF s
    <2>8. CASE ~(new[1] <= offset /\ new[1] >= e[1])
      <3>1. rule[s] = e
        BY <2>3, <2>8 DEF Nearer
      <3>2. \A i \in 1..(k + 1) : table[i][1] <= offset => table[i][1] <= e[1]
        BY <2>1, <2>4, <2>5, <2>6, <2>8 DEF NearestBefore
      <3>3. \/ e = <<0, 0>> /\ \A i \in 1..(k + 1) : ~(table[i][1] <= offset)
            \/ e[1] <= offset /\ \E i \in 1..(k + 1) : e = table[i]
        <4>1. CASE e = <<0, 0>> /\ \A i \in 1..k : ~(table[i][1] <= offset)
          <5>1. e[1] = 0
            BY <4>1
          <5>2. ~(new[1] <= offset)
            BY <2>4, <2>8, <5>1
          <5> QED
            BY <2>5, <4>1, <5>2
        <4>2. CASE e[1] <= offset /\ \E i \in 1..k : e = table[i]
          BY <2>6, <4>2
        <4> QED
          BY <2>1, <4>1, <4>2 DEF NearestBefore
      <3> HIDE DEF new, s, e
      <3>4. NearestBefore(table, offset, k + 1, e)
        BY <2>1, <3>2, <3>3 DEF NearestBefore
      <3> QED
        BY <3>1, <3>4 DEF s
    <2> QED
      BY <2>7, <2>8
  <1> HIDE DEF S
  <1>5. len \in S
    BY <1>1, <1>3, <1>4, SetInduction
  <1> QED
    BY <1>1, <1>5 DEF S

LEMMA NearestFound ==
    ASSUME NEW table, NEW offset, table \in Seq(Nat \X Nat), offset \in Nat,
           \E j \in DOMAIN table : table[j][1] = 0,
           NEW last, NearestBefore(table, offset, Len(table), last)
    PROVE  IsNearest(table, offset, last)
  <1>1. DOMAIN table = 1..Len(table)
    OBVIOUS
  <1>2. \E j \in 1..Len(table) : table[j][1] <= offset
    BY <1>1
  <1>3. last[1] <= offset /\ \E i \in 1..Len(table) : last = table[i]
    BY <1>2 DEF NearestBefore
  <1>4. \A i \in 1..Len(table) : table[i][1] <= offset => table[i][1] <= last[1]
    BY DEF NearestBefore
  <1>5. IsNearest(table, offset, last)
    BY <1>1, <1>3, <1>4, Zenon DEF IsNearest, Range
  <1>6. QED
    BY <1>5, Zenon

LEMMA LineIs ==
    ASSUME NEW lines, LinesNumbered(lines), NEW offset \in Nat
    PROVE  FindLineNumber(lines, offset) = LineOf(lines, offset)
  <1>1. /\ lines \in Seq(Nat \X Nat)
        /\ \A e, g \in Range(lines) : e[1] = g[1] => e = g
    BY DEF LinesNumbered
  <1>2. \E j \in DOMAIN lines : lines[j][1] = 0
    BY DEF LinesNumbered, Range
  <1> DEFINE f == CHOOSE f : NearestRule(lines, offset, DOMAIN lines, f)
             e == f[DOMAIN lines]
  <1>3. NearestRule(lines, offset, DOMAIN lines, f)
    <2>1. DOMAIN lines = 1..Len(lines) /\ Len(lines) \in Nat
      BY <1>1
    <2> QED
      BY <2>1, NearestExists
  <1>4. FindLineNumber(lines, offset) = e[2]
    BY FindIs
  <1> HIDE DEF f
  <1>5. IsNearest(lines, offset, e)
    <2>1. e = f[1..Len(lines)]
      BY <1>1
    <2>2. NearestBefore(lines, offset, Len(lines), f[1..Len(lines)])
      BY <1>1, <1>3, NearestOfAll
    <2> HIDE DEF e
    <2> QED
      BY <1>1, <1>2, <2>1, <2>2, NearestFound
  <1> HIDE DEF e
  <1>6. \A g \in Range(lines) : g[1] \in Nat
    BY <1>1 DEF Range
  <1>7. \A g : IsNearest(lines, offset, g) => g = e
    <2> SUFFICES ASSUME NEW g, IsNearest(lines, offset, g) PROVE g = e
      OBVIOUS
    <2>1. /\ g[1] <= e[1] /\ e[1] <= g[1] /\ g[1] \in Nat /\ e[1] \in Nat
          /\ g \in Range(lines) /\ e \in Range(lines)
      BY <1>5, <1>6 DEF IsNearest
    <2>2. g[1] = e[1]
      BY <2>1
    <2> QED
      BY <1>1, <2>1, <2>2, Zenon
  <1>8. (CHOOSE g \in Range(lines) : g[1] <= offset /\ \A h \in Range(lines) : h[1] <= offset => h[1] <= g[1])
            = e
    BY <1>5, <1>7, Zenon DEF IsNearest
  <1>9. LineOf(lines, offset) = e[2]
    BY <1>8, Zenon DEF LineOf
  <1> QED
    BY <1>4, <1>9


\* The lines of a method are those that the compiler wrote for it.
LEMMA TableIs ==
    ASSUME FilesAreRead, AllRead, NEW c \in ClassNames, NEW i \in DOMAIN world[c].methods,
           world[c].methods[i].body
    PROVE  /\ LinesNumbered(world[c].methods[i].lines)
           /\ GetMethodLineNumberTable(c, world[c].methods[i].name, world[c].methods[i].desc)
                  = world[c].methods[i].lines
  <1> DEFINE m == world[c].methods[i]
             ms == types[c].methods
             has(n) == n.name = m.name /\ n.desc = m.desc /\ HasCode(n)
             H == {k \in 1..Len(ms) : has(ms[k])}
             j == Min(H)
  <1>1. ClassRead(types[c], world[c]) /\ WellFormed(world)
    BY ReadFacts
  <1>2. /\ world[c].methods \in Seq(Range(world[c].methods))
        /\ \A n \in Range(world[c].methods) :
               /\ n.body => LinesNumbered(n.lines)
               /\ \A o \in Range(world[c].methods) : o.name = n.name /\ o.desc = n.desc => o = n
    BY <1>1, Zenon DEF WellFormed, ClassNames
  <1>3. /\ Len(ms) = Len(world[c].methods)
        /\ \A k \in DOMAIN world[c].methods : MemberRead(ms[k], world[c].methods[k], types[c].pool)
    BY <1>1, Zenon DEF ClassRead
  <1>4. DOMAIN world[c].methods = 1..Len(ms)
    BY <1>2, <1>3
  <1>5. \A k \in DOMAIN world[c].methods : world[c].methods[k] \in Range(world[c].methods)
    BY DEF Range
  <1>6. LinesNumbered(m.lines)
    BY <1>2, <1>5, Zenon
  <1>7. \A k \in 1..Len(ms) :
            /\ ms[k] # NoItem
            /\ has(ms[k]) =>
                   LineNumberTable(ReadCode(Named(ms[k].attributes, "Code")[1].info, types[c].pool)) = m.lines
    <2> SUFFICES ASSUME NEW k \in 1..Len(ms)
                 PROVE  /\ ms[k] # NoItem
                        /\ has(ms[k]) => LineNumberTable(
                               ReadCode(Named(ms[k].attributes, "Code")[1].info, types[c].pool)) = m.lines
      OBVIOUS
    <2>1. MemberRead(ms[k], world[c].methods[k], types[c].pool)
      BY <1>3, <1>4, Zenon
    <2>2. has(ms[k]) => world[c].methods[k] = m /\ world[c].methods[k].body
      <3>1. has(ms[k]) => /\ world[c].methods[k].name = m.name /\ world[c].methods[k].desc = m.desc
                          /\ world[c].methods[k].body
        BY <2>1, Zenon DEF MemberRead
      <3> QED
        BY <1>2, <1>4, <1>5, <3>1, Zenon
    <2> QED
      BY <2>1, <2>2, Zenon DEF MemberRead
  <1>8. i \in H
    <2>1. MemberRead(ms[i], m, types[c].pool)
      BY <1>3
    <2>2. has(ms[i])
      BY <2>1, Zenon DEF MemberRead
    <2> QED
      BY <1>4, <2>2
  <1>9. j \in H /\ j # 0
    <2>1. H \in SUBSET Nat /\ 0 \notin H
      OBVIOUS
    <2> HIDE DEF H
    <2>2. j \in H
      BY <1>8, <2>1, MinFacts
    <2> QED
      BY <2>1, <2>2
  <1>10. First(ms, has) = ms[j]
    <2>1. SelectInSeq(ms, has) = j
      <3>1. SelectInSeq(ms, has) = IF H # {} THEN Min(H) ELSE 0
        BY ZenonT(60) DEF SelectInSeq
      <3> HIDE DEF H
      <3> QED
        BY <1>8, <3>1
    <2> HIDE DEF j
    <2> QED
      BY <1>9, <2>1, Zenon DEF First
  <1>11. ms[j] # NoItem /\ LineNumberTable(ReadCode(Named(ms[j].attributes, "Code")[1].info, types[c].pool))
                                = m.lines
    BY <1>7, <1>9, ZenonT(30)
  <1> DEFINE s == JavaClasses(world)[c]
             reads(k) == First(types[k].methods, has) # NoItem
             l == First(Chain[c], reads)
  <1>12. l = c
    <2>1. Chain[c] = s /\ s[1] = c /\ Len(s) \in Nat /\ 1 \in 1..Len(s)
      <3>1. Chain[c] = s
        BY ChainIs
      <3>2. Path(world, c, s)
        BY <1>1, ClassesFollowRule, ChainsArePaths, Zenon
      <3>3. s \in Seq(ClassNames) /\ s # <<>> /\ s[1] = c
        BY <3>2, Zenon DEF Path
      <3> HIDE DEF s
      <3>4. Len(s) \in Nat /\ 1 \in 1..Len(s)
        BY <3>3
      <3> QED
        BY <3>1, <3>3, <3>4
    <2> DEFINE K == {k \in 1..Len(s) : reads(s[k])}
    <2>2. reads(c)
      BY <1>10, <1>11, Zenon
    <2> HIDE DEF reads
    <2>3. 1 \in K /\ K \in SUBSET Nat /\ \A k \in K : 1 <= k
      BY <2>1, <2>2
    <2>4. SelectInSeq(s, reads) = IF K # {} THEN Min(K) ELSE 0
      BY Zenon DEF SelectInSeq
    <2> HIDE DEF K, s
    <2>5. Min(K) \in K /\ Min(K) <= 1
      BY <2>3, MinFacts
    <2>6. Min(K) = 1
      <3>1. Min(K) \in Nat /\ 1 <= Min(K)
        BY <2>3, <2>5, Zenon
      <3> QED
        BY <2>5, <3>1
    <2>7. SelectInSeq(s, reads) = 1
      BY <2>3, <2>4, <2>6
    <2> QED
      BY <2>1, <2>7 DEF First
  <1>13. c # NoItem
    BY WorldsAssumption DEF ClassNames
  <1>14. GetMethodLineNumberTable(c, m.name, m.desc)
            = IF l = NoItem THEN <<>>
              ELSE LineNumberTable(ReadCode(
                       Named(First(types[l].methods, has).attributes, "Code")[1].info, types[l].pool))
    BY Zenon DEF GetMethodLineNumberTable
  <1> HIDE DEF l, j, H
  <1> QED
    BY <1>6, <1>10, <1>11, <1>12, <1>13, <1>14, Zenon


LEMMA FindLineIsRight ==
    ASSUME FilesAreRead, ProgramStays, FindLine
    PROVE  LinesAreRead'
  <1>1. AllRead
    BY DEF ProgramStays, AllRead, FindLine, LooksUp
  <1>2. PICK c \in ClassNames : \E i \in DOMAIN world[c].methods, n \in 0..5 :
            LET m == world[c].methods[i]
            IN  /\ m.body
                /\ Answers([op |-> "line", method |-> m, offset |-> n,
                            line |-> FindLineNumber(GetMethodLineNumberTable(c, m.name, m.desc), n)])
    BY Zenon DEF FindLine, ClassNames
  <1>3. PICK i \in DOMAIN world[c].methods : \E n \in 0..5 :
            LET m == world[c].methods[i]
            IN  /\ m.body
                /\ Answers([op |-> "line", method |-> m, offset |-> n,
                            line |-> FindLineNumber(GetMethodLineNumberTable(c, m.name, m.desc), n)])
    BY <1>2, Zenon
  <1> DEFINE m == world[c].methods[i]
  <1>4. PICK n \in 0..5 :
            /\ m.body
            /\ Answers([op |-> "line", method |-> m, offset |-> n,
                        line |-> FindLineNumber(GetMethodLineNumberTable(c, m.name, m.desc), n)])
    BY <1>3, Zenon
  <1>5. n \in Nat
    OBVIOUS
  <1>6. FindLineNumber(GetMethodLineNumberTable(c, m.name, m.desc), n) = LineOf(m.lines, n)
    BY <1>1, <1>4, <1>5, TableIs, LineIs, Zenon
  <1> HIDE DEF m
  <1>7. answer' = [op |-> "line", method |-> m, offset |-> n, line |-> LineOf(m.lines, n)]
    BY <1>4, <1>6, Zenon DEF Answers
  <1>8. answer'.method = m /\ answer'.offset = n /\ answer'.line = LineOf(m.lines, n)
    BY <1>7
  <1> QED
    BY <1>8, Zenon DEF LinesAreRead

\* So does the line of a frame in a stack trace: it is that of the entry of the
\* compiler's table that starts nearest before the offset.
THEOREM LinesAreReadHolds == Spec => []LinesAreRead
  <1> FilesAreRead
    BY FilesAreReadHolds
  <1>1. Init => LinesAreRead
    BY DEF Init, NoAnswer, LinesAreRead
  <1>2. ProgramStays /\ LinesAreRead /\ [Next]_vars => LinesAreRead'
    <2> SUFFICES ASSUME ProgramStays, LinesAreRead, [Next]_vars
                 PROVE  LinesAreRead'
      OBVIOUS
    <2>1. answer'.op # "line" => LinesAreRead'
      BY DEF LinesAreRead
    <2>2. AddClassFile \/ UNCHANGED vars => LinesAreRead'
      BY DEF AddClassFile, vars, LinesAreRead
    <2>3. /\ \A i \in {"INVOKEVIRTUAL", "INVOKESPECIAL", "INVOKEINTERFACE"} : i # "line"
          /\ \A i \in {"GETFIELD", "PUTFIELD", "GETSTATIC", "PUTSTATIC"} : i # "line"
          /\ \A i \in {"CHECKCAST", "INSTANCEOF", "isAssignableFrom"} : i # "line"
          /\ "INVOKESTATIC" # "line" /\ "CHECKCAST_array" # "line" /\ "LDC" # "line"
          /\ \A i \in {"AALOAD", "AASTORE", "dies", "arraycopy", "MULTIANEWARRAY"} : i # "line"
          /\ \A i \in Numbers : i # "line"
      BY DEF Numbers, Binary, Unary
    <2>4. /\ \A i \in {"INVOKEVIRTUAL", "INVOKESPECIAL", "INVOKEINTERFACE"} :
                 InvokeInstance(i) => LinesAreRead'
          /\ \A i \in {"GETFIELD", "PUTFIELD"} : UseField(i) => LinesAreRead'
          /\ \A i \in {"GETSTATIC", "PUTSTATIC"} : UseStaticField(i) => LinesAreRead'
          /\ \A i \in {"CHECKCAST", "INSTANCEOF", "isAssignableFrom"} : TestType(i) => LinesAreRead'
          /\ InvokeClass \/ TestArrayType \/ LoadClass => LinesAreRead'
      <3>1. {"GETFIELD", "PUTFIELD"} \cup {"GETSTATIC", "PUTSTATIC"}
                = {"GETFIELD", "PUTFIELD", "GETSTATIC", "PUTSTATIC"}
        OBVIOUS
      <3> QED
        BY <2>1, <2>3, <3>1, OpsOfLookups, Zenon
    <2>5. Reads \/ Stores \/ Copies \/ Creates => LinesAreRead'
      BY <2>1, <2>3, OpsOfArrays, Zenon
    <2>6. OnTwo \/ OnOne \/ Increments \/ Compares \/ Branches => LinesAreRead'
      BY <2>1, <2>3, OpsOfNumbers, Zenon
    <2>7. FindLine => LinesAreRead'
      BY FindLineIsRight
    <2> QED
      BY <2>2, <2>4, <2>5, <2>6, <2>7, Zenon DEF Next
  <1> QED
    BY <1>1, <1>2, ProgramStaysHolds, PTL DEF Spec

\* In the task "files" the classes that have been read are those of the first
\* files in the order.
FilesStay ==
    /\ world \in Worlds
    /\ task = "files" => /\ DOMAIN types \subseteq ClassNames
                         /\ \A c \in DOMAIN types : types[c] = ReadClass[world[c]]

LEMMA AddClassFileStays ==
    ASSUME FilesStay, AddClassFile
    PROVE  FilesStay'
  <1> DEFINE n == Cardinality(DOMAIN types)
             c == Order[n + 1]
  <1>1. c \in ClassNames
    <2>1. Order \in Seq(ClassNames) /\ Len(Order) \in Nat
      BY WorldsAssumption DEF ClassNames
    <2>2. IsFiniteSet(ClassNames)
      <3>1. \A x \in ClassNames : \E i \in 1..Len(Order) : Order[i] = x
        BY <2>1 DEF ClassNames, Range
      <3> QED
        BY <2>1, <3>1, Zenon DEF IsFiniteSet
    <2>3. IsFiniteSet(DOMAIN types)
      BY <2>2, FS_Subset DEF FilesStay, AddClassFile
    <2>4. n \in Nat
      BY <2>3, FS_CardinalityType, Zenon
    <2>5. n < Len(Order)
      BY DEF AddClassFile
    <2> HIDE DEF n
    <2>6. n + 1 \in 1..Len(Order)
      BY <2>1, <2>4, <2>5
    <2> QED
      BY <2>1, <2>6
  <1> HIDE DEF c
  <1>2. types' = [x \in {c} \cup DOMAIN types |-> IF x = c THEN ReadClass[world[c]] ELSE types[x]]
    BY DEF AddClassFile, c
  <1>3. UNCHANGED <<world, task>> /\ task = "files"
    BY DEF AddClassFile
  <1>4. DOMAIN types' \subseteq ClassNames
    BY <1>1, <1>2, <1>3 DEF FilesStay
  <1>5. \A x \in DOMAIN types' : types'[x] = ReadClass[world[x]]
    BY <1>2, <1>3 DEF FilesStay
  <1> QED
    BY <1>3, <1>4, <1>5 DEF FilesStay

LEMMA FilesStayHolds == Spec => []FilesStay
  <1>1. Init => FilesStay
    BY WorldsAssumption DEF Init, FilesStay
  <1>2. FilesStay /\ [Next]_vars => FilesStay'
    <2> SUFFICES ASSUME FilesStay, [Next]_vars PROVE FilesStay'
      OBVIOUS
    <2>1. CASE AddClassFile
      BY <2>1, AddClassFileStays
    <2>2. ASSUME UNCHANGED <<world, task, types>> PROVE FilesStay'
      BY <2>2 DEF FilesStay
    <2> QED
      BY <2>1, <2>2, OthersKeepClasses, Zenon
  <1> QED
    BY <1>1, <1>2, PTL DEF Spec

\* Reading a class file gives what the compiler wrote, in every program whose
\* classes fit into class files, and a stack trace shows the lines of the
\* source.
THEOREM ReadsWhatWasWrittenHolds == Spec => []ReadsWhatWasWritten
  <1>1. FilesStay /\ LinesAreRead => ReadsWhatWasWritten
    <2> SUFFICES ASSUME FilesStay, LinesAreRead, task = "files", NEW c \in DOMAIN types
                 PROVE  ClassRead(types[c], world[c])
      BY Zenon DEF ReadsWhatWasWritten
    <2>1. types[c] = ReadClass[world[c]] /\ world[c] \in Descriptions
      BY DEF FilesStay, Descriptions, ClassNames
    <2> QED
      BY <2>1, FilesAreReadHolds, Zenon DEF FilesAreRead
  <1>2. Spec => []LinesAreRead
    BY LinesAreReadHolds
  <1> QED
    BY <1>1, <1>2, FilesStayHolds, PTL

=============================================================================
