--------------------------- MODULE ContentProofs ---------------------------
(***************************************************************************)
(* For every schema, every set of texts, every depth of nesting and every  *)
(* value a caller starts with: a codec is sound (it puts the bytes it      *)
(* foresees), reads values, whatever the bytes, and lets through what is   *)
(* legal.  Each is shown of a codec around one it is true of, so it holds  *)
(* at every depth.  The theorems are at the end of the parts on the        *)
(* exchange and on what is legal.                                          *)
(***************************************************************************)
EXTENDS ContentExchange, FlattenLemmas, FiniteSetTheorems

NestedRec == INSTANCE Recursion WITH Zero <- Unnested, Step <- Around
ValTypeRec == INSTANCE Recursion WITH Zero <- NoLists, Step <- ListTypes
ValTypesRec == INSTANCE Recursion WITH Zero <- ScalarValTypes, Step <- WithLists
CodecRec == INSTANCE Recursion WITH Zero <- TooDeep, Step <- CodecAround
LawfulRec == INSTANCE Recursion WITH Zero <- NoneIsLegal, Step <- LegalAround

TimesByte(k) == 256 * k
WeightRec == INSTANCE Recursion WITH Zero <- 1, Step <- TimesByte

DoubleOf(k) == 2 * k
Pow2Rec == INSTANCE Recursion WITH Zero <- 1, Step <- DoubleOf

\* Any number of depths has a least one: what a recursion of Recursion asks for.
LEMMA NumbersHaveLeast == \A S \in SUBSET Nat : S # {} => \E x \in S : \A y \in S : x <= y
BY Least

\* What each recursive function of the model is at a depth, by what it is
\* one less deep.
LEMMA NestedAt == Nested[0] = Unnested /\ \A d \in Nat : Nested[d + 1] = Around(Nested[d])
BY NumbersHaveLeast, NestedRec!Unfolds DEF NestedRec!HaveLeast, Nested

LEMMA ValTypeAt == valType[0] = NoLists /\ \A d \in Nat : valType[d + 1] = ListTypes(valType[d])
BY NumbersHaveLeast, ValTypeRec!Unfolds DEF ValTypeRec!HaveLeast, valType

LEMMA ValTypesAt ==
    valTypes[0] = ScalarValTypes /\ \A d \in Nat : valTypes[d + 1] = WithLists(valTypes[d])
BY NumbersHaveLeast, ValTypesRec!Unfolds DEF ValTypesRec!HaveLeast, valTypes

\* What a codec of a depth is, and what is legal at it.
LEMMA CodecAt == codec[0] = TooDeep /\ \A d \in Nat : codec[d + 1] = CodecAround(codec[d])
BY NumbersHaveLeast, CodecRec!Unfolds DEF CodecRec!HaveLeast, codec

LEMMA LawfulAt == lawful[0] = NoneIsLegal /\ \A d \in Nat : lawful[d + 1] = LegalAround(lawful[d])
BY NumbersHaveLeast, LawfulRec!Unfolds DEF LawfulRec!HaveLeast, lawful

LEMMA WeightAt == Weight[0] = 1 /\ \A k \in Nat : Weight[k + 1] = 256 * Weight[k]
<1>1. Weight[0] = 1 /\ \A k \in Nat : Weight[k + 1] = TimesByte(Weight[k])
  BY NumbersHaveLeast, WeightRec!Unfolds DEF WeightRec!HaveLeast, Weight, TimesByte
<1> QED
  BY <1>1 DEF TimesByte

----------------------------------------------------------------------------
\* Numbers and their bytes.

\* The powers of 256.
LEMMA WeightPositive == \A k \in Nat : Weight[k] \in Nat /\ Weight[k] > 0
<1> DEFINE fails == {k \in Nat : ~(Weight[k] \in Nat /\ Weight[k] > 0)}
<1>1. SUFFICES ASSUME fails # {} PROVE FALSE
  OBVIOUS
<1>2. PICK k \in fails : \A j \in fails : k <= j
  <2>1. fails \in SUBSET Nat
    OBVIOUS
  <2> HIDE DEF fails
  <2> QED
    BY <1>1, <2>1, Least
<1>3. k # 0
  BY <1>2, WeightAt
<1>4. k - 1 \in Nat /\ (k - 1) + 1 = k /\ ~(k <= k - 1)
  BY <1>2, <1>3
<1>5. Weight[k - 1] \in Nat /\ Weight[k - 1] > 0
  BY <1>2, <1>4
<1>6. Weight[k] = 256 * Weight[k - 1]
  BY <1>4, WeightAt
<1> QED
  BY <1>2, <1>5, <1>6

\* A byte is a number.
LEMMA ByteFacts == \A b \in Byte : b \in Nat /\ b \in Int /\ b <= 255
BY DEF Byte

\* A number takes the bytes of its width.
LEMMA NumberBytesFacts ==
    ASSUME NEW n \in Int, NEW w \in Nat
    PROVE  NumberBytes(n, w) \in Seq(Byte) /\ Len(NumberBytes(n, w)) = w
<1>1. ASSUME NEW i \in 1..w PROVE (n \div Weight[w - i]) % 256 \in Byte
  <2>1. w - i \in Nat
    OBVIOUS
  <2>2. Weight[w - i] \in Nat /\ Weight[w - i] > 0
    BY <2>1, WeightPositive
  <2> DEFINE d == Weight[w - i]
             q == n \div d
  <2>3. q \in Int
    <3> HIDE DEF d
    <3> QED
      BY <2>2 DEF d
  <2> HIDE DEF q
  <2>4. q % 256 \in 0..255
    BY <2>3
  <2> QED
    BY <2>4 DEF q, Byte
<1> DEFINE b == [i \in 1..w |-> (n \div Weight[w - i]) % 256]
<1>2. b \in [1..w -> Byte]
  BY <1>1
<1>3. NumberBytes(n, w) = b
  BY DEF NumberBytes
<1> HIDE DEF b
<1> QED
  BY <1>2, <1>3

----------------------------------------------------------------------------
\* Floats: what has been rounded stays as it is.

LEMMA Pow2At == Pow2[0] = 1 /\ \A k \in Nat : Pow2[k + 1] = 2 * Pow2[k]
<1>1. Pow2[0] = 1 /\ \A k \in Nat : Pow2[k + 1] = DoubleOf(Pow2[k])
  BY NumbersHaveLeast, Pow2Rec!Unfolds DEF Pow2Rec!HaveLeast, Pow2, DoubleOf
<1> QED
  BY <1>1 DEF DoubleOf

\* The powers of 2 are larger than their exponents.
LEMMA Pow2Large == \A k \in Nat : Pow2[k] \in Nat /\ Pow2[k] > k
<1> DEFINE fails == {k \in Nat : ~(Pow2[k] \in Nat /\ Pow2[k] > k)}
<1>1. SUFFICES ASSUME fails # {} PROVE FALSE
  OBVIOUS
<1>2. PICK k \in fails : \A j \in fails : k <= j
  <2>1. fails \in SUBSET Nat
    OBVIOUS
  <2> HIDE DEF fails
  <2> QED
    BY <1>1, <2>1, Least
<1>3. k # 0
  BY <1>2, Pow2At
<1>4. k - 1 \in Nat /\ (k - 1) + 1 = k /\ ~(k <= k - 1)
  BY <1>2, <1>3
<1>5. Pow2[k - 1] \in Nat /\ Pow2[k - 1] > k - 1
  BY <1>2, <1>4
<1>6. Pow2[k] = 2 * Pow2[k - 1]
  <2>1. Pow2[(k - 1) + 1] = 2 * Pow2[k - 1]
    BY <1>4, Pow2At
  <2> QED
    BY <1>4, <2>1
<1>7. Pow2[k] \in Nat /\ Pow2[k] > k
  BY <1>4, <1>5, <1>6
<1> QED
  BY <1>2, <1>7

LEMMA Pow2Sum == \A i, j \in Nat : Pow2[i + j] = Pow2[i] * Pow2[j]
<1> SUFFICES ASSUME NEW i \in Nat PROVE \A j \in Nat : Pow2[i + j] = Pow2[i] * Pow2[j]
  OBVIOUS
<1> DEFINE fails == {j \in Nat : Pow2[i + j] # Pow2[i] * Pow2[j]}
<1>1. SUFFICES ASSUME fails # {} PROVE FALSE
  OBVIOUS
<1>2. PICK k \in fails : \A j \in fails : k <= j
  <2>1. fails \in SUBSET Nat
    OBVIOUS
  <2> HIDE DEF fails
  <2> QED
    BY <1>1, <2>1, Least
<1>3. k # 0
  <2>1. i + 0 = i /\ Pow2[i] \in Nat
    BY Pow2Large
  <2>2. Pow2[i + 0] = Pow2[i] * Pow2[0]
    BY <2>1, Pow2At
  <2> QED
    BY <1>2, <2>2
<1>4. k - 1 \in Nat /\ (k - 1) + 1 = k /\ ~(k <= k - 1) /\ i + (k - 1) \in Nat /\ (i + (k - 1)) + 1 = i + k
  BY <1>2, <1>3
<1>5. Pow2[i + (k - 1)] = Pow2[i] * Pow2[k - 1]
  BY <1>2, <1>4
<1>6. Pow2[k] = 2 * Pow2[k - 1] /\ Pow2[i + k] = 2 * Pow2[i + (k - 1)]
  <2>1. Pow2[(k - 1) + 1] = 2 * Pow2[k - 1]
    BY <1>4, Pow2At
  <2>2. Pow2[(i + (k - 1)) + 1] = 2 * Pow2[i + (k - 1)]
    BY <1>4, Pow2At
  <2> QED
    BY <1>4, <2>1, <2>2
<1>7. \A a, b \in Nat : 2 * (a * b) = a * (2 * b)
  OBVIOUS
<1>8. Pow2[i] \in Nat /\ Pow2[k - 1] \in Nat
  BY <1>4, Pow2Large
<1> QED
  BY <1>2, <1>5, <1>6, <1>7, <1>8

\* A number is a multiple of the powers of 2 below it.
LEMMA Pow2Divides ==
    ASSUME NEW i \in Nat, NEW j \in Nat, i <= j
    PROVE  Pow2[i] <= Pow2[j] /\ \E c \in Nat : Pow2[j] = Pow2[i] * c
<1>1. j - i \in Nat /\ i + (j - i) = j
  OBVIOUS
<1>2. Pow2[i + (j - i)] = Pow2[i] * Pow2[j - i]
  BY <1>1, Pow2Sum
<1>3. Pow2[i] \in Nat /\ Pow2[j - i] \in Nat /\ Pow2[j - i] >= 1
  BY <1>1, Pow2Large
<1>4. \A a, c \in Nat : c >= 1 => a <= a * c
  OBVIOUS
<1>5. Pow2[j] = Pow2[i] * Pow2[j - i]
  BY <1>1, <1>2
<1> QED
  BY <1>3, <1>4, <1>5

LEMMA LostFacts ==
    ASSUME NEW m \in Nat, NEW d \in Nat
    PROVE  /\ Lost(m, d) \in Nat
           /\ m <= Pow2[d + Lost(m, d)]
           /\ Lost(m, d) = 0 \/ Pow2[d + Lost(m, d) - 1] < m
<1> DEFINE enough == {k \in Nat : m <= Pow2[d + k]}
<1>1. m \in enough
  <2>1. d + m \in Nat /\ d + m >= m /\ Pow2[d + m] \in Nat /\ Pow2[d + m] > d + m
    BY Pow2Large
  <2> QED
    BY <2>1
<1>2. PICK k \in enough : \A j \in enough : k <= j
  <2>1. enough \in SUBSET Nat
    OBVIOUS
  <2> HIDE DEF enough
  <2> QED
    BY <1>1, <2>1, Least
<1>3. k \in Nat /\ k \in 0..m /\ m <= Pow2[d + k]
  BY <1>1, <1>2
<1>4. k = 0 \/ Pow2[d + k - 1] < m
  <2>1. SUFFICES ASSUME k # 0 PROVE Pow2[d + k - 1] < m
    OBVIOUS
  <2>2. k - 1 \in Nat /\ ~(k <= k - 1) /\ d + (k - 1) = d + k - 1 /\ d + k - 1 \in Nat
    BY <1>3, <2>1
  <2>3. k - 1 \notin enough
    <3> HIDE DEF enough
    <3> QED
      BY <1>2, <2>2
  <2>4. ~(m <= Pow2[d + k - 1])
    BY <2>2, <2>3
  <2>5. Pow2[d + k - 1] \in Nat
    BY <2>2, Pow2Large
  <2> QED
    BY <2>4, <2>5
<1> DEFINE fits(j) == m <= Pow2[d + j] /\ (j = 0 \/ Pow2[d + j - 1] < m)
<1>5. \E j \in 0..m : fits(j)
  BY <1>3, <1>4
<1>6. Lost(m, d) = CHOOSE j \in 0..m : fits(j)
  BY DEF Lost
<1> HIDE DEF fits
<1>7. Lost(m, d) \in 0..m /\ fits(Lost(m, d))
  BY <1>5, <1>6
<1> QED
  BY <1>7 DEF fits

\* A magnitude that is rounded to units of a power of 2 has no more digits.
LEMMA RoundedFacts ==
    ASSUME NEW m \in Nat, NEW a \in Nat, NEW u \in Nat, u > 0, m <= a * u
    PROVE  InUnits(m, u) \in Nat /\ InUnits(m, u) <= a
<1> DEFINE q == m \div u
           r == m % u
<1>1. q \in Nat /\ r \in Nat /\ r < u /\ m = u * q + r
  OBVIOUS
<1>2. InUnits(m, u) = IF RoundsUp(m, u) THEN q + 1 ELSE q
  BY DEF InUnits
<1>3. RoundsUp(m, u) => r > 0
  BY <1>1 DEF RoundsUp
<1> HIDE DEF q, r
<1>4. u * q <= a * u
  <2>1. u * q \in Int /\ a * u \in Int
    BY <1>1
  <2> QED
    BY <1>1, <2>1
<1>5. q <= a
  <2>1. \A x, y, z \in Nat : z > 0 /\ z * x <= y * z => x <= y
    <3>1. TAKE x, y, z \in Nat
    <3>2. HAVE z > 0 /\ z * x <= y * z
    <3>3. SUFFICES ASSUME x >= y + 1 PROVE FALSE
      OBVIOUS
    <3>4. x - (y + 1) \in Nat /\ x = (y + 1) + (x - (y + 1))
      BY <3>3
    <3>5. z * x = y * z + z + z * (x - (y + 1))
      BY <3>4
    <3>6. z * (x - (y + 1)) >= 0 /\ z * (x - (y + 1)) \in Int /\ y * z \in Int
      BY <3>4
    <3> QED
      BY <3>2, <3>5, <3>6
  <2> QED
    BY <1>1, <1>4, <2>1
<1>6. r > 0 => q + 1 <= a
  <2>1. SUFFICES ASSUME r > 0, q = a PROVE FALSE
    BY <1>1, <1>5
  <2>2. u * q = a * u /\ u * q \in Int
    BY <1>1, <2>1
  <2> QED
    BY <1>1, <2>1, <2>2
<1> QED
  BY <1>1, <1>2, <1>3, <1>5, <1>6

\* A multiple of the unit is not rounded.
LEMMA RoundedOnce ==
    ASSUME NEW c \in Nat, NEW u \in Nat, u > 0
    PROVE  Rounded(u * c, u) = u * c
<1> DEFINE m == u * c
<1>1. m \in Nat /\ m % u = 0 /\ m \div u = c
  <2>1. m \in Nat
    OBVIOUS
  <2> DEFINE q == m \div u
             r == m % u
  <2>2. q \in Nat /\ r \in Nat /\ r < u /\ m = u * q + r
    BY <2>1
  <2> HIDE DEF q, r
  <2>3. u * c = u * q + r
    BY <2>2
  <2>4. q = c
    <3>1. CASE q + 1 <= c
      <4>1. c - (q + 1) \in Nat /\ c = (q + 1) + (c - (q + 1))
        BY <2>2, <3>1
      <4>2. u * c = u * q + u + u * (c - (q + 1))
        BY <2>2, <4>1
      <4>3. u * (c - (q + 1)) >= 0 /\ u * (c - (q + 1)) \in Int /\ u * q \in Int
        BY <4>1, <2>2
      <4> QED
        BY <2>2, <2>3, <4>2, <4>3
    <3>2. CASE c + 1 <= q
      <4>1. q - (c + 1) \in Nat /\ q = (c + 1) + (q - (c + 1))
        BY <2>2, <3>2
      <4>2. u * q = u * c + u + u * (q - (c + 1))
        BY <2>2, <4>1
      <4>3. u * (q - (c + 1)) >= 0 /\ u * (q - (c + 1)) \in Int /\ u * c \in Int
        BY <4>1, <2>2
      <4> QED
        BY <2>2, <2>3, <4>2, <4>3
    <3> QED
      BY <2>2, <3>1, <3>2
  <2>5. r = 0
    <3>1. u * c \in Int
      OBVIOUS
    <3> QED
      BY <2>2, <2>3, <2>4, <3>1
  <2> QED
    BY <2>1, <2>4, <2>5 DEF q, r
<1> HIDE DEF m
<1>2. ~RoundsUp(m, u)
  BY <1>1 DEF RoundsUp
<1>3. Rounded(m, u) = u * c
  BY <1>1, <1>2 DEF Rounded, InUnits
<1> QED
  BY <1>3 DEF m

\* A magnitude that was rounded to d digits, and what is made of it by rounding
\* it to no fewer.
LEMMA NearestMagnitude ==
    ASSUME NEW m \in Nat, NEW d \in Nat, NEW e \in Nat, d <= e,
           NEW x, x = Rounded(m, Pow2[Lost(m, d)])
    PROVE  x \in Nat /\ Rounded(x, Pow2[Lost(x, e)]) = x
<1> DEFINE k == Lost(m, d)
           u == Pow2[k]
           c == InUnits(m, u)
<1>1. k \in Nat /\ m <= Pow2[d + k]
  BY LostFacts
<1> HIDE DEF k
<1>2. u \in Nat /\ u > 0 /\ Pow2[d] \in Nat /\ Pow2[e] \in Nat
  BY <1>1, Pow2Large
<1>3. Pow2[d + k] = Pow2[d] * u /\ Pow2[e + k] = Pow2[e] * u
  BY <1>1, Pow2Sum
<1>4. x = u * c
  BY DEF Rounded, k
<1> HIDE DEF u
<1>5. c \in Nat /\ c <= Pow2[d]
  BY <1>1, <1>2, <1>3, RoundedFacts
<1> HIDE DEF c
<1>6. c <= Pow2[e]
  <2>1. Pow2[d] <= Pow2[e]
    BY Pow2Divides
  <2> QED
    BY <1>2, <1>5, <2>1
<1>7. x \in Nat /\ x <= Pow2[e + k]
  <2>1. \A a, b, z \in Nat : a <= b => z * a \in Nat /\ z * a <= b * z
    <3>1. TAKE a, b, z \in Nat
    <3>2. HAVE a <= b
    <3>3. b - a \in Nat /\ b = a + (b - a)
      BY <3>2
    <3>4. b * z = z * a + z * (b - a)
      BY <3>3
    <3>5. z * (b - a) >= 0 /\ z * (b - a) \in Int /\ z * a \in Nat
      BY <3>3
    <3> QED
      BY <3>4, <3>5
  <2> QED
    BY <1>2, <1>3, <1>4, <1>5, <1>6, <2>1
<1> DEFINE j == Lost(x, e)
<1>8. j \in Nat /\ (j = 0 \/ Pow2[e + j - 1] < x)
  BY <1>7, LostFacts
<1> HIDE DEF j
<1>9. j <= k
  <2>1. SUFFICES ASSUME j >= k + 1 PROVE FALSE
    BY <1>1, <1>8
  <2>2. e + k \in Nat /\ e + j - 1 \in Nat /\ e + k <= e + j - 1 /\ j # 0
    BY <1>1, <1>8, <2>1
  <2>3. Pow2[e + k] <= Pow2[e + j - 1] /\ Pow2[e + k] \in Nat /\ Pow2[e + j - 1] \in Nat
    BY <2>2, Pow2Divides, Pow2Large
  <2> QED
    BY <1>7, <1>8, <2>2, <2>3
<1>10. PICK t \in Nat : u = Pow2[j] * t
  BY <1>1, <1>8, <1>9, Pow2Divides DEF u
<1>11. Pow2[j] \in Nat /\ Pow2[j] > 0
  BY <1>8, Pow2Large
<1>12. x = Pow2[j] * (t * c) /\ t * c \in Nat
  <2>1. \A a, b, z \in Nat : (a * b) * z = a * (b * z) /\ b * z \in Nat
    OBVIOUS
  <2> QED
    BY <1>4, <1>5, <1>10, <1>11, <2>1
<1>13. Rounded(Pow2[j] * (t * c), Pow2[j]) = Pow2[j] * (t * c)
  BY <1>11, <1>12, RoundedOnce
<1> QED
  BY <1>7, <1>12, <1>13 DEF j

\* What was rounded to d digits stays as it is when it is rounded to no fewer.
LEMMA NearestStays ==
    ASSUME NEW n \in Int, NEW d \in Nat, NEW e \in Nat, d <= e
    PROVE  Nearest(n, d) \in Int /\ Nearest(Nearest(n, d), e) = Nearest(n, d)
<1> DEFINE m == Magnitude(n)
           x == Rounded(m, Pow2[Lost(m, d)])
           y == IF n < 0 THEN -x ELSE x
<1>1. m \in Nat
  BY DEF Magnitude
<1>2. Nearest(n, d) = y
  BY DEF Nearest
<1> HIDE DEF m
<1>3. x \in Nat /\ Rounded(x, Pow2[Lost(x, e)]) = x
  BY <1>1, NearestMagnitude
<1> HIDE DEF x
<1>4. y \in Int /\ Magnitude(y) = x
  BY <1>3 DEF Magnitude
<1>5. y = IF y < 0 THEN -x ELSE x
  BY <1>3
<1> HIDE DEF y
<1>6. Nearest(y, e) = IF y < 0 THEN -x ELSE x
  BY <1>3, <1>4 DEF Nearest
<1> QED
  BY <1>2, <1>4, <1>5, <1>6

\* A single is a single on every platform.
LEMMA RoundedFloats ==
    ASSUME NEW p, NEW n \in Int
    PROVE  /\ Single(n) \in Int /\ Held(p, n) \in Int
           /\ Single(Single(n)) = Single(n)
           /\ Held(p, Single(n)) = Single(n)
           /\ Held(p, Held(p, n)) = Held(p, n)
<1>1. SingleDigits \in Nat /\ DoubleDigits \in Nat /\ SingleDigits <= DoubleDigits
      /\ SingleDigits <= SingleDigits /\ DoubleDigits <= DoubleDigits
  BY DigitsAssumption
<1>2. Nearest(n, SingleDigits) \in Int /\ Nearest(n, DoubleDigits) \in Int
  BY <1>1, NearestStays
<1>3. Nearest(Nearest(n, SingleDigits), SingleDigits) = Nearest(n, SingleDigits)
  BY <1>1, NearestStays
<1>4. Nearest(Nearest(n, SingleDigits), DoubleDigits) = Nearest(n, SingleDigits)
  BY <1>1, NearestStays
<1>5. Nearest(Nearest(n, DoubleDigits), DoubleDigits) = Nearest(n, DoubleDigits)
  BY <1>1, NearestStays
<1> QED
  BY <1>2, <1>3, <1>4, <1>5 DEF Single, Held

----------------------------------------------------------------------------
\* Through: what becomes of x, step by step.
Goes(f, x, fs) == \A i \in 0..Len(fs) : f[i] = IF i = 0 THEN x ELSE fs[i][f[i - 1]]

RunsTo(f, x, fs, n) == f = [i \in 0..n |-> IF i = 0 THEN x ELSE fs[i][f[i - 1]]]

\* There is a way through the functions, one after the other.
LEMMA ThroughExists ==
    ASSUME NEW x, NEW fs, NEW n \in Nat
    PROVE  \E f : RunsTo(f, x, fs, n)
<1> DEFINE is(f, m) == RunsTo(f, x, fs, m)
           fails == {m \in Nat : ~ \E f : is(f, m)}
<1>1. SUFFICES ASSUME fails # {} PROVE FALSE
  OBVIOUS
<1>2. PICK m \in fails : \A k \in fails : m <= k
  <2>1. fails \in SUBSET Nat
    OBVIOUS
  <2> HIDE DEF fails
  <2> QED
    BY <1>1, <2>1, Least
<1>3. CASE m = 0
  <2> DEFINE f == [i \in 0..0 |-> x]
  <2>1. f = [i \in 0..0 |-> IF i = 0 THEN x ELSE fs[i][f[i - 1]]]
    <3>1. \A i \in 0..0 : i = 0
      OBVIOUS
    <3> QED
      BY <3>1
  <2>2. is(f, 0)
    BY <2>1 DEF RunsTo
  <2> HIDE DEF f, is
  <2> QED
    BY <1>2, <1>3, <2>2
<1>4. CASE m # 0
  <2>1. m \in Nat /\ m - 1 \in Nat /\ ~(m <= m - 1)
    BY <1>2, <1>4
  <2>2. PICK f : is(f, m - 1)
    <3> HIDE DEF is
    <3> QED
      BY <1>2, <2>1
  <2> DEFINE h == [i \in 0..(m - 1) |-> IF i = 0 THEN x ELSE fs[i][f[i - 1]]]
             g == [i \in 0..m |-> IF i = m THEN fs[m][f[m - 1]] ELSE f[i]]
  <2>3. f = h
    BY <2>2 DEF RunsTo
  <2>4. \A i \in 0..(m - 1) : h[i] = IF i = 0 THEN x ELSE fs[i][f[i - 1]]
    OBVIOUS
  <2>5. \A i \in 0..m : g[i] = IF i = m THEN fs[m][f[m - 1]] ELSE f[i]
    OBVIOUS
  <2>6. g = [i \in 0..m |-> g[i]]
    OBVIOUS
  <2> HIDE DEF g, h, is
  <2>7. \A i \in 0..m : g[i] = IF i = 0 THEN x ELSE fs[i][g[i - 1]]
    <3> TAKE i \in 0..m
    <3>1. CASE i = m
      <4>1. m - 1 \in 0..m /\ m - 1 # m /\ i # 0
        BY <2>1, <3>1
      <4> QED
        BY <2>5, <3>1, <4>1
    <3>2. CASE i # m
      <4>1. i \in 0..(m - 1) /\ (i # 0 => i - 1 \in 0..m /\ i - 1 # m)
        BY <2>1, <3>2
      <4> QED
        BY <2>3, <2>4, <2>5, <3>2, <4>1
    <3> QED
      BY <3>1, <3>2
  <2>8. g = [i \in 0..m |-> IF i = 0 THEN x ELSE fs[i][g[i - 1]]]
    BY <2>6, <2>7
  <2>9. is(g, m)
    BY <2>8 DEF is, RunsTo
  <2> QED
    BY <1>2, <2>9
<1> QED
  BY <1>3, <1>4

\* Through is where that way ends.
LEMMA ThroughIs ==
    ASSUME NEW x, NEW fs, Len(fs) \in Nat
    PROVE  \E f : Goes(f, x, fs) /\ Through(x, fs) = f[Len(fs)]
<1> DEFINE f == CHOOSE f : f = [i \in 0..Len(fs) |-> IF i = 0 THEN x ELSE fs[i][f[i - 1]]]
<1>1. Through(x, fs) = f[Len(fs)]
  BY DEF Through
<1>2. RunsTo(f, x, fs, Len(fs))
  <2>1. \E g : RunsTo(g, x, fs, Len(fs))
    <3>1. Len(fs) \in Nat
      OBVIOUS
    <3> QED
      BY <3>1, ThroughExists
  <2>2. f = CHOOSE g : RunsTo(g, x, fs, Len(fs))
    BY DEF RunsTo
  <2> HIDE DEF f
  <2> QED
    BY <2>1, <2>2
<1> HIDE DEF f
<1> DEFINE h == [i \in 0..Len(fs) |-> IF i = 0 THEN x ELSE fs[i][f[i - 1]]]
<1>3. \A i \in 0..Len(fs) : h[i] = IF i = 0 THEN x ELSE fs[i][f[i - 1]]
  OBVIOUS
<1>4. f = h
  BY <1>2 DEF RunsTo
<1> HIDE DEF h
<1>5. Goes(f, x, fs)
  BY <1>3, <1>4 DEF Goes
<1> QED
  BY <1>1, <1>5

\* What every function keeps is kept.
LEMMA ThroughKeeps ==
    ASSUME NEW X, NEW x \in X, NEW fs, Len(fs) \in Nat,
           \A i \in 1..Len(fs) : \A y \in X : fs[i][y] \in X
    PROVE  Through(x, fs) \in X
<1>1. PICK f : Goes(f, x, fs) /\ Through(x, fs) = f[Len(fs)]
  BY ThroughIs
<1> DEFINE fails == {i \in 0..Len(fs) : f[i] \notin X}
<1>2. SUFFICES ASSUME fails # {} PROVE FALSE
  BY <1>1
<1>3. PICK i \in fails : \A j \in fails : i <= j
  <2>1. fails \in SUBSET Nat
    OBVIOUS
  <2> HIDE DEF fails
  <2> QED
    BY <1>2, <2>1, Least
<1>4. f[i] = IF i = 0 THEN x ELSE fs[i][f[i - 1]]
  BY <1>1, <1>3 DEF Goes
<1>5. i # 0
  BY <1>3, <1>4
<1>6. i \in 1..Len(fs) /\ i - 1 \in 0..Len(fs) /\ ~(i <= i - 1)
  BY <1>3, <1>5
<1>7. f[i - 1] \in X
  BY <1>3, <1>6
<1> QED
  BY <1>3, <1>4, <1>5, <1>6, <1>7

\* Bytes stand for a number.
LEMMA NumberOfFacts ==
    ASSUME NEW bytes \in Seq(Byte), bytes # <<>>
    PROVE  NumberOf(bytes) \in Int
<1> DEFINE fs == [i \in 1..Len(bytes) |-> [n \in Int |-> n * 256 + bytes[i]]]
           x == IF bytes[1] > 127 THEN -1 ELSE 0
<1>1. Len(fs) = Len(bytes) /\ x \in Int
  OBVIOUS
<1>2. ASSUME NEW i \in 1..Len(fs), NEW y \in Int PROVE fs[i][y] \in Int
  <2>1. i \in 1..Len(bytes) /\ bytes[i] \in Int
    <3>1. i \in 1..Len(bytes)
      BY <1>1
    <3> HIDE DEF fs, x
    <3>2. bytes[i] \in Byte
      BY <3>1
    <3>3. bytes[i] \in Int
      BY <3>2, ByteFacts
    <3> QED
      BY <3>1, <3>3
  <2>2. fs[i] = [n \in Int |-> n * 256 + bytes[i]]
    BY <2>1
  <2> HIDE DEF fs
  <2>3. fs[i][y] = y * 256 + bytes[i]
    BY <2>2
  <2> QED
    BY <2>1, <2>3
<1>3. NumberOf(bytes) = Through(x, fs)
  BY DEF NumberOf
<1> HIDE DEF fs, x
<1>4. Len(fs) \in Nat
  BY <1>1
<1> QED
  BY <1>1, <1>2, <1>3, <1>4, ThroughKeeps

----------------------------------------------------------------------------
\* Values and how deep they are nested.

\* Values nest within those that are nested deeper.
LEMMA NestedNext == ASSUME NEW d \in Nat PROVE Nested[d] \subseteq Nested[d + 1]
BY NestedAt DEF Around

\* A scalar is a value at every depth.
LEMMA UnnestedIn == \A d \in Nat : Unnested \subseteq Nested[d]
<1> DEFINE fails == {d \in Nat : ~(Unnested \subseteq Nested[d])}
<1>1. SUFFICES ASSUME fails # {} PROVE FALSE
  OBVIOUS
<1>2. PICK d \in fails : \A e \in fails : d <= e
  <2>1. fails \in SUBSET Nat
    OBVIOUS
  <2> HIDE DEF fails
  <2> QED
    BY <1>1, <2>1, Least
<1>3. d # 0
  BY <1>2, NestedAt
<1>4. d - 1 \in Nat /\ (d - 1) + 1 = d /\ ~(d <= d - 1)
  BY <1>2, <1>3
<1>5. Unnested \subseteq Nested[d - 1]
  BY <1>2, <1>4
<1>6. Nested[d - 1] \subseteq Nested[d]
  BY <1>4, NestedNext
<1> QED
  BY <1>2, <1>5, <1>6

\* What is nested to a depth is nested to any greater one.
LEMMA NestedUp == \A d \in Nat : \A e \in Nat : d <= e => Nested[d] \subseteq Nested[e]
<1> TAKE d \in Nat
<1> DEFINE fails == {e \in Nat : d <= e /\ ~(Nested[d] \subseteq Nested[e])}
<1>1. SUFFICES ASSUME fails # {} PROVE FALSE
  OBVIOUS
<1>2. PICK e \in fails : \A f \in fails : e <= f
  <2>1. fails \in SUBSET Nat
    OBVIOUS
  <2> HIDE DEF fails
  <2> QED
    BY <1>1, <2>1, Least
<1>3. e # d
  BY <1>2
<1>4. e - 1 \in Nat /\ (e - 1) + 1 = e /\ ~(e <= e - 1) /\ d <= e - 1
  BY <1>2, <1>3
<1>5. Nested[d] \subseteq Nested[e - 1]
  BY <1>2, <1>4
<1>6. Nested[e - 1] \subseteq Nested[e]
  BY <1>4, NestedNext
<1> QED
  BY <1>2, <1>5, <1>6

\* More to choose from makes more sequences, entries, lists and maps.
LEMMA SeqUp == ASSUME NEW S, NEW T, S \subseteq T PROVE Seq(S) \subseteq Seq(T)
OBVIOUS

LEMMA EntriesUp == ASSUME NEW S, NEW T, S \subseteq T PROVE Entries(S) \subseteq Entries(T)
BY DEF Entries

LEMMA AroundUp == ASSUME NEW S, NEW T, S \subseteq T PROVE Lists(S) \subseteq Lists(T) /\ Maps(S) \subseteq Maps(T)
<1>1. Seq(S) \subseteq Seq(T)
  BY SeqUp
<1>2. Seq(Entries(S)) \subseteq Seq(Entries(T))
  BY EntriesUp, SeqUp
<1>3. Lists(S) \subseteq Lists(T)
  BY <1>1 DEF Lists
<1>4. Maps(S) \subseteq Maps(T)
  <2> DEFINE A == Seq(Entries(S))
             B == Seq(Entries(T))
  <2>1. A \subseteq B
    BY <1>2
  <2> HIDE DEF A, B
  <2>2. [is : {"map"}, n : {0}, t : {""}, items : A] \subseteq [is : {"map"}, n : {0}, t : {""}, items : B]
    BY <2>1
  <2> QED
    BY <2>2 DEF A, B, Maps
<1> QED
  BY <1>3, <1>4

\* A value is unnested, or has what it holds one level down.
LEMMA NestedCases ==
    ASSUME NEW d \in Nat, NEW v \in Nested[d]
    PROVE  \/ v \in Unnested
           \/ d - 1 \in Nat /\ v \in Lists(Nested[d - 1])
           \/ d - 1 \in Nat /\ v \in Maps(Nested[d - 1])
<1> DEFINE fails == {e \in Nat : v \in Nested[e]}
<1>1. PICK e \in fails : \A f \in fails : e <= f
  <2>1. fails \in SUBSET Nat /\ fails # {}
    OBVIOUS
  <2> HIDE DEF fails
  <2> QED
    BY <2>1, Least
<1>2. CASE e = 0
  BY <1>1, <1>2, NestedAt
<1>3. CASE e # 0
  <2>1. e - 1 \in Nat /\ (e - 1) + 1 = e /\ ~(e <= e - 1)
    BY <1>1, <1>3
  <2>2. v \notin Nested[e - 1]
    BY <1>1, <2>1
  <2>3. v \in Around(Nested[e - 1])
    BY <1>1, <2>1, NestedAt
  <2>4. v \in Lists(Nested[e - 1]) \/ v \in Maps(Nested[e - 1])
    BY <2>2, <2>3 DEF Around
  <2>5. e <= d
    BY <1>1
  <2>6. d - 1 \in Nat /\ e - 1 <= d - 1
    BY <1>1, <2>1, <2>5
  <2>7. Nested[e - 1] \subseteq Nested[d - 1]
    BY <2>1, <2>6, NestedUp
  <2>8. Lists(Nested[e - 1]) \subseteq Lists(Nested[d - 1]) /\ Maps(Nested[e - 1]) \subseteq Maps(Nested[d - 1])
    BY <2>7, AroundUp
  <2> QED
    BY <2>4, <2>6, <2>8
<1> QED
  BY <1>2, <1>3

\* What a boolean is.
LEMMA BoolFacts ==
    ASSUME NEW b \in BOOLEAN
    PROVE  /\ Bool(b).is = "bool" /\ Bool(b).n \in {0, 1} /\ Bool(b).items = <<>>
           /\ Bool(b) \in Booleans
<1>1. CASE b = TRUE
  BY <1>1 DEF Bool, Value, Booleans
<1>2. CASE b = FALSE
  BY <1>2 DEF Bool, Value, Booleans
<1> QED
  BY <1>1, <1>2

ScalarKinds == NumberKinds \cup {"null", "bool", "text"}

\* The parts of a value.
LEMMA UnnestedFacts ==
    ASSUME NEW v \in Unnested
    PROVE  /\ v.is \in ScalarKinds \cup {"array"}
           /\ v.n \in Int
           /\ v.is = "text" => v.t \in TextNames
           /\ v.is = "array" => v.items \in Seq(Numbers \cup Booleans)
           /\ v.is # "array" => v.items = <<>>
<1>1. CASE v = Null
  <2>1. v.is = "null" /\ v.n = 0 /\ v.items = <<>>
    BY <1>1 DEF Null, Value
  <2> QED
    BY <2>1 DEF ScalarKinds
<1>2. CASE v \in Booleans
  <2>1. v.is = "bool" /\ v.n \in Int /\ v.items = <<>>
    <3>1. v = Bool(TRUE) \/ v = Bool(FALSE)
      BY <1>2 DEF Booleans
    <3>2. \A b \in BOOLEAN : Bool(b).is = "bool" /\ Bool(b).n \in Int /\ Bool(b).items = <<>>
      BY BoolFacts
    <3> QED
      BY <3>1, <3>2
  <2> QED
    BY <2>1 DEF ScalarKinds
<1>3. CASE v \in Numbers
  BY <1>3 DEF Numbers, NumberKinds, WholeKinds, ScalarKinds
<1>4. CASE v \in TextValues
  BY <1>4 DEF TextValues, ScalarKinds
<1>5. CASE v \in Arrays
  <2> DEFINE I == Seq(Numbers \cup Booleans)
             K == NumberKinds \cup {"boolean"}
  <2>1. v \in [is : {"array"}, n : {0}, t : K, items : I]
    BY <1>5 DEF Arrays
  <2> HIDE DEF I, K
  <2>2. v.is = "array" /\ v.n = 0 /\ v.items \in I
    BY <2>1
  <2> QED
    BY <2>2 DEF I
<1> QED
  BY <1>1, <1>2, <1>3, <1>4, <1>5 DEF Unnested

\* What a list is.
LEMMA ListFacts ==
    ASSUME NEW S, NEW v \in Lists(S) PROVE v.is = "list" /\ v.n = 0 /\ v.items \in Seq(S)
<1> DEFINE I == Seq(S)
<1>1. v \in [is : {"list"}, n : {0}, t : {""}, items : I]
  BY DEF Lists
<1> HIDE DEF I
<1>2. v.is = "list" /\ v.n = 0 /\ v.items \in I
  BY <1>1
<1> QED
  BY <1>2 DEF I

\* What a map is.
LEMMA MapFacts ==
    ASSUME NEW S, NEW v \in Maps(S) PROVE v.is = "map" /\ v.n = 0 /\ v.items \in Seq(Entries(S))
<1> DEFINE I == Seq(Entries(S))
<1>1. v \in [is : {"map"}, n : {0}, t : {""}, items : I]
  BY DEF Maps
<1> HIDE DEF I
<1>2. v.is = "map" /\ v.n = 0 /\ v.items \in I
  BY <1>1
<1> QED
  BY <1>2 DEF I

\* What a value of any depth is.
LEMMA ValueFacts ==
    ASSUME NEW d \in Nat, NEW v \in Nested[d]
    PROVE  /\ v.is \in ScalarKinds \cup {"array", "list", "map"}
           /\ v.n \in Int
           /\ v.is = "text" => v.t \in TextNames
           /\ v.is = "array" => v.items \in Seq(Numbers \cup Booleans)
           /\ v.is = "list" => d - 1 \in Nat /\ v.items \in Seq(Nested[d - 1])
           /\ v.is = "map" => d - 1 \in Nat /\ v.items \in Seq(Entries(Nested[d - 1]))
           /\ v.is \notin {"array", "list", "map"} => v.items = <<>>
<1>1. CASE v \in Unnested
  BY <1>1, UnnestedFacts DEF ScalarKinds, NumberKinds, WholeKinds
<1>2. CASE d - 1 \in Nat /\ v \in Lists(Nested[d - 1])
  BY <1>2, ListFacts DEF ScalarKinds, NumberKinds, WholeKinds
<1>3. CASE d - 1 \in Nat /\ v \in Maps(Nested[d - 1])
  BY <1>3, MapFacts DEF ScalarKinds, NumberKinds, WholeKinds
<1> QED
  BY <1>1, <1>2, <1>3, NestedCases

\* What an entry of a map is.
LEMMA EntryFacts ==
    ASSUME NEW S, NEW e \in Entries(S)
    PROVE  e.is = "entry" /\ e.t \in TextNames \cup {NoKey} /\ e.items[1] \in S
<1> DEFINE I == [{1} -> S]
           K == TextNames \cup {NoKey}
<1>1. e \in [is : {"entry"}, n : {0}, t : K, items : I]
  BY DEF Entries
<1> HIDE DEF I, K
<1>2. e.is = "entry" /\ e.items \in I /\ e.t \in K
  BY <1>1
<1>3. e.items[1] \in S
  BY <1>2 DEF I
<1> QED
  BY <1>2, <1>3 DEF K

----------------------------------------------------------------------------
\* What a value holds, and what it is converted to.

\* What a value holds, as deep as it is nested.
LEMMA HeldFacts ==
    ASSUME NEW d \in Nat, NEW v \in Nested[d]
    PROVE  /\ Len(v.items) \in Nat
           /\ v.items # <<>> => Len(v.items) >= 1
           /\ v.items = <<>> => Len(v.items) = 0
           /\ v.is = "list" => d - 1 \in Nat /\ \A i \in 1..Len(v.items) : v.items[i] \in Nested[d - 1]
           /\ v.is = "array" => \A i \in 1..Len(v.items) : v.items[i] \in Numbers \cup Booleans
           /\ v.is = "map" => d - 1 \in Nat /\ \A i \in 1..Len(v.items) : v.items[i] \in Entries(Nested[d - 1])
<1>1. CASE v.is = "list"
  <2>1. d - 1 \in Nat /\ v.items \in Seq(Nested[d - 1])
    BY <1>1, ValueFacts
  <2> QED
    BY <1>1, <2>1
<1>2. CASE v.is = "array"
  <2>1. v.items \in Seq(Numbers \cup Booleans)
    BY <1>2, ValueFacts
  <2> QED
    BY <1>2, <2>1
<1>3. CASE v.is = "map"
  <2>1. d - 1 \in Nat /\ v.items \in Seq(Entries(Nested[d - 1]))
    BY <1>3, ValueFacts
  <2> QED
    BY <1>3, <2>1
<1>4. CASE v.is \notin {"array", "list", "map"}
  <2>1. v.items = <<>>
    BY <1>4, ValueFacts
  <2> QED
    BY <1>4, <2>1
<1> QED
  BY <1>1, <1>2, <1>3, <1>4

\* What a reading returns of a scalar is a value.
LEMMA ScalarsUnnested ==
    /\ Null \in Unnested
    /\ \A b \in BOOLEAN : Bool(b) \in Unnested
    /\ \A kind \in NumberKinds : \A n \in Int : Number(kind, n) \in Unnested
    /\ \A t \in TextNames : Text(t) \in Unnested
    /\ Numbers \cup Booleans \subseteq Unnested
<1>1. \A b \in BOOLEAN : Bool(b) \in Unnested
  BY BoolFacts DEF Unnested
<1>2. \A kind \in NumberKinds : \A n \in Int : Number(kind, n) \in Numbers
  BY DEF Number, Value, Numbers
<1>3. \A t \in TextNames : Text(t) \in TextValues
  BY DEF Text, Value, TextValues
<1> QED
  BY <1>1, <1>2, <1>3 DEF Unnested

\* Lists, maps and entries of values are values.
LEMMA Built ==
    ASSUME NEW S
    PROVE  /\ \A items \in Seq(S) : List(items) \in Lists(S)
           /\ \A entries \in Seq(Entries(S)) : Map(entries) \in Maps(S)
           /\ \A t \in TextNames \cup {NoKey} : \A v \in S : Entry(t, v) \in Entries(S)
<1>1. \A items \in Seq(S) : List(items) \in Lists(S)
  <2> DEFINE I == Seq(S)
  <2> HIDE DEF I
  <2>1. \A items \in I : List(items) \in [is : {"list"}, n : {0}, t : {""}, items : I]
    BY DEF List, Value
  <2> QED
    BY <2>1 DEF Lists, I
<1>2. \A entries \in Seq(Entries(S)) : Map(entries) \in Maps(S)
  <2> DEFINE I == Seq(Entries(S))
  <2> HIDE DEF I
  <2>1. \A entries \in I : Map(entries) \in [is : {"map"}, n : {0}, t : {""}, items : I]
    BY DEF Map, Value
  <2> QED
    BY <2>1 DEF Maps, I
<1>3. \A t \in TextNames \cup {NoKey} : \A v \in S : Entry(t, v) \in Entries(S)
  <2> DEFINE K == TextNames \cup {NoKey}
             I == [{1} -> S]
  <2>1. \A v \in S : <<v>> \in I
    OBVIOUS
  <2> HIDE DEF K, I
  <2>2. \A t \in K : \A v \in S : Entry(t, v) \in [is : {"entry"}, n : {0}, t : K, items : I]
    BY <2>1 DEF Entry, Value
  <2> QED
    BY <2>2 DEF Entries, I, K
<1> QED
  BY <1>1, <1>2, <1>3

\* An array of numbers or booleans is a value.
LEMMA ArrayBuilt ==
    \A items \in Seq(Numbers \cup Booleans) : \A kind \in NumberKinds \cup {"boolean"} :
        Array(kind, items) \in Unnested
<1> DEFINE I == Seq(Numbers \cup Booleans)
           K == NumberKinds \cup {"boolean"}
<1> HIDE DEF I, K
<1>1. \A items \in I : \A kind \in K :
          Array(kind, items) \in [is : {"array"}, n : {0}, t : K, items : I]
  BY DEF Array, Value
<1>2. \A items \in I : \A kind \in K : Array(kind, items) \in Arrays
  BY <1>1 DEF Arrays, I, K
<1> QED
  BY <1>2 DEF Unnested, I, K

\* A list or a map is nested once more than what it holds.
LEMMA AroundIn ==
    ASSUME NEW d \in Nat
    PROVE  Lists(Nested[d]) \subseteq Nested[d + 1] /\ Maps(Nested[d]) \subseteq Nested[d + 1]
BY NestedAt DEF Around

----------------------------------------------------------------------------
\* Texts and numbers.
LEMMA NamesAreTexts ==
    {"", "null", "true", "false", "None", "True", "False", "garbled", ":type"} \subseteq TextNames
BY TextAssumption

\* The bytes of a text.
LEMMA TextBytesFacts ==
    ASSUME NEW t \in TextNames
    PROVE  TextBytes(t) \in Seq(Byte) /\ Len(TextBytes(t)) \in Nat
<1>1. PICK x \in Texts : x.t = t
  BY DEF TextNames
<1> DEFINE y == TextNamed(t)
<1>2. y \in Texts
  BY <1>1 DEF TextNamed
<1> HIDE DEF y
<1> DEFINE S == Seq(Byte)
<1>3. y \in [t : STRING, bytes : S, letters : Nat, units : Nat, blank : SUBSET Platforms]
  BY <1>2, TextAssumption
<1> HIDE DEF S
<1>4. y.bytes \in S
  BY <1>3
<1>5. TextBytes(t) \in Seq(Byte)
  BY <1>4 DEF TextBytes, y, S
<1> QED
  BY <1>5

\* Bytes read as a text are one.
LEMMA TextOfFacts == ASSUME NEW bytes PROVE TextOf(bytes) \in TextNames
<1>1. CASE \E x \in Texts : x.bytes = bytes
  <2> DEFINE y == CHOOSE x \in Texts : x.bytes = bytes
  <2>1. y \in Texts
    BY <1>1
  <2>2. TextOf(bytes) = y.t
    BY <1>1 DEF TextOf
  <2> HIDE DEF y
  <2> QED
    BY <2>1, <2>2 DEF TextNames
<1>2. CASE ~ \E x \in Texts : x.bytes = bytes
  <2>1. TextOf(bytes) = "garbled"
    BY <1>2 DEF TextOf
  <2> QED
    BY <2>1, NamesAreTexts
<1> QED
  BY <1>1, <1>2

\* What a value is converted to is a text.
LEMMA ToTextFacts ==
    ASSUME NEW p, NEW v, v.is = "text" => v.t \in TextNames
    PROVE  ToText(p, v) \in TextNames
<1> DEFINE texts == {t \in DOMAIN Spells :
                        /\ v.is \in NumberKinds /\ Spells[t].n = v.n
                        /\ v.is = "float" <=> Spells[t].is = "float"}
           number == IF texts = {} THEN "garbled" ELSE CHOOSE t \in texts : TRUE
<1>1. number \in TextNames
  <2>1. texts \subseteq TextNames
    BY SpellsAssumption
  <2> HIDE DEF texts
  <2> QED
    BY <2>1, NamesAreTexts
<1>2. ToText(p, v) =
         IF v.is = "text" THEN v.t
         ELSE IF v.is = "null" THEN IF p = "python" THEN "None" ELSE "null"
         ELSE IF v.is = "bool"
              THEN IF p = "python" THEN IF v.n = 1 THEN "True" ELSE "False"
                                   ELSE IF v.n = 1 THEN "true" ELSE "false"
         ELSE number
  BY DEF ToText
<1> HIDE DEF number
<1> QED
  BY <1>1, <1>2, NamesAreTexts

\* What a text spells is a number.
LEMMA SpellsFacts == \A t \in DOMAIN Spells : Spells[t].n \in Int /\ Spells[t].is \in NumberKinds
BY SpellsAssumption DEF Numbers

\* A value converted to a whole number is one.
LEMMA WholeFacts ==
    ASSUME NEW p, NEW v, v.n \in Int
    PROVE  \A n \in Whole(p, v) : n \in Int
<1>1. \A n \in PyWhole(v) : n \in Int
  <2>1. CASE v.is = "float"
    <3>1. (IF v.n < 0 THEN -((-v.n) \div 2) ELSE v.n \div 2) \in Int
      OBVIOUS
    <3> QED
      BY <2>1, <3>1 DEF PyWhole
  <2>2. CASE v.is # "float"
    BY <2>2, SpellsFacts DEF PyWhole
  <2> QED
    BY <2>1, <2>2
<1>2. \A n \in KtWhole(v) : n \in Int
  BY SpellsFacts DEF KtWhole
<1> QED
  BY <1>1, <1>2 DEF Whole

\* How much a value is, if it is a number or spells one.
LEMMA AmountFacts ==
    ASSUME NEW p, NEW v, v.n \in Int
    PROVE  \A n \in Amount(p, v) : n \in Int
<1>1. \A n \in Whole(p, v) : 2 * n \in Int
  BY WholeFacts
<1> QED
  BY <1>1, SpellsFacts DEF Amount

LEMMA AmountOfNumber ==
    ASSUME NEW p, NEW v, v.is \in NumberKinds
    PROVE  Amount(p, v) = {IF v.is = "float" THEN v.n ELSE 2 * v.n}
<1>1. CASE v.is = "float"
  BY <1>1 DEF Amount
<1>2. CASE v.is # "float"
  <2>1. v.is \in WholeKinds /\ v.is # "text" /\ v.is # "bool"
    BY <1>2 DEF NumberKinds, WholeKinds
  <2>2. Whole(p, v) = {v.n}
    BY <1>2, <2>1 DEF Whole, PyWhole, KtWhole
  <2>3. Amount(p, v) = {2 * n : n \in {v.n}}
    BY <1>2, <2>1, <2>2 DEF Amount
  <2> QED
    BY <1>2, <2>3
<1> QED
  BY <1>1, <1>2

LEMMA AmountOfText ==
    ASSUME NEW p, NEW v, v.is = "text", v.t \in DOMAIN Spells
    PROVE  Amount(p, v) = {IF Spells[v.t].is = "float" THEN Spells[v.t].n ELSE 2 * Spells[v.t].n}
<1>1. Spells[v.t].is \in {"int", "float"}
  BY SpellsAssumption
<1>2. CASE Spells[v.t].is = "float"
  BY <1>2 DEF Amount
<1>3. CASE Spells[v.t].is = "int"
  <2> DEFINE spelled == {Spells[u].n : u \in {w \in {v.t} \cap DOMAIN Spells : v.is = "text" /\ Spells[w].is = "int"}}
  <2>1. spelled = {Spells[v.t].n}
    BY <1>3
  <2>2. PyWhole(v) = spelled /\ KtWhole(v) = spelled
    BY DEF PyWhole, KtWhole, WholeKinds
  <2> HIDE DEF spelled
  <2>3. Whole(p, v) = {Spells[v.t].n}
    BY <2>1, <2>2 DEF Whole
  <2>4. Amount(p, v) = {2 * n : n \in {Spells[v.t].n}}
    BY <1>3, <2>3 DEF Amount
  <2> QED
    BY <1>3, <2>4
<1> QED
  BY <1>1, <1>2, <1>3

\* A value converted to a floating point number is one, in halves.
LEMMA HalvesFacts ==
    ASSUME NEW p, NEW v, v.n \in Int
    PROVE  \A h \in Halves(p, v) : h \in Int
<1>1. \A n \in Amount(p, v) : Held(p, n) \in Int
  BY AmountFacts, RoundedFloats
<1> QED
  BY <1>1 DEF Halves

\* What is put as a float are the bytes of a number.
LEMMA PutFloatFacts ==
    ASSUME NEW h \in Int
    PROVE  \E n \in Int : PutFloat(h) = NumberBytes(n, WidthOf("float"))
<1> DEFINE w == WidthOf("float")
<1>1. w \in 1..8
  BY WidthAssumption DEF WidthOf
<1>2. w - 1 \in Nat
  BY <1>1
<1>3. Weight[w - 1] \in Nat
  BY <1>2, WeightPositive
<1> HIDE DEF w
<1>4. Single(h) \in Int
  BY RoundedFloats
<1>5. Clipped(Single(h), w) \in Int
  BY <1>3, <1>4 DEF Clipped
<1> QED
  BY <1>5 DEF PutFloat, w

----------------------------------------------------------------------------
\* The schema, and the types derived from values.

\* The first of some positions.
LEMMA FirstFacts ==
    ASSUME NEW I, I \subseteq Nat, I # {}
    PROVE  Min(I) \in I /\ \A i \in I : Min(I) <= i
<1>1. \E i \in I : \A j \in I : i <= j
  BY Least
<1>2. Min(I) = CHOOSE i \in I : \A j \in I : i <= j
  BY DEF Min
<1> QED
  BY <1>1, <1>2

Declaration ==
    [is : {"class", "enum", "union"}, name : STRING, fields : Seq(FieldDecl), values : Seq(STRING)]

DeclaredNames == UNION {Declared(is) : is \in {"class", "enum", "union"}}

\* A name that is declared is found.
LEMMA DeclarationIsRecord ==
    ASSUME NEW d \in Declaration
    PROVE  /\ d.is \in {"class", "enum", "union"}
           /\ d.fields \in Seq(FieldDecl)
           /\ d.values \in Seq(STRING)
<1> DEFINE F == Seq(FieldDecl)
           V == Seq(STRING)
<1>1. d \in [is : {"class", "enum", "union"}, name : STRING, fields : F, values : V]
  BY DEF Declaration
<1> HIDE DEF F, V
<1>2. d.is \in {"class", "enum", "union"} /\ d.fields \in F /\ d.values \in V
  BY <1>1
<1> QED
  BY <1>2 DEF F, V

\* A schema is a sequence of declarations.
LEMMA DeclarationsTyped == Declarations \in Seq(Declaration) /\ Len(Declarations) \in Nat
<1>1. Declarations \in Seq(Declaration)
  BY DeclarationsAssumption DEF Declaration
<1> QED
  BY <1>1

\* A name that is declared resolves to its declaration.
LEMMA Resolved ==
    ASSUME NEW name \in DeclaredNames
    PROVE  \E i \in 1..Len(Declarations) : Declarations[i] = Resolve(name)
<1> DEFINE I == {i \in 1..Len(Declarations) : Declarations[i].name = name}
<1>1. PICK i \in DOMAIN Declarations : Declarations[i].name = name
  BY DEF DeclaredNames, Declared
<1>2. i \in 1..Len(Declarations)
  BY DeclarationsTyped
<1>3. I \subseteq Nat /\ I # {}
  BY <1>1, <1>2
<1>4. Resolve(name) = Declarations[Min(I)]
  BY <1>3 DEF Resolve, SelectInSeq
<1>5. Min(I) \in I
  <2> HIDE DEF I
  <2> QED
    BY <1>3, FirstFacts
<1> QED
  BY <1>4, <1>5

\* What a declaration holds.
LEMMA ResolveFacts ==
    ASSUME NEW name \in DeclaredNames
    PROVE  /\ Resolve(name) \in Declaration
           /\ Resolve(name).is = "union" =>
                 \A k \in 1..Len(Resolve(name).values) :
                     /\ Resolve(name).values[k] \in DeclaredNames
                     /\ Resolve(Resolve(name).values[k]).is = "class"
<1>1. PICK i \in 1..Len(Declarations) : Declarations[i] = Resolve(name)
  BY Resolved
<1> DEFINE d == Declarations[i]
<1>2. d \in Declaration
  BY DeclarationsTyped
<1>3. d.is = "union" => \A k \in 1..Len(d.values) :
                            d.values[k] \in Declared("class") /\ Resolve(d.values[k]).is = "class"
  BY DeclarationsAssumption
<1>4. Declared("class") \subseteq DeclaredNames
  BY DEF DeclaredNames
<1> HIDE DEF d
<1>5. Resolve(name) = d
  BY <1>1 DEF d
<1> QED
  BY <1>2, <1>3, <1>4, <1>5

\* What a field of a class holds.
LEMMA FieldFacts ==
    ASSUME NEW d \in Declaration, NEW k \in 1..Len(d.fields)
    PROVE  /\ d.fields[k].type \in FieldTypes
           /\ d.fields[k].name \in TextNames
           /\ d.fields[k].default # <<>> => d.fields[k].default[1] \in ValueSet
<1>1. d.fields[k] \in FieldDecl
  BY DeclarationIsRecord
<1> DEFINE f == d.fields[k]
           D == {<<>>} \cup [{1} -> ValueSet]
           R == SUBSET [name : STRING, values : Seq(Int)]
           N == TextNames \ {":type"}
<1>2. f \in [name : N, type : FieldTypes, default : D, rules : R]
  BY <1>1 DEF FieldDecl
<1> HIDE DEF f, D, R, N
<1>3. f.type \in FieldTypes /\ f.name \in N /\ f.default \in D
  BY <1>2
<1>4. f.name \in TextNames
  BY <1>3 DEF N
<1>5. f.default # <<>> => f.default[1] \in ValueSet
  BY <1>3 DEF D
<1> QED
  BY <1>3, <1>4, <1>5 DEF f

----------------------------------------------------------------------------
\* The kinds of types, and the types inside others.
TypeKinds == NumberKinds \cup {"boolean", "string", "map", "null", "unknown", "array", "option", "ref"}

\* What a datatype is.
LEMMA DataTypesAre ==
    ASSUME NEW T \in DataTypes
    PROVE  /\ T.is \in NumberKinds \cup {"boolean", "string", "map", "ref"}
           /\ T.is = "ref" => T.name \in DeclaredNames
<1>1. CASE T \in {Scalar(is) : is \in NumberKinds \cup {"boolean", "string", "map"}}
  <2>1. PICK is \in NumberKinds \cup {"boolean", "string", "map"} : T = Scalar(is)
    BY <1>1
  <2>2. T.is = is
    BY <2>1 DEF Scalar
  <2>3. is # "ref"
    BY DEF NumberKinds, WholeKinds
  <2> QED
    BY <2>2, <2>3
<1>2. CASE T \in {RefTo(name) : name \in DeclaredNames}
  BY <1>2 DEF RefTo
<1> QED
  BY <1>1, <1>2 DEF DataTypes, DeclaredNames

\* A field is of a datatype, an array of one, or an option of either.
LEMMA FieldTypesAre ==
    ASSUME NEW T \in FieldTypes
    PROVE  \/ T \in DataTypes
           \/ T.is = "array" /\ T.of[1] \in DataTypes
           \/ T.is = "option" /\ T.of[1] \in DataTypes \cup {ArrayOf(D) : D \in DataTypes}
<1>1. \A D : ArrayOf(D).is = "array" /\ ArrayOf(D).of[1] = D
  BY DEF ArrayOf
<1>2. \A D : OptionOf(D).is = "option" /\ OptionOf(D).of[1] = D
  BY DEF OptionOf
<1> QED
  BY <1>1, <1>2 DEF FieldTypes

\* What the type of a field is.
LEMMA FieldTypeFacts ==
    ASSUME NEW T \in FieldTypes
    PROVE  /\ T.is \in TypeKinds \ {"null", "unknown"}
           /\ T.is = "ref" => T.name \in DeclaredNames
           /\ T.is \in {"array", "option"} => T.of[1] \in FieldTypes
<1>1. DataTypes \cup {ArrayOf(D) : D \in DataTypes} \subseteq FieldTypes
  BY DEF FieldTypes
<1>2. CASE T \in DataTypes
  BY <1>2, DataTypesAre DEF TypeKinds, NumberKinds, WholeKinds
<1>3. CASE T.is = "array" /\ T.of[1] \in DataTypes
  BY <1>1, <1>3 DEF TypeKinds
<1>4. CASE T.is = "option" /\ T.of[1] \in DataTypes \cup {ArrayOf(D) : D \in DataTypes}
  BY <1>1, <1>4 DEF TypeKinds
<1> QED
  BY <1>2, <1>3, <1>4, FieldTypesAre

\* The types that are derived from values, as deep as those are nested.
LEMMA ScalarValTypesIn == \A d \in Nat : ScalarValTypes \subseteq valTypes[d]
<1> TAKE d \in Nat
<1>1. CASE d = 0
  BY <1>1, ValTypesAt
<1>2. CASE d # 0
  <2>1. d - 1 \in Nat /\ (d - 1) + 1 = d
    BY <1>2
  <2>2. valTypes[d] = WithLists(valTypes[d - 1])
    BY <2>1, ValTypesAt
  <2> QED
    BY <2>2 DEF WithLists
<1> QED
  BY <1>1, <1>2

\* A type that is derived at a depth is one at the next.
LEMMA ValTypesNext == \A d \in Nat : valTypes[d] \subseteq valTypes[d + 1]
<1> DEFINE fails == {d \in Nat : ~(valTypes[d] \subseteq valTypes[d + 1])}
<1>1. SUFFICES ASSUME fails # {} PROVE FALSE
  OBVIOUS
<1>2. PICK d \in fails : \A e \in fails : d <= e
  <2>1. fails \in SUBSET Nat
    OBVIOUS
  <2> HIDE DEF fails
  <2> QED
    BY <1>1, <2>1, Least
<1>3. d # 0
  <2>1. 0 + 1 \in Nat /\ 0 + 1 = 1 /\ 1 \in Nat
    OBVIOUS
  <2> QED
    BY <1>2, <2>1, ValTypesAt, ScalarValTypesIn
<1>4. d - 1 \in Nat /\ (d - 1) + 1 = d /\ ~(d <= d - 1)
  BY <1>2, <1>3
<1>5. valTypes[d - 1] \subseteq valTypes[d]
  BY <1>2, <1>4
<1>6. valTypes[d] = WithLists(valTypes[d - 1]) /\ valTypes[d + 1] = WithLists(valTypes[d])
  <2>1. d \in Nat
    BY <1>2
  <2> QED
    BY <1>4, <2>1, ValTypesAt
<1>7. WithLists(valTypes[d - 1]) \subseteq WithLists(valTypes[d])
  BY <1>5 DEF WithLists
<1> QED
  BY <1>2, <1>6, <1>7

\* What a type that is derived from a value is.
LEMMA ValTypeFacts ==
    ASSUME NEW d \in Nat, NEW T \in valTypes[d]
    PROVE  /\ T.is \in TypeKinds \ {"ref", "option"}
           /\ T.is = "array" => T.of[1] \in valTypes[d]
<1>1. \A D : ArrayOf(D).is = "array" /\ ArrayOf(D).of[1] = D
  BY DEF ArrayOf
<1>2. CASE T \in ScalarValTypes
  <2>1. PICK is \in NumberKinds \cup {"boolean", "string", "map", "null", "unknown"} : T = Scalar(is)
    BY <1>2 DEF ScalarValTypes
  <2>2. T.is = is
    BY <2>1 DEF Scalar
  <2>3. is \notin {"ref", "option", "array"}
    BY DEF NumberKinds, WholeKinds
  <2> QED
    BY <2>2, <2>3 DEF TypeKinds
<1>3. CASE T \notin ScalarValTypes
  <2>1. d # 0
    BY <1>3, ValTypesAt
  <2>2. d - 1 \in Nat /\ (d - 1) + 1 = d
    BY <2>1
  <2>3. valTypes[d] = WithLists(valTypes[d - 1])
    BY <2>2, ValTypesAt
  <2>4. PICK D \in valTypes[d - 1] : T = ArrayOf(D)
    BY <1>3, <2>3 DEF WithLists
  <2>5. D \in valTypes[d]
    BY <2>2, ValTypesNext
  <2> QED
    BY <1>1, <2>4, <2>5 DEF TypeKinds
<1> QED
  BY <1>2, <1>3

\* What a type is, of a field or derived.
LEMMA TypeFacts ==
    ASSUME NEW T \in Types
    PROVE  /\ T.is \in TypeKinds
           /\ T.is = "ref" => T.name \in DeclaredNames
           /\ T.is \in {"array", "option"} => T.of[1] \in Types
<1>1. CASE T \in FieldTypes
  BY <1>1, FieldTypeFacts DEF Types
<1>2. CASE T \in valTypes[MaxNesting]
  <2>1. /\ T.is \in TypeKinds \ {"ref", "option"}
        /\ T.is = "array" => T.of[1] \in valTypes[MaxNesting]
    BY <1>2, ValTypeFacts, NestingAssumption
  <2> QED
    BY <2>1 DEF Types
<1> QED
  BY <1>1, <1>2 DEF Types

----------------------------------------------------------------------------
\* The type of a value in a map.
LEMMA KindFacts ==
    ASSUME NEW d \in Nat, NEW v \in Nested[d], v.is # "list", NEW p \in Platforms
    PROVE  Scalar(KindOf(p, v)) \in ScalarValTypes
<1>1. v.is \in ScalarKinds \cup {"array", "map"}
  BY ValueFacts
<1>2. KindOf(p, v) \in NumberKinds \cup {"boolean", "string", "map", "null", "unknown"}
  <2>1. PyKind(v) \in NumberKinds \cup {"boolean", "string", "map", "null", "unknown"}
    BY <1>1 DEF PyKind, ScalarKinds, NumberKinds, WholeKinds
  <2>2. KtKind(v) \in NumberKinds \cup {"boolean", "string", "map", "null", "unknown"}
    BY <1>1 DEF KtKind, ScalarKinds, NumberKinds, WholeKinds
  <2> QED
    BY <2>1, <2>2 DEF KindOf
<1> QED
  BY <1>2 DEF ScalarValTypes

\* The first item of a list is nested once less.
LEMMA FirstItemFacts ==
    ASSUME NEW d \in Nat, NEW v \in Nested[d + 1], v.is = "list", NEW p
    PROVE  FirstItem(p, v) \in Nested[d]
<1>1. (d + 1) - 1 = d /\ d + 1 \in Nat
  OBVIOUS
<1>2. \A i \in 1..Len(v.items) : v.items[i] \in Nested[d]
  BY <1>1, HeldFacts
<1>3. v.items # <<>> => 1 \in 1..Len(v.items)
  BY <1>1, HeldFacts
<1>4. Text("") \in Nested[d]
  BY ScalarsUnnested, NamesAreTexts, UnnestedIn
<1> QED
  BY <1>2, <1>3, <1>4 DEF FirstItem

\* The type that is derived from a value is one.
LEMMA ValTypeIn ==
    \A d \in Nat : d <= MaxNesting =>
        \A p \in Platforms : \A v \in Nested[d] : valType[d][p][v] \in valTypes[d]
<1> DEFINE good(d) == \A p \in Platforms : \A v \in Nested[d] : valType[d][p][v] \in valTypes[d]
           fails == {d \in Nat : d <= MaxNesting /\ ~good(d)}
<1>1. SUFFICES ASSUME fails # {} PROVE FALSE
  OBVIOUS
<1>2. PICK d \in fails : \A e \in fails : d <= e
  <2>1. fails \in SUBSET Nat
    OBVIOUS
  <2> HIDE DEF fails
  <2> QED
    BY <1>1, <2>1, Least
<1>3. CASE d = 0
  <2>1. ASSUME NEW p \in Platforms, NEW v \in Nested[0]
        PROVE  valType[0][p][v] \in valTypes[0]
    <3>1. v \in ValueSet
      BY NestedUp, NestingAssumption DEF ValueSet
    <3>2. valType[0][p][v] = Scalar(KindOf(p, v))
      BY <3>1, ValTypeAt DEF NoLists
    <3>3. v.is # "list"
      BY NestedAt, UnnestedFacts DEF ScalarKinds, NumberKinds, WholeKinds
    <3>4. Scalar(KindOf(p, v)) \in ScalarValTypes
      BY <3>3, KindFacts
    <3> QED
      BY <3>2, <3>4, ValTypesAt
  <2> QED
    BY <1>2, <1>3, <2>1
<1>4. CASE d # 0
  <2>1. d - 1 \in Nat /\ (d - 1) + 1 = d /\ ~(d <= d - 1) /\ d - 1 <= MaxNesting /\ d <= MaxNesting /\ d \in Nat
    BY <1>2, <1>4, NestingAssumption
  <2>2. good(d - 1)
    <3> HIDE DEF good
    <3> QED
      BY <1>2, <2>1
  <2>3. ASSUME NEW p \in Platforms, NEW v \in Nested[d]
        PROVE  valType[d][p][v] \in valTypes[d]
    <3>1. v \in ValueSet
      BY <2>1, NestedUp, NestingAssumption DEF ValueSet
    <3>2. valType[d] = ListTypes(valType[d - 1])
      BY <2>1, ValTypeAt
    <3>3. valType[d][p][v] =
             IF v.is = "list" THEN ArrayOf(valType[d - 1][p][FirstItem(p, v)]) ELSE Scalar(KindOf(p, v))
      BY <3>1, <3>2 DEF ListTypes
    <3>4. CASE v.is = "list"
      <4>1. FirstItem(p, v) \in Nested[d - 1]
        BY <2>1, <3>4, FirstItemFacts
      <4>2. valType[d - 1][p][FirstItem(p, v)] \in valTypes[d - 1]
        BY <2>2, <4>1
      <4>3. valTypes[d] = WithLists(valTypes[d - 1])
        BY <2>1, ValTypesAt
      <4> QED
        BY <3>3, <3>4, <4>2, <4>3 DEF WithLists
    <3>5. CASE v.is # "list"
      <4>1. Scalar(KindOf(p, v)) \in ScalarValTypes
        BY <2>1, <3>5, KindFacts
      <4> QED
        BY <2>1, <3>3, <3>5, <4>1, ScalarValTypesIn
    <3> QED
      BY <3>4, <3>5
  <2> QED
    BY <1>2, <2>3
<1> QED
  BY <1>3, <1>4

\* The same of the values of the model.
LEMMA ValTypeIsType ==
    ASSUME NEW p \in Platforms, NEW v \in ValueSet
    PROVE  ValType(p, v) \in valTypes[MaxNesting] /\ ValType(p, v) \in Types
<1>1. MaxNesting \in Nat /\ MaxNesting <= MaxNesting
  BY NestingAssumption
<1> QED
  BY <1>1, ValTypeIn DEF ValType, ValueSet, Types

----------------------------------------------------------------------------
\* Sums of sizes, and the length of what is put together.

\* A total is a sum.
LEMMA TotalIs ==
    ASSUME NEW ns \in Seq(Nat)
    PROVE  \E f : /\ f[0] = 0
                  /\ \A i \in 0..Len(ns) : f[i] \in Nat
                  /\ \A i \in 1..Len(ns) : f[i] = f[i - 1] + ns[i]
                  /\ Total(ns) = f[Len(ns)]
<1> DEFINE fs == [i \in 1..Len(ns) |-> [n \in Nat |-> n + ns[i]]]
<1>1. Len(fs) = Len(ns) /\ Len(fs) \in Nat
  OBVIOUS
<1>2. \A i \in 1..Len(fs) : \A y \in Nat : fs[i][y] = y + ns[i]
  BY <1>1
<1>3. Total(ns) = Through(0, fs)
  BY DEF Total
<1>4. \A i \in 1..Len(ns) : ns[i] \in Nat
  OBVIOUS
<1> HIDE DEF fs
<1>5. PICK f : Goes(f, 0, fs) /\ Through(0, fs) = f[Len(fs)]
  BY <1>1, ThroughIs
<1>6. \A i \in 0..Len(ns) : f[i] = IF i = 0 THEN 0 ELSE fs[i][f[i - 1]]
  BY <1>1, <1>5 DEF Goes
<1>7. f[0] = 0
  BY <1>1, <1>6
<1> DEFINE fails == {i \in 0..Len(ns) : f[i] \notin Nat}
<1>8. fails = {}
  <2>1. SUFFICES ASSUME fails # {} PROVE FALSE
    OBVIOUS
  <2>2. PICK i \in fails : \A j \in fails : i <= j
    <3>1. fails \in SUBSET Nat
      OBVIOUS
    <3> HIDE DEF fails
    <3> QED
      BY <2>1, <3>1, Least
  <2>3. i \in 1..Len(ns) /\ i - 1 \in 0..Len(ns) /\ ~(i <= i - 1)
    BY <1>7, <2>2
  <2>4. f[i - 1] \in Nat
    BY <2>2, <2>3
  <2>5. f[i] = fs[i][f[i - 1]]
    BY <1>6, <2>3
  <2>6. f[i] = f[i - 1] + ns[i]
    BY <1>1, <1>2, <2>3, <2>4, <2>5
  <2> QED
    BY <1>4, <2>2, <2>3, <2>4, <2>6
<1>9. ASSUME NEW i \in 1..Len(ns) PROVE f[i] = f[i - 1] + ns[i]
  <2>1. i - 1 \in 0..Len(ns) /\ i \in 0..Len(ns) /\ i # 0
    OBVIOUS
  <2>2. f[i - 1] \in Nat
    BY <1>8, <2>1
  <2> QED
    BY <1>1, <1>2, <1>6, <2>1, <2>2
<1>10. \A i \in 0..Len(ns) : f[i] \in Nat
  BY <1>8
<1> QED
  BY <1>1, <1>3, <1>5, <1>7, <1>9, <1>10

\* A sum of sizes is a size.
LEMMA TotalFacts == ASSUME NEW ns \in Seq(Nat) PROVE Total(ns) \in Nat
<1>1. PICK f : /\ f[0] = 0
               /\ \A i \in 0..Len(ns) : f[i] \in Nat
               /\ \A i \in 1..Len(ns) : f[i] = f[i - 1] + ns[i]
               /\ Total(ns) = f[Len(ns)]
  BY TotalIs
<1> QED
  BY <1>1

\* Pieces that are each as long as foreseen are so together.
LEMMA FlattenLength ==
    ASSUME NEW S, NEW s \in Seq(Seq(S)), NEW ns \in Seq(Nat), Len(ns) = Len(s)
    PROVE  /\ FlattenSeq(s) \in Seq(S) /\ Len(FlattenSeq(s)) \in Nat
           /\ (\A i \in 1..Len(s) : ns[i] = Len(s[i])) => Total(ns) = Len(FlattenSeq(s))
           /\ (\A i \in 1..Len(s) : ns[i] <= Len(s[i])) => Total(ns) <= Len(FlattenSeq(s))
           /\ (\A i \in 1..Len(s) : ns[i] >= Len(s[i])) => Total(ns) >= Len(FlattenSeq(s))
           /\ (\A i \in 1..Len(s) : Len(s[i]) >= 1) => Len(s) <= Len(FlattenSeq(s))
<1>1. PICK f : /\ f[0] = 0
               /\ \A i \in 0..Len(ns) : f[i] \in Nat
               /\ \A i \in 1..Len(ns) : f[i] = f[i - 1] + ns[i]
               /\ Total(ns) = f[Len(ns)]
  BY TotalIs
<1> DEFINE L == [k \in 0..Len(s) |-> Len(Joined(s, k))]
<1>2. L[0] = 0 /\ L[Len(s)] = Len(FlattenSeq(s)) /\ FlattenSeq(s) \in Seq(S)
  <2>1. Joined(s, 0) = <<>> /\ Joined(s, Len(s)) = FlattenSeq(s)
    BY JoinedFacts
  <2>2. L[0] = Len(Joined(s, 0)) /\ L[Len(s)] = Len(Joined(s, Len(s)))
    OBVIOUS
  <2>3. Len(s) \in 0..Len(s)
    OBVIOUS
  <2>4. Joined(s, Len(s)) \in Seq(S)
    BY <2>3, JoinedFacts
  <2> QED
    BY <2>1, <2>2, <2>4
<1>3. ASSUME NEW i \in 1..Len(s) PROVE L[i] = L[i - 1] + Len(s[i]) /\ L[i] \in Nat /\ L[i - 1] \in Nat /\ Len(s[i]) \in Nat
  <2>1. i - 1 \in 0..(Len(s) - 1) /\ i - 1 \in 0..Len(s) /\ i \in 0..Len(s) /\ (i - 1) + 1 = i
    OBVIOUS
  <2>2. Joined(s, (i - 1) + 1) = Joined(s, i - 1) \o s[(i - 1) + 1]
    BY <2>1, JoinedFacts
  <2>3. Joined(s, i) = Joined(s, i - 1) \o s[i]
    BY <2>1, <2>2
  <2>4. Joined(s, i - 1) \in Seq(S) /\ s[i] \in Seq(S)
    BY <2>1, JoinedFacts
  <2>5. Len(Joined(s, i)) = Len(Joined(s, i - 1)) + Len(s[i]) /\ Len(Joined(s, i - 1)) \in Nat /\ Len(s[i]) \in Nat
    BY <2>3, <2>4, Lengths
  <2>6. L[i] = Len(Joined(s, i)) /\ L[i - 1] = Len(Joined(s, i - 1))
    BY <2>1
  <2> HIDE DEF L
  <2>7. L[i] = L[i - 1] + Len(s[i]) /\ L[i - 1] \in Nat /\ Len(s[i]) \in Nat
    BY <2>5, <2>6, Zenon
  <2> DEFINE a == L[i]
             b == L[i - 1]
             c == Len(s[i])
  <2>8. a = b + c /\ b \in Nat /\ c \in Nat
    BY <2>7
  <2> HIDE DEF a, b, c
  <2>9. a \in Nat
    BY <2>8
  <2> QED
    BY <2>7, <2>9 DEF a
<1> HIDE DEF L
<1>4. \A i \in 1..Len(s) : ns[i] \in Nat
  OBVIOUS
<1>5. ASSUME \A i \in 1..Len(s) : ns[i] <= Len(s[i]) PROVE f[Len(s)] <= L[Len(s)]
  <2> DEFINE fails == {i \in 0..Len(s) : ~(f[i] <= L[i])}
  <2>1. SUFFICES ASSUME fails # {} PROVE FALSE
    OBVIOUS
  <2>2. PICK i \in fails : \A j \in fails : i <= j
    <3>1. fails \in SUBSET Nat
      OBVIOUS
    <3> HIDE DEF fails
    <3> QED
      BY <2>1, <3>1, Least
  <2>3. i \in 1..Len(s) /\ i - 1 \in 0..Len(s) /\ ~(i <= i - 1)
    BY <1>1, <1>2, <2>2
  <2>4. f[i - 1] <= L[i - 1] /\ f[i - 1] \in Nat
    BY <1>1, <2>2, <2>3
  <2>5. f[i] = f[i - 1] + ns[i] /\ L[i] = L[i - 1] + Len(s[i]) /\ L[i - 1] \in Nat /\ Len(s[i]) \in Nat
    BY <1>1, <1>3, <2>3
  <2>6. ns[i] <= Len(s[i]) /\ ns[i] \in Nat
    BY <1>4, <1>5, <2>3
  <2>7. ~(f[i] <= L[i])
    BY <2>2
  <2> HIDE DEF fails
  <2> DEFINE a == f[i]
             b == f[i - 1]
             c == L[i]
             e == L[i - 1]
             n == ns[i]
             m == Len(s[i])
  <2>8. /\ b <= e /\ a = b + n /\ c = e + m /\ n <= m /\ ~(a <= c)
        /\ b \in Nat /\ e \in Nat /\ n \in Nat /\ m \in Nat
    BY <2>4, <2>5, <2>6, <2>7
  <2> HIDE DEF a, b, c, e, n, m
  <2> QED
    BY <2>8
<1>6. ASSUME \A i \in 1..Len(s) : ns[i] >= Len(s[i]) PROVE f[Len(s)] >= L[Len(s)]
  <2> DEFINE fails == {i \in 0..Len(s) : ~(f[i] >= L[i])}
  <2>1. SUFFICES ASSUME fails # {} PROVE FALSE
    OBVIOUS
  <2>2. PICK i \in fails : \A j \in fails : i <= j
    <3>1. fails \in SUBSET Nat
      OBVIOUS
    <3> HIDE DEF fails
    <3> QED
      BY <2>1, <3>1, Least
  <2>3. i \in 1..Len(s) /\ i - 1 \in 0..Len(s) /\ ~(i <= i - 1)
    BY <1>1, <1>2, <2>2
  <2>4. f[i - 1] >= L[i - 1] /\ f[i - 1] \in Nat
    BY <1>1, <2>2, <2>3
  <2>5. f[i] = f[i - 1] + ns[i] /\ L[i] = L[i - 1] + Len(s[i]) /\ L[i - 1] \in Nat /\ Len(s[i]) \in Nat
    BY <1>1, <1>3, <2>3
  <2>6. ns[i] >= Len(s[i]) /\ ns[i] \in Nat
    BY <1>4, <1>6, <2>3
  <2>7. ~(f[i] >= L[i])
    BY <2>2
  <2> HIDE DEF fails
  <2> DEFINE a == f[i]
             b == f[i - 1]
             c == L[i]
             e == L[i - 1]
             n == ns[i]
             m == Len(s[i])
  <2>8. /\ b >= e /\ a = b + n /\ c = e + m /\ n >= m /\ ~(a >= c)
        /\ b \in Nat /\ e \in Nat /\ n \in Nat /\ m \in Nat
    BY <2>4, <2>5, <2>6, <2>7
  <2> HIDE DEF a, b, c, e, n, m
  <2> QED
    BY <2>8
<1>7. ASSUME \A i \in 1..Len(s) : Len(s[i]) >= 1 PROVE Len(s) <= L[Len(s)]
  <2> DEFINE fails == {i \in 0..Len(s) : ~(i <= L[i])}
  <2>1. SUFFICES ASSUME fails # {} PROVE FALSE
    OBVIOUS
  <2>2. PICK i \in fails : \A j \in fails : i <= j
    <3>1. fails \in SUBSET Nat
      OBVIOUS
    <3> HIDE DEF fails
    <3> QED
      BY <2>1, <3>1, Least
  <2>3. i \in 1..Len(s) /\ i - 1 \in 0..Len(s) /\ ~(i <= i - 1) /\ i \in Nat
    BY <1>2, <2>2
  <2>4. i - 1 <= L[i - 1]
    BY <2>2, <2>3
  <2>5. L[i] = L[i - 1] + Len(s[i]) /\ L[i - 1] \in Nat /\ Len(s[i]) \in Nat
    BY <1>3, <2>3
  <2>6. Len(s[i]) >= 1
    BY <1>7, <2>3
  <2>7. ~(i <= L[i])
    BY <2>2
  <2> HIDE DEF fails
  <2> QED
    BY <2>3, <2>4, <2>5, <2>6, <2>7
<1>8. f[Len(s)] \in Nat /\ L[Len(s)] \in Nat
  <2>1. Len(s) \in 0..Len(ns)
    OBVIOUS
  <2> QED
    BY <1>1, <1>2, <2>1
<1>9. ASSUME \A i \in 1..Len(s) : ns[i] = Len(s[i]) PROVE f[Len(s)] = L[Len(s)]
  <2>1. \A i \in 1..Len(s) : ns[i] <= Len(s[i]) /\ ns[i] >= Len(s[i])
    BY <1>3, <1>4, <1>9
  <2> QED
    BY <1>5, <1>6, <1>8, <2>1
<1> QED
  BY <1>1, <1>2, <1>5, <1>6, <1>7, <1>8, <1>9

----------------------------------------------------------------------------
\* What is left of a map's entries is of them.
LEMMA WithoutFacts ==
    ASSUME NEW S, NEW items \in Seq(S), NEW key
    PROVE  Without(items, key) \in Seq({e \in S : e.t # key})
<1> DEFINE R == {e \in S : e.t # key}
           s == [i \in 1..Len(items) |-> IF items[i].t = key THEN <<>> ELSE <<items[i]>>]
<1>1. ASSUME NEW i \in 1..Len(items)
      PROVE  (IF items[i].t = key THEN <<>> ELSE <<items[i]>>) \in Seq(R)
  <2>1. items[i] \in S
    OBVIOUS
  <2>2. items[i].t # key => items[i] \in R
    BY <2>1
  <2> HIDE DEF R
  <2> QED
    BY <2>2
<1> HIDE DEF R
<1>2. s \in [1..Len(items) -> Seq(R)]
  BY <1>1
<1>3. Without(items, key) = FlattenSeq(s)
  BY DEF Without
<1> HIDE DEF s
<1>4. s \in Seq(Seq(R)) /\ Len(s) \in 0..Len(s)
  BY <1>2
<1>5. Joined(s, Len(s)) = FlattenSeq(s) /\ Joined(s, Len(s)) \in Seq(R)
  BY <1>4, JoinedFacts
<1> QED
  BY <1>3, <1>5 DEF R

----------------------------------------------------------------------------
\* What is put and foreseen is found in values of the model.

\* The values of the model are those as deep as MaxNesting.
LEMMA ValueSetIs ==
    /\ MaxNesting \in Nat /\ ValueSet = Nested[MaxNesting]
    /\ \A d \in Nat : d <= MaxNesting => Nested[d] \subseteq ValueSet
    /\ \A d \in Nat : d - 1 \in Nat => Nested[d - 1] \subseteq Nested[d]
    /\ Unnested \subseteq ValueSet
<1>1. MaxNesting \in Nat
  BY NestingAssumption
<1>2. \A d \in Nat : d <= MaxNesting => Nested[d] \subseteq ValueSet
  BY <1>1, NestedUp DEF ValueSet
<1>3. ASSUME NEW d \in Nat, d - 1 \in Nat PROVE Nested[d - 1] \subseteq Nested[d]
  <2>1. d - 1 <= d
    OBVIOUS
  <2> QED
    BY <1>3, <2>1, NestedUp
<1>4. Unnested \subseteq ValueSet
  BY <1>1, UnnestedIn DEF ValueSet
<1> QED
  BY <1>1, <1>2, <1>3, <1>4 DEF ValueSet

\* What values hold are values.
LEMMA InsideFacts ==
    ASSUME NEW v \in ValueSet
    PROVE  /\ v.is \in ScalarKinds \cup {"array", "list", "map"}
           /\ v.n \in Int
           /\ v.is = "text" => v.t \in TextNames
           /\ Len(v.items) \in Nat
           /\ v.items # <<>> => Len(v.items) >= 1
           /\ v.is # "map" => \A i \in 1..Len(v.items) : v.items[i] \in ValueSet
           /\ v.is = "map" => v.items \in Seq(Entries(ValueSet))
           /\ v.is = "array" => \A i \in 1..Len(v.items) : v.items[i].is \in NumberKinds \cup {"bool"}
<1>1. MaxNesting \in Nat /\ v \in Nested[MaxNesting]
  BY ValueSetIs
<1>2. CASE v.is = "map"
  <2>1. MaxNesting - 1 \in Nat /\ v.items \in Seq(Entries(Nested[MaxNesting - 1]))
    BY <1>1, <1>2, ValueFacts
  <2>2. Nested[MaxNesting - 1] \subseteq ValueSet
    BY <1>1, <2>1, ValueSetIs
  <2>3. Seq(Entries(Nested[MaxNesting - 1])) \subseteq Seq(Entries(ValueSet))
    <3>1. Entries(Nested[MaxNesting - 1]) \subseteq Entries(ValueSet)
      BY <2>2, EntriesUp
    <3> QED
      BY <3>1, SeqUp
  <2>4. v.items \in Seq(Entries(ValueSet))
    BY <2>1, <2>3
  <2>5. v.is \in ScalarKinds \cup {"array", "list", "map"} /\ v.n \in Int
    BY <1>1, ValueFacts
  <2>6. Len(v.items) \in Nat /\ (v.items # <<>> => Len(v.items) >= 1)
    BY <1>1, HeldFacts
  <2> QED
    BY <1>2, <2>4, <2>5, <2>6
<1>3. CASE v.is = "list"
  <2>1. MaxNesting - 1 \in Nat /\ \A i \in 1..Len(v.items) : v.items[i] \in Nested[MaxNesting - 1]
    BY <1>1, <1>3, HeldFacts
  <2>2. Nested[MaxNesting - 1] \subseteq ValueSet
    BY <1>1, <2>1, ValueSetIs
  <2>5. v.is \in ScalarKinds \cup {"array", "list", "map"} /\ v.n \in Int
    BY <1>1, ValueFacts
  <2>6. Len(v.items) \in Nat /\ (v.items # <<>> => Len(v.items) >= 1)
    BY <1>1, HeldFacts
  <2> QED
    BY <1>3, <2>1, <2>2, <2>5, <2>6
<1>4. CASE v.is = "array"
  <2>1. \A i \in 1..Len(v.items) : v.items[i] \in Numbers \cup Booleans
    BY <1>1, <1>4, HeldFacts
  <2>2. Numbers \cup Booleans \subseteq ValueSet
    BY ScalarsUnnested, ValueSetIs
  <2>3. \A x \in Numbers \cup Booleans : x.is \in NumberKinds \cup {"bool"}
    <3>1. \A x \in Numbers : x.is \in NumberKinds
      BY DEF Numbers
    <3>2. Bool(TRUE).is = "bool" /\ Bool(FALSE).is = "bool"
      BY DEF Bool, Value
    <3> QED
      BY <3>1, <3>2 DEF Booleans
  <2>5. v.is \in ScalarKinds \cup {"array", "list", "map"} /\ v.n \in Int
    BY <1>1, ValueFacts
  <2>6. Len(v.items) \in Nat /\ (v.items # <<>> => Len(v.items) >= 1)
    BY <1>1, HeldFacts
  <2> QED
    BY <1>4, <2>1, <2>2, <2>3, <2>5, <2>6
<1>5. CASE v.is \notin {"array", "list", "map"}
  <2>1. v.items = <<>>
    BY <1>1, <1>5, ValueFacts
  <2>5. v.is \in ScalarKinds \cup {"array", "list", "map"} /\ v.n \in Int
        /\ (v.is = "text" => v.t \in TextNames)
    BY <1>1, ValueFacts
  <2> QED
    BY <1>5, <2>1, <2>5
<1> QED
  BY <1>2, <1>3, <1>4, <1>5

\* The entries that are written.
LEMMA KeyedFacts ==
    ASSUME NEW S, NEW v, v.items \in Seq(Entries(S))
    PROVE  /\ Keyed(v) \in Seq(Entries(S)) /\ Len(Keyed(v)) \in Nat
           /\ \A i \in 1..Len(Keyed(v)) : /\ Keyed(v)[i].t \in TextNames
                                          /\ Keyed(v)[i].items[1] \in S
<1> DEFINE R == {e \in Entries(S) : e.t # NoKey}
<1>1. Keyed(v) \in Seq(R)
  BY WithoutFacts DEF Keyed
<1>2. \A e \in R : e \in Entries(S) /\ e.t \in TextNames /\ e.items[1] \in S
  BY EntryFacts
<1> HIDE DEF R
<1> DEFINE K == Keyed(v)
<1>3. K \in Seq(R)
  BY <1>1
<1> HIDE DEF K
<1>4. K \in Seq(Entries(S)) /\ Len(K) \in Nat
  <2>1. R \subseteq Entries(S)
    BY <1>2
  <2> QED
    BY <1>3, <2>1, SeqUp
<1>5. \A i \in 1..Len(K) : K[i].t \in TextNames /\ K[i].items[1] \in S
  <2>1. \A i \in 1..Len(K) : K[i] \in R
    BY <1>3
  <2> QED
    BY <1>2, <2>1
<1> QED
  BY <1>4, <1>5 DEF K

\* What a map holds at a key it has.
LEMMA AtFacts ==
    ASSUME NEW S, NEW v, v.items \in Seq(Entries(S)), NEW key, Has(v, key)
    PROVE  At(v, key) \in S
<1> DEFINE i == CHOOSE i \in EntryAt(v, key) : TRUE
<1>1. i \in EntryAt(v, key)
  BY DEF Has
<1>2. At(v, key) = v.items[i].items[1]
  BY DEF At
<1> HIDE DEF i
<1>3. i \in 1..Len(v.items)
  BY <1>1 DEF EntryAt
<1>4. v.items[i] \in Entries(S)
  BY <1>3
<1> QED
  BY <1>2, <1>4, EntryFacts

\* What a field is given, its default included, is a value.
LEMMA FieldValueFacts ==
    ASSUME NEW d \in Declaration, NEW k \in 1..Len(d.fields), NEW v \in ValueSet, v.is = "map"
    PROVE  FieldValue(d.fields[k], v) \in ValueSet
<1>1. Null \in ValueSet
  BY ScalarsUnnested, ValueSetIs
<1>2. Has(v, d.fields[k].name) => At(v, d.fields[k].name) \in ValueSet
  BY InsideFacts, AtFacts
<1>3. d.fields[k].default # <<>> => d.fields[k].default[1] \in ValueSet
  BY FieldFacts
<1> QED
  BY <1>1, <1>2, <1>3 DEF FieldValue

\* The class a union chooses is a candidate.
LEMMA ChosenFacts ==
    ASSUME NEW p, NEW u \in Declaration, NEW v, Candidates(p, u, v) # {}
    PROVE  /\ Chosen(p, u, v) \in Candidates(p, u, v)
           /\ Chosen(p, u, v) \in 1..Len(u.values)
           /\ \A k \in Candidates(p, u, v) : Chosen(p, u, v) <= k
<1> DEFINE C == Candidates(p, u, v)
<1>1. Len(u.values) \in Nat
  BY DeclarationIsRecord
<1>2. C \subseteq 1..Len(u.values)
  BY DEF Candidates
<1>3. C \subseteq Nat /\ C # {}
  BY <1>1, <1>2
<1> HIDE DEF C
<1>4. \E i \in C : \A k \in C : i <= k
  BY <1>3, Least
<1>5. Chosen(p, u, v) = CHOOSE i \in C : \A k \in C : i <= k
  BY DEF Chosen, Min, C
<1>6. Chosen(p, u, v) \in C /\ \A k \in C : Chosen(p, u, v) <= k
  BY <1>4, <1>5
<1> QED
  BY <1>2, <1>6 DEF C

\* The position a union writes is not after the class that is chosen.
LEMMA PositionFacts ==
    ASSUME NEW u \in Declaration, NEW i \in 1..Len(u.values)
    PROVE  /\ SelectInSeq(u.values, LAMBDA name : name = u.values[i]) \in 1..i
           /\ u.values[SelectInSeq(u.values, LAMBDA name : name = u.values[i])] = u.values[i]
<1> DEFINE I == {k \in 1..Len(u.values) : u.values[k] = u.values[i]}
<1>1. Len(u.values) \in Nat
  BY DeclarationIsRecord
<1>2. I \subseteq Nat /\ i \in I /\ I # {} /\ \A k \in I : k >= 1
  BY <1>1
<1>3. SelectInSeq(u.values, LAMBDA name : name = u.values[i]) = Min(I)
  BY <1>2 DEF SelectInSeq
<1>4. \A k \in I : u.values[k] = u.values[i]
  OBVIOUS
<1> HIDE DEF I
<1>5. Min(I) \in I /\ Min(I) <= i
  BY <1>2, FirstFacts
<1>6. u.values[Min(I)] = u.values[i]
  BY <1>4, <1>5
<1>7. Min(I) \in 1..i
  <2> DEFINE first == Min(I)
  <2>1. first \in Nat /\ first >= 1 /\ first <= i /\ i \in Nat
    BY <1>1, <1>2, <1>5
  <2> HIDE DEF first
  <2>2. first \in 1..i
    BY <2>1
  <2> QED
    BY <2>2 DEF first
<1> DEFINE at == SelectInSeq(u.values, LAMBDA name : name = u.values[i])
<1>8. at = Min(I)
  BY <1>3
<1> HIDE DEF at
<1>9. at \in 1..i /\ u.values[at] = u.values[i]
  BY <1>6, <1>7, <1>8
<1> QED
  BY <1>9 DEF at

----------------------------------------------------------------------------
\* Ordinals, and the types Kotlin derives.

\* The widths the schema gives its numbers.
LEMMA Widths ==
    /\ ShortWidth \in 1..8 /\ IntWidth \in 1..8 /\ LongWidth \in 1..8
    /\ IntWidth - 1 \in 1..7 /\ LengthWidth \in Nat /\ 1 + LengthWidth = IntWidth
    /\ \A is \in NumberKinds \cup {"boolean"} : WidthOf(is) \in 1..8
<1>1. ShortWidth \in 1..8 /\ IntWidth \in 1..8 /\ LongWidth \in 1..8 /\ ShortWidth < IntWidth
  BY WidthAssumption
<1>2. \A is \in NumberKinds \cup {"boolean"} : WidthOf(is) \in 1..8
  <2> TAKE is \in NumberKinds \cup {"boolean"}
  <2>1. CASE is = "byte"
    BY <2>1 DEF WidthOf
  <2>2. CASE is = "boolean"
    BY <2>2 DEF WidthOf
  <2>3. CASE is = "short"
    BY <1>1, <2>3 DEF WidthOf
  <2>4. CASE is = "int"
    BY <1>1, <2>4 DEF WidthOf
  <2>5. CASE is = "float"
    BY <1>1, <2>5 DEF WidthOf
  <2>6. CASE is = "long"
    BY <1>1, <2>6 DEF WidthOf
  <2> QED
    BY <2>1, <2>2, <2>3, <2>4, <2>5, <2>6 DEF NumberKinds, WholeKinds
<1> QED
  BY <1>1, <1>2 DEF LengthWidth

\* The byte that names the type of an entry.
LEMMA OrdinalsAre ==
    /\ Len(Ordinals) = 8
    /\ Ordinals[1] = "string" /\ Ordinals[2] = "boolean" /\ Ordinals[3] = "byte" /\ Ordinals[4] = "float"
    /\ Ordinals[5] = "int" /\ Ordinals[6] = "long" /\ Ordinals[7] = "short" /\ Ordinals[8] = "map"
BY DEF Ordinals

\* The ordinal of a scalar type.
LEMMA ScalarOrdinalFacts ==
    ASSUME NEW T
    PROVE  /\ ScalarOrdinal(T) \in {NullOrdinal} \cup {10 * (i - 1) : i \in 0..8}
           /\ T.is \in NumberKinds \cup {"boolean", "string", "map", "null"} =>
                 ScalarOrdinal(T) \in {NullOrdinal} \cup {10 * (i - 1) : i \in 1..8}
<1> DEFINE I == {i \in 1..Len(Ordinals) : Ordinals[i] = T.is}
           at == SelectInSeq(Ordinals, LAMBDA is : is = T.is)
<1>1. at = IF I # {} THEN Min(I) ELSE 0
  BY DEF SelectInSeq
<1>2. I \subseteq 1..8
  BY OrdinalsAre
<1>3. T.is \in NumberKinds \cup {"boolean", "string", "map"} => I # {}
  <2>1. T.is \in NumberKinds \cup {"boolean", "string", "map"} => \E i \in 1..8 : Ordinals[i] = T.is
    BY OrdinalsAre DEF NumberKinds, WholeKinds
  <2> QED
    BY <2>1, OrdinalsAre
<1>4. ScalarOrdinal(T) = IF T.is = "null" THEN NullOrdinal ELSE 10 * (at - 1)
  BY DEF ScalarOrdinal
<1> HIDE DEF I, at
<1>5. I # {} => Min(I) \in I
  <2>1. I \subseteq Nat
    BY <1>2
  <2> QED
    BY <2>1, FirstFacts
<1>6. at \in 0..8 /\ (T.is \in NumberKinds \cup {"boolean", "string", "map"} => at \in 1..8)
  <2>1. CASE I # {}
    <3>1. Min(I) \in 1..8
      BY <1>2, <1>5, <2>1
    <3>2. at = Min(I)
      BY <1>1, <2>1
    <3> HIDE DEF at
    <3>3. at \in 1..8 /\ at \in 0..8
      BY <3>1, <3>2
    <3> QED
      BY <3>3
  <2>2. CASE I = {}
    <3>1. at = 0 /\ 0 \in 0..8
      BY <1>1, <2>2
    <3> QED
      BY <1>3, <2>2, <3>1
  <2> QED
    BY <2>1, <2>2
<1> QED
  BY <1>4, <1>6

\* The ordinal of a derived type is a byte, unless Python derives none.
LEMMA OrdinalFacts ==
    ASSUME NEW T \in valTypes[MaxNesting], T.is # "unknown"
    PROVE  Ordinal(T) \in Byte
<1>1. /\ T.is \in TypeKinds \ {"ref", "option"}
      /\ T.is = "array" => T.of[1] \in valTypes[MaxNesting]
  BY ValTypeFacts, ValueSetIs
<1>2. CASE T.is # "array"
  <2>1. T.is \in NumberKinds \cup {"boolean", "string", "map", "null"}
    BY <1>1, <1>2 DEF TypeKinds
  <2>2. ScalarOrdinal(T) \in {NullOrdinal} \cup {10 * (i - 1) : i \in 1..8}
    BY <2>1, ScalarOrdinalFacts
  <2>3. ScalarOrdinal(T) \in 0..255
    BY <2>2 DEF NullOrdinal
  <2> QED
    BY <1>2, <2>3 DEF Ordinal, Byte
<1>3. CASE T.is = "array"
  <2> DEFINE D == T.of[1]
  <2>1. ScalarOrdinal(D) \in {NullOrdinal} \cup {10 * (i - 1) : i \in 0..8}
    BY ScalarOrdinalFacts
  <2>2. ScalarOrdinal(D) \div 10 \in -1..9
    <3>1. ScalarOrdinal(D) = 90 \/ ScalarOrdinal(D) \in {-10, 0, 10, 20, 30, 40, 50, 60, 70}
      BY <2>1 DEF NullOrdinal
    <3> QED
      BY <3>1
  <2>3. Ordinal(T) = 80 + IF D.is = "array" THEN 8 ELSE ScalarOrdinal(D) \div 10
    BY <1>3 DEF Ordinal
  <2>4. 80 + 8 \in 0..255 /\ \A x \in -1..9 : 80 + x \in 0..255
    OBVIOUS
  <2> HIDE DEF D
  <2> QED
    BY <2>2, <2>3, <2>4 DEF Byte
<1> QED
  BY <1>2, <1>3

----------------------------------------------------------------------------
\* Kotlin takes no null for the first item of a list, so no list it makes a
\* type for is one of nulls.
KtScalarTypes == ScalarValTypes \ {Scalar("null")}
WithKtLists(S) == KtScalarTypes \cup {ArrayOf(T) : T \in S}
ktTypes[d \in Nat] == IF d = 0 THEN KtScalarTypes ELSE WithKtLists(ktTypes[d - 1])

KtTypesRec == INSTANCE Recursion WITH Zero <- KtScalarTypes, Step <- WithKtLists

\* The types Kotlin derives: all but null.
LEMMA KtTypesAt == ktTypes[0] = KtScalarTypes /\ \A d \in Nat : ktTypes[d + 1] = WithKtLists(ktTypes[d])
BY NumbersHaveLeast, KtTypesRec!Unfolds DEF KtTypesRec!HaveLeast, ktTypes

\* The same of the types Kotlin derives.
LEMMA KtTypesNext == \A d \in Nat : ktTypes[d] \subseteq ktTypes[d + 1] /\ KtScalarTypes \subseteq ktTypes[d]
<1>0. \A d \in Nat : KtScalarTypes \subseteq ktTypes[d]
  <2> TAKE d \in Nat
  <2>1. CASE d = 0
    BY <2>1, KtTypesAt
  <2>2. CASE d # 0
    <3>1. d - 1 \in Nat /\ (d - 1) + 1 = d
      BY <2>2
    <3>2. ktTypes[d] = WithKtLists(ktTypes[d - 1])
      BY <3>1, KtTypesAt
    <3> QED
      BY <3>2 DEF WithKtLists
  <2> QED
    BY <2>1, <2>2
<1> DEFINE fails == {d \in Nat : ~(ktTypes[d] \subseteq ktTypes[d + 1])}
<1>1. SUFFICES ASSUME fails # {} PROVE FALSE
  BY <1>0
<1>2. PICK d \in fails : \A e \in fails : d <= e
  <2>1. fails \in SUBSET Nat
    OBVIOUS
  <2> HIDE DEF fails
  <2> QED
    BY <1>1, <2>1, Least
<1>3. d # 0
  <2>1. 0 + 1 \in Nat /\ 0 + 1 = 1 /\ 1 \in Nat
    OBVIOUS
  <2> QED
    BY <1>0, <1>2, <2>1, KtTypesAt
<1>4. d - 1 \in Nat /\ (d - 1) + 1 = d /\ ~(d <= d - 1)
  BY <1>2, <1>3
<1>5. ktTypes[d - 1] \subseteq ktTypes[d]
  BY <1>2, <1>4
<1>6. ktTypes[d] = WithKtLists(ktTypes[d - 1]) /\ ktTypes[d + 1] = WithKtLists(ktTypes[d])
  <2>1. d \in Nat
    BY <1>2
  <2> QED
    BY <1>4, <2>1, KtTypesAt
<1>7. WithKtLists(ktTypes[d - 1]) \subseteq WithKtLists(ktTypes[d])
  BY <1>5 DEF WithKtLists
<1> QED
  BY <1>2, <1>6, <1>7

\* What a type that Kotlin derives is.
LEMMA KtTypeFacts ==
    ASSUME NEW d \in Nat, NEW T \in ktTypes[d]
    PROVE  /\ T.is \in TypeKinds \ {"ref", "option", "null"}
           /\ T.is = "array" => T.of[1] \in ktTypes[d]
<1>1. \A D : ArrayOf(D).is = "array" /\ ArrayOf(D).of[1] = D
  BY DEF ArrayOf
<1>2. CASE T \in KtScalarTypes
  <2>1. PICK is \in NumberKinds \cup {"boolean", "string", "map", "null", "unknown"} : T = Scalar(is)
    BY <1>2 DEF ScalarValTypes, KtScalarTypes
  <2>2. T.is = is /\ T # Scalar("null")
    BY <1>2, <2>1 DEF Scalar, KtScalarTypes
  <2>3. is \notin {"ref", "option", "array", "null"}
    BY <2>1, <2>2 DEF NumberKinds, WholeKinds
  <2> QED
    BY <2>2, <2>3 DEF TypeKinds
<1>3. CASE T \notin KtScalarTypes
  <2>1. d # 0
    BY <1>3, KtTypesAt
  <2>2. d - 1 \in Nat /\ (d - 1) + 1 = d
    BY <2>1
  <2>3. ktTypes[d] = WithKtLists(ktTypes[d - 1])
    BY <2>2, KtTypesAt
  <2>4. PICK D \in ktTypes[d - 1] : T = ArrayOf(D)
    BY <1>3, <2>3 DEF WithKtLists
  <2>5. D \in ktTypes[d]
    BY <2>2, KtTypesNext
  <2> QED
    BY <1>1, <2>4, <2>5 DEF TypeKinds
<1> QED
  BY <1>2, <1>3

\* The kind Kotlin gives a scalar.
LEMMA KtKindFacts ==
    ASSUME NEW d \in Nat, NEW v \in Nested[d], v.is \notin {"list", "null"}
    PROVE  Scalar(KindOf("kotlin", v)) \in KtScalarTypes
<1>1. v.is \in (ScalarKinds \ {"null"}) \cup {"array", "map"}
  BY ValueFacts
<1>2. KtKind(v) \in NumberKinds \cup {"boolean", "string", "map", "unknown"}
  BY <1>1 DEF KtKind, ScalarKinds, NumberKinds, WholeKinds
<1>3. \A is : Scalar(is).is = is
  BY DEF Scalar
<1>4. KtKind(v) # "null"
  BY <1>2 DEF NumberKinds, WholeKinds
<1> QED
  BY <1>2, <1>3, <1>4 DEF ScalarValTypes, KtScalarTypes, KindOf

\* Kotlin takes the first item of a list that is not null.
LEMMA KtFirstItemFacts ==
    ASSUME NEW d \in Nat, NEW v \in Nested[d + 1], v.is = "list"
    PROVE  FirstItem("kotlin", v) \in Nested[d] /\ FirstItem("kotlin", v).is # "null"
<1>1. Text("").is = "text"
  BY DEF Text, Value
<1> QED
  BY <1>1, FirstItemFacts DEF FirstItem

\* Kotlin derives one of its types for each value but null.
LEMMA KtValTypeIn ==
    \A d \in Nat : d <= MaxNesting =>
        \A v \in Nested[d] : v.is # "null" => valType[d]["kotlin"][v] \in ktTypes[d]
<1> DEFINE good(d) == \A v \in Nested[d] : v.is # "null" => valType[d]["kotlin"][v] \in ktTypes[d]
           fails == {d \in Nat : d <= MaxNesting /\ ~good(d)}
<1>0. "kotlin" \in Platforms
  BY DEF Platforms
<1>1. SUFFICES ASSUME fails # {} PROVE FALSE
  OBVIOUS
<1>2. PICK d \in fails : \A e \in fails : d <= e
  <2>1. fails \in SUBSET Nat
    OBVIOUS
  <2> HIDE DEF fails
  <2> QED
    BY <1>1, <2>1, Least
<1>3. CASE d = 0
  <2>1. ASSUME NEW v \in Nested[0], v.is # "null"
        PROVE  valType[0]["kotlin"][v] \in ktTypes[0]
    <3>1. v \in ValueSet
      BY ValueSetIs
    <3>2. valType[0]["kotlin"][v] = Scalar(KindOf("kotlin", v))
      BY <1>0, <3>1, ValTypeAt DEF NoLists
    <3>3. v.is # "list"
      BY NestedAt, UnnestedFacts DEF ScalarKinds, NumberKinds, WholeKinds
    <3>4. Scalar(KindOf("kotlin", v)) \in KtScalarTypes
      BY <2>1, <3>3, KtKindFacts
    <3> QED
      BY <3>2, <3>4, KtTypesAt
  <2> QED
    BY <1>2, <1>3, <2>1
<1>4. CASE d # 0
  <2>1. d - 1 \in Nat /\ (d - 1) + 1 = d /\ ~(d <= d - 1) /\ d - 1 <= MaxNesting /\ d <= MaxNesting /\ d \in Nat
    BY <1>2, <1>4, NestingAssumption
  <2>2. good(d - 1)
    <3> HIDE DEF good
    <3> QED
      BY <1>2, <2>1
  <2>3. ASSUME NEW v \in Nested[d], v.is # "null"
        PROVE  valType[d]["kotlin"][v] \in ktTypes[d]
    <3>1. v \in ValueSet
      BY <2>1, ValueSetIs
    <3>2. valType[d] = ListTypes(valType[d - 1])
      BY <2>1, ValTypeAt
    <3>3. valType[d]["kotlin"][v] =
             IF v.is = "list" THEN ArrayOf(valType[d - 1]["kotlin"][FirstItem("kotlin", v)])
             ELSE Scalar(KindOf("kotlin", v))
      BY <1>0, <3>1, <3>2 DEF ListTypes
    <3>4. CASE v.is = "list"
      <4>1. FirstItem("kotlin", v) \in Nested[d - 1] /\ FirstItem("kotlin", v).is # "null"
        BY <2>1, <3>4, KtFirstItemFacts
      <4>2. valType[d - 1]["kotlin"][FirstItem("kotlin", v)] \in ktTypes[d - 1]
        BY <2>2, <4>1
      <4>3. ktTypes[d] = WithKtLists(ktTypes[d - 1])
        BY <2>1, KtTypesAt
      <4> QED
        BY <3>3, <3>4, <4>2, <4>3 DEF WithKtLists
    <3>5. CASE v.is # "list"
      <4>1. Scalar(KindOf("kotlin", v)) \in KtScalarTypes
        BY <2>1, <2>3, <3>5, KtKindFacts
      <4> QED
        BY <2>1, <3>3, <3>5, <4>1, KtTypesNext
    <3> QED
      BY <3>4, <3>5
  <2> QED
    BY <1>2, <2>3
<1> QED
  BY <1>3, <1>4

----------------------------------------------------------------------------
\* A sound codec.

\* The types for which no library foresees more bytes than it puts: those of
\* fields, and those Kotlin gives to values in maps.
Sized == FieldTypes \cup ktTypes[MaxNesting] \cup {Scalar("null")}

\* Kotlin foresees the bytes of what a sized type is made of.
LEMMA SizedFacts ==
    ASSUME NEW T \in Sized, T.is \in {"array", "option"}
    PROVE  T.of[1] \in Sized /\ T.of[1].is # "null"
<1>1. CASE T \in FieldTypes
  <2>1. T.of[1] \in FieldTypes
    BY <1>1, FieldTypeFacts
  <2> QED
    BY <2>1, FieldTypeFacts DEF Sized
<1>2. CASE T \in ktTypes[MaxNesting]
  <2>1. T.is # "option"
    BY <1>2, KtTypeFacts, ValueSetIs
  <2>2. T.of[1] \in ktTypes[MaxNesting]
    BY <1>2, <2>1, KtTypeFacts, ValueSetIs
  <2> QED
    BY <2>2, KtTypeFacts, ValueSetIs DEF Sized
<1>3. CASE T = Scalar("null")
  BY <1>3 DEF Scalar
<1> QED
  BY <1>1, <1>2, <1>3 DEF Sized

\* What Kotlin derives for a value is a sized type.
LEMMA KtValTypeSized == ASSUME NEW v \in ValueSet PROVE ValType("kotlin", v) \in Sized
<1>1. CASE v.is # "null"
  <2>1. MaxNesting \in Nat /\ MaxNesting <= MaxNesting /\ v \in Nested[MaxNesting]
    BY ValueSetIs
  <2> QED
    BY <1>1, <2>1, KtValTypeIn DEF ValType, Sized
<1>2. CASE v.is = "null"
  <2>1. MaxNesting - 1 \in Nat /\ (MaxNesting - 1) + 1 = MaxNesting
    BY NestingAssumption
  <2>2. valType[MaxNesting] = ListTypes(valType[MaxNesting - 1])
    BY <2>1, ValTypeAt
  <2>3. "kotlin" \in Platforms
    BY DEF Platforms
  <2>4. valType[MaxNesting]["kotlin"][v] = Scalar(KindOf("kotlin", v))
    BY <1>2, <2>2, <2>3 DEF ListTypes
  <2>5. KindOf("kotlin", v) = "null"
    BY <1>2 DEF KindOf, KtKind
  <2> QED
    BY <2>4, <2>5 DEF ValType, Sized
<1> QED
  BY <1>1, <1>2

\* A library puts bytes, as many as it foresees: Python exactly, Kotlin at
\* least, for a type of those above.
Foreseen(p, fair, n, bytes) ==
    /\ bytes \in Seq(Byte) /\ Len(bytes) \in Nat
    /\ n \in Nat
    /\ p = "python" => n = Len(bytes)
    /\ fair => n <= Len(bytes)

Sound(c) ==
    \A p \in Platforms : \A T \in Types : \A v \in ValueSet :
        c.accepts[p][T][v] =>
            /\ Foreseen(p, T \in Sized, c.size[p][T][v], c.put[p][T][v])
            /\ T.is = "null" \/ v.is = "map" \/ Len(c.put[p][T][v]) >= 1
            /\ T.is # "unknown"

\* A sound codec, of one call.
LEMMA SoundAt ==
    ASSUME NEW c, Sound(c), NEW p \in Platforms, NEW T \in Types, NEW v \in ValueSet,
           c.accepts[p][T][v]
    PROVE  /\ Foreseen(p, T \in Sized, c.size[p][T][v], c.put[p][T][v])
           /\ T.is = "null" \/ v.is = "map" \/ Len(c.put[p][T][v]) >= 1
           /\ T.is # "unknown"
BY DEF Sound

\* Parts that are foreseen are foreseen together.
LEMMA ForeseenTogether ==
    ASSUME NEW p, NEW fair, NEW ns, NEW s, NEW n \in Nat,
           ns = [i \in 1..n |-> ns[i]], s = [i \in 1..n |-> s[i]],
           \A i \in 1..n : Foreseen(p, fair, ns[i], s[i])
    PROVE  /\ Foreseen(p, fair, Total(ns), FlattenSeq(s))
           /\ (\A i \in 1..n : Len(s[i]) >= 1) => n <= Len(FlattenSeq(s))
<1>1. \A i \in 1..n : /\ ns[i] \in Nat /\ s[i] \in Seq(Byte)
                      /\ p = "python" => ns[i] = Len(s[i])
                      /\ fair => ns[i] <= Len(s[i])
  BY DEF Foreseen
<1>2. ns \in Seq(Nat) /\ Len(ns) = n
  <2>1. ns \in [1..n -> Nat]
    BY <1>1
  <2> QED
    BY <2>1
<1>3. s \in Seq(Seq(Byte)) /\ Len(s) = n
  <2>1. s \in [1..n -> Seq(Byte)]
    BY <1>1
  <2> QED
    BY <2>1
<1>4. Total(ns) \in Nat
  BY <1>2, TotalFacts
<1>5. /\ FlattenSeq(s) \in Seq(Byte) /\ Len(FlattenSeq(s)) \in Nat
      /\ (\A i \in 1..Len(s) : ns[i] = Len(s[i])) => Total(ns) = Len(FlattenSeq(s))
      /\ (\A i \in 1..Len(s) : ns[i] <= Len(s[i])) => Total(ns) <= Len(FlattenSeq(s))
      /\ (\A i \in 1..Len(s) : Len(s[i]) >= 1) => Len(s) <= Len(FlattenSeq(s))
  BY <1>2, <1>3, FlattenLength
<1>6. p = "python" => Total(ns) = Len(FlattenSeq(s))
  BY <1>1, <1>3, <1>5
<1>7. fair => Total(ns) <= Len(FlattenSeq(s))
  BY <1>1, <1>3, <1>5
<1>8. (\A i \in 1..n : Len(s[i]) >= 1) => n <= Len(FlattenSeq(s))
  BY <1>3, <1>5
<1> QED
  BY <1>4, <1>5, <1>6, <1>7, <1>8 DEF Foreseen

\* And behind bytes of a number that is known.
LEMMA ForeseenBehind ==
    ASSUME NEW p, NEW fair, NEW n, NEW bytes, Foreseen(p, fair, n, bytes),
           NEW k \in Nat, NEW header \in Seq(Byte), Len(header) = k
    PROVE  Foreseen(p, fair, k + n, header \o bytes) /\ Len(header \o bytes) = k + Len(bytes)
<1>1. bytes \in Seq(Byte) /\ Len(bytes) \in Nat /\ n \in Nat
  BY DEF Foreseen
<1>2. header \o bytes \in Seq(Byte) /\ Len(header \o bytes) = Len(header) + Len(bytes)
  BY <1>1, Lengths
<1>3. k + n \in Nat /\ k + Len(bytes) \in Nat
  BY <1>1
<1>4. p = "python" => k + n = k + Len(bytes)
  BY <1>1 DEF Foreseen
<1>5. fair => k + n <= k + Len(bytes)
  <2>1. fair => n <= Len(bytes)
    BY DEF Foreseen
  <2> QED
    BY <1>1, <2>1
<1> QED
  BY <1>2, <1>3, <1>4, <1>5 DEF Foreseen

\* A text is put as its length and its bytes.
LEMMA PutTextFacts ==
    ASSUME NEW t \in TextNames
    PROVE  /\ PutText(t) \in Seq(Byte)
           /\ Len(PutText(t)) = IntWidth + Len(TextBytes(t))
           /\ Len(TextBytes(t)) \in Nat
<1>1. TextBytes(t) \in Seq(Byte) /\ Len(TextBytes(t)) \in Nat
  BY TextBytesFacts
<1>2. IntWidth \in Nat
  BY Widths
<1>3. NumberBytes(Len(TextBytes(t)), IntWidth) \in Seq(Byte) /\ Len(NumberBytes(Len(TextBytes(t)), IntWidth)) = IntWidth
  BY <1>1, <1>2, NumberBytesFacts
<1> QED
  BY <1>1, <1>3, Lengths DEF PutText

\* The items of an array, the fields of a class and the values of a map are
\* foreseen, so the whole is.
ItemsForeseen(in, p, q, fair, T, v) ==
    \A i \in 1..Len(v.items) : Foreseen(q, fair, in.size[p][T.of[1]][v.items[i]], in.put[p][T.of[1]][v.items[i]])

FieldsForeseen(in, p, q, d, v) ==
    \A k \in 1..Len(d.fields) :
        Foreseen(q, TRUE, in.size[p][d.fields[k].type][FieldValue(d.fields[k], v)],
                          in.put[p][d.fields[k].type][FieldValue(d.fields[k], v)])

HeldForeseen(in, p, q, fair, x) ==
    /\ Foreseen(q, fair, in.size[p][ValType(p, x)][x], in.put[p][ValType(p, x)][x])
    /\ ValType(p, x).is # "unknown"

ItemBytes(in, p, T, v) == [i \in 1..Len(v.items) |-> in.put[p][T.of[1]][v.items[i]]]

\* An array is foreseen if its items are.
LEMMA ForeseenArray ==
    ASSUME NEW in, NEW p, NEW q, NEW fair, NEW T, NEW v, Len(v.items) \in Nat,
           ItemsForeseen(in, p, q, fair, T, v)
    PROVE  /\ FlattenSeq(ItemBytes(in, p, T, v)) \in Seq(Byte)
           /\ Len(FlattenSeq(ItemBytes(in, p, T, v))) \in Nat
           /\ Len(PutArray(in, p, T, v)) >= 1
           /\ \A m : Foreseen(q, fair, m, FlattenSeq(ItemBytes(in, p, T, v))) =>
                        Foreseen(q, fair, IntWidth + m, PutArray(in, p, T, v))
           /\ ~(p = "kotlin" /\ v.is = "array" /\ v.t = "byte") =>
                 Foreseen(q, fair, ArraySize(in, p, T, v), PutArray(in, p, T, v))
           /\ (\A i \in 1..Len(v.items) : Len(ItemBytes(in, p, T, v)[i]) >= 1) =>
                 Len(v.items) <= Len(FlattenSeq(ItemBytes(in, p, T, v)))
<1> DEFINE D == T.of[1]
           n == Len(v.items)
           ns == [i \in 1..n |-> in.size[p][D][v.items[i]]]
           s == ItemBytes(in, p, T, v)
           header == NumberBytes(n, IntWidth)
<1>4. s = [i \in 1..n |-> in.put[p][D][v.items[i]]]
  BY DEF ItemBytes
<1>5. \A i \in 1..n : Foreseen(q, fair, ns[i], s[i])
  BY <1>4 DEF ItemsForeseen
<1>6. /\ Foreseen(q, fair, Total(ns), FlattenSeq(s))
      /\ (\A i \in 1..n : Len(s[i]) >= 1) => n <= Len(FlattenSeq(s))
  <2>1. ns = [i \in 1..n |-> ns[i]] /\ s = [i \in 1..n |-> s[i]]
    BY <1>4
  <2> HIDE DEF ns, s, n
  <2> QED
    BY <1>5, <2>1, ForeseenTogether DEF n
<1>7. IntWidth \in Nat /\ IntWidth >= 1
  BY Widths
<1>8. header \in Seq(Byte) /\ Len(header) = IntWidth
  <2> HIDE DEF n
  <2>1. n \in Int
    BY DEF n
  <2> QED
    BY <1>7, <2>1, NumberBytesFacts
<1>9. PutArray(in, p, T, v) = header \o FlattenSeq(s)
  BY <1>4 DEF PutArray
<1>10. ASSUME NEW m, Foreseen(q, fair, m, FlattenSeq(s))
       PROVE  /\ Foreseen(q, fair, IntWidth + m, PutArray(in, p, T, v))
              /\ Len(PutArray(in, p, T, v)) = IntWidth + Len(FlattenSeq(s))
  <2> HIDE DEF header, s
  <2> QED
    BY <1>7, <1>8, <1>9, <1>10, ForeseenBehind
<1>11. FlattenSeq(s) \in Seq(Byte) /\ Len(FlattenSeq(s)) \in Nat
  BY <1>6 DEF Foreseen
<1>12. ~(p = "kotlin" /\ v.is = "array" /\ v.t = "byte") => ArraySize(in, p, T, v) = IntWidth + Total(ns)
  BY DEF ArraySize
<1> HIDE DEF ns
<1>13. Len(PutArray(in, p, T, v)) >= 1
  <2> HIDE DEF s
  <2> QED
    BY <1>6, <1>7, <1>10, <1>11
<1> QED
  BY <1>6, <1>10, <1>11, <1>12, <1>13

\* An array around a codec that is sound.
LEMMA SoundArray ==
    ASSUME NEW in, Sound(in), NEW p \in Platforms, NEW T \in Types, T.is = "array",
           NEW v \in ValueSet, AcceptsArray(in, p, T, v)
    PROVE  /\ Foreseen(p, T \in Sized, ArraySize(in, p, T, v), PutArray(in, p, T, v))
           /\ Len(PutArray(in, p, T, v)) >= 1
<1> DEFINE D == T.of[1]
           n == Len(v.items)
           s == ItemBytes(in, p, T, v)
           fair == T \in Sized
<1>1. D \in Types /\ (fair => D \in Sized /\ D.is # "null")
  BY TypeFacts, SizedFacts
<1>2. v.is \in {"list", "array"} /\ n \in Nat /\ \A i \in 1..n : v.items[i] \in ValueSet
  BY InsideFacts DEF AcceptsArray, IsItems
<1>3. \A i \in 1..n : in.accepts[p][D][v.items[i]]
  BY DEF AcceptsArray
<1>4. ASSUME NEW i \in 1..n
      PROVE  /\ Foreseen(p, D \in Sized, in.size[p][D][v.items[i]], in.put[p][D][v.items[i]])
             /\ D.is = "null" \/ v.items[i].is = "map" \/ Len(in.put[p][D][v.items[i]]) >= 1
  <2> HIDE DEF D, n
  <2> QED
    BY <1>1, <1>2, <1>3, SoundAt
<1>5. ItemsForeseen(in, p, p, fair, T, v)
  <2>1. \A i \in 1..n : Foreseen(p, fair, in.size[p][D][v.items[i]], in.put[p][D][v.items[i]])
    BY <1>1, <1>4 DEF Foreseen
  <2> QED
    BY <2>1 DEF ItemsForeseen
<1> HIDE DEF fair
<1>6. /\ FlattenSeq(s) \in Seq(Byte) /\ Len(FlattenSeq(s)) \in Nat
      /\ Len(PutArray(in, p, T, v)) >= 1
      /\ \A m : Foreseen(p, fair, m, FlattenSeq(s)) => Foreseen(p, fair, IntWidth + m, PutArray(in, p, T, v))
      /\ ~(p = "kotlin" /\ v.is = "array" /\ v.t = "byte") =>
            Foreseen(p, fair, ArraySize(in, p, T, v), PutArray(in, p, T, v))
      /\ (\A i \in 1..n : Len(s[i]) >= 1) => n <= Len(FlattenSeq(s))
  BY <1>2, <1>5, ForeseenArray
<1>7. CASE p = "kotlin" /\ v.is = "array" /\ v.t = "byte"
  <2>1. ArraySize(in, p, T, v) = IntWidth + n
    BY <1>7 DEF ArraySize
  <2>2. ASSUME fair, NEW i \in 1..n PROVE Len(s[i]) >= 1
    <3>1. v.items[i].is \in NumberKinds \cup {"bool"}
      BY <1>7, <2>2, InsideFacts
    <3>2. v.items[i].is # "map"
      BY <3>1 DEF NumberKinds, WholeKinds
    <3>3. Len(in.put[p][D][v.items[i]]) >= 1
      BY <1>1, <1>4, <2>2, <3>2
    <3>4. s[i] = in.put[p][D][v.items[i]]
      BY DEF ItemBytes
    <3> QED
      BY <3>3, <3>4
  <2>3. Foreseen(p, fair, n, FlattenSeq(s))
    <3>1. fair => n <= Len(FlattenSeq(s))
      BY <1>6, <2>2
    <3> HIDE DEF n, s
    <3> QED
      BY <1>2, <1>6, <1>7, <3>1 DEF Foreseen
  <2> HIDE DEF n, s
  <2> QED
    BY <1>6, <2>1, <2>3 DEF fair
<1> QED
  BY <1>6, <1>7 DEF fair

----------------------------------------------------------------------------
\* Classes.
LEMMA ForeseenClass ==
    ASSUME NEW in, NEW p, NEW q, NEW d \in Declaration, NEW v, FieldsForeseen(in, p, q, d, v)
    PROVE  Foreseen(q, TRUE, ClassSize(in, p, d, v), PutClass(in, p, d, v))
<1> DEFINE n == Len(d.fields)
           T(k) == d.fields[k].type
           x(k) == FieldValue(d.fields[k], v)
           ns == [k \in 1..n |-> in.size[p][T(k)][x(k)]]
           s == [k \in 1..n |-> in.put[p][T(k)][x(k)]]
<1>1. n \in Nat
  BY DeclarationIsRecord
<1>2. \A k \in 1..n : Foreseen(q, TRUE, ns[k], s[k])
  BY DEF FieldsForeseen
<1>3. Foreseen(q, TRUE, Total(ns), FlattenSeq(s))
  <2>1. ns = [i \in 1..n |-> ns[i]] /\ s = [i \in 1..n |-> s[i]]
    OBVIOUS
  <2> HIDE DEF ns, s, n
  <2> QED
    BY <1>1, <1>2, <2>1, ForeseenTogether
<1> QED
  BY <1>3 DEF ClassSize, PutClass

\* A class around a codec that is sound.
LEMMA SoundClass ==
    ASSUME NEW in, Sound(in), NEW p \in Platforms, NEW d \in Declaration,
           NEW v \in ValueSet, AcceptsClass(in, p, d, v)
    PROVE  Foreseen(p, TRUE, ClassSize(in, p, d, v), PutClass(in, p, d, v)) /\ v.is = "map"
<1> DEFINE n == Len(d.fields)
           T(k) == d.fields[k].type
           x(k) == FieldValue(d.fields[k], v)
<1>1. v.is = "map" /\ \A k \in 1..n : in.accepts[p][T(k)][x(k)]
  BY DEF AcceptsClass
<1>2. ASSUME NEW k \in 1..n PROVE Foreseen(p, TRUE, in.size[p][T(k)][x(k)], in.put[p][T(k)][x(k)])
  <2>1. T(k) \in Types /\ T(k) \in Sized
    BY FieldFacts DEF Types, Sized
  <2>2. x(k) \in ValueSet
    BY <1>1, FieldValueFacts
  <2>3. in.accepts[p][T(k)][x(k)]
    BY <1>1
  <2> HIDE DEF T, x, n
  <2>4. Foreseen(p, T(k) \in Sized, in.size[p][T(k)][x(k)], in.put[p][T(k)][x(k)])
    BY <2>1, <2>2, <2>3, SoundAt
  <2> QED
    BY <2>1, <2>4 DEF Foreseen
<1>3. FieldsForeseen(in, p, p, d, v)
  BY <1>2 DEF FieldsForeseen
<1> QED
  BY <1>1, <1>3, ForeseenClass

----------------------------------------------------------------------------
\* Maps.
LEMMA ForeseenEntry ==
    ASSUME NEW in, NEW p \in Platforms, NEW q, NEW fair, NEW e, e.t \in TextNames,
           e.items[1] \in ValueSet, HeldForeseen(in, p, q, fair, e.items[1])
    PROVE  Foreseen(q, fair, IntWidth + EntrySize(in, p, e), PutEntry(in, p, e))
<1> DEFINE x == e.items[1]
           T == ValType(p, x)
           n == in.size[p][T][x]
           b == in.put[p][T][x]
           text == PutText(e.t)
           length == EntrySize(in, p, e)
           header == EntryHeader(T, length)
<1>1. T \in valTypes[MaxNesting] /\ T \in Types
  BY ValTypeIsType
<1>4. Foreseen(q, fair, n, b) /\ T.is # "unknown"
  BY DEF HeldForeseen
<1>5. text \in Seq(Byte) /\ Len(text) = IntWidth + Len(TextBytes(e.t)) /\ Len(TextBytes(e.t)) \in Nat
  BY PutTextFacts
<1>6. IntWidth \in Nat /\ LengthWidth \in Nat /\ 1 + LengthWidth = IntWidth
  BY Widths
<1>7. length = IntWidth + Len(TextBytes(e.t)) + n
  BY DEF EntrySize
<1>8. length \in Nat
  <2>1. n \in Nat
    BY <1>4 DEF Foreseen
  <2> HIDE DEF n, length
  <2> QED
    BY <1>5, <1>6, <1>7, <2>1
<1>9. Ordinal(T) \in Byte
  <2> HIDE DEF T
  <2> QED
    BY <1>1, <1>4, OrdinalFacts
<1>10. header \in Seq(Byte) /\ Len(header) = IntWidth
  <2> HIDE DEF T, length
  <2>1. NumberBytes(length, LengthWidth) \in Seq(Byte) /\ Len(NumberBytes(length, LengthWidth)) = LengthWidth
    BY <1>6, <1>8, NumberBytesFacts
  <2>2. <<Ordinal(T)>> \in Seq(Byte) /\ Len(<<Ordinal(T)>>) = 1
    BY <1>9
  <2>3. header = <<Ordinal(T)>> \o NumberBytes(length, LengthWidth)
    BY DEF EntryHeader
  <2> HIDE DEF header
  <2> QED
    BY <1>6, <2>1, <2>2, <2>3, Lengths
<1>11. PutEntry(in, p, e) = (header \o text) \o b
  BY DEF PutEntry, PutEntryOf
<1>12. IntWidth + length = (IntWidth + (IntWidth + Len(TextBytes(e.t)))) + n
  <2>1. n \in Nat
    BY <1>4 DEF Foreseen
  <2> HIDE DEF n, length
  <2> QED
    BY <1>5, <1>6, <1>7, <2>1
<1>13. header \o text \in Seq(Byte) /\ Len(header \o text) = IntWidth + (IntWidth + Len(TextBytes(e.t)))
  <2> HIDE DEF header, text
  <2>1. header \o text \in Seq(Byte) /\ Len(header \o text) = Len(header) + Len(text)
    BY <1>5, <1>10, Lengths
  <2> QED
    BY <1>5, <1>10, <2>1
<1>14. IntWidth + (IntWidth + Len(TextBytes(e.t))) \in Nat
  BY <1>5, <1>6
<1>15. Foreseen(q, fair, (IntWidth + (IntWidth + Len(TextBytes(e.t)))) + n, (header \o text) \o b)
  <2> HIDE DEF n, b, header, text
  <2> QED
    BY <1>4, <1>13, <1>14, ForeseenBehind
<1> QED
  BY <1>11, <1>12, <1>15

\* A map is foreseen if what it holds is.
LEMMA ForeseenMap ==
    ASSUME NEW in, NEW p \in Platforms, NEW q, NEW fair, NEW v \in ValueSet, v.is = "map",
           \A i \in 1..Len(Keyed(v)) : HeldForeseen(in, p, q, fair, Keyed(v)[i].items[1])
    PROVE  /\ Foreseen(q, fair, MapSize(in, p, v), PutMap(in, p, v))
           /\ Len(PutMap(in, p, v)) >= 1
<1> DEFINE items == Keyed(v)
           n == Len(items)
           ns == [i \in 1..n |-> IntWidth + EntrySize(in, p, items[i])]
           s == [i \in 1..n |-> PutEntry(in, p, items[i])]
           header == NumberBytes(Len(v.items), ShortWidth)
<1>1. v.items \in Seq(Entries(ValueSet))
  BY InsideFacts
<1>2. n \in Nat /\ \A i \in 1..n : items[i].t \in TextNames /\ items[i].items[1] \in ValueSet
  BY <1>1, KeyedFacts
<1>4. ASSUME NEW i \in 1..n
      PROVE  Foreseen(q, fair, IntWidth + EntrySize(in, p, items[i]), PutEntry(in, p, items[i]))
  <2> DEFINE e == items[i]
  <2>1. e.t \in TextNames /\ e.items[1] \in ValueSet /\ HeldForeseen(in, p, q, fair, e.items[1])
    BY <1>2
  <2> HIDE DEF e
  <2>3. Foreseen(q, fair, IntWidth + EntrySize(in, p, e), PutEntry(in, p, e))
    BY <2>1, ForeseenEntry
  <2> QED
    BY <2>3 DEF e
<1>5. \A i \in 1..n : Foreseen(q, fair, ns[i], s[i])
  BY <1>4
<1>6. Foreseen(q, fair, Total(ns), FlattenSeq(s))
  <2>1. ns = [i \in 1..n |-> ns[i]] /\ s = [i \in 1..n |-> s[i]]
    OBVIOUS
  <2> HIDE DEF ns, s, n
  <2> QED
    BY <1>2, <1>5, <2>1, ForeseenTogether
<1>7. ShortWidth \in Nat /\ ShortWidth >= 1 /\ Len(v.items) \in Nat
  BY Widths, InsideFacts
<1>8. header \in Seq(Byte) /\ Len(header) = ShortWidth
  BY <1>7, NumberBytesFacts
<1>9. MapSize(in, p, v) = ShortWidth + Total(ns) /\ PutMap(in, p, v) = header \o FlattenSeq(s)
  BY DEF MapSize, PutMap
<1>10. Foreseen(q, fair, ShortWidth + Total(ns), header \o FlattenSeq(s))
       /\ Len(header \o FlattenSeq(s)) = ShortWidth + Len(FlattenSeq(s))
  <2> HIDE DEF ns, s, header
  <2> QED
    BY <1>6, <1>7, <1>8, ForeseenBehind
<1>11. Len(FlattenSeq(s)) \in Nat
  BY <1>6 DEF Foreseen
<1> HIDE DEF ns, s, header
<1> QED
  BY <1>7, <1>9, <1>10, <1>11

\* A map around a codec that is sound.
LEMMA SoundMap ==
    ASSUME NEW in, Sound(in), NEW p \in Platforms, NEW v \in ValueSet, AcceptsMap(in, p, v)
    PROVE  /\ Foreseen(p, p = "kotlin", MapSize(in, p, v), PutMap(in, p, v))
           /\ Len(PutMap(in, p, v)) >= 1
<1> DEFINE fair == p = "kotlin"
<1>1. v.is = "map" /\ v.items \in Seq(Entries(ValueSet))
  BY InsideFacts DEF AcceptsMap
<1>2. \A i \in 1..Len(Keyed(v)) :
         /\ Keyed(v)[i].items[1] \in ValueSet
         /\ in.accepts[p][ValType(p, Keyed(v)[i].items[1])][Keyed(v)[i].items[1]]
  BY <1>1, KeyedFacts DEF AcceptsMap
<1>3. ASSUME NEW x \in ValueSet, in.accepts[p][ValType(p, x)][x] PROVE HeldForeseen(in, p, p, fair, x)
  <2> DEFINE T == ValType(p, x)
  <2>1. T \in Types /\ in.accepts[p][T][x] /\ (fair => T \in Sized)
    BY <1>3, ValTypeIsType, KtValTypeSized
  <2> HIDE DEF T, fair
  <2>2. Foreseen(p, T \in Sized, in.size[p][T][x], in.put[p][T][x]) /\ T.is # "unknown"
    BY <2>1, SoundAt
  <2>3. Foreseen(p, fair, in.size[p][T][x], in.put[p][T][x])
    BY <2>1, <2>2 DEF Foreseen
  <2> QED
    BY <2>2, <2>3 DEF HeldForeseen, T
<1>4. \A i \in 1..Len(Keyed(v)) : HeldForeseen(in, p, p, fair, Keyed(v)[i].items[1])
  BY <1>2, <1>3
<1> HIDE DEF fair
<1>5. Foreseen(p, fair, MapSize(in, p, v), PutMap(in, p, v)) /\ Len(PutMap(in, p, v)) >= 1
  BY <1>1, <1>4, ForeseenMap
<1> QED
  BY <1>5 DEF fair

\* What a call does, given what the calls inside do.
SoundHere(in, p, T, v) ==
    /\ Foreseen(p, T \in Sized, SizeOf(in, p, T, v), PutOf(in, p, T, v))
    /\ T.is = "null" \/ v.is = "map" \/ Len(PutOf(in, p, T, v)) >= 1
    /\ T.is # "unknown"

\* Bytes that are as many as foreseen.
LEMMA ForeseenExactly ==
    ASSUME NEW p, NEW fair, NEW bytes \in Seq(Byte)
    PROVE  Foreseen(p, fair, Len(bytes), bytes)
BY DEF Foreseen

\* A number is foreseen: its width.
LEMMA NumberSound ==
    ASSUME NEW p, NEW fair, NEW n \in Int, NEW w \in 1..8
    PROVE  Foreseen(p, fair, w, NumberBytes(n, w)) /\ Len(NumberBytes(n, w)) >= 1
<1>1. NumberBytes(n, w) \in Seq(Byte) /\ Len(NumberBytes(n, w)) = w
  BY NumberBytesFacts
<1> QED
  BY <1>1, ForeseenExactly

\* A byte is one byte.
LEMMA PutByteFacts ==
    ASSUME NEW p, NEW n \in Int, p = "python" => n \in Byte
    PROVE  PutByte(p, n) \in Seq(Byte) /\ Len(PutByte(p, n)) = 1
<1> DEFINE b == IF p = "python" THEN n ELSE n % 256
<1>1. b \in Byte
  <2>1. n % 256 \in 0..255
    OBVIOUS
  <2> QED
    BY <2>1 DEF Byte
<1>2. PutByte(p, n) = <<b>>
  BY DEF PutByte
<1> HIDE DEF b
<1> QED
  BY <1>1, <1>2

\* What is put for a number that is let through is whole.
LEMMA PyAcceptedFacts ==
    ASSUME NEW p \in Platforms, NEW is \in WholeKinds, NEW v \in ValueSet,
           IF p = "python" THEN PyAcceptsNumber(is, v) ELSE KtAcceptsNumber(is, v)
    PROVE  (CHOOSE n \in Whole(p, v) : TRUE) \in Int
<1>1. v.n \in Int
  BY InsideFacts
<1>2. Whole(p, v) # {}
  <2>1. CASE p = "kotlin"
    BY <2>1 DEF KtAcceptsNumber, Whole
  <2>2. CASE p = "python" /\ is # "byte"
    BY <2>2 DEF PyAcceptsNumber, Whole
  <2>3. CASE p = "python" /\ is = "byte"
    <3>1. v.is \in WholeKinds \cup {"bool"}
      BY <2>3 DEF PyAcceptsNumber
    <3>2. v.is # "float"
      BY <3>1 DEF WholeKinds
    <3>3. PyWhole(v) = {v.n}
      BY <3>1, <3>2 DEF PyWhole
    <3> QED
      BY <2>3, <3>3 DEF Whole
  <2> QED
    BY <2>1, <2>2, <2>3 DEF Platforms
<1>3. \A n \in Whole(p, v) : n \in Int
  BY <1>1, WholeFacts
<1> QED
  BY <1>2, <1>3

\* An enum is foreseen: its length and its text.
LEMMA ForeseenEnum ==
    ASSUME NEW p \in Platforms, NEW q, NEW d, NEW v \in ValueSet, AcceptsEnum(p, d, v)
    PROVE  /\ Foreseen(q, TRUE, 1 + Len(TextBytes(ToText(p, v))), PutEnum(p, v))
           /\ Len(PutEnum(p, v)) >= 1
<1> DEFINE bytes == TextBytes(ToText(p, v))
<1>1. bytes \in Seq(Byte) /\ Len(bytes) \in Nat
  <2>1. ToText(p, v) \in TextNames
    BY InsideFacts, ToTextFacts
  <2> QED
    BY <2>1, TextBytesFacts
<1>2. p = "python" => Len(bytes) \in Byte
  BY DEF AcceptsEnum
<1>3. PutEnum(p, v) = PutByte(p, Len(bytes)) \o bytes
  BY DEF PutEnum, PutShortText
<1> HIDE DEF bytes
<1>4. PutByte(p, Len(bytes)) \in Seq(Byte) /\ Len(PutByte(p, Len(bytes))) = 1
  <2>1. Len(bytes) \in Int
    BY <1>1
  <2> QED
    BY <1>2, <2>1, PutByteFacts
<1>5. Foreseen(q, TRUE, Len(bytes), bytes)
  BY <1>1, ForeseenExactly
<1>6. 1 \in Nat
  OBVIOUS
<1>7. Foreseen(q, TRUE, 1 + Len(bytes), PutByte(p, Len(bytes)) \o bytes)
      /\ Len(PutByte(p, Len(bytes)) \o bytes) = 1 + Len(bytes)
  BY <1>4, <1>5, <1>6, ForeseenBehind, ZenonT(40)
<1>8. Len(PutEnum(p, v)) >= 1
  BY <1>1, <1>3, <1>7
<1>9. Foreseen(q, TRUE, 1 + Len(bytes), PutEnum(p, v))
  BY <1>3, <1>7
<1> QED
  BY <1>8, <1>9 DEF bytes

\* A union is foreseen if its class is.
LEMMA ForeseenUnion ==
    ASSUME NEW in, NEW p \in Platforms, NEW q, NEW d \in Declaration, NEW v,
           Candidates(p, d, v) # {}, p = "python" => Chosen(p, d, v) - 1 \in Byte,
           Foreseen(q, TRUE, ClassSize(in, p, Resolve(d.values[Chosen(p, d, v)]), v),
                             PutClass(in, p, Resolve(d.values[Chosen(p, d, v)]), v))
    PROVE  /\ Foreseen(q, TRUE, 1 + ClassSize(in, p, Resolve(d.values[Chosen(p, d, v)]), v), PutUnion(in, p, d, v))
           /\ Len(PutUnion(in, p, d, v)) >= 1
<1> DEFINE i == Chosen(p, d, v)
           class == Resolve(d.values[i])
           sel == SelectInSeq(d.values, LAMBDA name : name = d.values[i])
           at == sel - 1
           n == ClassSize(in, p, class, v)
           b == PutClass(in, p, class, v)
<1>1. p = "python" => i - 1 \in Byte
  OBVIOUS
<1>2. i \in 1..Len(d.values)
  BY ChosenFacts
<1>4. Foreseen(q, TRUE, n, b)
  OBVIOUS
<1>5. at \in Int /\ (p = "python" => at \in Byte)
  <2>1. sel \in 1..i
    <3> HIDE DEF i
    <3> QED
      BY <1>2, PositionFacts
  <2>2. i \in Nat /\ Len(d.values) \in Nat
    BY <1>2, DeclarationIsRecord
  <2>3. at \in 0..(i - 1)
    <3> HIDE DEF sel, i
    <3> QED
      BY <2>1, <2>2
  <2>4. p = "python" => i - 1 <= 255
    <3> HIDE DEF i
    <3> QED
      BY <1>1, <2>2 DEF Byte
  <2>5. \A m, k \in Int : k \in Nat /\ m \in 0..(k - 1) => m \in Int /\ (k - 1 <= 255 => m \in 0..255)
    OBVIOUS
  <2>6. at \in Int /\ (i - 1 <= 255 => at \in 0..255)
    <3> HIDE DEF at, i
    <3> QED
      BY <2>2, <2>3, <2>5
  <2> HIDE DEF at, i
  <2> QED
    BY <2>4, <2>6 DEF Byte
<1>6. PutByte(p, at) \in Seq(Byte) /\ Len(PutByte(p, at)) = 1
  <2> HIDE DEF at
  <2> QED
    BY <1>5, PutByteFacts
<1>7. PutUnion(in, p, d, v) = PutByte(p, at) \o b
  BY DEF PutUnion, PutMember
<1> HIDE DEF at, b, n
<1>8. 1 \in Nat
  OBVIOUS
<1>9. Foreseen(q, TRUE, 1 + n, PutByte(p, at) \o b) /\ Len(PutByte(p, at) \o b) = 1 + Len(b)
  BY <1>4, <1>6, <1>8, ForeseenBehind
<1>10. Len(b) \in Nat
  BY <1>4 DEF Foreseen
<1>11. Len(PutUnion(in, p, d, v)) >= 1
  BY <1>7, <1>9, <1>10
<1>12. Foreseen(q, TRUE, 1 + n, PutUnion(in, p, d, v))
  BY <1>7, <1>9
<1> QED
  BY <1>11, <1>12 DEF n

\* A union around a codec that is sound.
LEMMA UnionSound ==
    ASSUME NEW in, Sound(in), NEW p \in Platforms, NEW d \in Declaration,
           \A k \in 1..Len(d.values) : Resolve(d.values[k]) \in Declaration,
           NEW v \in ValueSet, AcceptsUnion(in, p, d, v)
    PROVE  /\ Foreseen(p, TRUE, 1 + ClassSize(in, p, Resolve(d.values[Chosen(p, d, v)]), v), PutUnion(in, p, d, v))
           /\ Len(PutUnion(in, p, d, v)) >= 1
<1> DEFINE class == Resolve(d.values[Chosen(p, d, v)])
<1>1. Candidates(p, d, v) # {} /\ AcceptsClass(in, p, class, v) /\ (p = "python" => Chosen(p, d, v) - 1 \in Byte)
  BY DEF AcceptsUnion, AcceptsMember
<1>2. class \in Declaration
  BY <1>1, ChosenFacts
<1>3. Foreseen(p, TRUE, ClassSize(in, p, class, v), PutClass(in, p, class, v))
  <2> HIDE DEF class
  <2> QED
    BY <1>1, <1>2, SoundClass
<1> QED
  BY <1>1, <1>3, ForeseenUnion

\* A reference around a codec that is sound.
LEMMA RefSound ==
    ASSUME NEW in, Sound(in), NEW p \in Platforms, NEW name \in DeclaredNames,
           NEW v \in ValueSet, AcceptsRef(in, p, Resolve(name), v)
    PROVE  /\ Foreseen(p, TRUE, RefSize(in, p, Resolve(name), v), PutRef(in, p, Resolve(name), v))
           /\ v.is = "map" \/ Len(PutRef(in, p, Resolve(name), v)) >= 1
<1> DEFINE d == Resolve(name)
<1>1. /\ d \in Declaration
      /\ d.is = "union" => \A k \in 1..Len(d.values) : Resolve(d.values[k]) \in Declaration
  BY ResolveFacts
<1>2. d.is \in {"class", "enum", "union"} /\ AcceptsRef(in, p, d, v)
  BY <1>1, DeclarationIsRecord
<1> HIDE DEF d
<1>3. CASE d.is = "enum"
  <2>1. AcceptsEnum(p, d, v)
    BY <1>2, <1>3 DEF AcceptsRef
  <2>2. RefSize(in, p, d, v) = 1 + Len(TextBytes(ToText(p, v))) /\ PutRef(in, p, d, v) = PutEnum(p, v)
    BY <1>3 DEF RefSize, PutRef
  <2>3. /\ Foreseen(p, TRUE, 1 + Len(TextBytes(ToText(p, v))), PutEnum(p, v))
        /\ Len(PutEnum(p, v)) >= 1
    BY <2>1, ForeseenEnum
  <2> QED
    BY <2>2, <2>3 DEF d
<1>4. CASE d.is = "class"
  <2>1. AcceptsClass(in, p, d, v)
    BY <1>2, <1>4 DEF AcceptsRef
  <2>2. RefSize(in, p, d, v) = ClassSize(in, p, d, v) /\ PutRef(in, p, d, v) = PutClass(in, p, d, v)
    BY <1>4 DEF RefSize, PutRef
  <2>3. Foreseen(p, TRUE, ClassSize(in, p, d, v), PutClass(in, p, d, v)) /\ v.is = "map"
    BY <1>1, <2>1, SoundClass
  <2> QED
    BY <2>2, <2>3 DEF d
<1>5. CASE d.is = "union"
  <2> DEFINE n == 1 + ClassSize(in, p, Resolve(d.values[Chosen(p, d, v)]), v)
  <2>1. AcceptsUnion(in, p, d, v)
    BY <1>2, <1>5 DEF AcceptsRef
  <2>2. RefSize(in, p, d, v) = n /\ PutRef(in, p, d, v) = PutUnion(in, p, d, v)
    BY <1>5 DEF RefSize, PutRef
  <2>3. Foreseen(p, TRUE, n, PutUnion(in, p, d, v)) /\ Len(PutUnion(in, p, d, v)) >= 1
    BY <1>1, <1>5, <2>1, UnionSound
  <2> HIDE DEF n
  <2> QED
    BY <2>2, <2>3 DEF d
<1> QED
  BY <1>2, <1>3, <1>4, <1>5

\* What is foreseen exactly is foreseen where less will do.
LEMMA ForeseenAny ==
    ASSUME NEW p, NEW fair, NEW less, NEW n, NEW bytes, Foreseen(p, fair, n, bytes), less => fair
    PROVE  Foreseen(p, less, n, bytes)
BY DEF Foreseen

\* Every type around a codec that is sound.
LEMMA SoundOf ==
    ASSUME NEW in, Sound(in), NEW p \in Platforms, NEW T \in Types, NEW v \in ValueSet,
           AcceptsOf(in, p, T, v)
    PROVE  SoundHere(in, p, T, v)
<1> DEFINE fair == T \in Sized
<1>0. /\ T.is \in TypeKinds
      /\ T.is = "ref" => T.name \in DeclaredNames
      /\ T.is \in {"array", "option"} => T.of[1] \in Types
      /\ fair /\ T.is \in {"array", "option"} => T.of[1] \in Sized /\ T.of[1].is # "null"
  BY TypeFacts, SizedFacts
<1>1. CASE T.is \in WholeKinds
  <2> DEFINE n == CHOOSE n \in Whole(p, v) : TRUE
             w == WidthOf(T.is)
  <2>1. IF p = "python" THEN PyAcceptsNumber(T.is, v) ELSE KtAcceptsNumber(T.is, v)
    BY <1>1 DEF AcceptsOf, WholeKinds
  <2>2. n \in Int
    BY <1>1, <2>1, PyAcceptedFacts
  <2>3. w \in 1..8
    BY <1>1, Widths DEF NumberKinds
  <2>4. SizeOf(in, p, T, v) = w /\ PutOf(in, p, T, v) = NumberBytes(n, w)
    BY <1>1 DEF SizeOf, PutOf, WholeKinds
  <2> HIDE DEF n, w
  <2>5. Foreseen(p, fair, w, NumberBytes(n, w)) /\ Len(NumberBytes(n, w)) >= 1
    BY <2>2, <2>3, NumberSound
  <2> QED
    BY <1>1, <2>4, <2>5 DEF SoundHere, WholeKinds
<1>2. CASE T.is = "float"
  <2> DEFINE h == CHOOSE h \in Halves(p, v) : TRUE
             w == WidthOf(T.is)
  <2>1. Halves(p, v) # {}
    BY <1>2 DEF AcceptsOf, AcceptsFloat, WholeKinds
  <2>2. h \in Int
    BY <2>1, HalvesFacts, InsideFacts
  <2>3. w \in 1..8 /\ w = WidthOf("float")
    BY <1>2, Widths DEF NumberKinds
  <2>4. SizeOf(in, p, T, v) = w /\ PutOf(in, p, T, v) = PutFloat(h)
    BY <1>2 DEF SizeOf, PutOf, WholeKinds
  <2> HIDE DEF h, w
  <2>5. PICK n \in Int : PutFloat(h) = NumberBytes(n, w)
    BY <2>2, <2>3, PutFloatFacts
  <2>6. Foreseen(p, fair, w, NumberBytes(n, w)) /\ Len(NumberBytes(n, w)) >= 1
    BY <2>3, NumberSound
  <2> QED
    BY <1>2, <2>4, <2>5, <2>6 DEF SoundHere
<1>3. CASE T.is = "boolean"
  <2> DEFINE b == IF IsTrue(p, v) THEN 1 ELSE 0
  <2>1. SizeOf(in, p, T, v) = 1 /\ PutOf(in, p, T, v) = <<b>>
    BY <1>3 DEF SizeOf, PutOf, WholeKinds, WidthOf
  <2>2. b \in Byte
    BY DEF Byte
  <2> HIDE DEF b
  <2>3. <<b>> \in Seq(Byte) /\ Len(<<b>>) = 1
    BY <2>2
  <2>4. Foreseen(p, fair, 1, <<b>>)
    <3>1. Foreseen(p, fair, Len(<<b>>), <<b>>)
      BY <2>3, ForeseenExactly
    <3> QED
      BY <2>3, <3>1
  <2> QED
    BY <1>3, <2>1, <2>3, <2>4 DEF SoundHere
<1>4. CASE T.is = "string"
  <2> DEFINE t == ToText(p, v)
  <2>1. t \in TextNames
    BY InsideFacts, ToTextFacts
  <2>2. SizeOf(in, p, T, v) = IntWidth + Len(TextBytes(t)) /\ PutOf(in, p, T, v) = PutText(t)
    BY <1>4 DEF SizeOf, PutOf, WholeKinds
  <2> HIDE DEF t
  <2>3. PutText(t) \in Seq(Byte) /\ Len(PutText(t)) = IntWidth + Len(TextBytes(t)) /\ Len(TextBytes(t)) \in Nat
    BY <2>1, PutTextFacts
  <2>4. Foreseen(p, fair, Len(PutText(t)), PutText(t))
    BY <2>3, ForeseenExactly
  <2>5. Len(PutText(t)) >= 1
    BY <2>3, Widths
  <2> QED
    BY <1>4, <2>2, <2>3, <2>4, <2>5 DEF SoundHere
<1>5. CASE T.is = "null"
  <2>1. SizeOf(in, p, T, v) = 0 /\ PutOf(in, p, T, v) = <<>>
    BY <1>5 DEF SizeOf, PutOf, WholeKinds
  <2>2. <<>> \in Seq(Byte) /\ Len(<<>>) = 0
    OBVIOUS
  <2>3. Foreseen(p, fair, 0, <<>>)
    BY <2>2 DEF Foreseen
  <2> QED
    BY <1>5, <2>1, <2>3 DEF SoundHere
<1>6. CASE T.is = "array"
  <2>1. AcceptsArray(in, p, T, v)
    BY <1>6 DEF AcceptsOf, WholeKinds
  <2>2. SizeOf(in, p, T, v) = ArraySize(in, p, T, v) /\ PutOf(in, p, T, v) = PutArray(in, p, T, v)
    BY <1>6 DEF SizeOf, PutOf, WholeKinds
  <2>3. /\ Foreseen(p, fair, ArraySize(in, p, T, v), PutArray(in, p, T, v))
        /\ Len(PutArray(in, p, T, v)) >= 1
    BY <1>6, <2>1, SoundArray
  <2> QED
    BY <1>6, <2>2, <2>3 DEF SoundHere
<1>7. CASE T.is = "map"
  <2>1. AcceptsMap(in, p, v)
    BY <1>7 DEF AcceptsOf, WholeKinds
  <2>2. SizeOf(in, p, T, v) = MapSize(in, p, v) /\ PutOf(in, p, T, v) = PutMap(in, p, v)
    BY <1>7 DEF SizeOf, PutOf, WholeKinds
  <2>3. /\ Foreseen(p, p = "kotlin", MapSize(in, p, v), PutMap(in, p, v))
        /\ Len(PutMap(in, p, v)) >= 1
    BY <2>1, SoundMap
  <2>4. Foreseen(p, TRUE, MapSize(in, p, v), PutMap(in, p, v))
    BY <2>3 DEF Foreseen, Platforms
  <2>5. Foreseen(p, fair, MapSize(in, p, v), PutMap(in, p, v))
    BY <2>4 DEF Foreseen
  <2> QED
    BY <1>7, <2>2, <2>3, <2>5 DEF SoundHere
<1>8. CASE T.is = "option"
  <2> DEFINE D == T.of[1]
  <2>1. v.is = "null" \/ in.accepts[p][D][v]
    BY <1>8 DEF AcceptsOf, WholeKinds
  <2>2. /\ SizeOf(in, p, T, v) = 1 + IF v.is = "null" THEN 0 ELSE in.size[p][D][v]
        /\ PutOf(in, p, T, v) = IF v.is = "null" THEN <<0>> ELSE <<1>> \o in.put[p][D][v]
    BY <1>8 DEF SizeOf, PutOf, PutOption, WholeKinds
  <2>3. <<0>> \in Seq(Byte) /\ Len(<<0>>) = 1 /\ <<1>> \in Seq(Byte) /\ Len(<<1>>) = 1 /\ 1 \in Nat
    BY DEF Byte
  <2>4. CASE v.is = "null"
    <3>1. Foreseen(p, fair, Len(<<0>>), <<0>>)
      BY <2>3, ForeseenExactly
    <3>2. SizeOf(in, p, T, v) = 1 /\ PutOf(in, p, T, v) = <<0>>
      BY <2>2, <2>4
    <3> QED
      BY <1>8, <2>3, <3>1, <3>2 DEF SoundHere
  <2>5. CASE v.is # "null"
    <3> DEFINE n == in.size[p][D][v]
               b == in.put[p][D][v]
    <3>1. D \in Types /\ in.accepts[p][D][v]
      BY <1>0, <1>8, <2>1, <2>5
    <3>2. Foreseen(p, D \in Sized, n, b)
      <4> HIDE DEF D
      <4> QED
        BY <3>1, SoundAt
    <3>3. fair => D \in Sized
      BY <1>0, <1>8
    <3> HIDE DEF n, b, D
    <3>4. Foreseen(p, fair, n, b)
      BY <3>2, <3>3, ForeseenAny
    <3>5. Foreseen(p, fair, 1 + n, <<1>> \o b) /\ Len(<<1>> \o b) = 1 + Len(b)
      BY <2>3, <3>4, ForeseenBehind, ZenonT(40)
    <3>6. SizeOf(in, p, T, v) = 1 + n /\ PutOf(in, p, T, v) = <<1>> \o b
      BY <2>2, <2>5 DEF n, b
    <3>7. Len(b) \in Nat
      BY <3>4 DEF Foreseen
    <3>8. Len(PutOf(in, p, T, v)) >= 1
      BY <3>5, <3>6, <3>7
    <3> QED
      BY <1>8, <3>5, <3>6, <3>8 DEF SoundHere
  <2> QED
    BY <2>4, <2>5
<1>9. CASE T.is = "ref"
  <2> DEFINE d == Resolve(T.name)
  <2>1. AcceptsRef(in, p, d, v)
    BY <1>9 DEF AcceptsOf, WholeKinds
  <2>2. SizeOf(in, p, T, v) = RefSize(in, p, d, v) /\ PutOf(in, p, T, v) = PutRef(in, p, d, v)
    BY <1>9 DEF SizeOf, PutOf, WholeKinds
  <2>3. /\ Foreseen(p, TRUE, RefSize(in, p, d, v), PutRef(in, p, d, v))
        /\ v.is = "map" \/ Len(PutRef(in, p, d, v)) >= 1
    BY <1>0, <1>9, <2>1, RefSound
  <2>4. Foreseen(p, fair, RefSize(in, p, d, v), PutRef(in, p, d, v))
    BY <2>3 DEF Foreseen
  <2> QED
    BY <1>9, <2>2, <2>3, <2>4 DEF SoundHere
<1>10. CASE T.is = "unknown"
  BY <1>10 DEF AcceptsOf, WholeKinds
<1> QED
  BY <1>0, <1>1, <1>2, <1>3, <1>4, <1>5, <1>6, <1>7, <1>8, <1>9, <1>10 DEF TypeKinds, NumberKinds

\* What a codec around another is made of.
LEMMA CodecFields ==
    ASSUME NEW in, NEW p \in Platforms, NEW T \in Types
    PROVE  /\ \A v \in ValueSet : /\ CodecAround(in).size[p][T][v] = SizeOf(in, p, T, v)
                                  /\ CodecAround(in).accepts[p][T][v] = AcceptsOf(in, p, T, v)
                                  /\ CodecAround(in).put[p][T][v] = PutOf(in, p, T, v)
           /\ \A b \in Seq(Byte) : CodecAround(in).get[p][T][b] = GetOf(in, p, T, b)
BY DEF CodecAround, Codec

\* What a codec that is nested too deep is made of.
LEMMA TooDeepFields ==
    ASSUME NEW p \in Platforms, NEW T \in Types
    PROVE  /\ \A v \in ValueSet : ~TooDeep.accepts[p][T][v]
           /\ \A b \in Seq(Byte) : TooDeep.get[p][T][b] = Raised
BY DEF TooDeep, Codec

\* A codec of any depth is sound: otherwise there is a least depth that is
\* not, whose codec is around one that is.
LEMMA CodecIsSound == \A d \in Nat : Sound(codec[d])
<1> DEFINE fails == {d \in Nat : ~Sound(codec[d])}
<1>1. SUFFICES ASSUME fails # {} PROVE FALSE
  OBVIOUS
<1>2. PICK d \in fails : \A e \in fails : d <= e
  <2>1. fails \in SUBSET Nat
    OBVIOUS
  <2> HIDE DEF fails
  <2> QED
    BY <1>1, <2>1, Least
<1>3. Sound(TooDeep)
  BY TooDeepFields DEF Sound
<1>4. d # 0
  BY <1>2, <1>3, CodecAt
<1>5. d - 1 \in Nat /\ (d - 1) + 1 = d /\ ~(d <= d - 1)
  BY <1>2, <1>4
<1>6. Sound(codec[d - 1])
  BY <1>2, <1>5
<1>7. codec[d] = CodecAround(codec[d - 1])
  BY <1>5, CodecAt
<1>8. Sound(CodecAround(codec[d - 1]))
  <2> DEFINE in == codec[d - 1]
  <2>1. Sound(in)
    BY <1>6
  <2> HIDE DEF in
  <2>2. ASSUME NEW p \in Platforms, NEW T \in Types, NEW v \in ValueSet, CodecAround(in).accepts[p][T][v]
        PROVE  /\ Foreseen(p, T \in Sized, CodecAround(in).size[p][T][v], CodecAround(in).put[p][T][v])
               /\ T.is = "null" \/ v.is = "map" \/ Len(CodecAround(in).put[p][T][v]) >= 1
               /\ T.is # "unknown"
    <3>1. /\ CodecAround(in).size[p][T][v] = SizeOf(in, p, T, v)
          /\ CodecAround(in).accepts[p][T][v] = AcceptsOf(in, p, T, v)
          /\ CodecAround(in).put[p][T][v] = PutOf(in, p, T, v)
      BY CodecFields
    <3>2. AcceptsOf(in, p, T, v)
      BY <2>2, <3>1
    <3>3. SoundHere(in, p, T, v)
      BY <2>1, <3>2, SoundOf
    <3> QED
      BY <3>1, <3>3 DEF SoundHere
  <2>3. Sound(CodecAround(in))
    BY <2>2 DEF Sound
  <2> QED
    BY <2>3 DEF in
<1> QED
  BY <1>2, <1>7, <1>8

----------------------------------------------------------------------------
\* What is read.

\* What reading returns, as deep as its values are.
ResultsOf(S) == [ok : BOOLEAN, v : S, rest : Seq(Byte)]

\* What a result is made of.
LEMMA ResultFacts ==
    ASSUME NEW S, NEW r \in ResultsOf(S)
    PROVE  r.ok \in BOOLEAN /\ r.v \in S /\ r.rest \in Seq(Byte)
<1> DEFINE B == Seq(Byte)
<1>1. r \in [ok : BOOLEAN, v : S, rest : B]
  BY DEF ResultsOf
<1> HIDE DEF B
<1>2. r.ok \in BOOLEAN /\ r.v \in S /\ r.rest \in B
  BY <1>1
<1> QED
  BY <1>2 DEF B

\* A result that was got.
LEMMA GotFacts ==
    ASSUME NEW S, NEW v \in S, NEW left \in Seq(Byte)
    PROVE  /\ Got(v, left) \in ResultsOf(S)
           /\ Got(v, left).ok /\ Got(v, left).v = v /\ Got(v, left).rest = left
<1> DEFINE B == Seq(Byte)
<1>1. left \in B
  OBVIOUS
<1> HIDE DEF B
<1>2. Got(v, left) \in [ok : BOOLEAN, v : S, rest : B]
  BY <1>1 DEF Got
<1>3. Got(v, left).ok /\ Got(v, left).v = v /\ Got(v, left).rest = left
  BY DEF Got
<1> QED
  BY <1>2, <1>3 DEF B, ResultsOf

\* A result that was raised.
LEMMA RaisedFacts ==
    ASSUME NEW S, Null \in S
    PROVE  Raised \in ResultsOf(S) /\ ~Raised.ok /\ Raised.v = Null
<1> DEFINE B == Seq(Byte)
<1>1. <<>> \in B
  OBVIOUS
<1> HIDE DEF B
<1>2. Raised \in [ok : BOOLEAN, v : S, rest : B]
  BY <1>1 DEF Raised
<1>3. ~Raised.ok /\ Raised.v = Null
  BY DEF Raised
<1> QED
  BY <1>2, <1>3 DEF B, ResultsOf

\* More values make more results.
LEMMA ResultsUp == ASSUME NEW S, NEW T, S \subseteq T PROVE ResultsOf(S) \subseteq ResultsOf(T)
<1> DEFINE B == Seq(Byte)
<1> HIDE DEF B
<1>1. [ok : BOOLEAN, v : S, rest : B] \subseteq [ok : BOOLEAN, v : T, rest : B]
  OBVIOUS
<1> QED
  BY <1>1 DEF B, ResultsOf

----------------------------------------------------------------------------
\* Parts of bytes.
LEMMA CutFacts ==
    ASSUME NEW bytes \in Seq(Byte)
    PROVE  /\ Len(bytes) \in Nat
           /\ \A n \in Int : PyCut(n, bytes) \in 0..Len(bytes)
           /\ \A n \in 0..Len(bytes) : /\ Take(n, bytes) \in Seq(Byte) /\ Len(Take(n, bytes)) = n
                                       /\ Drop(n, bytes) \in Seq(Byte)
           /\ bytes # <<>> => Tail(bytes) \in Seq(Byte) /\ bytes[1] \in Byte
<1>1. Len(bytes) \in Nat
  OBVIOUS
<1>2. \A n \in Int : PyCut(n, bytes) \in 0..Len(bytes)
  BY <1>1 DEF PyCut
<1>3. ASSUME NEW n \in 0..Len(bytes)
      PROVE  /\ Take(n, bytes) \in Seq(Byte) /\ Len(Take(n, bytes)) = n
             /\ Drop(n, bytes) \in Seq(Byte)
  <2>1. SubSeq(bytes, 1, n) \in Seq(Byte) /\ Len(SubSeq(bytes, 1, n)) = n
    <3>1. \A i \in 1..n : bytes[i] \in Byte
      OBVIOUS
    <3> QED
      BY <3>1
  <2>2. SubSeq(bytes, n + 1, Len(bytes)) \in Seq(Byte)
    OBVIOUS
  <2> QED
    BY <2>1, <2>2 DEF Take, Drop
<1>4. bytes # <<>> => Tail(bytes) \in Seq(Byte) /\ bytes[1] \in Byte
  OBVIOUS
<1> QED
  BY <1>1, <1>2, <1>3, <1>4

NumberResults == ResultsOf(Numbers \cup {Null})

\* A number is read.
LEMMA GetNumberFacts ==
    ASSUME NEW p, NEW is \in NumberKinds, NEW bytes \in Seq(Byte)
    PROVE  /\ GetNumber(p, is, bytes) \in NumberResults
           /\ GetNumber(p, is, bytes).ok => GetNumber(p, is, bytes).v \in Numbers
           /\ GetNumber(p, is, bytes).v.n \in Int
           /\ GetNumber(p, is, bytes).rest \in Seq(Byte)
<1> DEFINE w == WidthOf(is)
           n == NumberOf(Take(w, bytes))
           x == NumberAs(p, is, n)
<1>1. w \in 1..8 /\ Len(bytes) \in Nat
  BY Widths, CutFacts
<1>2. GetNumber(p, is, bytes) = IF Len(bytes) < w THEN Raised ELSE Got(x, Drop(w, bytes))
  BY DEF GetNumber, GetBytes
<1>3. Null \in Numbers \cup {Null} /\ Null.n = 0
  BY DEF Null, Value
<1>4. CASE Len(bytes) < w
  <2>1. GetNumber(p, is, bytes) = Raised
    BY <1>2, <1>4
  <2>2. Raised \in ResultsOf(Numbers \cup {Null}) /\ ~Raised.ok /\ Raised.v = Null
    BY <1>3, RaisedFacts
  <2> QED
    BY <1>3, <2>1, <2>2, ResultFacts DEF NumberResults
<1>5. CASE ~(Len(bytes) < w)
  <2> HIDE DEF w
  <2>1. w \in 0..Len(bytes)
    BY <1>1, <1>5
  <2>2. Take(w, bytes) \in Seq(Byte) /\ Len(Take(w, bytes)) = w /\ Drop(w, bytes) \in Seq(Byte)
    BY <2>1, CutFacts
  <2>3. Take(w, bytes) # <<>>
    BY <1>1, <2>2
  <2>4. n \in Int
    BY <2>2, <2>3, NumberOfFacts
  <2>5. x \in Numbers
    <3>1. \A k \in Int : k % 256 \in Int
      OBVIOUS
    <3>2. \A kind \in NumberKinds : \A k \in Int : Number(kind, k) \in Numbers
      BY DEF Number, Value, Numbers
    <3>3. "int" \in NumberKinds /\ "float" \in NumberKinds
      BY DEF NumberKinds, WholeKinds
    <3> HIDE DEF n
    <3> QED
      BY <2>4, <3>1, <3>2, <3>3 DEF NumberAs
  <2> HIDE DEF x
  <2>6. GetNumber(p, is, bytes) = Got(x, Drop(w, bytes))
    BY <1>2, <1>5
  <2>7. x \in Numbers \cup {Null}
    BY <2>5
  <2>8. /\ Got(x, Drop(w, bytes)) \in ResultsOf(Numbers \cup {Null})
        /\ Got(x, Drop(w, bytes)).v = x
        /\ Got(x, Drop(w, bytes)).rest = Drop(w, bytes)
    BY <2>2, <2>7, GotFacts
  <2>9. x.n \in Int
    BY <2>5 DEF Numbers
  <2> QED
    BY <2>2, <2>5, <2>6, <2>8, <2>9 DEF NumberResults
<1> QED
  BY <1>4, <1>5

\* A boolean that is read is one, or none.
LEMMA GetBooleanFacts ==
    ASSUME NEW p, NEW bytes \in Seq(Byte)
    PROVE  /\ GetBoolean(p, bytes) \in ResultsOf(Booleans \cup {Null})
           /\ GetBoolean(p, bytes).ok => GetBoolean(p, bytes).v \in Booleans
<1> DEFINE b == IF p = "python" THEN bytes[1] # 0 ELSE bytes[1] = 1
<1>1. Null \in Booleans \cup {Null}
  OBVIOUS
<1>2. GetBoolean(p, bytes) = IF bytes = <<>> THEN Raised ELSE Got(Bool(b), Tail(bytes))
  BY DEF GetBoolean
<1>3. CASE bytes = <<>>
  BY <1>1, <1>2, <1>3, RaisedFacts
<1>4. CASE bytes # <<>>
  <2>1. b \in BOOLEAN
    OBVIOUS
  <2> HIDE DEF b
  <2>2. Bool(b) \in Booleans
    BY <2>1, BoolFacts
  <2>3. Bool(b) \in Booleans \cup {Null} /\ Tail(bytes) \in Seq(Byte)
    BY <1>4, <2>2, CutFacts
  <2>4. /\ Got(Bool(b), Tail(bytes)) \in ResultsOf(Booleans \cup {Null})
        /\ Got(Bool(b), Tail(bytes)).v = Bool(b)
    BY <2>3, GotFacts
  <2> QED
    BY <1>2, <1>4, <2>2, <2>4
<1> QED
  BY <1>3, <1>4

TextResults == ResultsOf(TextValues \cup {Null})

\* A text of a length that is read is one.
LEMMA GetTextFacts ==
    ASSUME NEW p, NEW n \in Int, NEW bytes \in Seq(Byte)
    PROVE  /\ GetText(p, n, bytes) \in TextResults
           /\ GetText(p, n, bytes).ok => GetText(p, n, bytes).v.t \in TextNames
           /\ GetText(p, n, bytes).rest \in Seq(Byte)
<1> DEFINE k == PyCut(n, bytes)
           x == Text(TextOf(Take(k, bytes)))
<1>1. Null \in TextValues \cup {Null}
  OBVIOUS
<1>2. GetText(p, n, bytes) = IF p = "kotlin" /\ KtUnderflows(n, bytes) THEN Raised ELSE Got(x, Drop(k, bytes))
  BY DEF GetText
<1>3. CASE p = "kotlin" /\ KtUnderflows(n, bytes)
  <2>1. GetText(p, n, bytes) = Raised
    BY <1>2, <1>3
  <2>2. Raised \in ResultsOf(TextValues \cup {Null}) /\ ~Raised.ok
    BY <1>1, RaisedFacts
  <2> QED
    BY <2>1, <2>2, ResultFacts DEF TextResults
<1>4. CASE ~(p = "kotlin" /\ KtUnderflows(n, bytes))
  <2>1. k \in 0..Len(bytes)
    BY CutFacts
  <2>2. Drop(k, bytes) \in Seq(Byte)
    <3> HIDE DEF k
    <3> QED
      BY <2>1, CutFacts
  <2>3. x \in TextValues /\ x.t \in TextNames
    <3>1. TextOf(Take(k, bytes)) \in TextNames
      BY TextOfFacts
    <3> QED
      BY <3>1 DEF Text, Value, TextValues
  <2> HIDE DEF x, k
  <2>4. x \in TextValues \cup {Null}
    BY <2>3
  <2>5. /\ Got(x, Drop(k, bytes)) \in ResultsOf(TextValues \cup {Null})
        /\ Got(x, Drop(k, bytes)).v = x /\ Got(x, Drop(k, bytes)).rest = Drop(k, bytes)
    BY <2>2, <2>4, GotFacts
  <2> QED
    BY <1>2, <1>4, <2>2, <2>3, <2>5 DEF TextResults
<1> QED
  BY <1>3, <1>4

\* A text that could not be read.
LEMMA RaisedText == Raised \in TextResults /\ ~Raised.ok /\ Raised.rest \in Seq(Byte)
<1>1. Null \in TextValues \cup {Null}
  OBVIOUS
<1>2. Raised \in ResultsOf(TextValues \cup {Null}) /\ ~Raised.ok
  BY <1>1, RaisedFacts
<1> QED
  BY <1>2, ResultFacts DEF TextResults

\* A string that is read is a text.
LEMMA GetStringFacts ==
    ASSUME NEW p, NEW bytes \in Seq(Byte)
    PROVE  /\ GetString(p, bytes) \in TextResults
           /\ GetString(p, bytes).ok => GetString(p, bytes).v.t \in TextNames
           /\ GetString(p, bytes).rest \in Seq(Byte)
<1> DEFINE length == GetNumber(p, "int", bytes)
<1>1. length.v.n \in Int /\ length.rest \in Seq(Byte)
  <2>1. "int" \in NumberKinds
    BY DEF NumberKinds, WholeKinds
  <2> QED
    BY <2>1, GetNumberFacts
<1>2. GetString(p, bytes) = IF length.ok THEN GetText(p, length.v.n, length.rest) ELSE Raised
  BY DEF GetString, TextAfter
<1> HIDE DEF length
<1>3. /\ GetText(p, length.v.n, length.rest) \in TextResults
      /\ GetText(p, length.v.n, length.rest).ok => GetText(p, length.v.n, length.rest).v.t \in TextNames
      /\ GetText(p, length.v.n, length.rest).rest \in Seq(Byte)
  BY <1>1, GetTextFacts
<1> QED
  BY <1>2, <1>3, RaisedText

\* An enum that is read is a text.
LEMMA GetEnumFacts ==
    ASSUME NEW p, NEW e, NEW bytes \in Seq(Byte)
    PROVE  GetEnum(p, e, bytes) \in TextResults
<1> DEFINE length == GetNumber(p, "byte", bytes)
           text == GetText(p, length.v.n, length.rest)
<1>1. length.v.n \in Int /\ length.rest \in Seq(Byte)
  <2>1. "byte" \in NumberKinds
    BY DEF NumberKinds, WholeKinds
  <2> QED
    BY <2>1, GetNumberFacts
<1>2. GetEnum(p, e, bytes) =
         IF ~length.ok \/ ~text.ok THEN Raised
         ELSE IF p = "kotlin" /\ text.v.t \notin ToSet(e.values) THEN Raised
         ELSE text
  BY DEF GetEnum, EnumOf, TextAfter
<1>3. text \in TextResults
  <2> HIDE DEF length
  <2> QED
    BY <1>1, GetTextFacts
<1> HIDE DEF length, text
<1> QED
  BY <1>2, <1>3, RaisedText

PlainKinds == NumberKinds \cup {"boolean"}

\* A codec reads values that are nested to some depth.
Reads(c, d) ==
    \A p \in Platforms : \A T \in Types : \A b \in Seq(Byte) :
        /\ c.get[p][T][b] \in ResultsOf(Nested[d])
        /\ T.is \in PlainKinds /\ c.get[p][T][b].ok => c.get[p][T][b].v \in Numbers \cup Booleans

\* A codec that reads values, of one call.
LEMMA ReadsAt ==
    ASSUME NEW c, NEW d, Reads(c, d), NEW p \in Platforms, NEW T \in Types, NEW b \in Seq(Byte)
    PROVE  /\ c.get[p][T][b] \in ResultsOf(Nested[d])
           /\ T.is \in PlainKinds /\ c.get[p][T][b].ok => c.get[p][T][b].v \in Numbers \cup Booleans
BY DEF Reads

\* An item more.
LEMMA AppendFacts ==
    ASSUME NEW S, NEW s \in Seq(S), NEW x \in S
    PROVE  Append(s, x) \in Seq(S) /\ Len(Append(s, x)) = Len(s) + 1
OBVIOUS

\* The results that are taken from step to step.
LEMMA ResultsAre == Results = ResultsOf(ValueSet)
BY DEF Results, ResultsOf

\* What is shallow enough is a value of the model, with more around it.
LEMMA ShallowIn ==
    ASSUME NEW d \in Nat, d + 1 <= MaxNesting
    PROVE  /\ Nested[d] \subseteq ValueSet
           /\ Lists(Nested[d]) \subseteq ValueSet /\ Maps(Nested[d]) \subseteq ValueSet
           /\ Lists(Nested[d]) \subseteq Nested[d + 1] /\ Maps(Nested[d]) \subseteq Nested[d + 1]
           /\ Nested[d] \subseteq Nested[d + 1]
           /\ Null \in Nested[d] /\ Unnested \subseteq Nested[d] /\ Null \in Nested[d + 1]
<1>1. d + 1 \in Nat /\ d \in Nat /\ d <= MaxNesting /\ (d + 1) - 1 = d
  BY ValueSetIs
<1>2. Nested[d] \subseteq ValueSet /\ Nested[d + 1] \subseteq ValueSet
  BY <1>1, ValueSetIs
<1>3. Lists(Nested[d]) \subseteq Nested[d + 1] /\ Maps(Nested[d]) \subseteq Nested[d + 1]
  BY AroundIn
<1>4. Nested[d] \subseteq Nested[d + 1]
  BY NestedNext
<1>5. Unnested \subseteq Nested[d] /\ Null \in Unnested
  BY UnnestedIn, ScalarsUnnested
<1> QED
  BY <1>2, <1>3, <1>4, <1>5

\* Of n types what is read is among R.
ReadAmong(in, p, n, types, R) ==
    /\ types = [i \in 1..n |-> types[i]]
    /\ \A i \in 1..n : types[i] \in Types
    /\ \A i \in 1..n : \A b \in Seq(Byte) :
          in.get[p][types[i]][b].ok => in.get[p][types[i]][b].v \in R

\* One value after the other.
LEMMA GetAllFacts ==
    ASSUME NEW in, NEW d \in Nat, d + 1 <= MaxNesting, Reads(in, d), NEW p \in Platforms,
           NEW n \in Nat, NEW types, NEW R, R \subseteq Nested[d], ReadAmong(in, p, n, types, R),
           NEW bytes \in Seq(Byte)
    PROVE  /\ GetAll(in, p, types, bytes) \in Results
           /\ GetAll(in, p, types, bytes).ok =>
                 /\ GetAll(in, p, types, bytes).v.items \in Seq(R)
                 /\ Len(GetAll(in, p, types, bytes).v.items) = n
<1> DEFINE fs == [i \in 1..Len(types) |-> [done \in Results |-> GetNext(in, p, types[i], done)]]
           start == Got(List(<<>>), bytes)
           good(r, i) == r \in Results /\ (r.ok => r.v.items \in Seq(R) /\ Len(r.v.items) = i)
<1>0. /\ types = [i \in 1..n |-> types[i]]
      /\ \A i \in 1..n : types[i] \in Types
      /\ \A i \in 1..n : \A b \in Seq(Byte) :
            in.get[p][types[i]][b].ok => in.get[p][types[i]][b].v \in R
  BY DEF ReadAmong
<1>1. Len(types) = n
  BY <1>0
<1>2. Len(fs) = n /\ \A i \in 1..n : \A r \in Results : fs[i][r] = GetNext(in, p, types[i], r)
  BY <1>1
<1>3. good(start, 0)
  <2>1. <<>> \in Seq(Nested[d]) /\ <<>> \in Seq(R) /\ Len(<<>>) = 0
    OBVIOUS
  <2>2. List(<<>>) \in ValueSet
    BY <2>1, Built, ShallowIn
  <2>3. start \in ResultsOf(ValueSet) /\ start.v = List(<<>>)
    <3>1. Got(List(<<>>), bytes) \in ResultsOf(ValueSet) /\ Got(List(<<>>), bytes).v = List(<<>>)
      BY <2>2, GotFacts
    <3> QED
      BY <3>1
  <2>4. List(<<>>).items = <<>>
    BY DEF List, Value
  <2> HIDE DEF start
  <2> QED
    BY <2>1, <2>3, <2>4, ResultsAre
<1>4. ASSUME NEW i \in 1..n, NEW r, good(r, i - 1) PROVE good(GetNext(in, p, types[i], r), i)
  <2> DEFINE next == in.get[p][types[i]][r.rest]
             items == Append(r.v.items, next.v)
  <2>1. r \in ResultsOf(ValueSet)
    BY <1>4, ResultsAre
  <2>2. r.rest \in Seq(Byte)
    BY <2>1, ResultFacts
  <2>3. next \in ResultsOf(Nested[d])
    <3>1. types[i] \in Types
      BY <1>0
    <3> QED
      BY <2>2, <3>1, ReadsAt
  <2>4. next.v \in Nested[d] /\ next.rest \in Seq(Byte)
    <3> HIDE DEF next
    <3> QED
      BY <2>3, ResultFacts
  <2>5. GetNext(in, p, types[i], r) = IF r.ok /\ next.ok THEN Got(List(items), next.rest) ELSE Raised
    BY DEF GetNext
  <2>6. CASE r.ok /\ next.ok
    <3>1. next.v \in R
      BY <1>0, <2>2, <2>6
    <3>2. r.v.items \in Seq(R) /\ Len(r.v.items) = i - 1
      BY <1>4, <2>6
    <3>3. items \in Seq(R) /\ Len(items) = (i - 1) + 1
      <4> HIDE DEF next
      <4> QED
        BY <3>1, <3>2, AppendFacts
    <3>4. (i - 1) + 1 = i
      OBVIOUS
    <3> HIDE DEF items, next
    <3>5. items \in Seq(Nested[d])
      BY <3>3, SeqUp
    <3>6. List(items) \in ValueSet
      BY <3>5, Built, ShallowIn
    <3>7. Got(List(items), next.rest) \in ResultsOf(ValueSet) /\ Got(List(items), next.rest).v = List(items)
      BY <2>4, <3>6, GotFacts
    <3>8. List(items).items = items
      BY DEF List, Value
    <3>9. GetNext(in, p, types[i], r) = Got(List(items), next.rest)
      BY <2>5, <2>6
    <3> QED
      BY <3>3, <3>4, <3>7, <3>8, <3>9, ResultsAre
  <2>7. CASE ~(r.ok /\ next.ok)
    <3>1. GetNext(in, p, types[i], r) = Raised
      BY <2>5, <2>7
    <3>2. Null \in ValueSet
      BY ShallowIn
    <3>3. Raised \in ResultsOf(ValueSet) /\ ~Raised.ok
      BY <3>2, RaisedFacts
    <3> QED
      BY <3>1, <3>3, ResultsAre
  <2> QED
    BY <2>6, <2>7
<1>5. GetAll(in, p, types, bytes) = Through(start, fs)
  BY DEF GetAll
<1> HIDE DEF fs, start
<1>6. Len(fs) \in Nat
  BY <1>2
<1>7. PICK f : Goes(f, start, fs) /\ Through(start, fs) = f[Len(fs)]
  BY <1>6, ThroughIs
<1>8. \A i \in 0..n : f[i] = IF i = 0 THEN start ELSE fs[i][f[i - 1]]
  BY <1>2, <1>7 DEF Goes
<1> HIDE DEF good
<1> DEFINE fails == {i \in 0..n : ~good(f[i], i)}
<1>9. fails = {}
  <2>1. SUFFICES ASSUME fails # {} PROVE FALSE
    OBVIOUS
  <2>2. PICK i \in fails : \A j \in fails : i <= j
    <3>1. fails \in SUBSET Nat
      OBVIOUS
    <3> HIDE DEF fails
    <3> QED
      BY <2>1, <3>1, Least
  <2>3. i # 0
    BY <1>3, <1>8, <2>2
  <2>4. i \in 1..n /\ i - 1 \in 0..n /\ ~(i <= i - 1) /\ i \in 0..n
    BY <2>2, <2>3
  <2>5. good(f[i - 1], i - 1)
    BY <2>2, <2>4
  <2>6. f[i - 1] \in Results
    BY <2>5 DEF good
  <2>7. f[i] = fs[i][f[i - 1]]
    BY <1>8, <2>3, <2>4
  <2>8. fs[i][f[i - 1]] = GetNext(in, p, types[i], f[i - 1])
    BY <1>2, <2>4, <2>6
  <2>9. good(f[i], i)
    BY <1>4, <2>4, <2>5, <2>7, <2>8
  <2> QED
    BY <2>2, <2>9
<1>10. good(f[n], n)
  BY <1>9
<1>11. GetAll(in, p, types, bytes) = f[n]
  BY <1>2, <1>5, <1>7
<1> QED
  BY <1>10, <1>11 DEF good

\* An array that is read is a value, once more nested than its items.
LEMMA GetArrayFacts ==
    ASSUME NEW in, NEW d \in Nat, d + 1 <= MaxNesting, Reads(in, d), NEW p \in Platforms,
           NEW T \in Types, NEW bytes \in Seq(Byte)
    PROVE  GetArray(in, p, T, bytes) \in ResultsOf(Nested[d + 1])
<1> DEFINE length == GetNumber(p, "int", bytes)
           n == Times(length.v.n)
           types == [i \in 1..n |-> T]
           all == GetAll(in, p, types, length.rest)
           R == IF T.is \in PlainKinds THEN Numbers \cup Booleans ELSE Nested[d]
<1>1. length.v.n \in Int /\ length.rest \in Seq(Byte)
  <2>1. "int" \in NumberKinds
    BY DEF NumberKinds, WholeKinds
  <2> QED
    BY <2>1, GetNumberFacts
<1>2. n \in Nat
  BY <1>1 DEF Times
<1>3. Unnested \subseteq Nested[d] /\ Null \in Nested[d + 1] /\ Unnested \subseteq Nested[d + 1]
      /\ Lists(Nested[d]) \subseteq Nested[d + 1]
  BY ShallowIn
<1>4. Numbers \cup Booleans \subseteq Unnested
  BY ScalarsUnnested
<1>5. R \subseteq Nested[d]
  BY <1>3, <1>4
<1>6. ASSUME NEW b \in Seq(Byte), in.get[p][T][b].ok PROVE in.get[p][T][b].v \in R
  <2>1. in.get[p][T][b] \in ResultsOf(Nested[d])
        /\ (T.is \in PlainKinds => in.get[p][T][b].v \in Numbers \cup Booleans)
    BY <1>6, ReadsAt
  <2>2. in.get[p][T][b].v \in Nested[d]
    BY <2>1, ResultFacts
  <2> QED
    BY <2>1, <2>2
<1>7. all \in Results /\ (all.ok => all.v.items \in Seq(R))
  <2>1. types = [i \in 1..n |-> types[i]] /\ \A i \in 1..n : types[i] = T
    OBVIOUS
  <2>2. \A i \in 1..n : types[i] \in Types
    BY <2>1
  <2> HIDE DEF types, n, R
  <2>3. \A i \in 1..n : \A b \in Seq(Byte) : in.get[p][types[i]][b].ok => in.get[p][types[i]][b].v \in R
    BY <1>6, <2>1
  <2>6. ReadAmong(in, p, n, types, R)
    BY <2>1, <2>2, <2>3 DEF ReadAmong
  <2> DEFINE left == length.rest
  <2>4. left \in Seq(Byte)
    BY <1>1
  <2> HIDE DEF left
  <2>5. GetAll(in, p, types, left) \in Results
        /\ (GetAll(in, p, types, left).ok => GetAll(in, p, types, left).v.items \in Seq(R))
    BY <1>2, <1>5, <2>4, <2>6, GetAllFacts
  <2> QED
    BY <2>5 DEF left
<1>8. GetArray(in, p, T, bytes) =
         IF \/ ~length.ok \/ (p = "kotlin" /\ length.v.n < 0) \/ ~all.ok THEN Raised
         ELSE Got(Gathered(p, T.is, all.v.items), all.rest)
  BY DEF GetArray, ItemsAfter
<1> HIDE DEF all, types, n, length
<1>9. all.rest \in Seq(Byte)
  BY <1>7, ResultsAre, ResultFacts
<1>10. Raised \in ResultsOf(Nested[d + 1])
  BY <1>3, RaisedFacts
<1>11. ASSUME all.ok PROVE Gathered(p, T.is, all.v.items) \in Nested[d + 1]
  <2> DEFINE items == all.v.items
  <2>1. items \in Seq(R)
    BY <1>7, <1>11
  <2> HIDE DEF items
  <2>2. CASE T.is \in (IF p = "python" THEN {"byte"} ELSE NumberKinds \cup {"boolean"})
    <3>1. T.is \in PlainKinds /\ T.is \in NumberKinds \cup {"boolean"}
      BY <2>2 DEF PlainKinds, NumberKinds, WholeKinds
    <3>2. items \in Seq(Numbers \cup Booleans)
      BY <2>1, <3>1
    <3>3. Array(T.is, items) \in Unnested
      BY <3>1, <3>2, ArrayBuilt
    <3>4. Gathered(p, T.is, items) = Array(T.is, items)
      BY <2>2 DEF Gathered
    <3> QED
      BY <1>3, <3>3, <3>4 DEF items
  <2>3. CASE T.is \notin (IF p = "python" THEN {"byte"} ELSE NumberKinds \cup {"boolean"})
    <3>1. Gathered(p, T.is, items) = List(items)
      BY <2>3 DEF Gathered
    <3>2. items \in Seq(Nested[d])
      <4> HIDE DEF R
      <4> QED
        BY <1>5, <2>1, SeqUp
    <3>3. List(items) \in Lists(Nested[d])
      BY <3>2, Built
    <3> QED
      BY <1>3, <3>1, <3>3 DEF items
  <2> QED
    BY <2>2, <2>3
<1>12. ASSUME all.ok PROVE Got(Gathered(p, T.is, all.v.items), all.rest) \in ResultsOf(Nested[d + 1])
  <2> HIDE DEF R
  <2> QED
    BY <1>9, <1>11, <1>12, GotFacts
<1> QED
  BY <1>8, <1>10, <1>12

\* An ordinal that is known is that of a type.
LEMMA OrdinalTypeFacts == \A o \in KnownOrdinals : OrdinalType(o) \in Types
<1> TAKE o \in KnownOrdinals
<1>1. \A k \in 1..8 : Ordinals[k] \in NumberKinds \cup {"boolean", "string", "map"}
  <2> TAKE k \in 1..8
  <2>1. k = 1 \/ k = 2 \/ k = 3 \/ k = 4 \/ k = 5 \/ k = 6 \/ k = 7 \/ k = 8
    OBVIOUS
  <2> QED
    BY <2>1, OrdinalsAre DEF NumberKinds, WholeKinds
<1>2. \A k \in 1..8 : Scalar(Ordinals[k]) \in ScalarValTypes
  BY <1>1 DEF ScalarValTypes
<1>3. MaxNesting - 1 \in Nat /\ (MaxNesting - 1) + 1 = MaxNesting /\ MaxNesting \in Nat
  BY NestingAssumption
<1>4. ScalarValTypes \subseteq valTypes[MaxNesting] /\ ScalarValTypes \subseteq valTypes[MaxNesting - 1]
  BY <1>3, ScalarValTypesIn
<1>5. \A T \in ScalarValTypes : ArrayOf(T) \in valTypes[MaxNesting]
  <2>1. valTypes[MaxNesting] = WithLists(valTypes[MaxNesting - 1])
    BY <1>3, ValTypesAt
  <2> QED
    BY <1>4, <2>1 DEF WithLists
<1>6. CASE o \in 80..87
  <2>1. o - 79 \in 1..8
    BY <1>6
  <2> QED
    BY <1>2, <1>5, <1>6, <2>1 DEF OrdinalType, Types
<1>7. CASE o \notin 80..87 /\ o = NullOrdinal
  <2>1. Scalar("null") \in ScalarValTypes
    BY DEF ScalarValTypes
  <2> QED
    BY <1>4, <1>7, <2>1 DEF OrdinalType, Types
<1>8. CASE o \notin 80..87 /\ o # NullOrdinal
  <2>1. PICK i \in 0..7 : o = 10 * i
    BY <1>8 DEF KnownOrdinals
  <2>2. o \div 10 = i
    BY <2>1
  <2>3. o \div 10 + 1 \in 1..8
    BY <2>1, <2>2
  <2> QED
    BY <1>2, <1>4, <1>8, <2>3 DEF OrdinalType, Types
<1> QED
  BY <1>6, <1>7, <1>8

\* An entry that is read.
LEMMA GetEntryFacts ==
    ASSUME NEW in, NEW d \in Nat, d + 1 <= MaxNesting, Reads(in, d), NEW p \in Platforms,
           NEW bytes \in Seq(Byte)
    PROVE  GetEntry(in, p, bytes).ok =>
              /\ GetEntry(in, p, bytes).v \in Entries(Nested[d])
              /\ GetEntry(in, p, bytes).v.t \in TextNames
              /\ GetEntry(in, p, bytes).rest \in Seq(Byte)
<1> DEFINE header == GetNumber(p, "int", bytes)
           ordinal == header.v.n \div Weight[LengthWidth]
           length == header.v.n % Weight[LengthWidth]
           k == PyCut(length, header.rest)
           raw == Take(k, header.rest)
           key == GetString(p, raw)
           v == in.get[p][OrdinalType(ordinal)][key.rest]
           raises == \/ ~header.ok
                     \/ ordinal \notin KnownOrdinals
                     \/ p = "kotlin" /\ KtUnderflows(length, header.rest)
                     \/ ~key.ok
                     \/ ~v.ok
<1>1. GetEntry(in, p, bytes) = IF raises THEN Raised ELSE Got(Entry(key.v.t, v.v), Drop(k, header.rest))
  <2> DEFINE e == EntryOf(key, v)
  <2>1. GetEntry(in, p, bytes) = EntryAfter(in, p, header)
    BY DEF GetEntry
  <2>2. EntryAfter(in, p, header) =
           IF ~header.ok THEN Raised ELSE EntryUnder(in, p, ordinal, length, header.rest)
    BY DEF EntryAfter
  <2>3. EntryWithin(in, p, OrdinalType(ordinal), k, header.rest) =
           IF e.ok THEN Got(e.v, Drop(k, header.rest)) ELSE Raised
    BY DEF EntryWithin, KeyAndValue
  <2> HIDE DEF header, ordinal, length
  <2>4. EntryUnder(in, p, ordinal, length, header.rest) =
           IF ordinal \notin KnownOrdinals \/ (p = "kotlin" /\ KtUnderflows(length, header.rest)) THEN Raised
           ELSE EntryWithin(in, p, OrdinalType(ordinal), k, header.rest)
    BY DEF EntryUnder
  <2>5. e.ok <=> key.ok /\ v.ok
    BY DEF EntryOf, Got, Raised
  <2>6. e.ok => e.v = Entry(key.v.t, v.v)
    BY DEF EntryOf, Got, Raised
  <2> HIDE DEF e, key, v, k
  <2> QED
    BY <2>1, <2>2, <2>3, <2>4, <2>5, <2>6
<1>2. header.v.n \in Int /\ header.rest \in Seq(Byte)
  <2>1. "int" \in NumberKinds
    BY DEF NumberKinds, WholeKinds
  <2> QED
    BY <2>1, GetNumberFacts
<1>3. length \in Int
  <2>1. LengthWidth \in Nat
    BY Widths
  <2>2. Weight[LengthWidth] \in Nat /\ Weight[LengthWidth] > 0
    BY <2>1, WeightPositive
  <2> DEFINE a == header.v.n
             m == Weight[LengthWidth]
  <2>3. a \in Int /\ m \in Nat /\ m > 0
    BY <1>2, <2>2
  <2> HIDE DEF a, m
  <2>4. a % m \in Int
    BY <2>3
  <2> QED
    BY <2>4 DEF a, m
<1> HIDE DEF length, header
<1>4. k \in 0..Len(header.rest)
  BY <1>2, <1>3, CutFacts
<1> HIDE DEF k
<1>5. raw \in Seq(Byte) /\ Drop(k, header.rest) \in Seq(Byte)
  BY <1>2, <1>4, CutFacts
<1> HIDE DEF raw
<1>6. (key.ok => key.v.t \in TextNames) /\ key.rest \in Seq(Byte)
  BY <1>5, GetStringFacts
<1> HIDE DEF key, ordinal
<1>7. ASSUME ~raises PROVE key.v.t \in TextNames \cup {NoKey} /\ v.v \in Nested[d] /\ key.v.t \in TextNames
  <2>1. ordinal \in KnownOrdinals /\ key.ok
    BY <1>7
  <2>2. OrdinalType(ordinal) \in Types
    BY <2>1, OrdinalTypeFacts
  <2>3. v \in ResultsOf(Nested[d])
    <3> DEFINE T == OrdinalType(ordinal)
    <3>1. T \in Types
      BY <2>2
    <3> HIDE DEF T
    <3>2. in.get[p][T][key.rest] \in ResultsOf(Nested[d])
      BY <1>6, <3>1, ReadsAt
    <3> QED
      BY <3>2 DEF T
  <2>4. v.v \in Nested[d]
    <3> HIDE DEF v
    <3> QED
      BY <2>3, ResultFacts
  <2> QED
    BY <1>6, <2>1, <2>4
<1>8. ASSUME GetEntry(in, p, bytes).ok
      PROVE  ~raises /\ GetEntry(in, p, bytes) = Got(Entry(key.v.t, v.v), Drop(k, header.rest))
  <2> HIDE DEF raises, v
  <2>1. ~Raised.ok
    BY DEF Raised
  <2> QED
    BY <1>1, <1>8, <2>1
<1> HIDE DEF raises, v
<1>9. ASSUME ~raises
      PROVE  Entry(key.v.t, v.v) \in Entries(Nested[d]) /\ Entry(key.v.t, v.v).t \in TextNames
  <2>1. Entry(key.v.t, v.v) \in Entries(Nested[d])
    BY <1>7, <1>9, Built
  <2>2. Entry(key.v.t, v.v).t = key.v.t
    BY DEF Entry, Value
  <2> QED
    BY <1>7, <1>9, <2>1, <2>2
<1>10. \A x, r : Got(x, r).v = x /\ Got(x, r).rest = r
  BY DEF Got
<1> QED
  BY <1>5, <1>8, <1>9, <1>10

\* A map that is read is a value.
LEMMA GetMapFacts ==
    ASSUME NEW in, NEW d \in Nat, d + 1 <= MaxNesting, Reads(in, d), NEW p \in Platforms,
           NEW bytes \in Seq(Byte)
    PROVE  GetMap(in, p, bytes) \in ResultsOf(Nested[d + 1])
<1> DEFINE count == GetNumber(p, "short", bytes)
           n == Times(count.v.n)
           start == Got(Map(<<>>), count.rest)
           fs == [i \in 1..n |-> [done \in Results |-> GetNextEntry(in, p, done)]]
           X == {Raised} \cup ResultsOf(Maps(Nested[d]))
<1>1. count.v.n \in Int /\ count.rest \in Seq(Byte)
  <2>1. "short" \in NumberKinds
    BY DEF NumberKinds, WholeKinds
  <2> QED
    BY <2>1, GetNumberFacts
<1>2. n \in Nat
  BY <1>1 DEF Times
<1>3. Null \in Nested[d + 1] /\ Maps(Nested[d]) \subseteq Nested[d + 1] /\ Maps(Nested[d]) \subseteq ValueSet
      /\ Null \in Nested[d] /\ Nested[d] \subseteq ValueSet
  BY ShallowIn
<1>4. start \in X
  <2>1. <<>> \in Seq(Entries(Nested[d]))
    OBVIOUS
  <2>2. Map(<<>>) \in Maps(Nested[d])
    BY <2>1, Built
  <2>3. start \in ResultsOf(Maps(Nested[d]))
    <3> HIDE DEF count
    <3> QED
      BY <1>1, <2>2, GotFacts
  <2> QED
    BY <2>3
<1>5. X \subseteq Results
  <2>1. ResultsOf(Maps(Nested[d])) \subseteq ResultsOf(ValueSet)
    BY <1>3, ResultsUp
  <2>2. Raised \in ResultsOf(ValueSet)
    <3>1. Null \in ValueSet
      BY <1>3
    <3> QED
      BY <3>1, RaisedFacts
  <2> QED
    BY <2>1, <2>2, ResultsAre
<1>6. ASSUME NEW r \in X PROVE GetNextEntry(in, p, r) \in X
  <2> DEFINE e == GetEntry(in, p, r.rest)
             entries == Append(Without(r.v.items, e.v.t), e.v)
  <2>1. GetNextEntry(in, p, r) = IF r.ok /\ e.ok THEN Got(Map(entries), e.rest) ELSE Raised
    BY DEF GetNextEntry, WithEntry
  <2>2. CASE r.ok /\ e.ok
    <3>1. r \in ResultsOf(Maps(Nested[d]))
      BY <2>2 DEF Raised
    <3>2. r.rest \in Seq(Byte) /\ r.v \in Maps(Nested[d])
      BY <3>1, ResultFacts
    <3>3. e.v \in Entries(Nested[d]) /\ e.rest \in Seq(Byte)
      BY <2>2, <3>2, GetEntryFacts
    <3>4. r.v.items \in Seq(Entries(Nested[d]))
      BY <3>2, MapFacts
    <3> HIDE DEF e
    <3> DEFINE left == Without(r.v.items, e.v.t)
    <3>5. left \in Seq(Entries(Nested[d]))
      <4>1. left \in Seq({x \in Entries(Nested[d]) : x.t # e.v.t})
        BY <3>4, WithoutFacts
      <4>2. {x \in Entries(Nested[d]) : x.t # e.v.t} \subseteq Entries(Nested[d])
        OBVIOUS
      <4> HIDE DEF left
      <4> QED
        BY <4>1, <4>2, SeqUp
    <3>6. entries = Append(left, e.v)
      OBVIOUS
    <3> HIDE DEF left, entries
    <3>7. entries \in Seq(Entries(Nested[d]))
      BY <3>3, <3>5, <3>6, AppendFacts
    <3>8. Map(entries) \in Maps(Nested[d])
      BY <3>7, Built
    <3>9. Got(Map(entries), e.rest) \in ResultsOf(Maps(Nested[d]))
      BY <3>3, <3>8, GotFacts
    <3> QED
      BY <2>1, <2>2, <3>9
  <2>3. CASE ~(r.ok /\ e.ok)
    BY <2>1, <2>3
  <2> QED
    BY <2>2, <2>3
<1>7. GetMap(in, p, bytes) = IF ~count.ok THEN Raised ELSE Through(start, fs)
  BY DEF GetMap, EntriesAfter
<1>8. Len(fs) = n /\ \A i \in 1..n : \A r \in Results : fs[i][r] = GetNextEntry(in, p, r)
  BY <1>2
<1> HIDE DEF fs, start, count, n, X
<1>9. \A i \in 1..Len(fs) : \A r \in X : fs[i][r] \in X
  BY <1>5, <1>6, <1>8
<1>10. Len(fs) \in Nat
  BY <1>2, <1>8
<1>11. Through(start, fs) \in X
  BY <1>4, <1>9, <1>10, ThroughKeeps
<1>12. Raised \in ResultsOf(Nested[d + 1]) /\ ResultsOf(Maps(Nested[d])) \subseteq ResultsOf(Nested[d + 1])
  BY <1>3, RaisedFacts, ResultsUp
<1> QED
  BY <1>7, <1>11, <1>12 DEF X

\* A class that is read is a value.
LEMMA GetClassFacts ==
    ASSUME NEW in, NEW d \in Nat, d + 1 <= MaxNesting, Reads(in, d), NEW p \in Platforms,
           NEW class \in Declaration, NEW bytes \in Seq(Byte)
    PROVE  /\ GetClass(in, p, class, bytes) \in ResultsOf(Nested[d + 1])
           /\ GetClass(in, p, class, bytes).ok => GetClass(in, p, class, bytes).v \in Maps(Nested[d])
<1> DEFINE n == Len(class.fields)
           types == [k \in 1..n |-> class.fields[k].type]
           all == GetAll(in, p, types, bytes)
           entries == [k \in 1..n |-> Entry(class.fields[k].name, all.v.items[k])]
<1>1. n \in Nat
  BY DeclarationIsRecord
<1>2. ASSUME NEW k \in 1..n PROVE class.fields[k].type \in Types /\ class.fields[k].name \in TextNames
  BY FieldFacts DEF Types
<1>3. types = [k \in 1..n |-> types[k]] /\ \A k \in 1..n : types[k] \in Types
  BY <1>2
<1>4. all \in Results /\ (all.ok => all.v.items \in Seq(Nested[d]) /\ Len(all.v.items) = n)
  <2> HIDE DEF n, types
  <2>1. ASSUME NEW k \in 1..n, NEW b \in Seq(Byte), in.get[p][types[k]][b].ok
        PROVE  in.get[p][types[k]][b].v \in Nested[d]
    <3>1. types[k] \in Types
      BY <1>3
    <3>2. in.get[p][types[k]][b] \in ResultsOf(Nested[d])
      BY <3>1, ReadsAt
    <3> QED
      BY <3>2, ResultFacts
  <2> DEFINE R == Nested[d]
  <2>2. R \subseteq Nested[d]
    OBVIOUS
  <2>3. \A k \in 1..n : \A b \in Seq(Byte) : in.get[p][types[k]][b].ok => in.get[p][types[k]][b].v \in R
    BY <2>1
  <2>5. types = [i \in 1..n |-> types[i]]
    BY <1>3
  <2>6. \A i \in 1..n : types[i] \in Types
    BY <1>3
  <2>7. ReadAmong(in, p, n, types, R)
    BY <2>3, <2>5, <2>6 DEF ReadAmong
  <2> HIDE DEF R
  <2>4. GetAll(in, p, types, bytes) \in Results
        /\ (GetAll(in, p, types, bytes).ok =>
               GetAll(in, p, types, bytes).v.items \in Seq(R) /\ Len(GetAll(in, p, types, bytes).v.items) = n)
    BY <1>1, <2>2, <2>7, GetAllFacts
  <2> QED
    BY <2>4 DEF R
<1>5. GetClass(in, p, class, bytes) = IF ~all.ok THEN Raised ELSE Got(Map(entries), all.rest)
  BY DEF GetClass, FieldsOf
<1> HIDE DEF all
<1>6. Maps(Nested[d]) \subseteq Nested[d + 1] /\ Null \in Nested[d + 1]
  BY ShallowIn
<1>7. all.rest \in Seq(Byte)
  BY <1>4, ResultsAre, ResultFacts
<1>8. CASE all.ok
  <2>1. ASSUME NEW k \in 1..n PROVE Entry(class.fields[k].name, all.v.items[k]) \in Entries(Nested[d])
    <3>1. all.v.items[k] \in Nested[d]
      BY <1>4, <1>8
    <3> QED
      BY <1>2, <3>1, Built
  <2>2. entries \in Seq(Entries(Nested[d]))
    <3>1. entries \in [1..n -> Entries(Nested[d])]
      BY <2>1
    <3> HIDE DEF entries
    <3> QED
      BY <1>1, <3>1
  <2> HIDE DEF entries
  <2>3. Map(entries) \in Maps(Nested[d])
    BY <2>2, Built
  <2>4. Map(entries) \in Nested[d + 1]
    BY <1>6, <2>3
  <2>5. Got(Map(entries), all.rest) \in ResultsOf(Nested[d + 1]) /\ Got(Map(entries), all.rest).v = Map(entries)
    BY <1>7, <2>4, GotFacts
  <2> QED
    BY <1>5, <1>8, <2>3, <2>5
<1>9. CASE ~all.ok
  <2>1. Raised \in ResultsOf(Nested[d + 1]) /\ ~Raised.ok
    BY <1>6, RaisedFacts
  <2> QED
    BY <1>5, <1>9, <2>1
<1> QED
  BY <1>8, <1>9

\* A union that is read is a value.
LEMMA GetUnionFacts ==
    ASSUME NEW in, NEW d \in Nat, d + 1 <= MaxNesting, Reads(in, d), NEW p \in Platforms,
           NEW u \in Declaration, \A k \in 1..Len(u.values) : Resolve(u.values[k]) \in Declaration,
           NEW bytes \in Seq(Byte)
    PROVE  GetUnion(in, p, u, bytes) \in ResultsOf(Nested[d + 1])
<1> DEFINE index == GetNumber(p, "byte", bytes)
           n == index.v.n
           member == Resolve(u.values[n + 1])
           class == GetClass(in, p, member, index.rest)
           hint == Entry(":type", Number("int", n))
           entries == Append(class.v.items, hint)
           raises == ~index.ok \/ n \notin 0..(Len(u.values) - 1) \/ ~class.ok
<1>1. GetUnion(in, p, u, bytes) = IF raises THEN Raised ELSE Got(Map(entries), class.rest)
  BY DEF GetUnion, MemberAfter
<1>2. n \in Int /\ index.rest \in Seq(Byte)
  <2>1. "byte" \in NumberKinds
    BY DEF NumberKinds, WholeKinds
  <2> QED
    BY <2>1, GetNumberFacts
<1>3. Maps(Nested[d]) \subseteq Nested[d + 1] /\ Null \in Nested[d + 1] /\ Unnested \subseteq Nested[d]
  BY ShallowIn
<1>4. CASE raises
  <2>1. Raised \in ResultsOf(Nested[d + 1])
    BY <1>3, RaisedFacts
  <2> HIDE DEF raises
  <2> QED
    BY <1>1, <1>4, <2>1
<1>5. CASE ~raises
  <2>1. n \in 0..(Len(u.values) - 1) /\ class.ok
    BY <1>5
  <2>2. Len(u.values) \in Nat
    BY DeclarationIsRecord
  <2>3. member \in Declaration
    <3>1. n + 1 \in 1..Len(u.values)
      <4> HIDE DEF n
      <4> QED
        BY <2>1, <2>2
    <3> QED
      BY <3>1
  <2> HIDE DEF member
  <2>4. class \in ResultsOf(Nested[d + 1]) /\ class.v \in Maps(Nested[d])
    <3> DEFINE left == index.rest
    <3>1. left \in Seq(Byte)
      BY <1>2
    <3> HIDE DEF left
    <3>2. GetClass(in, p, member, left) \in ResultsOf(Nested[d + 1])
          /\ (GetClass(in, p, member, left).ok => GetClass(in, p, member, left).v \in Maps(Nested[d]))
      BY <2>3, <3>1, GetClassFacts
    <3> QED
      BY <2>1, <3>2 DEF left
  <2>5. hint \in Entries(Nested[d])
    <3>1. Number("int", n) \in Nested[d]
      <4>1. "int" \in NumberKinds
        BY DEF NumberKinds, WholeKinds
      <4> HIDE DEF n
      <4> QED
        BY <1>2, <1>3, <4>1, ScalarsUnnested
    <3>2. ":type" \in TextNames
      BY NamesAreTexts
    <3> HIDE DEF n
    <3> QED
      BY <3>1, <3>2, Built
  <2> HIDE DEF class, hint
  <2>6. class.v.items \in Seq(Entries(Nested[d])) /\ class.rest \in Seq(Byte)
    BY <2>4, MapFacts, ResultFacts
  <2>7. entries \in Seq(Entries(Nested[d]))
    BY <2>5, <2>6, AppendFacts
  <2> HIDE DEF entries, raises
  <2>8. Map(entries) \in Nested[d + 1]
    BY <1>3, <2>7, Built
  <2>9. Got(Map(entries), class.rest) \in ResultsOf(Nested[d + 1])
    BY <2>6, <2>8, GotFacts
  <2> QED
    BY <1>1, <1>5, <2>9
<1> QED
  BY <1>4, <1>5

\* Every type that is read around a codec that reads values.
LEMMA GetOfFacts ==
    ASSUME NEW in, NEW d \in Nat, d + 1 <= MaxNesting, Reads(in, d), NEW p \in Platforms,
           NEW T \in Types, NEW bytes \in Seq(Byte)
    PROVE  /\ GetOf(in, p, T, bytes) \in ResultsOf(Nested[d + 1])
           /\ T.is \in PlainKinds /\ GetOf(in, p, T, bytes).ok =>
                 GetOf(in, p, T, bytes).v \in Numbers \cup Booleans
<1>0. /\ T.is \in TypeKinds
      /\ T.is = "ref" => T.name \in DeclaredNames
      /\ T.is \in {"array", "option"} => T.of[1] \in Types
  BY TypeFacts
<1>1. /\ Null \in Nested[d + 1] /\ Nested[d] \subseteq Nested[d + 1] /\ Unnested \subseteq Nested[d + 1]
  <2>1. /\ Null \in Nested[d + 1] /\ Nested[d] \subseteq Nested[d + 1] /\ Unnested \subseteq Nested[d]
    BY ShallowIn
  <2> QED
    BY <2>1
<1>2. /\ ResultsOf(Numbers \cup {Null}) \subseteq ResultsOf(Nested[d + 1])
      /\ ResultsOf(Booleans \cup {Null}) \subseteq ResultsOf(Nested[d + 1])
      /\ ResultsOf(TextValues \cup {Null}) \subseteq ResultsOf(Nested[d + 1])
  <2>1. /\ Numbers \cup {Null} \subseteq Nested[d + 1]
        /\ Booleans \cup {Null} \subseteq Nested[d + 1]
        /\ TextValues \cup {Null} \subseteq Nested[d + 1]
    BY <1>1 DEF Unnested
  <2> QED
    BY <2>1, ResultsUp
<1>3. CASE T.is \in NumberKinds
  <2>1. GetOf(in, p, T, bytes) = GetNumber(p, T.is, bytes)
    BY <1>3 DEF GetOf, NumberKinds, WholeKinds
  <2>2. GetNumber(p, T.is, bytes) \in NumberResults
        /\ (GetNumber(p, T.is, bytes).ok => GetNumber(p, T.is, bytes).v \in Numbers)
    BY <1>3, GetNumberFacts
  <2> QED
    BY <1>2, <2>1, <2>2 DEF NumberResults
<1>4. CASE T.is = "boolean"
  <2>1. GetOf(in, p, T, bytes) = GetBoolean(p, bytes)
    BY <1>4 DEF GetOf, NumberKinds, WholeKinds
  <2> QED
    BY <1>2, <2>1, GetBooleanFacts
<1>5. CASE T.is = "string"
  <2>1. GetOf(in, p, T, bytes) = GetString(p, bytes)
    BY <1>5 DEF GetOf, NumberKinds, WholeKinds
  <2>2. T.is \notin PlainKinds
    BY <1>5 DEF PlainKinds, NumberKinds, WholeKinds
  <2>3. GetString(p, bytes) \in TextResults
    BY GetStringFacts
  <2> QED
    BY <1>2, <2>1, <2>2, <2>3 DEF TextResults
<1>6. CASE T.is = "null"
  <2>1. GetOf(in, p, T, bytes) = Got(Null, bytes)
    BY <1>6 DEF GetOf, NumberKinds, WholeKinds
  <2>2. T.is \notin PlainKinds
    BY <1>6 DEF PlainKinds, NumberKinds, WholeKinds
  <2>3. Got(Null, bytes) \in ResultsOf(Nested[d + 1])
    BY <1>1, GotFacts
  <2> QED
    BY <2>1, <2>2, <2>3
<1>7. CASE T.is = "array"
  <2>1. GetOf(in, p, T, bytes) = GetArray(in, p, T.of[1], bytes)
    BY <1>7 DEF GetOf, NumberKinds, WholeKinds
  <2>2. T.is \notin PlainKinds
    BY <1>7 DEF PlainKinds, NumberKinds, WholeKinds
  <2> DEFINE D == T.of[1]
  <2>3. D \in Types
    BY <1>0, <1>7
  <2> HIDE DEF D
  <2>4. GetArray(in, p, D, bytes) \in ResultsOf(Nested[d + 1])
    BY <2>3, GetArrayFacts
  <2> QED
    BY <2>1, <2>2, <2>4 DEF D
<1>8. CASE T.is = "map"
  <2>1. GetOf(in, p, T, bytes) = GetMap(in, p, bytes)
    BY <1>8 DEF GetOf, NumberKinds, WholeKinds
  <2>2. T.is \notin PlainKinds
    BY <1>8 DEF PlainKinds, NumberKinds, WholeKinds
  <2>3. GetMap(in, p, bytes) \in ResultsOf(Nested[d + 1])
    BY GetMapFacts
  <2> QED
    BY <2>1, <2>2, <2>3
<1>9. CASE T.is = "option"
  <2> DEFINE D == T.of[1]
  <2>1. GetOf(in, p, T, bytes) = GetOption(in, p, D, bytes)
    BY <1>9 DEF GetOf, NumberKinds, WholeKinds
  <2>2. T.is \notin PlainKinds
    BY <1>9 DEF PlainKinds, NumberKinds, WholeKinds
  <2>3. D \in Types
    BY <1>0, <1>9
  <2> HIDE DEF D
  <2>4. CASE bytes = <<>>
    BY <1>1, <2>1, <2>2, <2>4, RaisedFacts DEF GetOption
  <2>5. CASE bytes # <<>>
    <3>1. Tail(bytes) \in Seq(Byte)
      BY <2>5, CutFacts
    <3>2. Got(Null, Tail(bytes)) \in ResultsOf(Nested[d + 1])
      BY <1>1, <3>1, GotFacts
    <3>3. in.get[p][D][Tail(bytes)] \in ResultsOf(Nested[d])
      BY <2>3, <3>1, ReadsAt
    <3>4. ResultsOf(Nested[d]) \subseteq ResultsOf(Nested[d + 1])
      BY <1>1, ResultsUp
    <3>5. GetOption(in, p, D, bytes) =
             IF bytes[1] = 0 THEN Got(Null, Tail(bytes)) ELSE in.get[p][D][Tail(bytes)]
      BY <2>5 DEF GetOption
    <3> QED
      BY <2>1, <2>2, <3>2, <3>3, <3>4, <3>5
  <2> QED
    BY <2>4, <2>5
<1>10. CASE T.is = "ref"
  <2> DEFINE D == Resolve(T.name)
  <2>1. GetOf(in, p, T, bytes) = GetRef(in, p, D, bytes)
    BY <1>10 DEF GetOf, NumberKinds, WholeKinds
  <2>2. T.is \notin PlainKinds
    BY <1>10 DEF PlainKinds, NumberKinds, WholeKinds
  <2>3. /\ D \in Declaration
        /\ D.is = "union" => \A k \in 1..Len(D.values) : Resolve(D.values[k]) \in Declaration
    BY <1>0, <1>10, ResolveFacts
  <2> HIDE DEF D
  <2>4. D.is \in {"class", "enum", "union"}
    BY <2>3, DeclarationIsRecord
  <2>5. CASE D.is = "enum"
    <3>1. GetRef(in, p, D, bytes) = GetEnum(p, D, bytes)
      BY <2>5 DEF GetRef
    <3>2. GetEnum(p, D, bytes) \in TextResults
      BY GetEnumFacts
    <3> QED
      BY <1>2, <2>1, <2>2, <3>1, <3>2 DEF TextResults
  <2>6. CASE D.is = "class"
    <3>1. GetRef(in, p, D, bytes) = GetClass(in, p, D, bytes)
      BY <2>6 DEF GetRef
    <3>2. GetClass(in, p, D, bytes) \in ResultsOf(Nested[d + 1])
      BY <2>3, GetClassFacts
    <3> QED
      BY <2>1, <2>2, <3>1, <3>2
  <2>7. CASE D.is = "union"
    <3>1. GetRef(in, p, D, bytes) = GetUnion(in, p, D, bytes)
      BY <2>7 DEF GetRef
    <3>2. GetUnion(in, p, D, bytes) \in ResultsOf(Nested[d + 1])
      BY <2>3, <2>7, GetUnionFacts
    <3> QED
      BY <2>1, <2>2, <3>1, <3>2
  <2> QED
    BY <2>4, <2>5, <2>6, <2>7
<1>11. CASE T.is = "unknown"
  <2>1. GetOf(in, p, T, bytes) = Raised
    BY <1>11 DEF GetOf, NumberKinds, WholeKinds
  <2>2. T.is \notin PlainKinds
    BY <1>11 DEF PlainKinds, NumberKinds, WholeKinds
  <2> QED
    BY <1>1, <2>1, <2>2, RaisedFacts
<1> QED
  BY <1>0, <1>3, <1>4, <1>5, <1>6, <1>7, <1>8, <1>9, <1>10, <1>11 DEF TypeKinds

\* A codec of any depth reads values nested as deep.
LEMMA CodecReads == \A d \in Nat : d <= MaxNesting => Reads(codec[d], d)
<1> DEFINE fails == {d \in Nat : d <= MaxNesting /\ ~Reads(codec[d], d)}
<1>1. SUFFICES ASSUME fails # {} PROVE FALSE
  OBVIOUS
<1>2. PICK d \in fails : \A e \in fails : d <= e
  <2>1. fails \in SUBSET Nat
    OBVIOUS
  <2> HIDE DEF fails
  <2> QED
    BY <1>1, <2>1, Least
<1>3. Reads(TooDeep, 0)
  <2>1. Null \in Nested[0]
    BY NestedAt, ScalarsUnnested
  <2>2. Raised \in ResultsOf(Nested[0]) /\ ~Raised.ok
    BY <2>1, RaisedFacts
  <2> QED
    BY <2>2, TooDeepFields DEF Reads
<1>4. d # 0
  BY <1>2, <1>3, CodecAt
<1> DEFINE e == d - 1
<1>5. e \in Nat /\ e + 1 = d /\ ~(d <= e) /\ d <= MaxNesting /\ e <= MaxNesting
  BY <1>2, <1>4, NestingAssumption
<1>6. Reads(codec[e], e)
  BY <1>2, <1>5
<1>7. codec[d] = CodecAround(codec[e])
  BY <1>5, CodecAt
<1> DEFINE in == codec[e]
<1>8. Reads(in, e)
  BY <1>6
<1> HIDE DEF e, in
<1>9. ASSUME NEW p \in Platforms, NEW T \in Types, NEW b \in Seq(Byte)
      PROVE  /\ CodecAround(in).get[p][T][b] \in ResultsOf(Nested[d])
             /\ T.is \in PlainKinds /\ CodecAround(in).get[p][T][b].ok =>
                   CodecAround(in).get[p][T][b].v \in Numbers \cup Booleans
  <2>1. CodecAround(in).get[p][T][b] = GetOf(in, p, T, b)
    BY CodecFields
  <2>2. e + 1 <= MaxNesting
    BY <1>5
  <2>3. /\ GetOf(in, p, T, b) \in ResultsOf(Nested[e + 1])
        /\ T.is \in PlainKinds /\ GetOf(in, p, T, b).ok => GetOf(in, p, T, b).v \in Numbers \cup Booleans
    BY <1>5, <1>8, <2>2, GetOfFacts
  <2> QED
    BY <1>5, <2>1, <2>3
<1>10. Reads(CodecAround(in), d)
  BY <1>9 DEF Reads
<1> QED
  BY <1>2, <1>7, <1>10 DEF in

----------------------------------------------------------------------------
\* The exchange.

\* What a caller starts with.
LEMMA CaseFacts ==
    ASSUME NEW c \in Cases
    PROVE  c.on \in Platforms /\ c.type \in FieldTypes /\ c.value \in ValueSet
BY CasesAssumption

\* What a call for a type of a field puts and foresees.
LEMMA CallFacts ==
    ASSUME NEW p \in Platforms, NEW T \in FieldTypes, NEW v \in ValueSet, Accepts(p, T, v)
    PROVE  /\ Put(p, T, v) \in Seq(Byte) /\ Len(Put(p, T, v)) \in Nat
           /\ Size(p, T, v) \in Nat
           /\ p = "python" => Size(p, T, v) = Len(Put(p, T, v))
           /\ Size(p, T, v) <= Len(Put(p, T, v))
<1>1. T \in Types /\ T \in Sized
  BY DEF Types, Sized
<1>2. Sound(codec[MaxNesting])
  BY CodecIsSound, ValueSetIs
<1> DEFINE c == codec[MaxNesting]
<1>3. c.accepts[p][T][v] /\ Size(p, T, v) = c.size[p][T][v] /\ Put(p, T, v) = c.put[p][T][v]
  BY DEF Accepts, Size, Put
<1>4. Sound(c)
  BY <1>2
<1> HIDE DEF c
<1>5. Foreseen(p, T \in Sized, c.size[p][T][v], c.put[p][T][v])
  BY <1>1, <1>3, <1>4, SoundAt
<1> QED
  BY <1>1, <1>3, <1>5 DEF Foreseen

\* What a call for a type of a field reads.
LEMMA GetFacts ==
    ASSUME NEW p \in Platforms, NEW T \in FieldTypes, NEW bytes \in Seq(Byte)
    PROVE  Get(p, T, bytes).v \in ValueSet /\ Get(p, T, bytes).rest \in Seq(Byte)
<1> DEFINE c == codec[MaxNesting]
<1>1. Reads(c, MaxNesting) /\ ValueSet = Nested[MaxNesting]
  <2>1. MaxNesting \in Nat /\ MaxNesting <= MaxNesting
    BY ValueSetIs
  <2> QED
    BY <2>1, CodecReads, ValueSetIs
<1>2. T \in Types /\ Get(p, T, bytes) = c.get[p][T][bytes]
  BY DEF Types, Get
<1> HIDE DEF c
<1>3. c.get[p][T][bytes] \in ResultsOf(ValueSet)
  BY <1>1, <1>2, ReadsAt
<1> QED
  BY <1>2, <1>3, ResultFacts

----------------------------------------------------------------------------
\* A call gets through if no check raises and no buffer overflows.
Passes(p, T, v) == Accepts(p, T, v) /\ ~Overflows(p, Size(p, T, v), Put(p, T, v))

\* The value someone holds, has sent or was refused is the one the last
\* call saw.
ExchangeInv ==
    /\ TypeOK
    /\ phase = "sent" =>
          /\ hops < MaxHops
          /\ Passes(holder, origin.type, held)
          /\ sized = Size(holder, origin.type, held)
    /\ phase = "refused" => ~Passes(holder, origin.type, held)

\* The invariant holds at first.
LEMMA ExchangeInit == Init => ExchangeInv
<1> SUFFICES ASSUME Init PROVE ExchangeInv
  OBVIOUS
<1>1. phase = "held" /\ origin \in Cases /\ holder = origin.on /\ held = origin.value
      /\ wire = <<>> /\ sized = 0 /\ rest = <<>> /\ hops = 0
  BY DEF Init
<1>2. holder \in Platforms /\ held \in ValueSet
  BY <1>1, CaseFacts
<1>3. wire \in Seq(Byte) /\ rest \in Seq(Byte)
  BY <1>1
<1>4. hops \in 0..MaxHops /\ sized \in Nat
  BY <1>1, CasesAssumption
<1> QED
  BY <1>1, <1>2, <1>3, <1>4 DEF ExchangeInv, TypeOK

\* Serialize keeps it.
LEMMA SerializeKeeps == ExchangeInv /\ Serialize => ExchangeInv'
<1> SUFFICES ASSUME ExchangeInv, Serialize PROVE ExchangeInv'
  OBVIOUS
<1> DEFINE T == origin.type
           put == Put(holder, T, held)
           size == Size(holder, T, held)
<1>1. TypeOK
  BY DEF ExchangeInv
<1>2. holder \in Platforms /\ T \in FieldTypes /\ held \in ValueSet
  BY <1>1, CaseFacts DEF TypeOK
<1>3. hops < MaxHops /\ UNCHANGED <<origin, holder, held, rest, hops>>
  BY DEF Serialize
<1>4. CASE Passes(holder, T, held)
  <2>1. phase' = "sent" /\ sized' = size /\ wire' = Message(holder, size, put)
    BY <1>4 DEF Serialize, Send, Passes
  <2>2. /\ put \in Seq(Byte) /\ Len(put) \in Nat
        /\ size \in Nat /\ size <= Len(put)
    <3>1. Accepts(holder, T, held)
      BY <1>4 DEF Passes
    <3> HIDE DEF T
    <3> QED
      BY <1>2, <3>1, CallFacts
  <2>3. ASSUME holder = "kotlin" PROVE Message(holder, size, put) \in Seq(Byte)
    <3> DEFINE n == size - Len(put)
               pad == [i \in 1..n |-> 0]
    <3>1. Message(holder, size, put) = put \o pad
      BY <2>3 DEF Message
    <3>2. n = 0
      <4>1. ~(Len(put) > size)
        BY <1>4, <2>3 DEF Passes, Overflows
      <4> HIDE DEF put, size
      <4> QED
        BY <2>2, <4>1
    <3>3. pad \in Seq(Byte)
      <4>1. 0 \in Byte
        BY DEF Byte
      <4>2. \A m \in Nat : [i \in 1..m |-> 0] \in Seq(Byte)
        BY <4>1
      <4> HIDE DEF n
      <4> QED
        BY <3>2, <4>2
    <3> HIDE DEF pad, put
    <3> QED
      BY <2>2, <3>1, <3>3, Lengths
  <2>4. ASSUME holder # "kotlin" PROVE Message(holder, size, put) \in Seq(Byte)
    BY <1>2, <2>2, <2>4 DEF Message, Platforms
  <2>5. wire' \in Seq(Byte)
    BY <2>1, <2>3, <2>4
  <2>6. TypeOK'
    BY <1>1, <1>3, <2>1, <2>2, <2>5 DEF TypeOK
  <2>7. Passes(holder, T, held)' /\ (sized = Size(holder, T, held))' /\ (hops < MaxHops)'
    <3>1. Passes(holder, T, held)' <=> Passes(holder, T, held)
      BY <1>3 DEF Passes, Overflows
    <3> QED
      BY <1>3, <1>4, <2>1, <3>1
  <2> QED
    BY <2>1, <2>6, <2>7 DEF ExchangeInv
<1>5. CASE ~Passes(holder, T, held)
  <2>1. phase' = "refused" /\ UNCHANGED <<wire, sized>>
    BY <1>5 DEF Serialize, Send, Passes
  <2>2. TypeOK'
    BY <1>1, <1>3, <2>1 DEF TypeOK
  <2>3. ~Passes(holder, T, held)'
    <3>1. Passes(holder, T, held)' <=> Passes(holder, T, held)
      BY <1>3 DEF Passes, Overflows
    <3> QED
      BY <1>5, <3>1
  <2> QED
    BY <2>1, <2>2, <2>3 DEF ExchangeInv
<1> QED
  BY <1>4, <1>5

\* Deserialize keeps it.
LEMMA DeserializeKeeps ==
    ASSUME NEW p \in Platforms, ExchangeInv, Deserialize(p)
    PROVE  ExchangeInv'
<1> DEFINE got == Get(p, origin.type, wire)
<1>1. TypeOK /\ phase = "sent" /\ hops < MaxHops
  BY DEF ExchangeInv, Deserialize
<1>2. holder' = p /\ UNCHANGED <<origin, wire, sized>>
  BY DEF Deserialize
<1>3. got.v \in ValueSet /\ got.rest \in Seq(Byte)
  <2>1. origin.type \in FieldTypes /\ wire \in Seq(Byte)
    BY <1>1, CaseFacts DEF TypeOK
  <2> QED
    BY <2>1, GetFacts
<1>4. CASE got.ok
  <2>1. phase' = "held" /\ held' = got.v /\ rest' = got.rest /\ hops' = hops + 1
    BY <1>4 DEF Deserialize, Receive
  <2>2. hops' \in 0..MaxHops
    BY <1>1, <2>1, CasesAssumption DEF TypeOK
  <2>3. TypeOK'
    BY <1>1, <1>2, <1>3, <2>1, <2>2 DEF TypeOK
  <2> QED
    BY <2>1, <2>3 DEF ExchangeInv
<1>5. CASE ~got.ok
  <2>1. phase' = "failed" /\ UNCHANGED <<held, rest, hops>>
    BY <1>5 DEF Deserialize, Receive
  <2>2. TypeOK'
    BY <1>1, <1>2, <2>1 DEF TypeOK
  <2> QED
    BY <2>1, <2>2 DEF ExchangeInv
<1> QED
  BY <1>4, <1>5

\* It holds as long as nothing happens.
LEMMA StutterKeeps == ExchangeInv /\ UNCHANGED vars => ExchangeInv'
<1> SUFFICES ASSUME ExchangeInv, UNCHANGED vars PROVE ExchangeInv'
  OBVIOUS
<1>1. /\ phase' = phase /\ origin' = origin /\ holder' = holder /\ held' = held
      /\ wire' = wire /\ sized' = sized /\ rest' = rest /\ hops' = hops
  BY DEF vars
<1>2. TypeOK'
  BY <1>1 DEF ExchangeInv, TypeOK
<1>3. Passes(holder, origin.type, held)' <=> Passes(holder, origin.type, held)
  BY <1>1 DEF Passes, Overflows
<1>4. Size(holder, origin.type, held)' = Size(holder, origin.type, held)
  BY <1>1
<1> QED
  BY <1>1, <1>2, <1>3, <1>4 DEF ExchangeInv

\* Every step keeps it.
LEMMA ExchangeNext == ExchangeInv /\ [Next]_vars => ExchangeInv'
BY SerializeKeeps, DeserializeKeeps, StutterKeeps DEF Next

\* The invariant holds of every run of the exchange.
THEOREM ExchangeInvariant == Spec => []ExchangeInv
BY ExchangeInit, ExchangeNext, PTL DEF Spec

\* What callers hold are values, nested no deeper than the calls for them.
THEOREM ExchangeTyped == Spec => []TypeOK
<1>1. ExchangeInv => TypeOK
  BY DEF ExchangeInv
<1> QED
  BY <1>1, ExchangeInvariant, PTL

\* It says that what was sent has the size that was foreseen.
LEMMA InvIsExact == ExchangeInv => SizeIsExact
<1> SUFFICES ASSUME ExchangeInv, phase = "sent" PROVE Len(Put(holder, origin.type, held)) = sized
  BY DEF SizeIsExact
<1>1. TypeOK /\ Passes(holder, origin.type, held) /\ sized = Size(holder, origin.type, held)
  BY DEF ExchangeInv
<1>2. holder \in Platforms /\ origin.type \in FieldTypes /\ held \in ValueSet
  BY <1>1, CaseFacts DEF TypeOK
<1> DEFINE put == Put(holder, origin.type, held)
           size == Size(holder, origin.type, held)
<1>3. Len(put) \in Nat /\ size \in Nat /\ (holder = "python" => size = Len(put)) /\ size <= Len(put)
  BY <1>1, <1>2, CallFacts DEF Passes
<1>4. holder = "kotlin" => ~(Len(put) > size)
  BY <1>1 DEF Passes, Overflows
<1> HIDE DEF put, size
<1>5. Len(put) = size
  BY <1>2, <1>3, <1>4 DEF Platforms
<1> QED
  BY <1>1, <1>5 DEF put, size

\* What the size pass foresees is what is put, for all types and values.
THEOREM SizesAreExact == Spec => []SizeIsExact
BY InvIsExact, ExchangeInvariant, PTL

----------------------------------------------------------------------------
\* What is let through.

\* As many bytes as are foreseen.
Exactly(n, bytes) == Foreseen("python", TRUE, n, bytes)

\* A call gets through, and puts as many bytes as it foresees: for a codec
\* and, given the calls inside, for the one around it.
Called(c, p, T, v) == c.accepts[p][T][v] /\ Exactly(c.size[p][T][v], c.put[p][T][v])

CalledHere(in, p, T, v) ==
    AcceptsOf(in, p, T, v) /\ Exactly(SizeOf(in, p, T, v), PutOf(in, p, T, v))

\* A call of a codec is a call of what it is around.
LEMMA CalledAround ==
    ASSUME NEW in, NEW p \in Platforms, NEW T \in Types, NEW v \in ValueSet
    PROVE  /\ Called(CodecAround(in), p, T, v) <=> CalledHere(in, p, T, v)
           /\ CodecAround(in).put[p][T][v] = PutOf(in, p, T, v)
<1>1. /\ CodecAround(in).size[p][T][v] = SizeOf(in, p, T, v)
      /\ CodecAround(in).accepts[p][T][v] = AcceptsOf(in, p, T, v)
      /\ CodecAround(in).put[p][T][v] = PutOf(in, p, T, v)
  BY CodecFields
<1> QED
  BY <1>1 DEF Called, CalledHere

\* Types without a type inside.
LEMMA PlainCalled ==
    ASSUME NEW in, NEW p \in Platforms, NEW T, NEW v \in ValueSet,
           T.is \in WholeKinds \cup {"float", "boolean", "string", "null"}, AcceptsOf(in, p, T, v)
    PROVE  CalledHere(in, p, T, v) /\ (T.is = "byte" => Len(PutOf(in, p, T, v)) = 1)
<1>1. CASE T.is \in WholeKinds
  <2> DEFINE n == CHOOSE n \in Whole(p, v) : TRUE
             w == WidthOf(T.is)
  <2>1. IF p = "python" THEN PyAcceptsNumber(T.is, v) ELSE KtAcceptsNumber(T.is, v)
    BY <1>1 DEF AcceptsOf, WholeKinds
  <2>2. n \in Int
    BY <1>1, <2>1, PyAcceptedFacts
  <2>3. w \in 1..8
    BY <1>1, Widths DEF NumberKinds
  <2>4. SizeOf(in, p, T, v) = w /\ PutOf(in, p, T, v) = NumberBytes(n, w)
    BY <1>1 DEF SizeOf, PutOf, WholeKinds
  <2>5. T.is = "byte" => w = 1
    BY DEF WidthOf
  <2> HIDE DEF n, w
  <2>6. Exactly(w, NumberBytes(n, w))
    BY <2>2, <2>3, NumberSound DEF Exactly
  <2>7. Len(NumberBytes(n, w)) = w
    BY <2>2, <2>3, NumberBytesFacts
  <2> QED
    BY <2>4, <2>5, <2>6, <2>7 DEF CalledHere
<1>2. CASE T.is = "float"
  <2> DEFINE h == CHOOSE h \in Halves(p, v) : TRUE
             w == WidthOf(T.is)
  <2>1. Halves(p, v) # {}
    BY <1>2 DEF AcceptsOf, AcceptsFloat, WholeKinds
  <2>2. h \in Int
    BY <2>1, HalvesFacts, InsideFacts
  <2>3. w \in 1..8 /\ w = WidthOf("float")
    BY <1>2, Widths DEF NumberKinds
  <2>4. SizeOf(in, p, T, v) = w /\ PutOf(in, p, T, v) = PutFloat(h)
    BY <1>2 DEF SizeOf, PutOf, WholeKinds
  <2> HIDE DEF h, w
  <2>5. PICK n \in Int : PutFloat(h) = NumberBytes(n, w)
    BY <2>2, <2>3, PutFloatFacts
  <2>6. Exactly(w, NumberBytes(n, w))
    BY <2>3, NumberSound DEF Exactly
  <2> QED
    BY <1>2, <2>4, <2>5, <2>6 DEF CalledHere
<1>3. CASE T.is = "boolean"
  <2> DEFINE b == IF IsTrue(p, v) THEN 1 ELSE 0
  <2>1. SizeOf(in, p, T, v) = 1 /\ PutOf(in, p, T, v) = <<b>>
    BY <1>3 DEF SizeOf, PutOf, WholeKinds, WidthOf
  <2>2. b \in Byte
    BY DEF Byte
  <2> HIDE DEF b
  <2>3. <<b>> \in Seq(Byte) /\ Len(<<b>>) = 1
    BY <2>2
  <2>4. Exactly(Len(<<b>>), <<b>>)
    BY <2>3, ForeseenExactly DEF Exactly
  <2> QED
    BY <1>3, <2>1, <2>3, <2>4 DEF CalledHere
<1>4. CASE T.is = "string"
  <2> DEFINE t == ToText(p, v)
  <2>1. t \in TextNames
    BY InsideFacts, ToTextFacts
  <2>2. SizeOf(in, p, T, v) = IntWidth + Len(TextBytes(t)) /\ PutOf(in, p, T, v) = PutText(t)
    BY <1>4 DEF SizeOf, PutOf, WholeKinds
  <2> HIDE DEF t
  <2>3. PutText(t) \in Seq(Byte) /\ Len(PutText(t)) = IntWidth + Len(TextBytes(t))
    BY <2>1, PutTextFacts
  <2>4. Exactly(Len(PutText(t)), PutText(t))
    BY <2>3, ForeseenExactly DEF Exactly
  <2> QED
    BY <1>4, <2>2, <2>3, <2>4 DEF CalledHere
<1>5. CASE T.is = "null"
  <2>1. SizeOf(in, p, T, v) = 0 /\ PutOf(in, p, T, v) = <<>>
    BY <1>5 DEF SizeOf, PutOf, WholeKinds
  <2>2. Exactly(0, <<>>)
    BY DEF Exactly, Foreseen
  <2> QED
    BY <1>5, <2>1, <2>2 DEF CalledHere
<1> QED
  BY <1>1, <1>2, <1>3, <1>4, <1>5

\* Numbers of a type are accepted.
LEMMA WholeAccepted ==
    ASSUME NEW in, NEW p \in Platforms, NEW T, T.is \in WholeKinds, NEW v, IsWhole(p, T.is, v)
    PROVE  AcceptsOf(in, p, T, v)
<1>1. v.is \in WholeKinds /\ IF T.is = "byte" /\ p = "python" THEN v.n \in Byte
                                                              ELSE InWidth(v.n, WidthOf(T.is))
  BY DEF IsWhole
<1>2. v.is # "float"
  BY <1>1 DEF WholeKinds
<1>3. PyWhole(v) = {v.n} /\ KtWhole(v) = {v.n}
  BY <1>1, <1>2 DEF PyWhole, KtWhole
<1>4. IF p = "python" THEN PyAcceptsNumber(T.is, v) ELSE KtAcceptsNumber(T.is, v)
  BY <1>1, <1>3 DEF PyAcceptsNumber, KtAcceptsNumber
<1> QED
  BY <1>4 DEF AcceptsOf, WholeKinds

\* A number of halves is let through as a float.
LEMMA FloatAccepted ==
    ASSUME NEW in, NEW p \in Platforms, NEW T, T.is = "float", NEW v, IsFloat(p, v)
    PROVE  AcceptsOf(in, p, T, v)
<1> DEFINE k == IF v.is = "float" THEN v.n ELSE 2 * v.n
<1>0. Amount(p, v) = {k}
  BY AmountOfNumber DEF IsFloat
<1> HIDE DEF k
<1>1. Halves(p, v) = {Held(p, k)}
  BY <1>0 DEF Halves
<1>3. Halves(p, v) # {} /\ \A h \in Halves(p, v) : InWidth(Single(h), WidthOf("float"))
  BY <1>1 DEF IsFloat
<1>2. AcceptsFloat(p, v)
  BY <1>3 DEF AcceptsFloat
<1> QED
  BY <1>2 DEF AcceptsOf, WholeKinds

\* And so are the texts a schema gives as defaults.
LEMMA TextAccepted ==
    ASSUME NEW in, NEW p \in Platforms, NEW T \in FieldTypes, T.is # "ref",
           NEW v, v.is = "text", TextFits(p, T, v.t)
    PROVE  AcceptsOf(in, p, T, v) /\ T.is \in WholeKinds \cup {"float", "boolean", "string"}
<1> DEFINE t == v.t
           spelled == {Spells[u].n : u \in {w \in {v.t} \cap DOMAIN Spells : v.is = "text" /\ Spells[w].is = "int"}}
<1>1. PyWhole(v) = spelled /\ KtWhole(v) = spelled
  BY DEF PyWhole, KtWhole, WholeKinds
<1>2. t \in DOMAIN Spells /\ Spells[t].is = "int" => spelled = {Spells[t].n}
  OBVIOUS
<1> HIDE DEF spelled
<1>3. CASE T.is \in WholeKinds
  <2>1. /\ T.is = "byte" => p = "kotlin"
        /\ t \in DOMAIN Spells /\ Spells[t].is = "int" /\ InWidth(Spells[t].n, WidthOf(T.is))
    BY <1>3 DEF TextFits, WholeKinds
  <2>2. IF p = "python" THEN PyAcceptsNumber(T.is, v) ELSE KtAcceptsNumber(T.is, v)
    BY <1>1, <1>2, <2>1 DEF PyAcceptsNumber, KtAcceptsNumber
  <2> QED
    BY <1>3, <2>2 DEF AcceptsOf, WholeKinds
<1>4. CASE T.is = "float"
  <2>1. t \in DOMAIN Spells /\ \A h \in Halves(p, Text(t)) : InWidth(Single(h), WidthOf("float"))
    BY <1>4 DEF TextFits, WholeKinds
  <2>2. Text(t).is = "text" /\ Text(t).t = t
    BY DEF Text, Value
  <2> DEFINE k == IF Spells[t].is = "float" THEN Spells[t].n ELSE 2 * Spells[t].n
  <2>3. Amount(p, Text(t)) = {k} /\ Amount(p, v) = {k}
    BY <2>1, <2>2, AmountOfText
  <2> HIDE DEF k
  <2>4. Halves(p, v) # {} /\ Halves(p, Text(t)) = Halves(p, v)
    BY <2>3 DEF Halves
  <2>5. AcceptsFloat(p, v)
    BY <2>1, <2>4 DEF AcceptsFloat
  <2> QED
    BY <1>4, <2>5 DEF AcceptsOf, WholeKinds
<1>5. CASE T.is \notin WholeKinds \cup {"float"}
  <2>1. T.is \in {"string", "boolean"}
    BY <1>5 DEF TextFits, WholeKinds
  <2> QED
    BY <2>1 DEF AcceptsOf, WholeKinds
<1> QED
  BY <1>3, <1>4, <1>5

\* A text of an enum is let through.
LEMMA EnumCalled ==
    ASSUME NEW in, NEW p \in Platforms, NEW T, T.is = "ref", Resolve(T.name).is = "enum",
           NEW v \in ValueSet, v.is = "text", IsValueOf(Resolve(T.name), v.t)
    PROVE  CalledHere(in, p, T, v)
<1> DEFINE d == Resolve(T.name)
<1>1. ToText(p, v) = v.t /\ v.t \in TextNames
  BY InsideFacts DEF ToText
<1>2. Len(TextBytes(v.t)) \in Nat /\ Len(TextBytes(v.t)) <= 127 /\ v.t \in ToSet(d.values)
  BY <1>1, TextBytesFacts DEF IsValueOf
<1>3. AcceptsEnum(p, d, v)
  <2>1. Len(TextBytes(v.t)) \in Byte
    <3> DEFINE m == Len(TextBytes(v.t))
    <3>1. m \in Nat /\ m <= 127
      BY <1>2
    <3> HIDE DEF m
    <3>2. m \in Byte
      BY <3>1 DEF Byte
    <3> QED
      BY <3>2 DEF m
  <2> QED
    BY <1>1, <1>2, <2>1 DEF AcceptsEnum
<1>4. d.is = "enum"
  OBVIOUS
<1> HIDE DEF d
<1>5. /\ RefSize(in, p, d, v) = 1 + Len(TextBytes(ToText(p, v))) /\ PutRef(in, p, d, v) = PutEnum(p, v)
      /\ AcceptsRef(in, p, d, v)
  BY <1>3, <1>4 DEF RefSize, PutRef, AcceptsRef
<1>6. Exactly(1 + Len(TextBytes(ToText(p, v))), PutEnum(p, v))
  BY <1>3, ForeseenEnum DEF Exactly
<1>7. /\ SizeOf(in, p, T, v) = RefSize(in, p, d, v) /\ PutOf(in, p, T, v) = PutRef(in, p, d, v)
      /\ AcceptsOf(in, p, T, v) = AcceptsRef(in, p, d, v)
  BY DEF SizeOf, PutOf, AcceptsOf, WholeKinds, d
<1> QED
  BY <1>5, <1>6, <1>7 DEF CalledHere

\* Arrays, of items that are accepted.
LEMMA ArrayCalled ==
    ASSUME NEW in, NEW p \in Platforms, NEW T, T.is = "array",
           NEW v \in ValueSet, IsItems(p, v), p = "kotlin" /\ v.is = "array" => v.t # "byte",
           \A i \in 1..Len(v.items) : v.items[i].is # "null" /\ Called(in, p, T.of[1], v.items[i])
    PROVE  CalledHere(in, p, T, v)
<1>1. AcceptsArray(in, p, T, v)
  BY DEF AcceptsArray, Called
<1>2. ItemsForeseen(in, p, "python", TRUE, T, v)
  BY DEF ItemsForeseen, Called, Exactly
<1>3. Len(v.items) \in Nat
  BY InsideFacts
<1>4. Exactly(ArraySize(in, p, T, v), PutArray(in, p, T, v))
  BY <1>2, <1>3, ForeseenArray DEF Exactly
<1>5. /\ SizeOf(in, p, T, v) = ArraySize(in, p, T, v) /\ PutOf(in, p, T, v) = PutArray(in, p, T, v)
      /\ AcceptsOf(in, p, T, v) = AcceptsArray(in, p, T, v)
  BY DEF SizeOf, PutOf, AcceptsOf, WholeKinds
<1> QED
  BY <1>1, <1>4, <1>5 DEF CalledHere

\* As many ones as there are of them.
LEMMA TotalOfOnes == ASSUME NEW n \in Nat PROVE Total([i \in 1..n |-> 1]) = n
<1> DEFINE ns == [i \in 1..n |-> 1]
<1>1. ns \in Seq(Nat) /\ Len(ns) = n /\ \A i \in 1..n : ns[i] = 1
  OBVIOUS
<1>2. PICK f : /\ f[0] = 0
               /\ \A i \in 0..Len(ns) : f[i] \in Nat
               /\ \A i \in 1..Len(ns) : f[i] = f[i - 1] + ns[i]
               /\ Total(ns) = f[Len(ns)]
  <2> HIDE DEF ns
  <2> QED
    BY <1>1, TotalIs
<1> HIDE DEF ns
<1> DEFINE fails == {i \in 0..n : f[i] # i}
<1>3. ASSUME fails # {} PROVE FALSE
  <2>1. PICK i \in fails : \A j \in fails : i <= j
    <3>1. fails \in SUBSET Nat
      OBVIOUS
    <3> HIDE DEF fails
    <3> QED
      BY <1>3, <3>1, Least
  <2>2. i \in 1..n /\ i - 1 \in 0..n /\ ~(i <= i - 1)
    BY <1>2, <2>1
  <2>3. f[i - 1] = i - 1
    BY <2>1, <2>2
  <2>4. f[i] = (i - 1) + 1
    BY <1>1, <1>2, <2>2, <2>3
  <2> QED
    BY <2>1, <2>2, <2>4
<1>4. n \in 0..n
  OBVIOUS
<1> QED
  BY <1>1, <1>2, <1>3, <1>4 DEF ns

\* Kotlin counts the items of a byte array, each of which it puts as a byte.
LEMMA BytesCalled ==
    ASSUME NEW in, NEW p \in Platforms, NEW T, T.is = "array",
           NEW v \in ValueSet, p = "kotlin", v.is = "array", v.t = "byte",
           \A i \in 1..Len(v.items) : v.items[i].is # "null" /\ Called(in, p, T.of[1], v.items[i])
                                      /\ Len(in.put[p][T.of[1]][v.items[i]]) = 1
    PROVE  CalledHere(in, p, T, v)
<1> DEFINE n == Len(v.items)
           s == ItemBytes(in, p, T, v)
           ones == [i \in 1..n |-> 1]
<1>1. AcceptsArray(in, p, T, v)
  BY DEF AcceptsArray, Called, IsItems
<1>2. ItemsForeseen(in, p, "python", TRUE, T, v)
  BY DEF ItemsForeseen, Called, Exactly
<1>3. n \in Nat
  BY InsideFacts
<1>4. \A i \in 1..n : Foreseen("python", TRUE, ones[i], s[i])
  <2> TAKE i \in 1..n
  <2>1. s[i] = in.put[p][T.of[1]][v.items[i]] /\ ones[i] = 1
    BY DEF ItemBytes
  <2>2. Len(s[i]) = 1 /\ s[i] \in Seq(Byte)
    BY <2>1 DEF Called, Exactly, Foreseen
  <2> HIDE DEF s, ones
  <2> QED
    BY <2>1, <2>2, SMTT(40) DEF Foreseen
<1>5. Foreseen("python", TRUE, Total(ones), FlattenSeq(s))
  <2>1. ones = [i \in 1..n |-> ones[i]] /\ s = [i \in 1..n |-> s[i]]
    BY DEF ItemBytes
  <2> HIDE DEF ones, s, n
  <2> QED
    BY <1>3, <1>4, <2>1, ForeseenTogether
<1>6. Total(ones) = n
  BY <1>3, TotalOfOnes
<1>7. Foreseen("python", TRUE, IntWidth + n, PutArray(in, p, T, v))
  <2>1. \A m : Foreseen("python", TRUE, m, FlattenSeq(s)) =>
                  Foreseen("python", TRUE, IntWidth + m, PutArray(in, p, T, v))
    BY <1>2, <1>3, ForeseenArray
  <2> HIDE DEF s, n, ones
  <2> QED
    BY <1>5, <1>6, <2>1
<1>8. ArraySize(in, p, T, v) = IntWidth + n
  BY DEF ArraySize
<1>9. /\ SizeOf(in, p, T, v) = ArraySize(in, p, T, v) /\ PutOf(in, p, T, v) = PutArray(in, p, T, v)
      /\ AcceptsOf(in, p, T, v) = AcceptsArray(in, p, T, v)
  BY DEF SizeOf, PutOf, AcceptsOf, WholeKinds
<1> QED
  BY <1>1, <1>7, <1>8, <1>9 DEF CalledHere, Exactly

\* Maps, of values that are accepted.
LEMMA MapCalled ==
    ASSUME NEW in, NEW p \in Platforms, NEW T, T.is = "map", NEW v \in ValueSet, v.is = "map",
           InWidth(Len(v.items), ShortWidth),
           \A i \in 1..Len(Keyed(v)) :
               Called(in, p, ValType(p, Keyed(v)[i].items[1]), Keyed(v)[i].items[1])
               /\ ValType(p, Keyed(v)[i].items[1]).is # "unknown"
    PROVE  CalledHere(in, p, T, v)
<1>1. AcceptsMap(in, p, v)
  BY DEF AcceptsMap, Called
<1>2. \A i \in 1..Len(Keyed(v)) : HeldForeseen(in, p, "python", TRUE, Keyed(v)[i].items[1])
  BY DEF HeldForeseen, Called, Exactly
<1>3. Exactly(MapSize(in, p, v), PutMap(in, p, v))
  BY <1>2, ForeseenMap DEF Exactly
<1>4. /\ SizeOf(in, p, T, v) = MapSize(in, p, v) /\ PutOf(in, p, T, v) = PutMap(in, p, v)
      /\ AcceptsOf(in, p, T, v) = AcceptsMap(in, p, v)
  BY DEF SizeOf, PutOf, AcceptsOf, WholeKinds
<1> QED
  BY <1>1, <1>3, <1>4 DEF CalledHere

\* What a default may be, an option aside, is accepted whatever the calls inside.
LEMMA EmptyIsKeyed == Keyed(Map(<<>>)) = <<>> /\ InWidth(0, ShortWidth)
<1>1. Map(<<>>).items = <<>>
  BY DEF Map, Value
<1>2. Keyed(Map(<<>>)) \in Seq({e \in {} : e.t # NoKey})
  <2>1. <<>> \in Seq({})
    OBVIOUS
  <2> QED
    BY <1>1, <2>1, WithoutFacts DEF Keyed
<1>3. \A S : S = {} => \A s \in Seq(S) : s = <<>>
  <2> TAKE S
  <2> SUFFICES ASSUME S = {}, NEW s \in Seq(S) PROVE s = <<>>
    OBVIOUS
  <2>1. \A i \in 1..Len(s) : s[i] \in S
    OBVIOUS
  <2>2. Len(s) = 0
    <3>1. Len(s) \in Nat /\ (Len(s) # 0 => 1 \in 1..Len(s))
      OBVIOUS
    <3> QED
      BY <2>1, <3>1
  <2> QED
    BY <2>2
<1>4. InWidth(0, ShortWidth)
  <2>1. ShortWidth - 1 \in Nat
    BY Widths
  <2> DEFINE w == Weight[ShortWidth - 1]
  <2>2. w \in Nat /\ w > 0
    BY <2>1, WeightPositive
  <2> HIDE DEF w
  <2>3. 0 \div w = 0
    BY <2>2
  <2> QED
    BY <2>3 DEF InWidth, w
<1> QED
  BY <1>2, <1>3, <1>4

Simple(p, D, v) ==
    \/ v = List(<<>>) /\ D.is = "array"
    \/ v = Map(<<>>) /\ D.is = "map"
    \/ v.is = "text" /\ TextFits(p, D, v.t)

\* A simple value is let through.
LEMMA SimpleCalled ==
    ASSUME NEW in, NEW p \in Platforms, NEW D \in FieldTypes, NEW v \in ValueSet, Simple(p, D, v)
    PROVE  CalledHere(in, p, D, v)
<1>1. CASE v = List(<<>>) /\ D.is = "array"
  <2>1. v.is = "list" /\ v.items = <<>> /\ Len(v.items) = 0
    BY <1>1 DEF List, Value
  <2>2. IsItems(p, v)
    BY <2>1 DEF IsItems
  <2>3. v.is # "array" /\ \A i \in 1..Len(v.items) :
                              v.items[i].is # "null" /\ Called(in, p, D.of[1], v.items[i])
    BY <2>1
  <2> QED
    BY <1>1, <2>2, <2>3, ArrayCalled
<1>2. CASE v = Map(<<>>) /\ D.is = "map"
  <2>1. v.is = "map" /\ Len(v.items) = 0 /\ Len(Keyed(v)) = 0
    BY <1>2, EmptyIsKeyed DEF Map, Value
  <2>2. InWidth(Len(v.items), ShortWidth)
    BY <2>1, EmptyIsKeyed
  <2>3. \A i \in 1..Len(Keyed(v)) :
               Called(in, p, ValType(p, Keyed(v)[i].items[1]), Keyed(v)[i].items[1])
               /\ ValType(p, Keyed(v)[i].items[1]).is # "unknown"
    BY <2>1
  <2> QED
    BY <1>2, <2>1, <2>2, <2>3, MapCalled
<1>3. CASE v.is = "text" /\ TextFits(p, D, v.t) /\ D.is # "ref"
  BY <1>3, TextAccepted, PlainCalled
<1>4. CASE v.is = "text" /\ TextFits(p, D, v.t) /\ D.is = "ref"
  <2>1. Resolve(D.name).is = "enum" /\ IsValueOf(Resolve(D.name), v.t)
    BY <1>4 DEF TextFits, WholeKinds
  <2> QED
    BY <1>4, <2>1, EnumCalled
<1> QED
  BY <1>1, <1>2, <1>3, <1>4 DEF Simple

----------------------------------------------------------------------------
\* What is legal is let through.

\* What is legal one call further out.
StorableNow(l) == [p \in Platforms |-> [v \in ValueSet |-> Storable(l, p, v)]]
LegalHere(l, p, T, v) == LegalOf(l, StorableNow(l), p, T, v)

\* What a codec lets through: what is legal, the defaults two calls deep, and
\* what may be in a map.
AllowsLegal(c, l, p, T, v) ==
    l.legal[p][T][v] => /\ Called(c, p, T, v)
                        /\ T.is # "option" => v.is # "null"
                        /\ T.is = "byte" => Len(c.put[p][T][v]) = 1

AllowsDefault(c, l, p, T, v) == l.left >= 2 /\ DefaultFits(p, T, v) => Called(c, p, T, v)

AllowsHeld(c, l, p, v) ==
    l.storable[p][v] => /\ Called(c, p, ValType(p, v), v)
                        /\ p = "python" /\ v.is \in WholeKinds => Called(c, p, Scalar("long"), v)

Allows(c, l) ==
    \A p \in Platforms : \A v \in ValueSet :
        /\ \A T \in FieldTypes : AllowsLegal(c, l, p, T, v) /\ AllowsDefault(c, l, p, T, v)
        /\ AllowsHeld(c, l, p, v)

\* The type of what is no list does not depend on the depth.
LEMMA KindAtAnyDepth ==
    ASSUME NEW d \in Nat, NEW p \in Platforms, NEW v \in ValueSet, v.is # "list"
    PROVE  valType[d][p][v] = Scalar(KindOf(p, v))
<1>1. CASE d = 0
  BY <1>1, ValTypeAt DEF NoLists
<1>2. CASE d # 0
  <2>1. d - 1 \in Nat /\ (d - 1) + 1 = d
    BY <1>2
  <2>2. valType[d] = ListTypes(valType[d - 1])
    BY <2>1, ValTypeAt
  <2> QED
    BY <2>2 DEF ListTypes
<1> QED
  BY <1>1, <1>2

\* The type of a value that is no list is that of its kind.
LEMMA KindType ==
    ASSUME NEW p \in Platforms, NEW v \in ValueSet, v.is # "list"
    PROVE  ValType(p, v) = Scalar(KindOf(p, v)) /\ ValType(p, v).is = KindOf(p, v)
<1>1. valType[MaxNesting][p][v] = Scalar(KindOf(p, v))
  BY KindAtAnyDepth, ValueSetIs
<1>2. \A is : Scalar(is).is = is
  BY DEF Scalar
<1> QED
  BY <1>1, <1>2 DEF ValType

\* A list is of the type of its first item.
LEMMA ListType ==
    ASSUME NEW p \in Platforms, NEW v \in ValueSet, v.is = "list",
           v.items # <<>> => v.items[1].is \notin {"null", "list"}
    PROVE  /\ ValType(p, v).is = "array"
           /\ v.items # <<>> => ValType(p, v).of[1] = ValType(p, v.items[1])
<1>1. MaxNesting - 1 \in Nat /\ (MaxNesting - 1) + 1 = MaxNesting
  BY NestingAssumption
<1>2. valType[MaxNesting] = ListTypes(valType[MaxNesting - 1])
  BY <1>1, ValTypeAt
<1> DEFINE D == valType[MaxNesting - 1][p][FirstItem(p, v)]
<1>3. ValType(p, v) = ArrayOf(D)
  BY <1>2 DEF ListTypes, ValType
<1>4. v.items # <<>> => D = ValType(p, v.items[1])
  <2> SUFFICES ASSUME v.items # <<>> PROVE D = ValType(p, v.items[1])
    OBVIOUS
  <2> DEFINE x == v.items[1]
  <2>1. x \in ValueSet /\ x.is # "list" /\ x.is # "null"
    <3>1. Len(v.items) \in Nat /\ Len(v.items) >= 1
      BY InsideFacts
    <3>2. 1 \in 1..Len(v.items)
      BY <3>1
    <3> QED
      BY <3>2, InsideFacts
  <2>2. FirstItem(p, v) = x
    BY <2>1 DEF FirstItem
  <2> HIDE DEF x
  <2>3. valType[MaxNesting - 1][p][x] = Scalar(KindOf(p, x))
    BY <1>1, <2>1, KindAtAnyDepth
  <2>4. ValType(p, x) = Scalar(KindOf(p, x))
    BY <2>1, KindType
  <2> QED
    BY <2>2, <2>3, <2>4 DEF x
<1>5. \A E : ArrayOf(E).is = "array" /\ ArrayOf(E).of[1] = E
  BY DEF ArrayOf
<1> HIDE DEF D
<1> QED
  BY <1>3, <1>4, <1>5

\* Maps of values that may be in one.
LEMMA StorableMapCalled ==
    ASSUME NEW in, NEW l, Sound(in), Allows(in, l), NEW p \in Platforms, NEW T, T.is = "map",
           NEW v \in ValueSet, v.is = "map", StorableMap(l, p, v)
    PROVE  CalledHere(in, p, T, v)
<1>1. InWidth(Len(v.items), ShortWidth) /\ v.items \in Seq(Entries(ValueSet))
  BY InsideFacts DEF StorableMap
<1> DEFINE S == {e \in Entries(ValueSet) : l.storable[p][e.items[1]]}
<1>2. v.items \in Seq(S)
  <2>1. Len(v.items) \in Nat /\ \A i \in 1..Len(v.items) : v.items[i] \in Entries(ValueSet)
    BY <1>1
  <2>2. \A i \in 1..Len(v.items) : l.storable[p][v.items[i].items[1]]
    BY DEF StorableMap
  <2>3. \A i \in 1..Len(v.items) : v.items[i] \in S
    BY <2>1, <2>2
  <2>4. v.items = [i \in 1..Len(v.items) |-> v.items[i]]
    BY <1>1
  <2> HIDE DEF S
  <2> QED
    BY <2>1, <2>3, <2>4
<1>3. Keyed(v) \in Seq({e \in S : e.t # NoKey})
  <2> HIDE DEF S
  <2> QED
    BY <1>2, WithoutFacts DEF Keyed
<1>4. \A i \in 1..Len(Keyed(v)) : Keyed(v)[i] \in S
  <2> HIDE DEF S
  <2> QED
    BY <1>3
<1>5. ASSUME NEW x \in ValueSet, l.storable[p][x]
      PROVE  Called(in, p, ValType(p, x), x) /\ ValType(p, x).is # "unknown"
  <2>1. Called(in, p, ValType(p, x), x)
    BY <1>5 DEF Allows, AllowsHeld
  <2>2. ValType(p, x) \in Types /\ in.accepts[p][ValType(p, x)][x]
    BY <2>1, ValTypeIsType DEF Called
  <2> QED
    BY <2>1, <2>2, SoundAt
<1>6. \A i \in 1..Len(Keyed(v)) : Keyed(v)[i].items[1] \in ValueSet /\ l.storable[p][Keyed(v)[i].items[1]]
  BY <1>4, EntryFacts
<1> HIDE DEF S
<1>7. \A i \in 1..Len(Keyed(v)) :
               Called(in, p, ValType(p, Keyed(v)[i].items[1]), Keyed(v)[i].items[1])
               /\ ValType(p, Keyed(v)[i].items[1]).is # "unknown"
  BY <1>5, <1>6
<1> QED
  BY <1>1, <1>7, MapCalled

\* What may be in a map is let through.
LEMMA StorableCalled ==
    ASSUME NEW in, NEW l, Sound(in), Allows(in, l), NEW p \in Platforms, NEW v \in ValueSet, Storable(l, p, v)
    PROVE  CalledHere(in, p, ValType(p, v), v)
<1> DEFINE T == ValType(p, v)
<1>1. CASE v.is \in {"text", "bool", "null"}
  <2>0. T.is = KindOf(p, v)
    BY <1>1, KindType
  <2>1. T.is \in {"string", "boolean", "null"} /\ (T.is = "string" => v.is = "text")
    BY <1>1, <2>0 DEF KindOf, PyKind, KtKind, WholeKinds
  <2> HIDE DEF T
  <2>2. AcceptsOf(in, p, T, v)
    BY <2>1 DEF AcceptsOf, WholeKinds
  <2>3. T.is \in WholeKinds \cup {"float", "boolean", "string", "null"}
    BY <2>1
  <2>4. CalledHere(in, p, T, v)
    BY <2>2, <2>3, PlainCalled
  <2> QED
    BY <2>4 DEF T
<1>2. CASE v.is = "float"
  <2>1. IsFloat(p, v)
    BY <1>2 DEF Storable, WholeKinds
  <2>2. T.is = "float"
    BY <1>2, KindType DEF KindOf, PyKind, KtKind, WholeKinds
  <2> HIDE DEF T
  <2>3. CalledHere(in, p, T, v)
    BY <2>1, <2>2, FloatAccepted, PlainCalled
  <2> QED
    BY <2>3 DEF T
<1>3. CASE v.is \in WholeKinds
  <2>1. v.is \notin {"text", "bool", "null", "float", "map", "list", "array"}
    BY <1>3 DEF WholeKinds
  <2>2. IF p = "python" THEN IsWhole(p, "long", v) ELSE IsWhole(p, v.is, v)
    BY <1>3, <2>1 DEF Storable
  <2>3. T.is = KindOf(p, v)
    BY <2>1, KindType
  <2>4. T.is \in WholeKinds /\ IsWhole(p, T.is, v)
    <3>1. CASE p = "python"
      <4>1. T.is = IF InWidth(v.n, IntWidth) THEN "int" ELSE "long"
        BY <1>3, <2>1, <2>3, <3>1 DEF KindOf, PyKind
      <4>2. InWidth(v.n, LongWidth)
        BY <2>2, <3>1 DEF IsWhole, WidthOf
      <4> QED
        BY <1>3, <4>1, <4>2 DEF IsWhole, WidthOf, WholeKinds
    <3>2. CASE p = "kotlin"
      <4>1. T.is = v.is
        BY <2>1, <2>3, <3>2 DEF KindOf, KtKind
      <4> QED
        BY <1>3, <2>2, <3>2, <4>1
    <3> QED
      BY <3>1, <3>2 DEF Platforms
  <2> HIDE DEF T
  <2>5. AcceptsOf(in, p, T, v)
    BY <2>4, WholeAccepted
  <2>6. CalledHere(in, p, T, v)
    BY <2>4, <2>5, PlainCalled
  <2> QED
    BY <2>6 DEF T
<1>4. CASE v.is = "map"
  <2>1. StorableMap(l, p, v)
    BY <1>4 DEF Storable, WholeKinds
  <2>2. T.is = "map"
    BY <1>4, KindType DEF KindOf, PyKind, KtKind, WholeKinds
  <2> HIDE DEF T
  <2>3. CalledHere(in, p, T, v)
    BY <1>4, <2>1, <2>2, StorableMapCalled
  <2> QED
    BY <2>3 DEF T
<1>5. CASE v.is = "list"
  <2>1. \A i \in 1..Len(v.items) : /\ v.items[i].is \notin {"null", "list"}
                                   /\ l.storable[p][v.items[i]]
                                   /\ \/ ValType(p, v.items[i]) = ValType(p, v.items[1])
                                      \/ /\ p = "python" /\ v.items[i].is \in WholeKinds
                                         /\ ValType(p, v.items[1]).is = "long"
    <3>1. StorableList(l, p, v)
      BY <1>5 DEF Storable, WholeKinds
    <3> QED
      BY <3>1 DEF StorableList
  <2>2. Len(v.items) \in Nat /\ \A i \in 1..Len(v.items) : v.items[i] \in ValueSet
    BY <1>5, InsideFacts
  <2>3. v.items # <<>> => 1 \in 1..Len(v.items)
    BY <2>2, InsideFacts
  <2>4. T.is = "array" /\ (v.items # <<>> => T.of[1] = ValType(p, v.items[1]))
    BY <1>5, <2>1, <2>3, ListType
  <2> HIDE DEF T
  <2>5. ASSUME NEW i \in 1..Len(v.items)
        PROVE  v.items[i].is # "null" /\ Called(in, p, T.of[1], v.items[i])
    <3> DEFINE x == v.items[i]
    <3>1. /\ x \in ValueSet /\ x.is # "null" /\ l.storable[p][x]
          /\ \/ ValType(p, x) = ValType(p, v.items[1])
             \/ p = "python" /\ x.is \in WholeKinds /\ ValType(p, v.items[1]).is = "long"
      BY <2>1, <2>2
    <3>2. v.items # <<>>
      OBVIOUS
    <3>3. ValType(p, v.items[1]) = Scalar(KindOf(p, v.items[1]))
      BY <2>1, <2>2, <2>3, <3>2, KindType
    <3>4. \A is : Scalar(is).is = is
      BY DEF Scalar
    <3> HIDE DEF x
    <3>5. Called(in, p, ValType(p, x), x)
          /\ (p = "python" /\ x.is \in WholeKinds => Called(in, p, Scalar("long"), x))
      BY <3>1 DEF Allows, AllowsHeld
    <3>6. Called(in, p, T.of[1], x)
      BY <2>4, <3>1, <3>2, <3>3, <3>4, <3>5
    <3> QED
      BY <3>1, <3>6 DEF x
  <2>6. IsItems(p, v) /\ v.is # "array"
    BY <1>5 DEF IsItems
  <2>7. CalledHere(in, p, T, v)
    BY <2>4, <2>5, <2>6, ArrayCalled
  <2> QED
    BY <2>7 DEF T
<1>6. CASE v.is \notin WholeKinds \cup {"text", "bool", "null", "float", "map", "list"}
  BY <1>6 DEF Storable
<1> QED
  BY <1>1, <1>2, <1>3, <1>4, <1>5, <1>6

\* The fields of a legal value of a class are let through.
LEMMA LegalClassCalled ==
    ASSUME NEW in, NEW l, Allows(in, l), NEW p \in Platforms, NEW d \in Declaration,
           NEW v \in ValueSet, LegalClass(l, p, d, v)
    PROVE  AcceptsClass(in, p, d, v) /\ Exactly(ClassSize(in, p, d, v), PutClass(in, p, d, v))
<1>1. v.is = "map"
  BY DEF LegalClass
<1>2. ASSUME NEW k \in 1..Len(d.fields)
      PROVE  /\ ~Missing(d.fields[k], v)
             /\ \A r \in d.fields[k].rules : Admits(p, r, FieldValue(d.fields[k], v))
             /\ Called(in, p, d.fields[k].type, FieldValue(d.fields[k], v))
  <2> DEFINE f == d.fields[k]
             x == FieldValue(f, v)
  <2>1. /\ ~Missing(f, v)
        /\ IF Has(v, f.name) THEN l.legal[p][f.type][At(v, f.name)] ELSE l.left >= 2 /\ DefaultFits(p, f.type, x)
        /\ \A r \in f.rules : Admits(p, r, x)
    BY DEF LegalClass
  <2>2. f.type \in FieldTypes /\ x \in ValueSet
    BY <1>1, FieldFacts, FieldValueFacts
  <2>3. Has(v, f.name) => x = At(v, f.name)
    BY DEF FieldValue
  <2> HIDE DEF f, x
  <2>4. AllowsLegal(in, l, p, f.type, x) /\ AllowsDefault(in, l, p, f.type, x)
    BY <2>2 DEF Allows
  <2>5. Called(in, p, f.type, x)
    BY <2>1, <2>3, <2>4 DEF AllowsLegal, AllowsDefault
  <2> QED
    BY <2>1, <2>5 DEF f, x
<1>3. AcceptsClass(in, p, d, v)
  BY <1>1, <1>2 DEF AcceptsClass, Called
<1>4. FieldsForeseen(in, p, "python", d, v)
  BY <1>2 DEF FieldsForeseen, Called, Exactly
<1> QED
  BY <1>3, <1>4, ForeseenClass DEF Exactly

\* The class a writer chooses is the one that is meant.
LEMMA NoFieldIsTheHint ==
    ASSUME NEW d \in Declaration
    PROVE  ":type" \notin NamesOf(d)
<1> SUFFICES ASSUME NEW k \in 1..Len(d.fields) PROVE d.fields[k].name # ":type"
  BY DEF NamesOf
<1>1. d.fields[k] \in FieldDecl
  BY DeclarationIsRecord
<1> QED
  BY <1>1 DEF FieldDecl

\* The class a legal value names is the one that is chosen.
LEMMA UnionChosen ==
    ASSUME NEW l, NEW p \in Platforms, NEW u \in Declaration,
           \A k \in 1..Len(u.values) : Resolve(u.values[k]) \in Declaration,
           NEW v, LegalUnion(l, p, u, v)
    PROVE  /\ Candidates(p, u, v) # {}
           /\ Chosen(p, u, v) - 1 \in Byte /\ Chosen(p, u, v) <= 128
           /\ MemberOf(u, v) = Resolve(u.values[Chosen(p, u, v)])
<1> DEFINE M == Members(u, v)
           C == Candidates(p, u, v)
           n == Len(u.values)
<1>1. n \in Nat /\ M \subseteq 1..n /\ C \subseteq 1..n
  BY DeclarationIsRecord DEF Members, Candidates
<1>2. PICK j \in M : j <= 128
  BY DEF LegalUnion
<1>3. PICK m \in M : \A k \in M : m <= k
  <2>1. M \in SUBSET Nat /\ M # {}
    BY <1>1, <1>2
  <2> HIDE DEF M
  <2> QED
    BY <2>1, Least
<1>4. m \in Nat /\ m \in 1..n /\ m <= 128
  <2>1. j \in 1..n /\ m \in 1..n /\ m <= j
    BY <1>1, <1>2, <1>3
  <2> HIDE DEF M, C, n
  <2> QED
    BY <1>1, <1>2, <2>1
<1>5. MemberOf(u, v) = Resolve(u.values[m])
  <2>1. \A i \in M : (\A k \in M : i <= k) => i = m
    <3> SUFFICES ASSUME NEW i \in M, \A k \in M : i <= k PROVE i = m
      OBVIOUS
    <3>1. i \in 1..n /\ i <= m /\ m <= i
      BY <1>1, <1>3
    <3> HIDE DEF M, C, n
    <3> QED
      BY <1>1, <1>4, <3>1
  <2>2. (CHOOSE i \in M : \A k \in M : i <= k) = m
    <3> HIDE DEF M
    <3> QED
      BY <1>3, <2>1
  <2> QED
    BY <2>2 DEF MemberOf, Min
<1>6. m \in C
  <2>1. Has(v, ":type") => Hints(u, m, v)
    BY <1>3 DEF Members
  <2>2. ~Has(v, ":type") => KeysOf(v) = NamesOf(Resolve(u.values[m]))
    BY <1>3 DEF Members
  <2>3. PyFits(u, m, v) /\ KtFits(u, m, v)
    BY <2>1, <2>2 DEF PyFits, KtFits
  <2> QED
    BY <1>4, <2>3 DEF Candidates
<1>7. ASSUME NEW i \in C PROVE m <= i
  <2>1. i \in 1..n /\ IF p = "python" THEN PyFits(u, i, v) ELSE KtFits(u, i, v)
    BY DEF Candidates
  <2>2. CASE Has(v, ":type")
    <3>1. ":type" \in KeysOf(v)
      BY <2>2 DEF Has, EntryAt, KeysOf
    <3>2. ":type" \notin NamesOf(Resolve(u.values[i]))
      BY <2>1, NoFieldIsTheHint
    <3>3. Hints(u, i, v)
      BY <2>1, <3>1, <3>2 DEF PyFits, KtFits
    <3>4. i \in M
      BY <2>1, <2>2, <3>3 DEF Members
    <3> QED
      BY <1>3, <3>4
  <2>3. CASE ~Has(v, ":type")
    <3>1. ~Hints(u, i, v)
      BY <2>3 DEF Hints
    <3>2. CASE p = "python"
      <4>1. KeysOf(v) = NamesOf(Resolve(u.values[i]))
        BY <2>1, <3>1, <3>2 DEF PyFits
      <4>2. i \in M
        BY <2>1, <2>3, <4>1 DEF Members
      <4> QED
        BY <1>3, <4>2
    <3>3. CASE p # "python"
      <4>1. KeysOf(v) \subseteq NamesOf(Resolve(u.values[i]))
        BY <2>1, <3>1, <3>3 DEF KtFits
      <4>2. PICK k \in M : k <= i
        BY <2>1, <2>3, <4>1 DEF LegalUnion
      <4>3. m <= k /\ k \in 1..n
        BY <1>1, <1>3
      <4> HIDE DEF M, C, n
      <4> QED
        BY <1>1, <1>4, <2>1, <4>2, <4>3
    <3> QED
      BY <3>2, <3>3
  <2> QED
    BY <2>2, <2>3
<1>8. Chosen(p, u, v) = m
  <2>1. Chosen(p, u, v) \in C /\ \A k \in C : Chosen(p, u, v) <= k
    BY <1>6, ChosenFacts
  <2> DEFINE c == Chosen(p, u, v)
  <2>2. c \in 1..n /\ c <= m /\ m <= c
    <3> HIDE DEF c
    <3> QED
      BY <1>1, <1>6, <1>7, <2>1 DEF c
  <2> HIDE DEF c, M, C, n
  <2>3. c = m
    BY <1>1, <1>4, <2>2
  <2> QED
    BY <2>3 DEF c
<1>9. m - 1 \in Byte
  <2> HIDE DEF M, C, n
  <2> QED
    BY <1>1, <1>4 DEF Byte
<1> QED
  BY <1>4, <1>5, <1>6, <1>8, <1>9

\* A legal value of a reference is let through.
LEMMA LegalRefCalled ==
    ASSUME NEW in, NEW l, Allows(in, l), NEW p \in Platforms, NEW T, T.is = "ref",
           T.name \in DeclaredNames, NEW v \in ValueSet, LegalHere(l, p, T, v)
    PROVE  CalledHere(in, p, T, v) /\ v.is # "null"
<1> DEFINE d == Resolve(T.name)
<1>1. /\ d \in Declaration
      /\ d.is = "union" => \A k \in 1..Len(d.values) : Resolve(d.values[k]) \in Declaration
  BY ResolveFacts
<1>2. d.is \in {"class", "enum", "union"}
  BY <1>1, DeclarationIsRecord
<1>3. CASE d.is = "enum"
  <2>1. v.is = "text" /\ IsValueOf(d, v.t)
    BY <1>3 DEF LegalHere, LegalOf, WholeKinds
  <2> QED
    BY <1>3, <2>1, EnumCalled
<1>4. /\ SizeOf(in, p, T, v) = RefSize(in, p, d, v) /\ PutOf(in, p, T, v) = PutRef(in, p, d, v)
      /\ AcceptsOf(in, p, T, v) = AcceptsRef(in, p, d, v)
  BY DEF SizeOf, PutOf, AcceptsOf, WholeKinds
<1>5. CASE d.is = "class"
  <2>1. LegalClass(l, p, d, v)
    BY <1>5 DEF LegalHere, LegalOf, WholeKinds
  <2> HIDE DEF d
  <2>2. AcceptsClass(in, p, d, v) /\ Exactly(ClassSize(in, p, d, v), PutClass(in, p, d, v))
    BY <1>1, <2>1, LegalClassCalled
  <2>3. v.is = "map"
    BY <2>1 DEF LegalClass
  <2>4. /\ RefSize(in, p, d, v) = ClassSize(in, p, d, v) /\ PutRef(in, p, d, v) = PutClass(in, p, d, v)
        /\ AcceptsRef(in, p, d, v) = AcceptsClass(in, p, d, v)
    BY <1>5 DEF RefSize, PutRef, AcceptsRef
  <2> QED
    BY <1>4, <2>2, <2>3, <2>4 DEF CalledHere
<1>6. CASE d.is = "union"
  <2>1. LegalUnion(l, p, d, v)
    BY <1>6 DEF LegalHere, LegalOf, WholeKinds
  <2> HIDE DEF d
  <2> DEFINE i == Chosen(p, d, v)
             class == Resolve(d.values[i])
  <2>2. Candidates(p, d, v) # {} /\ i - 1 \in Byte /\ MemberOf(d, v) = class
    BY <1>1, <1>6, <2>1, UnionChosen
  <2>3. class \in Declaration
    BY <1>1, <1>6, <2>2, ChosenFacts
  <2>4. LegalClass(l, p, class, v) /\ v.is = "map"
    BY <2>1, <2>2 DEF LegalUnion
  <2>5. AcceptsClass(in, p, class, v) /\ Exactly(ClassSize(in, p, class, v), PutClass(in, p, class, v))
    <3> HIDE DEF class
    <3> QED
      BY <2>3, <2>4, LegalClassCalled
  <2>6. AcceptsUnion(in, p, d, v)
    BY <2>2, <2>4, <2>5 DEF AcceptsUnion, AcceptsMember
  <2>7. Exactly(1 + ClassSize(in, p, class, v), PutUnion(in, p, d, v))
    BY <1>1, <2>2, <2>5, ForeseenUnion DEF Exactly
  <2>8. /\ RefSize(in, p, d, v) = 1 + ClassSize(in, p, class, v) /\ PutRef(in, p, d, v) = PutUnion(in, p, d, v)
        /\ AcceptsRef(in, p, d, v) = AcceptsUnion(in, p, d, v)
    BY <1>6 DEF RefSize, PutRef, AcceptsRef
  <2> HIDE DEF class
  <2> QED
    BY <1>4, <2>4, <2>6, <2>7, <2>8 DEF CalledHere
<1> QED
  BY <1>2, <1>3, <1>5, <1>6

\* An option is let through if it is null or what it is of is.
LEMMA OptionCalled ==
    ASSUME NEW in, NEW p \in Platforms, NEW T, T.is = "option", NEW v,
           v.is = "null" \/ Called(in, p, T.of[1], v)
    PROVE  CalledHere(in, p, T, v)
<1> DEFINE n == in.size[p][T.of[1]][v]
           b == in.put[p][T.of[1]][v]
<1>1. /\ AcceptsOf(in, p, T, v) <=> v.is = "null" \/ in.accepts[p][T.of[1]][v]
      /\ SizeOf(in, p, T, v) = 1 + IF v.is = "null" THEN 0 ELSE n
      /\ PutOf(in, p, T, v) = IF v.is = "null" THEN <<0>> ELSE <<1>> \o b
  BY DEF AcceptsOf, SizeOf, PutOf, PutOption, WholeKinds
<1>2. AcceptsOf(in, p, T, v)
  BY <1>1 DEF Called
<1>3. <<0>> \in Seq(Byte) /\ Len(<<0>>) = 1 /\ <<1>> \in Seq(Byte) /\ Len(<<1>>) = 1 /\ 1 \in Nat
  BY DEF Byte
<1>4. CASE v.is = "null"
  <2>1. Exactly(Len(<<0>>), <<0>>)
    BY <1>3, ForeseenExactly DEF Exactly
  <2>2. SizeOf(in, p, T, v) = 1 /\ PutOf(in, p, T, v) = <<0>>
    BY <1>1, <1>4
  <2> QED
    BY <1>2, <1>3, <2>1, <2>2 DEF CalledHere
<1>5. CASE v.is # "null"
  <2>1. Exactly(n, b)
    BY <1>5 DEF Called
  <2>2. SizeOf(in, p, T, v) = 1 + n /\ PutOf(in, p, T, v) = <<1>> \o b
    BY <1>1, <1>5
  <2> HIDE DEF n, b
  <2>3. Exactly(1 + n, <<1>> \o b)
    BY <1>3, <2>1, ForeseenBehind DEF Exactly
  <2> QED
    BY <1>2, <2>2, <2>3 DEF CalledHere
<1> QED
  BY <1>4, <1>5

\* A default is let through where two more calls fit.
LEMMA DefaultCalled ==
    ASSUME NEW in, NEW p \in Platforms, NEW T \in FieldTypes, NEW v \in ValueSet, DefaultFits(p, T, v)
    PROVE  CalledHere(CodecAround(in), p, T, v)
<1> DEFINE D == T.of[1]
           around == CodecAround(in)
<1>1. CASE T.is # "option"
  <2>1. Simple(p, T, v)
    BY <1>1 DEF DefaultFits, Simple
  <2> HIDE DEF around
  <2> QED
    BY <2>1, SimpleCalled
<1>2. CASE T.is = "option" /\ v.is = "null"
  <2> HIDE DEF around
  <2> QED
    BY <1>2, OptionCalled
<1>3. CASE T.is = "option" /\ v.is # "null"
  <2>1. D \in FieldTypes /\ D \in Types
    BY <1>3, FieldTypeFacts DEF Types
  <2>2. Simple(p, D, v)
    BY <1>3 DEF DefaultFits, Simple
  <2> HIDE DEF D
  <2>3. CalledHere(in, p, D, v)
    BY <2>1, <2>2, SimpleCalled
  <2>4. Called(around, p, D, v)
    BY <2>1, <2>3, CalledAround
  <2> HIDE DEF around
  <2>5. CalledHere(around, p, T, v)
    BY <1>3, <2>4, OptionCalled DEF D
  <2> QED
    BY <2>5 DEF around
<1> QED
  BY <1>1, <1>2, <1>3

\* What is legal is let through, whatever its type.
LEMMA LegalCalled ==
    ASSUME NEW in, NEW l, Sound(in), Allows(in, l), NEW p \in Platforms, NEW T \in FieldTypes,
           NEW v \in ValueSet, LegalHere(l, p, T, v)
    PROVE  /\ CalledHere(in, p, T, v)
           /\ T.is # "option" => v.is # "null"
           /\ T.is = "byte" => Len(PutOf(in, p, T, v)) = 1
<1>0. /\ T.is \in TypeKinds \ {"null", "unknown"}
      /\ T.is = "ref" => T.name \in DeclaredNames
      /\ T.is \in {"array", "option"} => T.of[1] \in FieldTypes
  BY FieldTypeFacts
<1>1. CASE T.is \in WholeKinds
  <2>1. IsWhole(p, T.is, v)
    BY <1>1 DEF LegalHere, LegalOf, WholeKinds
  <2>2. v.is # "null" /\ T.is # "option"
    BY <1>1, <2>1 DEF IsWhole, WholeKinds
  <2> QED
    BY <1>1, <2>1, <2>2, WholeAccepted, PlainCalled
<1>2. CASE T.is = "float"
  <2>1. IsFloat(p, v)
    BY <1>2 DEF LegalHere, LegalOf, WholeKinds
  <2>2. v.is # "null"
    BY <2>1 DEF IsFloat, NumberKinds, WholeKinds
  <2> QED
    BY <1>2, <2>1, <2>2, FloatAccepted, PlainCalled
<1>3. CASE T.is = "boolean"
  <2>1. v.is = "bool" /\ AcceptsOf(in, p, T, v)
    BY <1>3 DEF LegalHere, LegalOf, AcceptsOf, WholeKinds
  <2> QED
    BY <1>3, <2>1, PlainCalled
<1>4. CASE T.is = "string"
  <2>1. v.is = "text"
    BY <1>4 DEF LegalHere, LegalOf, IsText, WholeKinds
  <2>2. AcceptsOf(in, p, T, v)
    BY <1>4, <2>1 DEF AcceptsOf, WholeKinds
  <2> QED
    BY <1>4, <2>1, <2>2, PlainCalled
<1>5. CASE T.is = "array"
  <2> DEFINE D == T.of[1]
  <2>1. LegalItems(l, p, D, v)
    BY <1>5 DEF LegalHere, LegalOf, WholeKinds
  <2>2. D \in FieldTypes /\ D.is # "option"
    <3>1. T \notin DataTypes
      BY <1>5, DataTypesAre DEF NumberKinds, WholeKinds
    <3>2. D \in DataTypes
      BY <1>5, <3>1, FieldTypesAre
    <3>3. D.is # "option"
      BY <3>2, DataTypesAre DEF NumberKinds, WholeKinds
    <3> QED
      BY <1>0, <1>5, <3>3
  <2> HIDE DEF D
  <2>3. IsItems(p, v) /\ (v.is = "array" => v.t = D.is)
        /\ \A i \in 1..Len(v.items) : l.legal[p][D][v.items[i]]
    BY <2>1 DEF LegalItems
  <2>4. v.is # "null" /\ v.is # "map"
    BY <2>3 DEF IsItems
  <2>5. ASSUME NEW i \in 1..Len(v.items)
        PROVE  /\ v.items[i].is # "null" /\ Called(in, p, D, v.items[i])
               /\ D.is = "byte" => Len(in.put[p][D][v.items[i]]) = 1
    <3>1. v.items[i] \in ValueSet
      BY <2>4, InsideFacts
    <3>2. AllowsLegal(in, l, p, D, v.items[i])
      BY <2>2, <3>1 DEF Allows
    <3> QED
      BY <2>2, <2>3, <3>2 DEF AllowsLegal
  <2>6. CASE p = "kotlin" /\ v.is = "array" /\ v.t = "byte"
    <3>1. \A i \in 1..Len(v.items) : v.items[i].is # "null" /\ Called(in, p, T.of[1], v.items[i])
                                      /\ Len(in.put[p][T.of[1]][v.items[i]]) = 1
      BY <2>3, <2>5, <2>6 DEF D
    <3> QED
      BY <1>5, <2>4, <2>6, <3>1, BytesCalled
  <2>7. CASE ~(p = "kotlin" /\ v.is = "array" /\ v.t = "byte")
    <3>1. \A i \in 1..Len(v.items) : v.items[i].is # "null" /\ Called(in, p, T.of[1], v.items[i])
      BY <2>5 DEF D
    <3> QED
      BY <1>5, <2>3, <2>4, <2>7, <3>1, ArrayCalled
  <2> QED
    BY <2>6, <2>7
<1>6. CASE T.is = "map"
  <2>1. v.is = "map" /\ StorableMap(l, p, v)
    <3>1. v.is = "map" /\ StorableNow(l)[p][v]
      BY <1>6 DEF LegalHere, LegalOf, WholeKinds
    <3>2. StorableNow(l)[p][v] = Storable(l, p, v)
      BY DEF StorableNow
    <3> QED
      BY <3>1, <3>2 DEF Storable, WholeKinds
  <2> QED
    BY <1>6, <2>1, StorableMapCalled
<1>7. CASE T.is = "option"
  <2>1. v.is = "null" \/ l.legal[p][T.of[1]][v]
    BY <1>7 DEF LegalHere, LegalOf, WholeKinds
  <2>2. AllowsLegal(in, l, p, T.of[1], v)
    BY <1>0, <1>7 DEF Allows
  <2>3. v.is = "null" \/ Called(in, p, T.of[1], v)
    BY <2>1, <2>2 DEF AllowsLegal
  <2> QED
    BY <1>7, <2>3, OptionCalled
<1>8. CASE T.is = "ref"
  BY <1>0, <1>8, LegalRefCalled
<1> QED
  BY <1>0, <1>1, <1>2, <1>3, <1>4, <1>5, <1>6, <1>7, <1>8 DEF TypeKinds, NumberKinds

----------------------------------------------------------------------------
\* What is legal around another depth.
LEMMA LawfulFields ==
    ASSUME NEW l, NEW p \in Platforms, NEW v \in ValueSet
    PROVE  /\ LegalAround(l).left = l.left + 1
           /\ LegalAround(l).storable[p][v] = Storable(l, p, v)
           /\ \A T \in FieldTypes : LegalAround(l).legal[p][T][v] = LegalHere(l, p, T, v)
           /\ NoneIsLegal.left = 0 /\ ~NoneIsLegal.storable[p][v]
           /\ \A T \in FieldTypes : ~NoneIsLegal.legal[p][T][v]
BY DEF LegalAround, LegalBeside, NoneIsLegal, LegalHere, StorableNow

\* The depth that is left, by counting it.
LEMMA LeftIs == \A d \in Nat : lawful[d].left = d
<1> DEFINE fails == {d \in Nat : lawful[d].left # d}
<1>1. SUFFICES ASSUME fails # {} PROVE FALSE
  OBVIOUS
<1>2. PICK d \in fails : \A e \in fails : d <= e
  <2>1. fails \in SUBSET Nat
    OBVIOUS
  <2> HIDE DEF fails
  <2> QED
    BY <1>1, <2>1, Least
<1>3. d # 0
  <2>1. NoneIsLegal.left = 0
    BY DEF NoneIsLegal
  <2> QED
    BY <1>2, <2>1, LawfulAt
<1>4. d - 1 \in Nat /\ (d - 1) + 1 = d /\ ~(d <= d - 1)
  BY <1>2, <1>3
<1>5. lawful[d - 1].left = d - 1
  BY <1>2, <1>4
<1>6. lawful[d] = LegalAround(lawful[d - 1])
  BY <1>4, LawfulAt
<1>7. lawful[d].left = lawful[d - 1].left + 1
  BY <1>6 DEF LegalAround, LegalBeside
<1> QED
  BY <1>2, <1>4, <1>5, <1>7

\* As far as calls nest, what is legal is let through.
LEMMA LegalsAllowed == \A d \in Nat : Allows(codec[d], lawful[d])
<1> DEFINE fails == {d \in Nat : ~Allows(codec[d], lawful[d])}
<1>1. SUFFICES ASSUME fails # {} PROVE FALSE
  OBVIOUS
<1>2. PICK d \in fails : \A e \in fails : d <= e
  <2>1. fails \in SUBSET Nat
    OBVIOUS
  <2> HIDE DEF fails
  <2> QED
    BY <1>1, <2>1, Least
<1>3. Allows(TooDeep, NoneIsLegal)
  <2>1. ASSUME NEW p \in Platforms, NEW v \in ValueSet
        PROVE  /\ \A T \in FieldTypes : ~NoneIsLegal.legal[p][T][v]
               /\ ~NoneIsLegal.storable[p][v] /\ NoneIsLegal.left = 0
    BY LawfulFields
  <2> QED
    BY <2>1 DEF Allows, AllowsLegal, AllowsDefault, AllowsHeld
<1>4. d # 0
  BY <1>2, <1>3, CodecAt, LawfulAt
<1> DEFINE e == d - 1
           in == codec[e]
           l == lawful[e]
<1>5. e \in Nat /\ e + 1 = d /\ ~(d <= e)
  BY <1>2, <1>4
<1>6. Allows(in, l) /\ Sound(in)
  BY <1>2, <1>5, CodecIsSound
<1>7. codec[d] = CodecAround(in) /\ lawful[d] = LegalAround(l)
  BY <1>5, CodecAt, LawfulAt
<1>8. l.left = e
  BY <1>5, LeftIs
<1>9. e # 0 => \E deeper : in = CodecAround(deeper)
  <2>1. e # 0 => e - 1 \in Nat /\ (e - 1) + 1 = e
    BY <1>5
  <2> QED
    BY <2>1, CodecAt
<1> HIDE DEF e, in, l
<1>10. ASSUME NEW p \in Platforms, NEW v \in ValueSet, NEW T \in FieldTypes
       PROVE  /\ AllowsLegal(CodecAround(in), LegalAround(l), p, T, v)
              /\ AllowsDefault(CodecAround(in), LegalAround(l), p, T, v)
  <2>1. T \in Types
    BY DEF Types
  <2>2. /\ Called(CodecAround(in), p, T, v) <=> CalledHere(in, p, T, v)
        /\ CodecAround(in).put[p][T][v] = PutOf(in, p, T, v)
    BY <2>1, CalledAround
  <2>3. AllowsLegal(CodecAround(in), LegalAround(l), p, T, v)
    <3> SUFFICES ASSUME LegalHere(l, p, T, v)
                 PROVE  /\ CalledHere(in, p, T, v)
                        /\ T.is # "option" => v.is # "null"
                        /\ T.is = "byte" => Len(PutOf(in, p, T, v)) = 1
      BY <2>2, LawfulFields DEF AllowsLegal
    <3> QED
      BY <1>6, LegalCalled
  <2>4. AllowsDefault(CodecAround(in), LegalAround(l), p, T, v)
    <3> SUFFICES ASSUME LegalAround(l).left >= 2, DefaultFits(p, T, v) PROVE CalledHere(in, p, T, v)
      BY <2>2 DEF AllowsDefault
    <3>1. LegalAround(l).left = e + 1
      BY <1>8, LawfulFields
    <3>2. e # 0
      BY <1>5, <3>1
    <3>3. PICK deeper : in = CodecAround(deeper)
      BY <1>9, <3>2
    <3> QED
      BY <3>3, DefaultCalled
  <2> QED
    BY <2>3, <2>4
<1>11. ASSUME NEW p \in Platforms, NEW v \in ValueSet
       PROVE  AllowsHeld(CodecAround(in), LegalAround(l), p, v)
  <2> DEFINE T == ValType(p, v)
  <2>1. T \in Types
    BY ValTypeIsType
  <2>2. Called(CodecAround(in), p, T, v) <=> CalledHere(in, p, T, v)
    <3> HIDE DEF T
    <3> QED
      BY <2>1, CalledAround
  <2>3. Storable(l, p, v) => CalledHere(in, p, T, v)
    BY <1>6, StorableCalled
  <2> HIDE DEF T
  <2>4. Storable(l, p, v) /\ p = "python" /\ v.is \in WholeKinds
           => Called(CodecAround(in), p, Scalar("long"), v)
    <3> SUFFICES ASSUME Storable(l, p, v), p = "python", v.is \in WholeKinds
                 PROVE  Called(CodecAround(in), p, Scalar("long"), v)
      OBVIOUS
    <3>1. IsWhole(p, "long", v)
      BY DEF Storable, WholeKinds
    <3>2. Scalar("long").is = "long" /\ "long" \in WholeKinds /\ Scalar("long") \in Types
      <4>1. Scalar("long") \in DataTypes
        BY DEF DataTypes, NumberKinds, WholeKinds
      <4>2. Scalar("long") \in FieldTypes
        BY <4>1 DEF FieldTypes
      <4>3. Scalar("long").is = "long"
        BY DEF Scalar
      <4> QED
        BY <4>2, <4>3 DEF Types, WholeKinds
    <3>3. AcceptsOf(in, p, Scalar("long"), v)
      BY <3>1, <3>2, WholeAccepted
    <3>4. CalledHere(in, p, Scalar("long"), v)
      BY <3>2, <3>3, PlainCalled
    <3> QED
      BY <3>2, <3>4, CalledAround
  <2> QED
    BY <2>2, <2>3, <2>4, LawfulFields DEF AllowsHeld, T
<1>12. Allows(CodecAround(in), LegalAround(l))
  BY <1>10, <1>11 DEF Allows
<1> QED
  BY <1>2, <1>7, <1>12

\* The invariant says that what was refused was not legal.
LEMMA InvIsAccepted == ExchangeInv => LegalIsAccepted
<1> SUFFICES ASSUME ExchangeInv, phase = "refused", Legal(holder, origin.type, held) PROVE FALSE
  BY DEF LegalIsAccepted
<1> DEFINE T == origin.type
           c == codec[MaxNesting]
           l == lawful[MaxNesting]
<1>1. TypeOK /\ ~Passes(holder, T, held)
  BY DEF ExchangeInv
<1>2. holder \in Platforms /\ T \in FieldTypes /\ held \in ValueSet
  BY <1>1, CaseFacts DEF TypeOK
<1>3. l.legal[holder][T][held]
  BY DEF Legal
<1>4. Allows(c, l)
  BY LegalsAllowed, ValueSetIs
<1>5. /\ Accepts(holder, T, held) = c.accepts[holder][T][held]
      /\ Size(holder, T, held) = c.size[holder][T][held]
      /\ Put(holder, T, held) = c.put[holder][T][held]
  BY DEF Accepts, Size, Put
<1> HIDE DEF c, l, T
<1>6. AllowsLegal(c, l, holder, T, held)
  BY <1>2, <1>4 DEF Allows
<1>7. Called(c, holder, T, held)
  BY <1>3, <1>6 DEF AllowsLegal
<1>8. Accepts(holder, T, held) /\ Exactly(Size(holder, T, held), Put(holder, T, held))
  BY <1>5, <1>7 DEF Called
<1>9. ~Overflows(holder, Size(holder, T, held), Put(holder, T, held))
  <2> DEFINE m == Len(Put(holder, T, held))
             n == Size(holder, T, held)
  <2>1. m \in Nat /\ n \in Nat /\ n = m
    BY <1>8 DEF Exactly, Foreseen
  <2>2. Overflows(holder, n, Put(holder, T, held)) => m > n
    BY DEF Overflows
  <2> HIDE DEF m, n
  <2>3. ~(m > n)
    BY <2>1
  <2> QED
    BY <2>2, <2>3 DEF n
<1> QED
  BY <1>1, <1>8, <1>9 DEF Passes

\* A value of its type is never refused: for all types and values, and as deep
\* as they are nested.
THEOREM LegalsAreAccepted == Spec => []LegalIsAccepted
BY InvIsAccepted, ExchangeInvariant, PTL

============================================================================
