-------------------------- MODULE ReadBackProofs --------------------------
(***************************************************************************)
(* For every schema, every set of texts, every depth of nesting and every  *)
(* legal value a caller starts with: what one library writes the other     *)
(* reads, all of it and nothing more, and it means what it meant.  First   *)
(* for numbers and texts, then for what is around values that are read     *)
(* back, and so at every depth.  The theorems are at the end.              *)
(***************************************************************************)
EXTENDS ContentProofs

\* What becomes of x is known when every step is.
LEMMA ThroughReaches ==
    ASSUME NEW x, NEW fs, Len(fs) \in Nat, NEW at, at[0] = x,
           \A i \in 1..Len(fs) : fs[i][at[i - 1]] = at[i]
    PROVE  Through(x, fs) = at[Len(fs)]
<1>1. PICK f : Goes(f, x, fs) /\ Through(x, fs) = f[Len(fs)]
  BY ThroughIs
<1> DEFINE fails == {i \in 0..Len(fs) : f[i] # at[i]}
<1>2. SUFFICES ASSUME fails # {} PROVE FALSE
  BY <1>1
<1>3. PICK i \in fails : \A j \in fails : i <= j
  <2>1. fails \in SUBSET Nat
    OBVIOUS
  <2> HIDE DEF fails
  <2> QED
    BY <1>2, <2>1, Least
<1>4. f[i] = IF i = 0 THEN x ELSE fs[i][f[i - 1]]
  BY <1>1, <1>3 DEF Goes
<1>5. i # 0
  BY <1>3, <1>4
<1>6. i \in 1..Len(fs) /\ i - 1 \in 0..Len(fs) /\ ~(i <= i - 1)
  BY <1>3, <1>5
<1>7. f[i - 1] = at[i - 1]
  BY <1>3, <1>6
<1> QED
  BY <1>3, <1>4, <1>5, <1>6, <1>7

----------------------------------------------------------------------------
\* Numbers.

\* Dividing a quotient once more, and what the remainder is.
LEMMA Quotients ==
    ASSUME NEW n \in Int, NEW w \in Nat, w > 0
    PROVE  /\ n \div w \in Int
           /\ (n \div w) \div 256 = n \div (256 * w)
           /\ n \div w = 256 * (n \div (256 * w)) + ((n \div w) % 256)
           /\ (n \div w) % 256 \in 0..255
<1> DEFINE q == n \div w
           r == n % w
           s == q \div 256
           t == q % 256
<1>1. q \in Int /\ r \in Int /\ n = w * q + r /\ 0 <= r /\ r < w
  OBVIOUS
<1> HIDE DEF q, r
<1>2. s \in Int /\ t \in 0..255 /\ q = 256 * s + t
  BY <1>1
<1> HIDE DEF s, t
<1> DEFINE u == w * t + r
<1>3. n = (256 * w) * s + u
  <2>1. w * q = w * (256 * s) + w * t
    BY <1>1, <1>2
  <2>2. w * (256 * s) = (256 * w) * s
    BY <1>2
  <2>3. w * t \in Int /\ w * q \in Int /\ (256 * w) * s \in Int
    BY <1>1, <1>2
  <2> QED
    BY <1>1, <2>1, <2>2, <2>3
<1>4. 0 <= u /\ u < 256 * w
  <2>1. 0 <= w * t /\ w * t <= w * 255
    BY <1>2
  <2>2. w * t \in Int /\ w * 255 = 255 * w
    BY <1>2
  <2> QED
    BY <1>1, <2>1, <2>2
<1> DEFINE D == 256 * w
<1>5. D \in Nat /\ D > 0 /\ u \in Int
  BY <1>1, <1>2
<1>6. n = D * s + u /\ 0 <= u /\ u < D
  BY <1>3, <1>4
<1> HIDE DEF u, D
<1>7. n \div D = s
  BY <1>2, <1>5, <1>6
<1> QED
  <2>1. n \div (256 * w) = s
    BY <1>7 DEF D
  <2>2. t = q % 256 /\ s = q \div 256
    BY DEF s, t
  <2> QED
    BY <1>1, <1>2, <2>1, <2>2, ZenonT(40) DEF q

\* The quotient and the remainder of a number that is put together of them.
LEMMA Together ==
    ASSUME NEW o \in Int, NEW w \in Nat, w > 0, NEW n \in 0..(w - 1)
    PROVE  (o * w + n) \div w = o /\ (o * w + n) % w = n
<1> DEFINE k == o * w + n
<1>1. k \in Int /\ k = w * o + n /\ n \in Int /\ 0 <= n /\ n < w
  OBVIOUS
<1> HIDE DEF k
<1>2. k \div w = o
  BY <1>1
<1>3. k % w = n
  BY <1>1
<1> QED
  BY <1>2, <1>3 DEF k

\* What the bytes of a number are, and how they are read.
LEMMA ReadingBytes ==
    ASSUME NEW bytes \in Seq(Byte), bytes # <<>>, NEW at,
           at[0] = IF bytes[1] > 127 THEN -1 ELSE 0,
           \A i \in 0..Len(bytes) : at[i] \in Int,
           \A i \in 1..Len(bytes) : at[i] = at[i - 1] * 256 + bytes[i]
    PROVE  NumberOf(bytes) = at[Len(bytes)]
<1> DEFINE fs == [i \in 1..Len(bytes) |-> [n \in Int |-> n * 256 + bytes[i]]]
           x == IF bytes[1] > 127 THEN -1 ELSE 0
<1>1. Len(fs) = Len(bytes) /\ Len(bytes) \in Nat
  OBVIOUS
<1>2. ASSUME NEW i \in 1..Len(bytes) PROVE fs[i][at[i - 1]] = at[i]
  <2>1. fs[i] = [n \in Int |-> n * 256 + bytes[i]]
    OBVIOUS
  <2>2. i - 1 \in 0..Len(bytes)
    BY <1>1
  <2>3. at[i - 1] \in Int
    BY <2>2
  <2> HIDE DEF fs
  <2>4. fs[i][at[i - 1]] = at[i - 1] * 256 + bytes[i]
    BY <2>1, <2>3
  <2> QED
    BY <2>4
<1>3. NumberOf(bytes) = Through(x, fs)
  BY DEF NumberOf
<1>4. at[0] = x
  OBVIOUS
<1> HIDE DEF fs, x
<1> QED
  BY <1>1, <1>2, <1>3, <1>4, ThroughReaches

\* The number a byte stands for, and the bits of it.
LEMMA OneByte ==
    ASSUME NEW n \in Int
    PROVE  /\ NumberBytes(n, 1) = <<n % 256>> /\ n % 256 \in Byte
           /\ NumberOf(<<n % 256>>) = IF n % 256 > 127 THEN (n % 256) - 256 ELSE n % 256
           /\ InWidth(n, 1) <=> n \in -128..127
<1> DEFINE b == n % 256
<1>1. b \in 0..255 /\ b \in Byte /\ b \in Int
  BY DEF Byte
<1>2. Weight[0] = 1 /\ n \div 1 = n
  BY WeightAt
<1>3. NumberBytes(n, 1) = <<b>>
  <2>1. \A i \in 1..1 : i = 1
    OBVIOUS
  <2>2. NumberBytes(n, 1) = [i \in 1..1 |-> (n \div Weight[1 - i]) % 256]
    BY DEF NumberBytes
  <2>3. \A i \in 1..1 : (n \div Weight[1 - i]) % 256 = b
    <3> SUFFICES ASSUME NEW i \in 1..1 PROVE (n \div Weight[1 - i]) % 256 = b
      OBVIOUS
    <3>1. 1 - i = 0
      OBVIOUS
    <3>2. n \div Weight[1 - i] = n
      BY <1>2, <3>1
    <3> QED
      BY <3>2
  <2>4. NumberBytes(n, 1) = [i \in 1..1 |-> b]
    BY <2>2, <2>3
  <2> HIDE DEF b
  <2>5. <<b>> = [i \in 1..1 |-> b]
    OBVIOUS
  <2> QED
    BY <2>4, <2>5
<1>4. InWidth(n, 1) <=> n \in -128..127
  <2>1. 1 - 1 = 0
    OBVIOUS
  <2> QED
    BY <1>2, <2>1 DEF InWidth
<1> HIDE DEF b
<1>5. NumberOf(<<b>>) = IF b > 127 THEN b - 256 ELSE b
  <2> DEFINE first == IF b > 127 THEN -1 ELSE 0
             at == [i \in 0..1 |-> IF i = 0 THEN first ELSE first * 256 + b]
             bytes == <<b>>
  <2>1. bytes \in Seq(Byte) /\ bytes # <<>> /\ Len(bytes) = 1 /\ bytes[1] = b
    BY <1>1
  <2>2. first \in Int /\ at[0] = first /\ at[1] = first * 256 + b
    BY <1>1
  <2>3. first * 256 + b = IF b > 127 THEN b - 256 ELSE b
    BY <1>1
  <2>4. at[1] \in Int
    BY <1>1, <2>2
  <2> HIDE DEF at, bytes, first
  <2>5. \A i \in 0..Len(bytes) : at[i] \in Int
    <3>1. \A i \in 0..1 : i = 0 \/ i = 1
      OBVIOUS
    <3> QED
      BY <2>1, <2>2, <2>4, <3>1
  <2>6. \A i \in 1..Len(bytes) : at[i] = at[i - 1] * 256 + bytes[i]
    <3>1. \A i \in 1..1 : i = 1 /\ i - 1 = 0
      OBVIOUS
    <3> QED
      BY <2>1, <2>2, <3>1
  <2>7. at[0] = IF bytes[1] > 127 THEN -1 ELSE 0
    BY <2>1, <2>2 DEF first
  <2>8. NumberOf(bytes) = at[1]
    BY <2>1, <2>5, <2>6, <2>7, ReadingBytes
  <2> QED
    BY <2>2, <2>3, <2>8 DEF bytes
<1> QED
  BY <1>1, <1>3, <1>4, <1>5 DEF b

\* A number that fits is read back from its bytes.
LEMMA NumberReadBack ==
    ASSUME NEW n \in Int, NEW w \in Nat, w >= 1, InWidth(n, w)
    PROVE  NumberOf(NumberBytes(n, w)) = n
<1> DEFINE bytes == NumberBytes(n, w)
           at == [i \in 0..w |-> n \div Weight[w - i]]
<1>1. bytes \in Seq(Byte) /\ Len(bytes) = w
  BY NumberBytesFacts
<1>2. \A i \in 1..w : bytes[i] = (n \div Weight[w - i]) % 256
  BY DEF NumberBytes
<1>3. \A i \in 0..w : at[i] = n \div Weight[w - i]
  OBVIOUS
<1>4. bytes # <<>>
  <2> HIDE DEF bytes
  <2> QED
    BY <1>1
<1> HIDE DEF bytes, at
<1>5. ASSUME NEW i \in 1..w
      PROVE  at[i] \in Int /\ at[i - 1] \in Int /\ at[i] = at[i - 1] * 256 + bytes[i]
             /\ at[i - 1] = at[i] \div 256
  <2> DEFINE k == w - i
             W == Weight[k]
  <2>1. k \in Nat /\ w - (i - 1) = k + 1 /\ i - 1 \in 0..w /\ i \in 0..w
    OBVIOUS
  <2>2. W \in Nat /\ W > 0 /\ Weight[k + 1] = 256 * W
    BY <2>1, WeightPositive, WeightAt
  <2>3. at[i] = n \div W /\ bytes[i] = (n \div W) % 256
    BY <1>2, <1>3, <2>1
  <2>4. at[i - 1] = n \div (256 * W)
    BY <1>3, <2>1, <2>2
  <2> HIDE DEF W, k
  <2>5. /\ n \div W \in Int /\ (n \div W) \div 256 = n \div (256 * W)
        /\ n \div W = 256 * (n \div (256 * W)) + ((n \div W) % 256)
        /\ (n \div W) % 256 \in 0..255
    BY <2>2, Quotients
  <2>6. at[i] \in Int /\ at[i - 1] = at[i] \div 256 /\ at[i] = 256 * at[i - 1] + bytes[i]
        /\ bytes[i] \in 0..255
    BY <2>3, <2>4, <2>5
  <2>7. at[i - 1] \in Int
    BY <2>6
  <2> QED
    BY <2>6, <2>7
<1>6. \A i \in 0..Len(bytes) : at[i] \in Int
  <2> TAKE i \in 0..Len(bytes)
  <2>1. i \in 1..w \/ (i = 0 /\ 1 \in 1..w /\ 1 - 1 = 0)
    BY <1>1
  <2> QED
    BY <1>5, <2>1
<1>7. at[0] = IF bytes[1] > 127 THEN -1 ELSE 0
  <2>1. 1 \in 1..w /\ 1 - 1 = 0 /\ 1 \in 0..w
    OBVIOUS
  <2>2. at[1] \in -128..127
    BY <1>3, <2>1 DEF InWidth
  <2>3. bytes[1] = at[1] % 256 /\ at[0] = at[1] \div 256
    BY <1>2, <1>3, <1>5, <2>1
  <2> QED
    BY <2>2, <2>3
<1>8. NumberOf(bytes) = at[Len(bytes)]
  BY <1>1, <1>4, <1>5, <1>6, <1>7, ReadingBytes, ZenonT(40)
<1>9. at[w] = n
  <2>1. w - w = 0 /\ w \in 0..w /\ Weight[0] = 1
    BY WeightAt
  <2>2. at[w] = n \div 1
    BY <1>3, <2>1
  <2> QED
    BY <2>2
<1> QED
  BY <1>1, <1>8, <1>9 DEF bytes

\* The header of an entry, read as a number, is its type and its length.
LEMMA HeaderReadBack ==
    ASSUME NEW o \in 0..127, NEW n \in 0..(Weight[LengthWidth] - 1)
    PROVE  LET bytes == <<o>> \o NumberBytes(n, LengthWidth)
           IN /\ bytes \in Seq(Byte) /\ Len(bytes) = IntWidth
              /\ NumberOf(bytes) = o * Weight[LengthWidth] + n
<1> DEFINE w == LengthWidth
           last == NumberBytes(n, w)
           bytes == <<o>> \o last
           at == [i \in 0..(w + 1) |-> IF i = 0 THEN 0 ELSE o * Weight[i - 1] + (n \div Weight[w + 1 - i])]
<1>1. w \in Nat /\ 1 + w = IntWidth
  BY Widths
<1>2. Weight[w] \in Nat /\ Weight[w] > 0
  BY <1>1, WeightPositive
<1>3. n \in Int /\ 0 <= n /\ n < Weight[w]
  BY <1>2
<1>4. last \in Seq(Byte) /\ Len(last) = w /\ \A i \in 1..w : last[i] = (n \div Weight[w - i]) % 256
  <2>1. last \in Seq(Byte) /\ Len(last) = w
    BY <1>1, <1>3, NumberBytesFacts
  <2>2. \A i \in 1..w : last[i] = (n \div Weight[w - i]) % 256
    BY DEF NumberBytes
  <2> QED
    BY <2>1, <2>2
<1>5. o \in Byte /\ o \in Int
  BY DEF Byte
<1>6. \A i \in 0..(w + 1) : at[i] = IF i = 0 THEN 0 ELSE o * Weight[i - 1] + (n \div Weight[w + 1 - i])
  OBVIOUS
<1> HIDE DEF last, at, w
<1>7. /\ bytes \in Seq(Byte) /\ Len(bytes) = w + 1 /\ bytes # <<>> /\ bytes[1] = o
      /\ \A i \in 1..w : bytes[i + 1] = last[i]
  <2>1. <<o>> \in Seq(Byte) /\ Len(<<o>>) = 1
    BY <1>5
  <2>2. bytes \in Seq(Byte) /\ Len(bytes) = 1 + w
    BY <1>1, <1>4, <2>1
  <2>3. bytes[1] = o /\ \A i \in 1..w : bytes[i + 1] = last[i]
    BY <1>1, <1>4, <2>1
  <2> HIDE DEF bytes
  <2> QED
    BY <1>1, <2>2, <2>3
<1> HIDE DEF bytes
<1>8. ASSUME NEW i \in 1..(w + 1)
      PROVE  at[i] \in Int /\ at[i - 1] \in Int /\ at[i] = at[i - 1] * 256 + bytes[i]
  <2>1. CASE i = 1
    <3>1. at[0] = 0 /\ at[1] = o * Weight[0] + (n \div Weight[w])
      <4>1. 0 \in 0..(w + 1) /\ 1 \in 0..(w + 1) /\ 1 - 1 = 0 /\ w + 1 - 1 = w /\ 1 # 0
        BY <1>1
      <4> QED
        BY <1>6, <4>1
    <3>2. n \div Weight[w] = 0
      BY <1>2, <1>3
    <3>3. o * Weight[0] = o
      BY <1>5, WeightAt
    <3> QED
      BY <1>5, <1>7, <2>1, <3>1, <3>2, <3>3
  <2>2. CASE i # 1
    <3> DEFINE j == i - 2
               k == w - 1 - j
               W == Weight[k]
               V == Weight[j]
    <3>1. /\ j \in Nat /\ k \in Nat /\ i - 1 \in 1..w /\ i - 1 = j + 1 /\ (i - 1) + 1 = i
          /\ i - 1 \in 0..(w + 1) /\ i \in 0..(w + 1) /\ i - 1 # 0 /\ i # 0
          /\ (i - 1) - 1 = j /\ w + 1 - (i - 1) = k + 1 /\ w + 1 - i = k /\ w - (i - 1) = k
      BY <1>1, <2>2
    <3>2. W \in Nat /\ W > 0 /\ Weight[k + 1] = 256 * W /\ V \in Nat /\ Weight[j + 1] = 256 * V
      BY <3>1, WeightPositive, WeightAt
    <3>3. at[i] = o * (256 * V) + (n \div W)
      BY <1>6, <3>1, <3>2
    <3>4. at[i - 1] = o * V + (n \div (256 * W))
      BY <1>6, <3>1, <3>2
    <3>5. bytes[i] = (n \div W) % 256
      <4>1. bytes[i] = last[i - 1]
        BY <1>7, <3>1
      <4>2. last[i - 1] = (n \div Weight[w - (i - 1)]) % 256
        BY <1>4, <3>1
      <4> QED
        BY <3>1, <4>1, <4>2
    <3> HIDE DEF W, V, j, k
    <3>6. /\ n \div W \in Int
          /\ n \div W = 256 * (n \div (256 * W)) + ((n \div W) % 256)
          /\ (n \div W) % 256 \in 0..255
      BY <1>3, <3>2, Quotients
    <3> DEFINE q == n \div W
               s == n \div (256 * W)
               r == q % 256
    <3>7. q \in Int /\ r \in Int /\ s \in Int /\ q = 256 * s + r
      <4>1. 256 * W \in Nat /\ 256 * W > 0
        BY <3>2
      <4>2. s \in Int
        BY <1>3, <4>1
      <4> QED
        BY <3>6, <4>2
    <3>8. at[i] = o * (256 * V) + q /\ at[i - 1] = o * V + s /\ bytes[i] = r
      BY <3>3, <3>4, <3>5
    <3> HIDE DEF q, s, r
    <3>9. o * (256 * V) = 256 * (o * V) /\ o * V \in Int
      BY <1>5, <3>2
    <3> QED
      BY <3>7, <3>8, <3>9
  <2> QED
    BY <2>1, <2>2
<1>9. \A i \in 0..Len(bytes) : at[i] \in Int
  <2> TAKE i \in 0..Len(bytes)
  <2>1. i \in 1..(w + 1) \/ (i = 0 /\ 0 \in 0..(w + 1))
    BY <1>1, <1>7
  <2>2. at[0] = 0
    BY <1>1, <1>6
  <2> QED
    BY <1>8, <2>1, <2>2
<1>10. at[0] = IF bytes[1] > 127 THEN -1 ELSE 0
  <2>1. 0 \in 0..(w + 1)
    BY <1>1
  <2> QED
    BY <1>6, <1>7, <2>1
<1>11. NumberOf(bytes) = at[Len(bytes)]
  BY <1>7, <1>8, <1>9, <1>10, ReadingBytes, ZenonT(40)
<1>12. at[w + 1] = o * Weight[w] + n
  <2>1. w + 1 \in 0..(w + 1) /\ w + 1 # 0 /\ (w + 1) - 1 = w /\ w + 1 - (w + 1) = 0
    BY <1>1
  <2>2. at[w + 1] = o * Weight[w] + (n \div Weight[0])
    BY <1>6, <2>1
  <2>3. n \div Weight[0] = n
    BY <1>3, WeightAt
  <2> QED
    BY <2>2, <2>3
<1>13. NumberOf(bytes) = o * Weight[w] + n /\ Len(bytes) = IntWidth
  BY <1>1, <1>7, <1>11, <1>12
<1> QED
  BY <1>7, <1>13 DEF bytes, last, w

\* The beginning of bytes and what is after it.
LEMMA Parts ==
    ASSUME NEW s \in Seq(Byte), NEW t \in Seq(Byte)
    PROVE  /\ s \o t \in Seq(Byte) /\ Len(s \o t) = Len(s) + Len(t)
           /\ Len(s) \in Nat /\ Len(t) \in Nat /\ Len(s) \in 0..Len(s \o t)
           /\ Take(Len(s), s \o t) = s /\ Drop(Len(s), s \o t) = t
<1>1. s \o t \in Seq(Byte) /\ Len(s \o t) = Len(s) + Len(t) /\ Len(s) \in Nat /\ Len(t) \in Nat
  OBVIOUS
<1>2. \A i \in 1..Len(s) : (s \o t)[i] = s[i]
  OBVIOUS
<1>3. \A i \in 1..Len(t) : (s \o t)[Len(s) + i] = t[i]
  OBVIOUS
<1> DEFINE b == s \o t
<1>4. Take(Len(s), b) = s
  <2> HIDE DEF b
  <2>1. Take(Len(s), b) = [i \in 1..Len(s) |-> b[i]]
    <3>1. SubSeq(b, 1, Len(s)) = [i \in 1..(Len(s) - 1 + 1) |-> b[i + 1 - 1]]
      BY <1>1 DEF b
    <3>2. Len(s) - 1 + 1 = Len(s) /\ \A i \in 1..Len(s) : i + 1 - 1 = i
      BY <1>1
    <3> QED
      BY <3>1, <3>2 DEF Take
  <2>2. s = [i \in 1..Len(s) |-> s[i]]
    OBVIOUS
  <2> QED
    BY <1>2, <2>1, <2>2 DEF b
<1>5. Drop(Len(s), b) = t
  <2>1. Drop(Len(s), b) = [i \in 1..Len(t) |-> b[Len(s) + i]]
    <3>1. Len(b) = Len(s) + Len(t) /\ b \in Seq(Byte)
      BY <1>1
    <3> HIDE DEF b
    <3>2. SubSeq(b, Len(s) + 1, Len(b)) = [i \in 1..(Len(b) - (Len(s) + 1) + 1) |-> b[i + (Len(s) + 1) - 1]]
      BY <1>1, <3>1
    <3>3. Len(b) - (Len(s) + 1) + 1 = Len(t) /\ \A i \in 1..Len(t) : i + (Len(s) + 1) - 1 = Len(s) + i
      BY <1>1, <3>1
    <3> QED
      BY <3>2, <3>3 DEF Drop
  <2>2. t = [i \in 1..Len(t) |-> t[i]]
    OBVIOUS
  <2> HIDE DEF b
  <2> QED
    BY <1>3, <2>1, <2>2 DEF b
<1>6. Len(s) \in 0..Len(b)
  BY <1>1
<1> QED
  BY <1>1, <1>4, <1>5, <1>6

LEMMA BytesGroup ==
    \A s, t, u \in Seq(Byte) : (s \o t) \o u = s \o (t \o u) /\ s \o <<>> = s /\ <<>> \o s = s
BY DEF Byte

\* What a reader makes of the bytes of a number: eight bits are shown without
\* a sign in Python and with one in Kotlin.
Signed(n) == IF n % 256 > 127 THEN (n % 256) - 256 ELSE n % 256

Arrived(q, is, n) ==
    IF is # "byte" THEN NumberAs(q, is, n)
    ELSE IF q = "python" THEN Number("int", n % 256) ELSE Number("byte", Signed(n))

LEMMA NumberArrives ==
    ASSUME NEW q \in Platforms, NEW is \in NumberKinds, NEW n \in Int,
           is = "byte" \/ InWidth(n, WidthOf(is)), NEW tail \in Seq(Byte)
    PROVE  GetNumber(q, is, NumberBytes(n, WidthOf(is)) \o tail) = Got(Arrived(q, is, n), tail)
<1> DEFINE w == WidthOf(is)
           b == NumberBytes(n, w)
<1>1. w \in 1..8
  BY Widths
<1>2. b \in Seq(Byte) /\ Len(b) = w
  <2> HIDE DEF w
  <2> QED
    BY <1>1, NumberBytesFacts
<1> DEFINE all == b \o tail
<1>3. /\ all \in Seq(Byte) /\ Len(all) = w + Len(tail) /\ Len(tail) \in Nat
      /\ Take(w, all) = b /\ Drop(w, all) = tail
  <2> HIDE DEF b, w
  <2> QED
    BY <1>2, Parts
<1>4. GetNumber(q, is, all) = IF Len(all) < w THEN Raised ELSE Got(NumberAs(q, is, NumberOf(Take(w, all))), Drop(w, all))
  <2> HIDE DEF all
  <2> QED
    BY DEF GetNumber, GetBytes
<1>5. GetNumber(q, is, all) = Got(NumberAs(q, is, NumberOf(b)), tail)
  <2> HIDE DEF all, b, w
  <2> QED
    BY <1>1, <1>3, <1>4
<1>6. NumberAs(q, is, NumberOf(b)) = Arrived(q, is, n)
  <2>1. CASE is # "byte"
    <3>1. NumberOf(b) = n
      <4>1. InWidth(n, w)
        BY <2>1
      <4> HIDE DEF w
      <4> QED
        BY <1>1, <4>1, NumberReadBack
    <3> QED
      BY <2>1, <3>1 DEF Arrived
  <2>2. CASE is = "byte"
    <3>1. w = 1
      BY <2>2 DEF WidthOf
    <3>2. NumberOf(b) = Signed(n)
      <4>1. b = <<n % 256>>
        BY <3>1, OneByte
      <4> HIDE DEF b
      <4> QED
        BY <4>1, OneByte DEF Signed
    <3>3. Signed(n) % 256 = n % 256
      <4> DEFINE r == n % 256
      <4>1. r \in 0..255
        OBVIOUS
      <4> HIDE DEF r
      <4>2. (IF r > 127 THEN r - 256 ELSE r) % 256 = r
        BY <4>1
      <4> QED
        BY <4>2 DEF r, Signed
    <3> HIDE DEF b, w
    <3> QED
      BY <2>2, <3>2, <3>3 DEF Arrived, NumberAs, Platforms
  <2> QED
    BY <2>1, <2>2
<1> QED
  BY <1>5, <1>6

----------------------------------------------------------------------------
\* Texts.

\* A text is the only one with its bytes.
LEMMA TextReadBack ==
    ASSUME NEW t \in TextNames
    PROVE  TextOf(TextBytes(t)) = t
<1> DEFINE x == CHOOSE x \in Texts : x.t = t
<1>1. \E y \in Texts : y.t = t
  BY DEF TextNames
<1>2. x \in Texts /\ x.t = t
  BY <1>1
<1>3. TextBytes(t) = x.bytes
  BY DEF TextBytes, TextNamed
<1> HIDE DEF x
<1> DEFINE y == CHOOSE y \in Texts : y.bytes = x.bytes
<1>4. y \in Texts /\ y.bytes = x.bytes
  BY <1>2
<1>5. TextOf(x.bytes) = y.t
  BY <1>2 DEF TextOf
<1> HIDE DEF y
<1>6. y = x
  BY <1>2, <1>4, TextAssumption
<1> QED
  BY <1>2, <1>3, <1>5, <1>6

\* A text of a length that was read before.
LEMMA GetTextBack ==
    ASSUME NEW q \in Platforms, NEW t \in TextNames, NEW tail \in Seq(Byte)
    PROVE  GetText(q, Len(TextBytes(t)), TextBytes(t) \o tail) = Got(Text(t), tail)
<1> DEFINE b == TextBytes(t)
           all == b \o tail
           n == Len(b)
<1>1. b \in Seq(Byte)
  BY TextBytesFacts
<1>2. /\ n \in Nat /\ n \in 0..Len(all) /\ Len(all) \in Nat
      /\ Take(n, all) = b /\ Drop(n, all) = tail
  <2> HIDE DEF b
  <2>1. all \in Seq(Byte)
    BY <1>1, Parts
  <2> QED
    BY <1>1, <2>1, Parts
<1> HIDE DEF all, n
<1>3. PyCut(n, all) = n /\ ~KtUnderflows(n, all)
  BY <1>2 DEF PyCut, KtUnderflows
<1>4. GetText(q, n, all) = Got(Text(TextOf(Take(n, all))), Drop(n, all))
  BY <1>3 DEF GetText
<1>5. TextOf(b) = t
  BY TextReadBack
<1> QED
  BY <1>2, <1>4, <1>5 DEF n, all

\* A text of any length that can be told, behind its length.
LEMMA TextArrives ==
    ASSUME NEW q \in Platforms, NEW t \in TextNames, Counted(Len(TextBytes(t))), NEW tail \in Seq(Byte)
    PROVE  GetString(q, PutText(t) \o tail) = Got(Text(t), tail)
<1> DEFINE b == TextBytes(t)
           n == Len(b)
           length == NumberBytes(n, IntWidth)
<1>1. b \in Seq(Byte) /\ n \in Nat /\ IntWidth \in 1..8
  BY TextBytesFacts, Widths
<1>2. length \in Seq(Byte) /\ WidthOf("int") = IntWidth /\ "int" \in NumberKinds /\ "int" # "byte"
  <2>1. length \in Seq(Byte)
    <3> HIDE DEF n
    <3> QED
      BY <1>1, NumberBytesFacts
  <2>2. WidthOf("int") = IntWidth
    BY DEF WidthOf
  <2> QED
    BY <2>1, <2>2 DEF NumberKinds, WholeKinds
<1>3. PutText(t) \o tail = length \o (b \o tail)
  <2>1. PutText(t) = length \o b
    BY DEF PutText
  <2> HIDE DEF length, b
  <2> QED
    BY <1>1, <1>2, <2>1
<1>4. b \o tail \in Seq(Byte)
  BY <1>1
<1>5. GetNumber(q, "int", length \o (b \o tail)) = Got(Number("int", n), b \o tail)
  <2>1. InWidth(n, WidthOf("int")) /\ n \in Int
    BY <1>1, <1>2 DEF Counted
  <2>2. Arrived(q, "int", n) = Number("int", n)
    BY <1>2 DEF Arrived, NumberAs
  <2> HIDE DEF n, b
  <2> QED
    BY <1>2, <1>4, <2>1, <2>2, NumberArrives, ZenonT(40)
<1> DEFINE g == GetNumber(q, "int", length \o (b \o tail))
<1>6. g.ok /\ g.v.n = n /\ g.rest = b \o tail
  <2> HIDE DEF n, b, length
  <2> QED
    <3> DEFINE left == b \o tail
    <3>1. g = Got(Number("int", n), left)
      BY <1>5
    <3> HIDE DEF g, left
    <3>2. g.ok /\ g.v = Number("int", n) /\ g.rest = left
      BY <3>1 DEF Got
    <3>3. \A k : Number("int", k).n = k
      BY DEF Number, Value
    <3> QED
      BY <3>2, <3>3 DEF left
<1>7. GetString(q, PutText(t) \o tail) = GetText(q, n, b \o tail)
  <2> HIDE DEF n, b, length
  <2> QED
    BY <1>3, <1>6 DEF GetString, TextAfter, g
<1> QED
  BY <1>7, GetTextBack

\* A short text, as an enum's, behind the byte that is its length.
LEMMA ShortTextArrives ==
    ASSUME NEW p \in Platforms, NEW q \in Platforms, NEW t \in TextNames, Len(TextBytes(t)) <= 127,
           NEW tail \in Seq(Byte)
    PROVE  TextAfter(q, GetNumber(q, "byte", PutShortText(p, TextBytes(t)) \o tail)) = Got(Text(t), tail)
<1> DEFINE b == TextBytes(t)
           n == Len(b)
           length == PutByte(p, n)
<1>1. b \in Seq(Byte) /\ n \in Nat /\ n <= 127
  BY TextBytesFacts
<1>2. n \in Int /\ n % 256 = n /\ n \in Byte
  <2>1. \A k \in 0..127 : k \in Int /\ k % 256 = k /\ k \in 0..255
    OBVIOUS
  <2> HIDE DEF n
  <2>2. n \in 0..127
    BY <1>1
  <2> QED
    BY <2>1, <2>2 DEF Byte
<1>3. length = NumberBytes(n, 1) /\ length \in Seq(Byte) /\ WidthOf("byte") = 1
  <2>1. length = <<n % 256>>
    <3> HIDE DEF n
    <3> QED
      BY <1>2 DEF PutByte
  <2>2. WidthOf("byte") = 1
    BY DEF WidthOf
  <2> HIDE DEF n, length
  <2> QED
    BY <1>2, <2>1, <2>2, OneByte
<1>4. PutShortText(p, b) \o tail = length \o (b \o tail)
  <2>1. PutShortText(p, b) = length \o b
    BY DEF PutShortText
  <2> HIDE DEF length, b
  <2> QED
    BY <1>1, <1>3, <2>1
<1>5. b \o tail \in Seq(Byte)
  BY <1>1
<1>6. GetNumber(q, "byte", length \o (b \o tail)) = Got(Arrived(q, "byte", n), b \o tail)
  <2>1. "byte" \in NumberKinds
    BY DEF NumberKinds, WholeKinds
  <2>2. length = NumberBytes(n, WidthOf("byte"))
    BY <1>3
  <2> HIDE DEF n, b, length
  <2> QED
    BY <1>2, <1>5, <2>1, <2>2, NumberArrives
<1>7. Arrived(q, "byte", n).n = n
  <2> HIDE DEF n
  <2>1. Signed(n) = n
    BY <1>1, <1>2 DEF Signed
  <2> QED
    BY <1>2, <2>1 DEF Arrived, Number, Value
<1> DEFINE g == GetNumber(q, "byte", length \o (b \o tail))
<1>8. g.ok /\ g.v.n = n /\ g.rest = b \o tail
  <2> HIDE DEF n, b, length
  <2> QED
    BY <1>6, <1>7 DEF Got
<1>9. TextAfter(q, g) = GetText(q, n, b \o tail)
  <2> HIDE DEF n, b, length, g
  <2> QED
    BY <1>8 DEF TextAfter
<1> QED
  BY <1>4, <1>9, GetTextBack DEF g

----------------------------------------------------------------------------
\* One after the other.

\* What is left of a sequence of sequences, one by one.
LEMMA Remainders ==
    ASSUME NEW S, NEW s \in Seq(Seq(S))
    PROVE  \E r : /\ r[0] = FlattenSeq(s) /\ r[Len(s)] = <<>>
                  /\ \A i \in 0..Len(s) : r[i] \in Seq(S)
                  /\ \A i \in 1..Len(s) : r[i - 1] = s[i] \o r[i]
<1> DEFINE has(i, t) == t \in Seq(S) /\ FlattenSeq(s) = Joined(s, i) \o t
           r == [i \in 0..Len(s) |-> CHOOSE t : has(i, t)]
<1>0. Len(s) \in Nat
  OBVIOUS
<1>1. \A i \in 0..Len(s) : has(i, r[i])
  <2> SUFFICES ASSUME NEW i \in 0..Len(s) PROVE has(i, r[i])
    OBVIOUS
  <2>1. \E t \in Seq(S) : FlattenSeq(s) = Joined(s, i) \o t
    BY JoinedRest
  <2>2. \E t : has(i, t)
    BY <2>1
  <2>3. r[i] = CHOOSE t : has(i, t)
    OBVIOUS
  <2> HIDE DEF has, r
  <2> QED
    BY <2>2, <2>3
<1> HIDE DEF r
<1>2. /\ Joined(s, 0) = <<>> /\ Joined(s, Len(s)) = FlattenSeq(s)
      /\ \A k \in 0..Len(s) : Joined(s, k) \in Seq(S)
      /\ \A k \in 0..(Len(s) - 1) : Joined(s, k + 1) = Joined(s, k) \o s[k + 1]
  BY JoinedFacts
<1>3. r[0] = FlattenSeq(s)
  <2>1. r[0] \in Seq(S) /\ FlattenSeq(s) = <<>> \o r[0]
    <3>1. 0 \in 0..Len(s)
      BY <1>0
    <3>2. has(0, r[0])
      BY <1>1, <3>1
    <3> HIDE DEF r
    <3> QED
      BY <1>2, <3>2
  <2>2. <<>> \o r[0] = r[0]
    BY <2>1
  <2> QED
    BY <2>1, <2>2
<1>4. r[Len(s)] = <<>>
  <2>1. r[Len(s)] \in Seq(S) /\ FlattenSeq(s) = FlattenSeq(s) \o r[Len(s)] /\ FlattenSeq(s) \in Seq(S)
    BY <1>0, <1>1, <1>2
  <2>2. FlattenSeq(s) \o <<>> = FlattenSeq(s) /\ <<>> \in Seq(S)
    BY <2>1
  <2> QED
    BY <2>1, <2>2, Cancel
<1>5. ASSUME NEW i \in 1..Len(s) PROVE r[i - 1] = s[i] \o r[i]
  <2>1. i - 1 \in 0..Len(s) /\ i \in 0..Len(s) /\ i - 1 \in 0..(Len(s) - 1) /\ (i - 1) + 1 = i
    BY <1>0
  <2>2. r[i - 1] \in Seq(S) /\ r[i] \in Seq(S) /\ s[i] \in Seq(S) /\ Joined(s, i - 1) \in Seq(S)
    BY <1>1, <1>2, <2>1
  <2>3. FlattenSeq(s) = Joined(s, i - 1) \o r[i - 1] /\ FlattenSeq(s) = Joined(s, i) \o r[i]
    BY <1>1, <2>1
  <2>4. Joined(s, i) = Joined(s, i - 1) \o s[i]
    BY <1>2, <2>1
  <2>5. Joined(s, i) \o r[i] = Joined(s, i - 1) \o (s[i] \o r[i])
    <3>1. (Joined(s, i - 1) \o s[i]) \o r[i] = Joined(s, i - 1) \o (s[i] \o r[i])
      <4> DEFINE a == Joined(s, i - 1)
                 b == s[i]
                 c == r[i]
      <4>1. a \in Seq(S) /\ b \in Seq(S) /\ c \in Seq(S)
        BY <2>2
      <4> HIDE DEF a, b, c
      <4>2. (a \o b) \o c = a \o (b \o c)
        BY <4>1
      <4> QED
        BY <4>2 DEF a, b, c
    <3> QED
      BY <2>4, <3>1
  <2>6. s[i] \o r[i] \in Seq(S)
    BY <2>2
  <2> QED
    BY <2>2, <2>3, <2>5, <2>6, Cancel
<1> QED
  BY <1>1, <1>3, <1>4, <1>5

\* The bytes are read as w, whatever is after them.
Brings(in, q, T, bytes, w) == \A tail \in Seq(Byte) : in.get[q][T][bytes \o tail] = Got(w, tail)

\* Such a value is nested as the codec reads.
LEMMA BroughtIn ==
    ASSUME NEW in, NEW d, Reads(in, d), NEW q \in Platforms, NEW T \in Types,
           NEW bytes \in Seq(Byte), NEW w, Brings(in, q, T, bytes, w)
    PROVE  w \in Nested[d] /\ (T.is \in PlainKinds => w \in Numbers \cup Booleans)
<1>1. <<>> \in Seq(Byte) /\ bytes \o <<>> \in Seq(Byte)
  OBVIOUS
<1>2. in.get[q][T][bytes \o <<>>] = Got(w, <<>>)
  BY <1>1 DEF Brings
<1>3. Got(w, <<>>) \in ResultsOf(Nested[d])
      /\ (T.is \in PlainKinds /\ Got(w, <<>>).ok => Got(w, <<>>).v \in Numbers \cup Booleans)
  BY <1>1, <1>2, ReadsAt
<1>4. Got(w, <<>>).v = w /\ Got(w, <<>>).ok
  BY DEF Got
<1> QED
  BY <1>3, <1>4, ResultFacts

\* The first i of some values, and one more.
LEMMA OneMore ==
    ASSUME NEW S, NEW n \in Nat, NEW ws, \A i \in 1..n : ws[i] \in S, NEW i \in 1..n
    PROVE  /\ [k \in 1..i |-> ws[k]] \in Seq(S)
           /\ [k \in 1..(i - 1) |-> ws[k]] \in Seq(S)
           /\ Append([k \in 1..(i - 1) |-> ws[k]], ws[i]) = [k \in 1..i |-> ws[k]]
<1> DEFINE a == [k \in 1..(i - 1) |-> ws[k]]
           b == [k \in 1..i |-> ws[k]]
<1>1. i - 1 \in Nat /\ i \in Nat /\ (i - 1) + 1 = i
  OBVIOUS
<1>2. a \in Seq(S) /\ Len(a) = i - 1
  <2>1. \A k \in 1..(i - 1) : ws[k] \in S
    BY <1>1
  <2> QED
    BY <1>1, <2>1
<1>3. b \in Seq(S) /\ Len(b) = i
  <2>1. \A k \in 1..i : ws[k] \in S
    BY <1>1
  <2> QED
    BY <1>1, <2>1
<1>4. Append(a, ws[i]) = [k \in 1..(Len(a) + 1) |-> IF k = Len(a) + 1 THEN ws[i] ELSE a[k]]
  <2> HIDE DEF a
  <2> QED
    BY <1>2
<1>5. \A k \in 1..i : (IF k = i THEN ws[i] ELSE a[k]) = b[k]
  <2> SUFFICES ASSUME NEW k \in 1..i PROVE (IF k = i THEN ws[i] ELSE a[k]) = ws[k]
    OBVIOUS
  <2>1. k # i => k \in 1..(i - 1)
    OBVIOUS
  <2> QED
    BY <2>1
<1>6. Append(a, ws[i]) = [k \in 1..i |-> IF k = i THEN ws[i] ELSE a[k]]
  <2> HIDE DEF a
  <2> QED
    BY <1>1, <1>2, <1>4
<1>7. Append(a, ws[i]) = b
  <2> HIDE DEF a
  <2> QED
    BY <1>5, <1>6
<1> QED
  BY <1>2, <1>3, <1>7

\* Values that are read back are read back one after the other.
LEMMA AllArrive ==
    ASSUME NEW in, NEW d \in Nat, d + 1 <= MaxNesting, Reads(in, d), NEW q \in Platforms,
           NEW n \in Nat, NEW types, \A i \in 1..n : types[i] \in Types,
           NEW s, \A i \in 1..n : s[i] \in Seq(Byte),
           NEW ws, \A i \in 1..n : Brings(in, q, types[i], s[i], ws[i]), NEW tail \in Seq(Byte)
    PROVE  /\ GetAll(in, q, [i \in 1..n |-> types[i]], FlattenSeq([i \in 1..n |-> s[i]]) \o tail)
                 = Got(List([i \in 1..n |-> ws[i]]), tail)
           /\ FlattenSeq([i \in 1..n |-> s[i]]) \in Seq(Byte)
           /\ \A i \in 1..n : ws[i] \in Nested[d]
<1> DEFINE ts == [i \in 1..n |-> types[i]]
           chunks == [i \in 1..n |-> s[i]]
           fs == [i \in 1..Len(ts) |-> [done \in Results |-> GetNext(in, q, ts[i], done)]]
<1>1. chunks \in Seq(Seq(Byte)) /\ Len(chunks) = n /\ Len(ts) = n
  OBVIOUS
<1>2. \A i \in 1..n : chunks[i] = s[i] /\ ts[i] = types[i]
  OBVIOUS
<1>3. Len(fs) = n /\ \A i \in 1..n : fs[i] = [done \in Results |-> GetNext(in, q, ts[i], done)]
  BY <1>1
<1> HIDE DEF chunks, ts, fs
<1>4. PICK r : /\ r[0] = FlattenSeq(chunks) /\ r[n] = <<>>
               /\ \A i \in 0..n : r[i] \in Seq(Byte)
               /\ \A i \in 1..n : r[i - 1] = chunks[i] \o r[i]
  <2>1. \E r : /\ r[0] = FlattenSeq(chunks) /\ r[Len(chunks)] = <<>>
               /\ \A i \in 0..Len(chunks) : r[i] \in Seq(Byte)
               /\ \A i \in 1..Len(chunks) : r[i - 1] = chunks[i] \o r[i]
    BY <1>1, Remainders
  <2> QED
    BY <1>1, <2>1
<1>5. \A i \in 1..n : ws[i] \in Nested[d]
  BY BroughtIn
<1> DEFINE done(i) == Got(List([k \in 1..i |-> ws[k]]), r[i] \o tail)
           at == [i \in 0..n |-> done(i)]
<1>6. ASSUME NEW i \in 0..n PROVE r[i] \o tail \in Seq(Byte) /\ [k \in 1..i |-> ws[k]] \in Seq(Nested[d])
  <2>1. r[i] \in Seq(Byte)
    BY <1>4
  <2>2. \A k \in 1..i : ws[k] \in Nested[d]
    BY <1>5
  <2>3. r[i] \o tail \in Seq(Byte)
    BY <2>1, Parts
  <2>4. [k \in 1..i |-> ws[k]] \in Seq(Nested[d])
    BY <2>2
  <2> QED
    BY <2>3, <2>4
<1>7. ASSUME NEW i \in 0..n
      PROVE  done(i) \in Results /\ done(i).ok /\ done(i).rest = r[i] \o tail
             /\ done(i).v.items = [k \in 1..i |-> ws[k]]
  <2> DEFINE items == [k \in 1..i |-> ws[k]]
             left == r[i] \o tail
  <2>1. items \in Seq(Nested[d]) /\ left \in Seq(Byte)
    BY <1>6
  <2> HIDE DEF items, left
  <2>2. List(items) \in ValueSet
    BY <2>1, Built, ShallowIn
  <2>3. List(items).items = items
    BY DEF List, Value
  <2>4. /\ Got(List(items), left) \in Results /\ Got(List(items), left).ok
        /\ Got(List(items), left).v = List(items) /\ Got(List(items), left).rest = left
    BY <2>1, <2>2, GotFacts, ResultsAre
  <2> QED
    BY <2>3, <2>4 DEF items, left
<1>8. ASSUME NEW i \in 1..n PROVE fs[i][at[i - 1]] = at[i]
  <2>1. i - 1 \in 0..n /\ i \in 0..n
    OBVIOUS
  <2>2. at[i - 1] = done(i - 1) /\ at[i] = done(i)
    BY <2>1
  <2> DEFINE x == done(i - 1)
             before == [k \in 1..(i - 1) |-> ws[k]]
  <2>3. x \in Results /\ x.ok /\ x.rest = r[i - 1] \o tail /\ x.v.items = before
    BY <1>7, <2>1
  <2>4. fs[i][x] = GetNext(in, q, types[i], x)
    <3> HIDE DEF x
    <3> QED
      BY <1>2, <1>3, <2>3
  <2>5. r[i] \o tail \in Seq(Byte)
    BY <1>6, <2>1
  <2>6. x.rest = s[i] \o (r[i] \o tail)
    <3>1. r[i] \in Seq(Byte) /\ r[i - 1] = s[i] \o r[i] /\ s[i] \in Seq(Byte)
      BY <1>2, <1>4, <2>1
    <3>2. (s[i] \o r[i]) \o tail = s[i] \o (r[i] \o tail)
      BY <3>1, BytesGroup
    <3> HIDE DEF x
    <3> QED
      BY <2>3, <3>1, <3>2
  <2>7. in.get[q][types[i]][x.rest] = Got(ws[i], r[i] \o tail)
    BY <2>5, <2>6 DEF Brings
  <2>8. Append(before, ws[i]) = [k \in 1..i |-> ws[k]]
    BY <1>5, OneMore
  <2> HIDE DEF x, before
  <2>9. GetNext(in, q, types[i], x) = Got(List(Append(before, ws[i])), r[i] \o tail)
    <3> DEFINE next == Got(ws[i], r[i] \o tail)
    <3>1. next.ok /\ next.v = ws[i] /\ next.rest = r[i] \o tail
      BY DEF Got
    <3> HIDE DEF next
    <3>2. in.get[q][types[i]][x.rest] = next
      BY <2>7 DEF next
    <3> QED
      BY <2>3, <3>1, <3>2 DEF GetNext
  <2>10. fs[i][at[i - 1]] = done(i)
    BY <2>2, <2>4, <2>8, <2>9 DEF x
  <2> QED
    BY <2>2, <2>10
<1>9. /\ at[0] = Got(List(<<>>), FlattenSeq(chunks) \o tail)
      /\ at[n] = Got(List([i \in 1..n |-> ws[i]]), tail)
  <2>1. at[0] = done(0) /\ at[n] = done(n)
    OBVIOUS
  <2>2. [k \in 1..0 |-> ws[k]] = <<>>
    OBVIOUS
  <2>3. r[n] \o tail = tail
    BY <1>4
  <2> QED
    BY <1>4, <2>1, <2>2, <2>3
<1>10. GetAll(in, q, ts, FlattenSeq(chunks) \o tail)
          = Through(Got(List(<<>>), FlattenSeq(chunks) \o tail), fs)
  BY DEF GetAll, fs
<1> HIDE DEF at, done
<1>11. GetAll(in, q, ts, FlattenSeq(chunks) \o tail) = at[n]
  BY <1>3, <1>8, <1>9, <1>10, ThroughReaches
<1>12. FlattenSeq(chunks) \in Seq(Byte)
  BY <1>4
<1> QED
  BY <1>5, <1>9, <1>11, <1>12 DEF chunks, ts

----------------------------------------------------------------------------
\* The entries of a map.

\* The types values have in a map are known by their ordinals.
LEMMA OrdinalReadBack ==
    ASSUME NEW kind \in NumberKinds \cup {"boolean", "string", "map"}
    PROVE  /\ Ordinal(Scalar(kind)) \in KnownOrdinals /\ OrdinalType(Ordinal(Scalar(kind))) = Scalar(kind)
           /\ Ordinal(ArrayOf(Scalar(kind))) \in KnownOrdinals
           /\ OrdinalType(Ordinal(ArrayOf(Scalar(kind)))) = ArrayOf(Scalar(kind))
           /\ Ordinal(Scalar(kind)) \in 0..90 /\ Ordinal(ArrayOf(Scalar(kind))) \in 0..90
<1> DEFINE I == {i \in 1..Len(Ordinals) : Ordinals[i] = Scalar(kind).is}
           at == SelectInSeq(Ordinals, LAMBDA is : is = Scalar(kind).is)
<1>1. \A S : Scalar(S).is = S /\ ArrayOf(Scalar(S)).is = "array" /\ ArrayOf(Scalar(S)).of[1] = Scalar(S)
  BY DEF Scalar, ArrayOf
<1>2. at = IF I # {} THEN Min(I) ELSE 0
  BY DEF SelectInSeq
<1>3. I # {} /\ I \subseteq 1..8 /\ kind # "null" /\ kind # "array"
  <2>1. \E i \in 1..8 : Ordinals[i] = kind
    BY OrdinalsAre DEF NumberKinds, WholeKinds
  <2> QED
    BY <1>1, <2>1, OrdinalsAre DEF NumberKinds, WholeKinds
<1>4. at \in 1..8 /\ Ordinals[at] = kind
  <2>1. I \subseteq Nat
    BY <1>3
  <2>2. Min(I) \in I
    BY <1>3, <2>1, FirstFacts
  <2> QED
    BY <1>1, <1>2, <1>3, <2>2
<1>5. ScalarOrdinal(Scalar(kind)) = 10 * (at - 1)
  BY <1>1, <1>3 DEF ScalarOrdinal
<1> HIDE DEF I, at
<1>6. Ordinal(Scalar(kind)) = 10 * (at - 1) /\ Ordinal(ArrayOf(Scalar(kind))) = 79 + at
  <2>1. Ordinal(Scalar(kind)) = 10 * (at - 1)
    BY <1>1, <1>3, <1>5 DEF Ordinal
  <2>2. Ordinal(ArrayOf(Scalar(kind))) = 80 + ((10 * (at - 1)) \div 10)
    BY <1>1, <1>3, <1>5 DEF Ordinal
  <2>3. (10 * (at - 1)) \div 10 = at - 1 /\ 80 + (at - 1) = 79 + at
    BY <1>4
  <2> QED
    BY <2>1, <2>2, <2>3
<1>7. /\ 10 * (at - 1) \in 0..90 /\ 79 + at \in 80..87 /\ 79 + at \in 0..90
      /\ 10 * (at - 1) \notin 80..87 /\ 10 * (at - 1) # 90
      /\ ((10 * (at - 1)) \div 10) + 1 = at /\ (79 + at) - 79 = at
      /\ \E i \in 0..7 : 10 * (at - 1) = 10 * i
  <2>1. at - 1 \in 0..7
    BY <1>4
  <2> QED
    BY <1>4, <2>1
<1>8. 10 * (at - 1) \in KnownOrdinals /\ 79 + at \in KnownOrdinals
  BY <1>7 DEF KnownOrdinals
<1>9. OrdinalType(10 * (at - 1)) = Scalar(kind)
  <2> DEFINE o == 10 * (at - 1)
  <2>1. o \notin 80..87 /\ o # 90 /\ (o \div 10) + 1 = at
    BY <1>7
  <2> HIDE DEF o
  <2>2. OrdinalType(o) = Scalar(Ordinals[(o \div 10) + 1])
    BY <2>1 DEF OrdinalType, NullOrdinal
  <2> QED
    BY <1>4, <2>1, <2>2 DEF o
<1>10. OrdinalType(79 + at) = ArrayOf(Scalar(kind))
  BY <1>4, <1>7 DEF OrdinalType
<1> QED
  BY <1>6, <1>7, <1>8, <1>9, <1>10

LEMMA NullReadBack ==
    /\ Ordinal(Scalar("null")) = 90 /\ 90 \in KnownOrdinals /\ OrdinalType(90) = Scalar("null")
<1>1. Ordinal(Scalar("null")) = 90
  BY DEF Ordinal, ScalarOrdinal, Scalar, NullOrdinal
<1>2. 90 \in KnownOrdinals
  BY DEF KnownOrdinals, NullOrdinal
<1>3. 90 \notin 80..87
  OBVIOUS
<1> QED
  BY <1>1, <1>2, <1>3 DEF OrdinalType, NullOrdinal

\* The types that an entry's header can tell.
Told(T) == Ordinal(T) \in KnownOrdinals /\ OrdinalType(Ordinal(T)) = T /\ Ordinal(T) \in 0..90

LEMMA ToldTypes ==
    /\ \A is \in NumberKinds \cup {"boolean", "string", "map"} : Told(Scalar(is)) /\ Told(ArrayOf(Scalar(is)))
    /\ Told(Scalar("null"))
<1>1. 90 \in 0..90
  OBVIOUS
<1> QED
  BY <1>1, OrdinalReadBack, NullReadBack DEF Told

\* A number of the bytes that are first.
LEMMA FirstNumber ==
    ASSUME NEW q \in Platforms, NEW is \in NumberKinds, NEW bytes \in Seq(Byte),
           Len(bytes) = WidthOf(is), NEW tail \in Seq(Byte)
    PROVE  GetNumber(q, is, bytes \o tail) = Got(NumberAs(q, is, NumberOf(bytes)), tail)
<1> DEFINE w == WidthOf(is)
           all == bytes \o tail
<1>1. w \in 1..8
  BY Widths
<1>2. /\ Len(all) = w + Len(tail) /\ Len(tail) \in Nat
      /\ Take(w, all) = bytes /\ Drop(w, all) = tail
  BY Parts
<1>3. GetNumber(q, is, all) = IF Len(all) < w THEN Raised ELSE Got(NumberAs(q, is, NumberOf(Take(w, all))), Drop(w, all))
  <2> HIDE DEF all
  <2> QED
    BY DEF GetNumber, GetBytes
<1> HIDE DEF all, w
<1>4. GetNumber(q, is, all) = Got(NumberAs(q, is, NumberOf(bytes)), tail)
  BY <1>1, <1>2, <1>3
<1> QED
  BY <1>4 DEF all

\* The header of an entry is told from what is after it.
LEMMA HeaderArrives ==
    ASSUME NEW q \in Platforms, NEW T, Told(T), NEW n \in Nat, n < Weight[LengthWidth],
           NEW tail \in Seq(Byte)
    PROVE  /\ EntryHeader(T, n) \in Seq(Byte)
           /\ GetNumber(q, "int", EntryHeader(T, n) \o tail)
                 = Got(Number("int", Ordinal(T) * Weight[LengthWidth] + n), tail)
<1> DEFINE o == Ordinal(T)
           bytes == <<o>> \o NumberBytes(n, LengthWidth)
           W == Weight[LengthWidth]
<1>1. o \in 0..127 /\ n \in 0..(W - 1)
  <2>1. o \in 0..90
    BY DEF Told
  <2>2. W \in Nat
    BY Widths, WeightPositive
  <2> HIDE DEF o, W
  <2>3. n < W
    BY DEF W
  <2> QED
    BY <2>1, <2>2, <2>3
<1>2. bytes \in Seq(Byte) /\ Len(bytes) = IntWidth /\ NumberOf(bytes) = o * W + n
  <2> HIDE DEF o
  <2> QED
    BY <1>1, HeaderReadBack
<1>3. WidthOf("int") = IntWidth /\ "int" \in NumberKinds
  BY DEF WidthOf, NumberKinds, WholeKinds
<1>4. EntryHeader(T, n) = bytes
  BY DEF EntryHeader
<1>5. \A k : NumberAs(q, "int", k) = Number("int", k)
  BY DEF NumberAs
<1> HIDE DEF bytes, o, W
<1>6. GetNumber(q, "int", bytes \o tail) = Got(NumberAs(q, "int", NumberOf(bytes)), tail)
  BY <1>2, <1>3, FirstNumber
<1> QED
  BY <1>2, <1>4, <1>5, <1>6 DEF o, W

\* A length that fits its field can be told by an int.
LEMMA ShortIsCounted ==
    ASSUME NEW n \in Nat, n < Weight[LengthWidth]
    PROVE  Counted(n)
<1> DEFINE W == Weight[LengthWidth]
<1>1. W \in Nat /\ W > 0 /\ IntWidth - 1 = LengthWidth
  BY Widths, WeightPositive DEF LengthWidth
<1>2. InWidth(n, IntWidth) <=> n \div W \in -128..127
  BY <1>1 DEF InWidth
<1>3. n < W
  OBVIOUS
<1> HIDE DEF W
<1>4. n \div W = 0
  BY <1>1, <1>3
<1> QED
  BY <1>2, <1>4 DEF Counted

\* An entry is read back if its value is.
EntryBrought(in, p, q, e, w) ==
    LET x == e.items[1]
        T == ValType(p, x)
    IN /\ e.t \in TextNames /\ Told(T) /\ EntrySize(in, p, e) < Weight[LengthWidth]
       /\ Exactly(in.size[p][T][x], in.put[p][T][x]) /\ Brings(in, q, T, in.put[p][T][x], w)

LEMMA EntryArrives ==
    ASSUME NEW in, NEW p \in Platforms, NEW q \in Platforms,
           NEW e, NEW w, EntryBrought(in, p, q, e, w), NEW tail \in Seq(Byte)
    PROVE  /\ PutEntry(in, p, e) \in Seq(Byte)
           /\ GetEntry(in, q, PutEntry(in, p, e) \o tail) = Got(Entry(e.t, w), tail)
<1> DEFINE x == e.items[1]
           T == ValType(p, x)
           put == in.put[p][T][x]
           size == in.size[p][T][x]
           text == PutText(e.t)
           body == text \o put
           n == EntrySize(in, p, e)
           header == EntryHeader(T, n)
           W == Weight[LengthWidth]
           o == Ordinal(T)
<1>0. e.t \in TextNames
  BY DEF EntryBrought
<1>1. put \in Seq(Byte) /\ Len(put) \in Nat /\ size = Len(put)
  BY DEF EntryBrought, Exactly, Foreseen
<1>2. text \in Seq(Byte) /\ Len(text) = IntWidth + Len(TextBytes(e.t)) /\ Len(TextBytes(e.t)) \in Nat
  BY <1>0, PutTextFacts
<1>3. IntWidth \in 1..8 /\ W \in Nat /\ W > 0
  BY Widths, WeightPositive
<1>4. n = IntWidth + Len(TextBytes(e.t)) + size
  BY DEF EntrySize
<1>5. Told(T) /\ n < W /\ Brings(in, q, T, put, w)
  BY DEF EntryBrought
<1>6. o \in KnownOrdinals /\ OrdinalType(o) = T /\ o \in Int
  <2>1. o \in KnownOrdinals /\ OrdinalType(o) = T /\ o \in 0..90
    BY <1>5 DEF Told
  <2> HIDE DEF o, T
  <2> QED
    BY <2>1
<1>7. PutEntry(in, p, e) = (header \o text) \o put
  BY DEF PutEntry, PutEntryOf
<1> HIDE DEF put, size, text, n, T, x, W, o
<1>8. body \in Seq(Byte) /\ Len(body) = n /\ n \in Nat
  <2>1. body \in Seq(Byte) /\ Len(body) = Len(text) + Len(put)
    BY <1>1, <1>2
  <2> HIDE DEF body
  <2> QED
    BY <1>1, <1>2, <1>3, <1>4, <2>1
<1>9. /\ header \in Seq(Byte)
      /\ \A t \in Seq(Byte) : GetNumber(q, "int", header \o t) = Got(Number("int", o * W + n), t)
  <2>1. n < Weight[LengthWidth] /\ o * W + n = Ordinal(T) * Weight[LengthWidth] + n
    BY <1>5 DEF W, o
  <2> QED
    BY <1>5, <1>8, <2>1, HeaderArrives
<1> HIDE DEF header
<1>10. PutEntry(in, p, e) = header \o body /\ PutEntry(in, p, e) \in Seq(Byte)
  <2>1. PutEntry(in, p, e) = header \o body
    BY <1>1, <1>2, <1>7, <1>9, BytesGroup, SMTT(40)
  <2> QED
    BY <1>8, <1>9, <2>1, Parts
<1>11. PutEntry(in, p, e) \o tail = header \o (body \o tail) /\ body \o tail \in Seq(Byte)
  <2>1. body \o tail \in Seq(Byte)
    BY <1>8, Parts
  <2>2. body \in Seq(Byte)
    BY <1>8
  <2> HIDE DEF body
  <2>3. (header \o body) \o tail = header \o (body \o tail)
    BY <1>9, <2>2, BytesGroup
  <2> QED
    BY <1>10, <2>1, <2>3
<1>12. /\ n \in 0..Len(body \o tail) /\ Take(n, body \o tail) = body /\ Drop(n, body \o tail) = tail
       /\ Len(body \o tail) \in Nat
  <2>1. Len(body) \in 0..Len(body \o tail) /\ Len(body \o tail) = Len(body) + Len(tail) /\ Len(tail) \in Nat
        /\ Take(Len(body), body \o tail) = body /\ Drop(Len(body), body \o tail) = tail
    BY <1>8, Parts
  <2> HIDE DEF body
  <2> QED
    BY <1>8, <2>1
<1> DEFINE key == GetString(q, body)
<1>13. key = Got(Text(e.t), put)
  <2>1. Len(TextBytes(e.t)) < Weight[LengthWidth]
    <3> DEFINE k == Len(TextBytes(e.t))
    <3>1. k \in Nat /\ n = IntWidth + k + size /\ size \in Nat /\ n < W
      BY <1>1, <1>2, <1>4, <1>5
    <3> HIDE DEF k
    <3>2. k < W
      BY <1>3, <3>1
    <3> QED
      BY <3>2 DEF k, W
  <2>2. Counted(Len(TextBytes(e.t)))
    BY <1>2, <2>1, ShortIsCounted
  <2> QED
    BY <1>0, <1>1, <2>2, TextArrives DEF text
<1>14. KeyAndValue(in, q, T, key) = Got(Entry(e.t, w), <<>>)
  <2>1. key.ok /\ key.v = Text(e.t) /\ key.rest = put
    BY <1>13 DEF Got
  <2>2. key.v.t = e.t
    BY <2>1 DEF Text, Value
  <2>3. in.get[q][T][put] = Got(w, <<>>)
    <3>1. put \o <<>> = put /\ <<>> \in Seq(Byte)
      BY <1>1
    <3> QED
      BY <1>5, <3>1 DEF Brings
  <2>4. Got(w, <<>>).ok /\ Got(w, <<>>).v = w /\ Got(w, <<>>).rest = <<>>
    BY DEF Got
  <2> HIDE DEF key
  <2> QED
    BY <2>1, <2>2, <2>3, <2>4 DEF KeyAndValue, EntryOf
<1>15. EntryWithin(in, q, T, n, body \o tail) = Got(Entry(e.t, w), tail)
  <2>1. Got(Entry(e.t, w), <<>>).ok /\ Got(Entry(e.t, w), <<>>).v = Entry(e.t, w)
    BY DEF Got
  <2>2. GetString(q, Take(n, body \o tail)) = key
    BY <1>12
  <2> HIDE DEF key, body
  <2> QED
    BY <1>12, <1>14, <2>1, <2>2 DEF EntryWithin
<1>16. EntryUnder(in, q, o, n, body \o tail) = Got(Entry(e.t, w), tail)
  <2>1. PyCut(n, body \o tail) = n /\ ~KtUnderflows(n, body \o tail)
    <3> HIDE DEF body
    <3> QED
      BY <1>12 DEF PyCut, KtUnderflows
  <2> HIDE DEF body
  <2> QED
    BY <1>6, <1>15, <2>1 DEF EntryUnder
<1>17. GetEntry(in, q, header \o (body \o tail)) = Got(Entry(e.t, w), tail)
  <2> DEFINE h == GetNumber(q, "int", header \o (body \o tail))
             N == o * W + n
  <2>1. h = Got(Number("int", N), body \o tail)
    BY <1>9, <1>11
  <2>2. N \div W = o /\ N % W = n
    <3>1. n \in 0..(W - 1)
      BY <1>3, <1>5, <1>8
    <3> QED
      BY <1>3, <1>6, <3>1, Together
  <2> HIDE DEF N, h, body
  <2>3. h.ok /\ h.v.n = N /\ h.rest = body \o tail
    <3>1. h.ok /\ h.v = Number("int", N) /\ h.rest = body \o tail
      BY <2>1 DEF Got
    <3>2. \A k : Number("int", k).n = k
      BY DEF Number, Value
    <3> QED
      BY <3>1, <3>2
  <2>4. EntryAfter(in, q, h) = EntryUnder(in, q, N \div W, N % W, body \o tail)
    BY <2>3 DEF EntryAfter, W
  <2> QED
    BY <1>16, <2>2, <2>4 DEF GetEntry, h
<1> QED
  BY <1>10, <1>11, <1>17

LEMMA Appended ==
    ASSUME NEW S, NEW s \in Seq(S), NEW x \in S
    PROVE  s \o <<x>> = Append(s, x)
OBVIOUS

\* Nothing is taken from a map whose entries have other keys.
LEMMA WithoutIsAll ==
    ASSUME NEW S, NEW items \in Seq(S), NEW key, \A i \in 1..Len(items) : items[i].t # key
    PROVE  Without(items, key) = items
<1> DEFINE n == Len(items)
           s == [i \in 1..n |-> IF items[i].t = key THEN <<>> ELSE <<items[i]>>]
<1>1. n \in Nat /\ \A i \in 1..n : items[i] \in S
  OBVIOUS
<1>2. ASSUME NEW i \in 1..n PROVE s[i] = <<items[i]>> /\ s[i] \in Seq(S)
  <2>1. items[i] \in S
    OBVIOUS
  <2>2. <<items[i]>> \in Seq(S)
    BY <2>1
  <2> QED
    BY <2>2
<1>3. s \in Seq(Seq(S)) /\ Len(s) = n
  <2>1. s = [i \in 1..n |-> s[i]]
    OBVIOUS
  <2> HIDE DEF s
  <2>2. \A i \in 1..n : s[i] \in Seq(S)
    BY <1>2
  <2>3. s \in [1..n -> Seq(S)]
    BY <2>1, <2>2
  <2> QED
    BY <1>1, <2>3
<1>4. Without(items, key) = FlattenSeq(s)
  BY DEF Without
<1> HIDE DEF s, n
<1>5. CASE n = 0
  <2>1. s = <<>> /\ items = <<>>
    BY <1>3, <1>5 DEF n
  <2> QED
    BY <1>3, <1>4, <2>1, FlattenIs
<1>6. CASE n # 0
  <2>1. s # <<>>
    BY <1>3, <1>6
  <2>2. PICK f : Flattens(f, s, Len(s)) /\ FlattenSeq(s) = f[Len(s)]
    BY <1>3, <2>1, FlattenIs
  <2> DEFINE fails == {i \in 1..n : f[i] # [k \in 1..i |-> items[k]]}
  <2>3. fails = {}
    <3>1. SUFFICES ASSUME fails # {} PROVE FALSE
      OBVIOUS
    <3>2. PICK m \in fails : \A i \in fails : m <= i
      <4>1. fails \in SUBSET Nat
        BY <1>1
      <4> HIDE DEF fails
      <4> QED
        BY <3>1, <4>1, Least
    <3>3. m \in 1..n /\ f[m] # [k \in 1..m |-> items[k]]
      BY <3>2
    <3>4. f[m] = IF m = 1 THEN s[m] ELSE f[m - 1] \o s[m]
      BY <1>3, <2>2, <3>3 DEF Flattens
    <3>5. CASE m = 1
      <4>1. s[1] = <<items[1]>>
        BY <1>2, <3>3, <3>5
      <4>2. [k \in 1..1 |-> items[k]] = <<items[1]>>
        OBVIOUS
      <4> QED
        BY <3>3, <3>4, <3>5, <4>1, <4>2
    <3>6. CASE m # 1
      <4>1. m - 1 \in 1..n /\ ~(m <= m - 1)
        BY <1>1, <3>3, <3>6
      <4>2. f[m - 1] = [k \in 1..(m - 1) |-> items[k]]
        BY <3>2, <4>1
      <4> DEFINE before == [k \in 1..(m - 1) |-> items[k]]
      <4>3. before \in Seq(S) /\ Append(before, items[m]) = [k \in 1..m |-> items[k]]
        BY <1>1, <3>3, OneMore
      <4>4. s[m] = <<items[m]>> /\ items[m] \in S
        BY <1>1, <1>2, <3>3
      <4> HIDE DEF before
      <4>5. before \o <<items[m]>> = Append(before, items[m])
        BY <4>3, <4>4, Appended
      <4>6. f[m] = before \o <<items[m]>>
        BY <3>4, <3>6, <4>2, <4>4 DEF before
      <4> QED
        BY <3>3, <4>3, <4>5, <4>6
    <3> QED
      BY <3>5, <3>6
  <2>4. n \in 1..n
    BY <1>1, <1>6
  <2>5. f[n] = [k \in 1..n |-> items[k]]
    BY <2>3, <2>4
  <2>6. items = [k \in 1..n |-> items[k]]
    BY DEF n
  <2> QED
    BY <1>3, <1>4, <2>2, <2>5, <2>6
<1> QED
  BY <1>5, <1>6

\* Entries that are read back under keys of their own make a map of them.
Come(in, q, n, keys, s, ws) ==
    \A i \in 1..n : \A t \in Seq(Byte) : GetEntry(in, q, s[i] \o t) = Got(Entry(keys[i], ws[i]), t)

Distinct(n, keys) == \A i, k \in 1..n : keys[i] = keys[k] => i = k

First(n, f) == [i \in 1..n |-> f[i]]
EntryRow(n, keys, ws) == [i \in 1..n |-> Entry(keys[i], ws[i])]
EntryParts(d, n, keys, s, ws) ==
    \A i \in 1..n : keys[i] \in TextNames /\ s[i] \in Seq(Byte) /\ ws[i] \in Nested[d]

LEMMA EntriesArrive ==
    ASSUME NEW in, NEW d \in Nat, d + 1 <= MaxNesting, NEW q \in Platforms, NEW n \in Nat,
           NEW keys, NEW s, NEW ws, EntryParts(d, n, keys, s, ws), Distinct(n, keys),
           Come(in, q, n, keys, s, ws), NEW tail \in Seq(Byte), NEW c, c.n = n
    PROVE  /\ EntriesAfter(in, q, Got(c, FlattenSeq(First(n, s)) \o tail))
                 = Got(Map(EntryRow(n, keys, ws)), tail)
           /\ FlattenSeq(First(n, s)) \in Seq(Byte)
<1> DEFINE chunks == [i \in 1..n |-> s[i]]
           es == [i \in 1..n |-> Entry(keys[i], ws[i])]
           E == Entries(Nested[d])
           count == Got(c, FlattenSeq(chunks) \o tail)
           fs == [i \in 1..Times(c.n) |-> [done \in Results |-> GetNextEntry(in, q, done)]]
<1>1. chunks \in Seq(Seq(Byte)) /\ Len(chunks) = n
  BY DEF EntryParts
<1>2. \A i \in 1..n : chunks[i] = s[i] /\ s[i] \in Seq(Byte)
  BY DEF EntryParts
<1>3. Times(c.n) = n
  BY DEF Times
<1>4. Len(fs) = n /\ \A i \in 1..n : fs[i] = [done \in Results |-> GetNextEntry(in, q, done)]
  BY <1>3
<1>5. \A i \in 1..n : es[i] = Entry(keys[i], ws[i]) /\ es[i] \in E /\ es[i].t = keys[i]
  <2> SUFFICES ASSUME NEW i \in 1..n
               PROVE  Entry(keys[i], ws[i]) \in E /\ Entry(keys[i], ws[i]).t = keys[i]
    OBVIOUS
  <2>1. keys[i] \in TextNames \cup {NoKey} /\ ws[i] \in Nested[d]
    BY DEF EntryParts
  <2>2. Entry(keys[i], ws[i]) \in E
    BY <2>1, Built
  <2>3. Entry(keys[i], ws[i]).t = keys[i]
    BY DEF Entry, Value
  <2> QED
    BY <2>2, <2>3
<1> HIDE DEF chunks, fs, E, es, count
<1>6. PICK r : /\ r[0] = FlattenSeq(chunks) /\ r[n] = <<>>
               /\ \A i \in 0..n : r[i] \in Seq(Byte)
               /\ \A i \in 1..n : r[i - 1] = chunks[i] \o r[i]
  <2>1. \E r : /\ r[0] = FlattenSeq(chunks) /\ r[Len(chunks)] = <<>>
               /\ \A i \in 0..Len(chunks) : r[i] \in Seq(Byte)
               /\ \A i \in 1..Len(chunks) : r[i - 1] = chunks[i] \o r[i]
    BY <1>1, Remainders
  <2> QED
    BY <1>1, <2>1
<1> DEFINE done(i) == Got(Map([k \in 1..i |-> es[k]]), r[i] \o tail)
           at == [i \in 0..n |-> done(i)]
<1>7. ASSUME NEW i \in 0..n
      PROVE  /\ r[i] \o tail \in Seq(Byte) /\ [k \in 1..i |-> es[k]] \in Seq(E)
             /\ Len([k \in 1..i |-> es[k]]) = i
  <2>1. r[i] \in Seq(Byte)
    BY <1>6
  <2>2. \A k \in 1..i : es[k] \in E
    BY <1>5
  <2>3. r[i] \o tail \in Seq(Byte)
    BY <2>1, Parts
  <2> QED
    BY <2>2, <2>3
<1>8. ASSUME NEW i \in 0..n
      PROVE  /\ done(i) \in Results /\ done(i).ok /\ done(i).rest = r[i] \o tail
             /\ done(i).v.items = [k \in 1..i |-> es[k]]
  <2> DEFINE items == [k \in 1..i |-> es[k]]
             left == r[i] \o tail
  <2>1. items \in Seq(E) /\ left \in Seq(Byte)
    BY <1>7
  <2> HIDE DEF items, left
  <2>2. Map(items) \in ValueSet
    BY <2>1, Built, ShallowIn DEF E
  <2>3. Map(items).items = items
    BY DEF Map, Value
  <2>4. /\ Got(Map(items), left) \in Results /\ Got(Map(items), left).ok
        /\ Got(Map(items), left).v = Map(items) /\ Got(Map(items), left).rest = left
    BY <2>1, <2>2, GotFacts, ResultsAre
  <2> QED
    BY <2>3, <2>4 DEF items, left
<1>9. ASSUME NEW i \in 1..n PROVE fs[i][at[i - 1]] = at[i]
  <2>1. i - 1 \in 0..n /\ i \in 0..n /\ i - 1 \in Nat
    OBVIOUS
  <2>2. at[i - 1] = done(i - 1) /\ at[i] = done(i)
    BY <2>1
  <2> DEFINE x == done(i - 1)
             before == [k \in 1..(i - 1) |-> es[k]]
             e == Entry(keys[i], ws[i])
  <2>3. x \in Results /\ x.ok /\ x.rest = r[i - 1] \o tail /\ x.v.items = before
    BY <1>8, <2>1
  <2>4. fs[i][x] = GetNextEntry(in, q, x)
    <3> HIDE DEF x
    <3> QED
      BY <1>4, <2>3
  <2>5. r[i] \o tail \in Seq(Byte)
    BY <1>7, <2>1
  <2>6. x.rest = s[i] \o (r[i] \o tail)
    <3>1. r[i] \in Seq(Byte) /\ r[i - 1] = s[i] \o r[i] /\ s[i] \in Seq(Byte)
      BY <1>2, <1>6, <2>1
    <3>2. (s[i] \o r[i]) \o tail = s[i] \o (r[i] \o tail)
      BY <3>1, BytesGroup
    <3> HIDE DEF x
    <3> QED
      BY <2>3, <3>1, <3>2
  <2>7. GetEntry(in, q, x.rest) = Got(e, r[i] \o tail)
    BY <2>5, <2>6 DEF Come
  <2>8. Append(before, es[i]) = [k \in 1..i |-> es[k]] /\ before \in Seq(E) /\ Len(before) = i - 1
    BY <1>5, <1>7, <2>1, OneMore
  <2>9. \A k \in 1..(i - 1) : before[k].t # e.t
    <3> SUFFICES ASSUME NEW k \in 1..(i - 1) PROVE before[k].t # e.t
      OBVIOUS
    <3>1. k \in 1..n /\ k # i /\ before[k] = es[k]
      OBVIOUS
    <3>2. es[k].t = keys[k] /\ es[i].t = keys[i] /\ es[i] = e
      BY <1>5, <3>1
    <3>3. keys[k] # keys[i]
      BY <3>1 DEF Distinct
    <3> QED
      BY <3>1, <3>2, <3>3
  <2>10. es[i] = e
    BY <1>5
  <2> HIDE DEF x, before, e
  <2>11. Without(before, e.t) = before
    BY <2>8, <2>9, WithoutIsAll
  <2>12. GetNextEntry(in, q, x) = Got(Map(Append(before, e)), r[i] \o tail)
    <3> DEFINE next == Got(e, r[i] \o tail)
    <3>1. next.ok /\ next.v = e /\ next.rest = r[i] \o tail
      BY DEF Got
    <3> HIDE DEF next
    <3>2. GetEntry(in, q, x.rest) = next
      BY <2>7 DEF next
    <3> QED
      BY <2>3, <2>11, <3>1, <3>2 DEF GetNextEntry, WithEntry
  <2>13. fs[i][at[i - 1]] = done(i)
    BY <2>2, <2>4, <2>8, <2>10, <2>12 DEF x
  <2> QED
    BY <2>2, <2>13
<1>10. /\ at[0] = Got(Map(<<>>), FlattenSeq(chunks) \o tail)
       /\ at[n] = Got(Map([i \in 1..n |-> es[i]]), tail)
  <2>1. at[0] = done(0) /\ at[n] = done(n)
    OBVIOUS
  <2>2. [k \in 1..0 |-> es[k]] = <<>>
    OBVIOUS
  <2>3. r[n] \o tail = tail
    BY <1>6
  <2> QED
    BY <1>6, <2>1, <2>2, <2>3
<1>11. EntriesAfter(in, q, count) = Through(Got(Map(<<>>), FlattenSeq(chunks) \o tail), fs)
  <2>1. count.ok /\ count.v = c /\ count.rest = FlattenSeq(chunks) \o tail
    BY DEF count, Got
  <2> QED
    BY <2>1 DEF EntriesAfter, fs
<1> HIDE DEF at, done
<1>12. EntriesAfter(in, q, count) = at[n]
  <2> DEFINE x == Got(Map(<<>>), FlattenSeq(chunks) \o tail)
  <2>1. at[0] = x /\ Len(fs) \in Nat /\ EntriesAfter(in, q, count) = Through(x, fs)
    BY <1>4, <1>10, <1>11
  <2>2. \A i \in 1..Len(fs) : fs[i][at[i - 1]] = at[i]
    BY <1>4, <1>9
  <2> HIDE DEF x
  <2>3. Through(x, fs) = at[Len(fs)]
    BY <2>1, <2>2, ThroughReaches
  <2> QED
    BY <1>4, <2>1, <2>3
<1>13. FlattenSeq(chunks) \in Seq(Byte)
  BY <1>6
<1>14. [i \in 1..n |-> es[i]] = [i \in 1..n |-> Entry(keys[i], ws[i])]
  BY <1>5
<1> QED
  BY <1>10, <1>12, <1>13, <1>14 DEF chunks, count, First, EntryRow

----------------------------------------------------------------------------
\* What comes back of a value: the bytes are read whole, the value that is
\* read means what the one that was written did, and can be passed on.
BackHere(in, l, m, p, q, T, v, w) ==
    /\ PutOf(in, p, T, v) \in Seq(Byte)
    /\ \A tail \in Seq(Byte) : GetOf(in, q, T, PutOf(in, p, T, v) \o tail) = Got(w, tail)
    /\ MeaningOf(m, q, T, w) = MeaningOf(m, p, T, v)
    /\ T.is # "option" => w.is # "null"
    /\ AcceptsOf(in, q, T, w) => LegalHere(l, q, T, w)

\* A number of each width comes back as itself, a byte as its eight bits.
LEMMA ArrivedFacts ==
    ASSUME NEW q \in Platforms, NEW is \in WholeKinds, NEW n \in Int, is = "byte" \/ InWidth(n, WidthOf(is))
    PROVE  /\ Arrived(q, is, n).is \in WholeKinds
           /\ Arrived(q, is, n).n \in Int
           /\ IsWhole(q, is, Arrived(q, is, n))
           /\ IF is = "byte" THEN Arrived(q, is, n).n % 256 = n % 256 ELSE Arrived(q, is, n).n = n
<1>0. /\ \A k, x : Number(k, x).is = k /\ Number(k, x).n = x
      /\ q \in {"python", "kotlin"} /\ is \in {"byte", "short", "int", "long"}
      /\ \A k : k \in WholeKinds <=> k \in {"byte", "short", "int", "long"}
  BY DEF Number, Value, Platforms, WholeKinds
<1>1. CASE is # "byte"
  <2> DEFINE a == NumberAs(q, is, n)
  <2>1. a.is \in {is, "int"} /\ a.n = n
    BY <1>0, <1>1 DEF NumberAs
  <2>2. Arrived(q, is, n) = a
    BY <1>1 DEF Arrived
  <2> HIDE DEF a
  <2> QED
    BY <1>0, <1>1, <2>1, <2>2 DEF IsWhole
<1>2. CASE is = "byte" /\ q = "python"
  <2> DEFINE k == n % 256
  <2>1. Arrived(q, is, n) = Number("int", k)
    BY <1>2 DEF Arrived
  <2>2. k \in 0..255 /\ k % 256 = k
    OBVIOUS
  <2> HIDE DEF k
  <2>3. IsWhole(q, is, Number("int", k))
    BY <1>0, <1>2, <2>2 DEF IsWhole, Byte
  <2>4. k = n % 256
    BY DEF k
  <2> QED
    BY <1>0, <1>2, <2>1, <2>2, <2>3, <2>4
<1>3. CASE is = "byte" /\ q = "kotlin"
  <2> DEFINE k == Signed(n)
  <2>1. Arrived(q, is, n) = Number("byte", k)
    BY <1>3 DEF Arrived
  <2>2. k \in -128..127 /\ k % 256 = n % 256
    <3>1. n % 256 \in 0..255
      OBVIOUS
    <3>2. CASE n % 256 > 127
      <4>1. k = (n % 256) - 256
        BY <3>2 DEF Signed
      <4>2. ((n % 256) - 256) % 256 = n % 256
        BY <3>1
      <4> QED
        BY <3>1, <3>2, <4>1, <4>2
    <3>3. CASE ~(n % 256 > 127)
      <4>1. k = n % 256
        BY <3>3 DEF Signed
      <4>2. (n % 256) % 256 = n % 256
        BY <3>1
      <4> QED
        BY <3>1, <3>3, <4>1, <4>2
    <3> QED
      BY <3>2, <3>3
  <2> HIDE DEF k
  <2>3. k \in Int /\ WidthOf("byte") = 1
    BY <2>2 DEF WidthOf
  <2>4. InWidth(k, 1)
    BY <2>2, <2>3, OneByte
  <2>5. IsWhole(q, is, Number("byte", k))
    BY <1>0, <1>3, <2>3, <2>4 DEF IsWhole
  <2> QED
    BY <1>0, <1>3, <2>1, <2>2, <2>3, <2>5
<1> QED
  BY <1>0, <1>1, <1>2, <1>3

\* What a number means.
LEMMA WholeMeant ==
    ASSUME NEW m, NEW p, NEW T, NEW v, NEW k, T.is \in WholeKinds, Whole(p, v) = {k}
    PROVE  MeaningOf(m, p, T, v) = Number("number", 2 * IF T.is = "byte" THEN k % 256 ELSE k)
<1>1. (CHOOSE n \in Whole(p, v) : TRUE) = k
  OBVIOUS
<1> QED
  BY <1>1 DEF MeaningOf, WholeKinds

LEMMA FloatMeant ==
    ASSUME NEW m, NEW p, NEW T, NEW v, NEW k, T.is = "float", Halves(p, v) = {k}
    PROVE  MeaningOf(m, p, T, v) = Number("number", Single(k))
<1>1. (CHOOSE h \in Halves(p, v) : TRUE) = k
  OBVIOUS
<1> QED
  BY <1>1 DEF MeaningOf, WholeKinds

LEMMA WholeBack ==
    ASSUME NEW in, NEW l, NEW m, NEW p \in Platforms, NEW q \in Platforms,
           NEW T, T.is \in WholeKinds, NEW v, NEW k \in Int, Whole(p, v) = {k},
           T.is = "byte" \/ InWidth(k, WidthOf(T.is))
    PROVE  \E w : BackHere(in, l, m, p, q, T, v, w)
<1> DEFINE w == Arrived(q, T.is, k)
           bytes == NumberBytes(k, WidthOf(T.is))
<1>0. T.is \in NumberKinds /\ T.is # "option" /\ T.is \in {"byte", "short", "int", "long"}
  BY DEF NumberKinds, WholeKinds
<1>1. (CHOOSE n \in Whole(p, v) : TRUE) = k
  OBVIOUS
<1>2. PutOf(in, p, T, v) = bytes
  BY <1>1 DEF PutOf, NumberKinds, WholeKinds
<1>3. bytes \in Seq(Byte)
  <2>1. WidthOf(T.is) \in Nat
    BY <1>0, Widths
  <2> QED
    BY <2>1, NumberBytesFacts
<1>4. /\ w.is \in WholeKinds /\ w.n \in Int /\ IsWhole(q, T.is, w)
      /\ IF T.is = "byte" THEN w.n % 256 = k % 256 ELSE w.n = k
  BY ArrivedFacts, ZenonT(40)
<1>5. ASSUME NEW tail \in Seq(Byte)
      PROVE  GetOf(in, q, T, bytes \o tail) = Got(w, tail)
  <2>1. GetNumber(q, T.is, bytes \o tail) = Got(w, tail)
    BY <1>0, NumberArrives
  <2> QED
    BY <1>0, <2>1 DEF GetOf
<1> HIDE DEF w, bytes
<1>6. Whole(q, w) = {w.n}
  BY <1>4 DEF Whole, PyWhole, KtWhole, WholeKinds
<1>7. MeaningOf(m, q, T, w) = MeaningOf(m, p, T, v)
  <2>2. MeaningOf(m, q, T, w) = Number("number", 2 * IF T.is = "byte" THEN w.n % 256 ELSE w.n)
    BY <1>6, <1>4, WholeMeant
  <2>3. MeaningOf(m, p, T, v) = Number("number", 2 * IF T.is = "byte" THEN k % 256 ELSE k)
    BY WholeMeant
  <2> QED
    BY <1>4, <2>2, <2>3
<1>8. w.is # "null" /\ LegalHere(l, q, T, w)
  BY <1>0, <1>4 DEF LegalHere, LegalOf, WholeKinds
<1> QED
  BY <1>2, <1>3, <1>5, <1>7, <1>8 DEF BackHere

\* The single that is nearest to a float goes over the wire, and whoever gets it
\* as a float has that number and no other.
LEMMA FloatGoes ==
    ASSUME NEW in, NEW p, NEW q \in Platforms, NEW T, T.is = "float",
           NEW v, NEW k \in Int, Halves(p, v) = {k}, InWidth(Single(k), WidthOf("float"))
    PROVE  /\ PutOf(in, p, T, v) \in Seq(Byte)
           /\ \A tail \in Seq(Byte) :
                 GetOf(in, q, T, PutOf(in, p, T, v) \o tail) = Got(Number("float", Single(k)), tail)
<1> DEFINE n == Single(k)
           bytes == NumberBytes(n, WidthOf("float"))
<1>0. "float" \in NumberKinds /\ T.is \notin WholeKinds /\ T.is = "float" /\ WidthOf("float") \in Nat
  BY Widths DEF NumberKinds, WholeKinds
<1>1. n \in Int /\ InWidth(n, WidthOf("float"))
  BY RoundedFloats
<1>2. (CHOOSE h \in Halves(p, v) : TRUE) = k
  OBVIOUS
<1>3. PutFloat(k) = bytes
  BY <1>1 DEF PutFloat, Clipped
<1>4. PutOf(in, p, T, v) = bytes
  <2> HIDE DEF bytes
  <2> QED
    BY <1>0, <1>2, <1>3 DEF PutOf
<1> HIDE DEF n
<1>5. bytes \in Seq(Byte)
  BY <1>0, <1>1, NumberBytesFacts
<1>6. ASSUME NEW tail \in Seq(Byte)
      PROVE  GetOf(in, q, T, bytes \o tail) = Got(Number("float", n), tail)
  <2>1. GetNumber(q, "float", bytes \o tail) = Got(Arrived(q, "float", n), tail)
    BY <1>0, <1>1, NumberArrives
  <2>2. Arrived(q, "float", n) = Number("float", n)
    BY DEF Arrived, NumberAs
  <2> QED
    BY <1>0, <2>1, <2>2 DEF GetOf
<1> QED
  BY <1>4, <1>5, <1>6 DEF n

LEMMA SingleIs ==
    ASSUME NEW q, NEW k \in Int, InWidth(Single(k), WidthOf("float"))
    PROVE  LET w == Number("float", Single(k))
           IN /\ w.is = "float" /\ w.n = Single(k) /\ w.n \in Int /\ Single(w.n) = w.n
              /\ Halves(q, w) = {w.n} /\ IsFloat(q, w)
<1> DEFINE n == Single(k)
           w == Number("float", n)
<1>1. n \in Int /\ Single(n) = n /\ Held(q, n) = n /\ InWidth(n, WidthOf("float"))
  BY RoundedFloats
<1>2. w.is = "float" /\ w.n = n
  BY DEF Number, Value
<1> HIDE DEF w, n
<1>3. w.is \in NumberKinds
  BY <1>2 DEF NumberKinds
<1>4. Amount(q, w) = {n}
  BY <1>2 DEF Amount
<1>5. Halves(q, w) = {n}
  BY <1>1, <1>4 DEF Halves
<1>6. IsFloat(q, w)
  BY <1>1, <1>2, <1>3, <1>5 DEF IsFloat
<1> QED
  BY <1>1, <1>2, <1>5, <1>6 DEF w, n

LEMMA FloatBack ==
    ASSUME NEW in, NEW l, NEW m, NEW p \in Platforms, NEW q \in Platforms,
           NEW T, T.is = "float", NEW v, NEW k \in Int, Halves(p, v) = {k},
           InWidth(Single(k), WidthOf("float"))
    PROVE  \E w : BackHere(in, l, m, p, q, T, v, w)
<1> DEFINE w == Number("float", Single(k))
<1>1. /\ PutOf(in, p, T, v) \in Seq(Byte)
      /\ \A tail \in Seq(Byte) : GetOf(in, q, T, PutOf(in, p, T, v) \o tail) = Got(w, tail)
  BY FloatGoes
<1>2. /\ w.is = "float" /\ w.n = Single(k) /\ Single(w.n) = w.n
      /\ Halves(q, w) = {w.n} /\ IsFloat(q, w)
  BY SingleIs
<1> HIDE DEF w
<1>3. MeaningOf(m, q, T, w) = MeaningOf(m, p, T, v)
  <2>1. MeaningOf(m, q, T, w) = Number("number", Single(w.n))
    BY <1>2, FloatMeant
  <2>2. MeaningOf(m, p, T, v) = Number("number", Single(k))
    BY FloatMeant
  <2> QED
    BY <1>2, <2>1, <2>2
<1>4. w.is # "null" /\ LegalHere(l, q, T, w)
  BY <1>2 DEF LegalHere, LegalOf, WholeKinds
<1> QED
  BY <1>1, <1>3, <1>4 DEF BackHere

LEMMA TrueOrFalse == \A p, v : IsTrue(p, v) \in BOOLEAN
<1> SUFFICES ASSUME NEW p, NEW v PROVE IsTrue(p, v) \in BOOLEAN
  OBVIOUS
<1>1. PyTrue(v) \in BOOLEAN
  BY DEF PyTrue
<1>2. KtTrue(v) \in BOOLEAN
  BY DEF KtTrue
<1>3. IsTrue(p, v) = IF p = "python" THEN PyTrue(v) ELSE KtTrue(v)
  BY DEF IsTrue
<1> QED
  BY <1>1, <1>2, <1>3

LEMMA BooleanBack ==
    ASSUME NEW in, NEW l, NEW m, NEW p \in Platforms, NEW q \in Platforms,
           NEW T, T.is = "boolean", NEW v
    PROVE  \E w : BackHere(in, l, m, p, q, T, v, w)
<1> DEFINE b == IsTrue(p, v)
           x == IF b THEN 1 ELSE 0
           w == Bool(b)
<1>0. T.is \notin NumberKinds /\ T.is \notin WholeKinds /\ T.is = "boolean"
  BY DEF NumberKinds, WholeKinds
<1>1. b \in BOOLEAN
  BY TrueOrFalse
<1>2. PutOf(in, p, T, v) = <<x>>
  BY <1>0 DEF PutOf, NumberKinds, WholeKinds
<1> HIDE DEF b
<1>3. x \in Byte /\ <<x>> \in Seq(Byte)
  BY DEF Byte
<1>4. w.is = "bool" /\ w.n = x
  BY DEF Bool, Value
<1>5. ASSUME NEW tail \in Seq(Byte)
      PROVE  GetOf(in, q, T, <<x>> \o tail) = Got(w, tail)
  <2> DEFINE bytes == <<x>> \o tail
  <2>1. bytes # <<>> /\ bytes[1] = x /\ Tail(bytes) = tail
    <3> HIDE DEF x
    <3> QED
      BY <1>3
  <2>2. Bool(x # 0) = w /\ Bool(x = 1) = w
    BY <1>1
  <2> HIDE DEF bytes, x, w
  <2>3. GetBoolean(q, bytes) = Got(w, tail)
    BY <2>1, <2>2 DEF GetBoolean
  <2> QED
    BY <1>0, <2>3 DEF GetOf, bytes
<1>6. IsTrue(q, w) = b
  <2>1. IsTrue(q, w) <=> x = 1
    <3>1. PyTrue(w) <=> x = 1
      <4> HIDE DEF w, x
      <4> QED
        BY <1>4 DEF PyTrue, WholeKinds
    <3>2. KtTrue(w) <=> x = 1
      <4> HIDE DEF w
      <4>1. ToText("kotlin", w) = IF x = 1 THEN "true" ELSE "false"
        BY <1>4 DEF ToText
      <4> QED
        BY <4>1 DEF KtTrue
    <3> QED
      BY <3>1, <3>2 DEF IsTrue
  <2>2. IsTrue(q, w) \in BOOLEAN
    BY TrueOrFalse
  <2> HIDE DEF w
  <2> QED
    BY <1>1, <2>1, <2>2
<1>7. MeaningOf(m, q, T, w) = MeaningOf(m, p, T, v)
  <2>1. MeaningOf(m, q, T, w) = Bool(IsTrue(q, w)) /\ MeaningOf(m, p, T, v) = Bool(IsTrue(p, v))
    BY <1>0 DEF MeaningOf
  <2> QED
    BY <1>6, <2>1 DEF b
<1> HIDE DEF w, x
<1>8. w.is # "null" /\ LegalHere(l, q, T, w)
  BY <1>0, <1>4 DEF LegalHere, LegalOf
<1> QED
  BY <1>2, <1>3, <1>5, <1>7, <1>8 DEF BackHere

LEMMA TextIs ==
    ASSUME NEW v \in ValueSet, v.is = "text"
    PROVE  v = Text(v.t) /\ v.t \in TextNames /\ v.items = <<>>
<1>1. v \in Unnested
  BY ValueSetIs, NestedCases, ListFacts, MapFacts
<1>2. /\ \A x \in Booleans : x.is = "bool"
      /\ \A x \in Numbers : x.is \in NumberKinds
      /\ \A x \in Arrays : x.is = "array"
      /\ Null.is = "null" /\ "text" \notin NumberKinds
  <2>1. \A x \in Booleans : x.is = "bool"
    BY BoolFacts DEF Booleans
  <2>2. (\A x \in Numbers : x.is \in NumberKinds) /\ (\A x \in Arrays : x.is = "array")
    BY DEF Numbers, Arrays
  <2>3. Null.is = "null" /\ "text" \notin NumberKinds
    BY DEF Null, Value, NumberKinds, WholeKinds
  <2> QED
    BY <2>1, <2>2, <2>3
<1>3. v \in TextValues
  BY <1>1, <1>2 DEF Unnested
<1> QED
  BY <1>3 DEF TextValues, Text, Value

LEMMA StringBack ==
    ASSUME NEW in, NEW l, NEW m, NEW p \in Platforms, NEW q \in Platforms,
           NEW T, T.is = "string", NEW v \in ValueSet, IsText(v)
    PROVE  \E w : BackHere(in, l, m, p, q, T, v, w)
<1>0. T.is \notin NumberKinds /\ T.is \notin WholeKinds /\ T.is = "string"
  BY DEF NumberKinds, WholeKinds
<1>1. v.is = "text" /\ v = Text(v.t) /\ v.t \in TextNames /\ Counted(Len(TextBytes(v.t)))
  BY TextIs DEF IsText
<1>2. ToText(p, v) = v.t /\ ToText(q, v) = v.t
  BY <1>1 DEF ToText
<1>3. PutOf(in, p, T, v) = PutText(v.t) /\ PutText(v.t) \in Seq(Byte)
  BY <1>0, <1>1, <1>2, PutTextFacts DEF PutOf, NumberKinds, WholeKinds
<1>4. ASSUME NEW tail \in Seq(Byte)
      PROVE  GetOf(in, q, T, PutText(v.t) \o tail) = Got(v, tail)
  <2>1. GetString(q, PutText(v.t) \o tail) = Got(Text(v.t), tail)
    BY <1>1, TextArrives
  <2> QED
    BY <1>0, <1>1, <2>1 DEF GetOf
<1>5. MeaningOf(m, q, T, v) = MeaningOf(m, p, T, v)
  BY <1>0, <1>2 DEF MeaningOf
<1>6. v.is # "null" /\ LegalHere(l, q, T, v)
  BY <1>0, <1>1 DEF LegalHere, LegalOf
<1> QED
  BY <1>0, <1>3, <1>4, <1>5, <1>6 DEF BackHere

LEMMA EnumBack ==
    ASSUME NEW in, NEW l, NEW m, NEW p \in Platforms, NEW q \in Platforms,
           NEW T, T.is = "ref", Resolve(T.name).is = "enum",
           NEW v \in ValueSet, v.is = "text", IsValueOf(Resolve(T.name), v.t)
    PROVE  \E w : BackHere(in, l, m, p, q, T, v, w)
<1> DEFINE d == Resolve(T.name)
           bytes == PutShortText(p, TextBytes(v.t))
<1>0. T.is \notin NumberKinds /\ T.is \notin WholeKinds /\ T.is = "ref" /\ d.is = "enum"
  BY DEF NumberKinds, WholeKinds
<1>1. v = Text(v.t) /\ v.t \in TextNames /\ v.t \in ToSet(d.values) /\ Len(TextBytes(v.t)) <= 127
  BY TextIs DEF IsValueOf
<1> HIDE DEF d
<1>2. ToText(p, v) = v.t /\ ToText(q, v) = v.t
  BY DEF ToText
<1>3. PutOf(in, p, T, v) = bytes
  BY <1>0, <1>2 DEF PutOf, PutRef, PutEnum, NumberKinds, WholeKinds, d
<1>4. bytes \in Seq(Byte)
  BY <1>3, EnumCalled DEF CalledHere, Exactly, Foreseen
<1>5. ASSUME NEW tail \in Seq(Byte)
      PROVE  GetOf(in, q, T, bytes \o tail) = Got(v, tail)
  <2> DEFINE text == TextAfter(q, GetNumber(q, "byte", bytes \o tail))
  <2>1. text = Got(v, tail)
    BY <1>1, ShortTextArrives
  <2>2. text.ok /\ text.v = v
    BY <2>1 DEF Got
  <2>3. GetEnum(q, d, bytes \o tail) = EnumOf(q, d, text)
    BY DEF GetEnum
  <2> HIDE DEF text
  <2>4. EnumOf(q, d, text) = text
    BY <1>1, <2>2 DEF EnumOf
  <2>5. GetOf(in, q, T, bytes \o tail) = GetEnum(q, d, bytes \o tail)
    BY <1>0 DEF GetOf, GetRef, d
  <2> QED
    BY <2>1, <2>3, <2>4, <2>5
<1>6. MeaningOf(m, q, T, v) = MeaningOf(m, p, T, v)
  BY <1>0, <1>2 DEF MeaningOf, d
<1>7. v.is # "null" /\ LegalHere(l, q, T, v)
  BY <1>0 DEF LegalHere, LegalOf, d
<1> HIDE DEF bytes
<1> QED
  BY <1>0, <1>3, <1>4, <1>5, <1>6, <1>7 DEF BackHere

\* What a caller may give where a type is declared, the defaults included.
Given(l, p, T, v) ==
    \/ l.legal[p][T][v]
    \/ l.left >= 1 /\ Simple(p, T, v)
    \/ l.left >= 2 /\ DefaultFits(p, T, v)

Back(c, l, m, p, q, T, v, w) ==
    /\ c.put[p][T][v] \in Seq(Byte) /\ Brings(c, q, T, c.put[p][T][v], w)
    /\ m[q][T][w] = m[p][T][v]
    /\ T.is # "option" => w.is # "null"
    /\ c.accepts[q][T][w] => l.legal[q][T][w]

Returns(c, l, m) ==
    \A p, q \in Platforms : \A T \in FieldTypes : \A v \in ValueSet :
        Given(l, p, T, v) => \E w : Back(c, l, m, p, q, T, v, w)

LEMMA ReturnsAt ==
    ASSUME NEW c, NEW l, NEW m, Returns(c, l, m), NEW p \in Platforms, NEW q \in Platforms,
           NEW T \in FieldTypes, NEW v \in ValueSet, Given(l, p, T, v)
    PROVE  \E w : Back(c, l, m, p, q, T, v, w)
BY DEF Returns

LEMMA FieldTypesIn == FieldTypes \subseteq Types
BY DEF Types

LEMMA OptionBack ==
    ASSUME NEW in, NEW l, NEW m, Returns(in, l, m), NEW p \in Platforms, NEW q \in Platforms,
           NEW T \in FieldTypes, T.is = "option", NEW v \in ValueSet,
           v.is = "null" \/ (v.is # "null" /\ Given(l, p, T.of[1], v))
    PROVE  \E w : BackHere(in, l, m, p, q, T, v, w)
<1> DEFINE D == T.of[1]
<1>0. T.is \notin NumberKinds /\ T.is \notin WholeKinds /\ T.is = "option" /\ D \in FieldTypes
  BY FieldTypeFacts DEF NumberKinds, WholeKinds
<1>1. CASE v.is = "null"
  <2>1. PutOf(in, p, T, v) = <<0>>
    BY <1>0, <1>1 DEF PutOf, PutOption, NumberKinds, WholeKinds
  <2>2. <<0>> \in Seq(Byte)
    BY DEF Byte
  <2>3. Null.is = "null"
    BY DEF Null, Value
  <2>4. ASSUME NEW tail \in Seq(Byte)
        PROVE  GetOf(in, q, T, <<0>> \o tail) = Got(Null, tail)
    <3> DEFINE bytes == <<0>> \o tail
    <3>1. bytes # <<>> /\ bytes[1] = 0 /\ Tail(bytes) = tail
      BY <2>2
    <3> HIDE DEF bytes
    <3>2. GetOption(in, q, D, bytes) = Got(Null, tail)
      BY <3>1 DEF GetOption
    <3> QED
      BY <1>0, <3>2 DEF GetOf, bytes
  <2>5. MeaningOf(m, q, T, Null) = Null /\ MeaningOf(m, p, T, v) = Null
    BY <1>0, <1>1, <2>3 DEF MeaningOf
  <2>6. LegalHere(l, q, T, Null)
    BY <1>0, <2>3 DEF LegalHere, LegalOf
  <2> QED
    BY <1>0, <2>1, <2>2, <2>4, <2>5, <2>6 DEF BackHere
<1>2. CASE v.is # "null" /\ Given(l, p, D, v)
  <2>1. PICK w : Back(in, l, m, p, q, D, v, w)
    BY <1>0, <1>2, ReturnsAt
  <2> DEFINE put == in.put[p][D][v]
  <2>2. D.is # "option"
    <3>1. D \in DataTypes \cup {ArrayOf(X) : X \in DataTypes}
      <4> HIDE DEF D
      <4>1. T \notin DataTypes
        BY <1>0, DataTypesAre DEF NumberKinds, WholeKinds
      <4> QED
        BY <1>0, <4>1, FieldTypesAre DEF D
    <3>2. \A X : ArrayOf(X).is = "array"
      BY DEF ArrayOf
    <3> HIDE DEF D
    <3>3. D \in DataTypes => D.is # "option"
      BY DataTypesAre DEF NumberKinds, WholeKinds
    <3> QED
      BY <3>1, <3>2, <3>3
  <2>3. /\ put \in Seq(Byte) /\ Brings(in, q, D, put, w) /\ m[q][D][w] = m[p][D][v] /\ w.is # "null"
        /\ in.accepts[q][D][w] => l.legal[q][D][w]
    BY <2>1, <2>2 DEF Back
  <2>4. PutOf(in, p, T, v) = <<1>> \o put
    BY <1>0, <1>2 DEF PutOf, PutOption, NumberKinds, WholeKinds
  <2> HIDE DEF put, D
  <2>5. <<1>> \in Seq(Byte)
    BY DEF Byte
  <2>6. <<1>> \o put \in Seq(Byte)
    BY <2>3, <2>5, Parts
  <2>7. ASSUME NEW tail \in Seq(Byte)
        PROVE  GetOf(in, q, T, (<<1>> \o put) \o tail) = Got(w, tail)
    <3> DEFINE more == put \o tail
               bytes == <<1>> \o more
    <3>1. (<<1>> \o put) \o tail = bytes /\ more \in Seq(Byte)
      BY <2>3, <2>5, BytesGroup, Parts
    <3>2. in.get[q][D][more] = Got(w, tail)
      BY <2>3 DEF Brings
    <3> HIDE DEF more
    <3>3. bytes # <<>> /\ bytes[1] # 0 /\ Tail(bytes) = more
      BY <2>5, <3>1
    <3> HIDE DEF bytes
    <3>4. GetOption(in, q, D, bytes) = Got(w, tail)
      BY <3>2, <3>3 DEF GetOption
    <3>5. GetOf(in, q, T, bytes) = GetOption(in, q, D, bytes)
      BY <1>0 DEF GetOf, D
    <3> QED
      BY <3>1, <3>4, <3>5
  <2>8. MeaningOf(m, q, T, w) = MeaningOf(m, p, T, v)
    BY <1>0, <1>2, <2>3 DEF MeaningOf, D
  <2>9. AcceptsOf(in, q, T, w) => LegalHere(l, q, T, w)
    BY <1>0, <2>3 DEF AcceptsOf, LegalHere, LegalOf, D
  <2> QED
    BY <1>0, <2>4, <2>6, <2>7, <2>8, <2>9 DEF BackHere
<1> QED
  BY <1>1, <1>2


AllBrought(in, q, D, n, s, ws) ==
    \A i \in 1..n : s[i] \in Seq(Byte) /\ Brings(in, q, D, s[i], ws[i])

PutItems(n, s) == NumberBytes(n, IntWidth) \o FlattenSeq(First(n, s))

\* The length of a list, and its items.
LEMMA ItemsArrive ==
    ASSUME NEW in, NEW d \in Nat, d + 1 <= MaxNesting, Reads(in, d), NEW q \in Platforms,
           NEW D \in Types, NEW n \in Nat, Counted(n), NEW s, NEW ws, AllBrought(in, q, D, n, s, ws)
    PROVE  /\ PutItems(n, s) \in Seq(Byte)
           /\ \A tail \in Seq(Byte) :
                 GetArray(in, q, D, PutItems(n, s) \o tail) = Got(Gathered(q, D.is, First(n, ws)), tail)
           /\ \A i \in 1..n : ws[i] \in Nested[d]
<1>0. /\ \A i \in 1..n : s[i] \in Seq(Byte)
      /\ \A i \in 1..n : Brings(in, q, D, s[i], ws[i])
  BY DEF AllBrought
<1> DEFINE head == NumberBytes(n, IntWidth)
           flat == FlattenSeq([i \in 1..n |-> s[i]])
           items == [i \in 1..n |-> ws[i]]
           types == [i \in 1..n |-> D]
<1>1. head \in Seq(Byte)
  BY Widths, NumberBytesFacts
<1>2. \A t \in Seq(Byte) :
         /\ GetAll(in, q, types, flat \o t) = Got(List(items), t)
         /\ flat \in Seq(Byte)
         /\ \A i \in 1..n : ws[i] \in Nested[d]
  <2> DEFINE ts == [i \in 1..n |-> D]
  <2> SUFFICES ASSUME NEW t \in Seq(Byte)
               PROVE  /\ GetAll(in, q, [i \in 1..n |-> D], flat \o t) = Got(List(items), t)
                      /\ flat \in Seq(Byte)
                      /\ \A i \in 1..n : ws[i] \in Nested[d]
    OBVIOUS
  <2>1. \A i \in 1..n : ts[i] \in Types /\ ts[i] = D
    OBVIOUS
  <2>2. [i \in 1..n |-> ts[i]] = [i \in 1..n |-> D]
    OBVIOUS
  <2> HIDE DEF ts
  <2>3. \A i \in 1..n : Brings(in, q, ts[i], s[i], ws[i])
    BY <1>0, <2>1
  <2>4. /\ GetAll(in, q, [i \in 1..n |-> ts[i]], FlattenSeq([i \in 1..n |-> s[i]]) \o t)
              = Got(List([i \in 1..n |-> ws[i]]), t)
        /\ FlattenSeq([i \in 1..n |-> s[i]]) \in Seq(Byte)
        /\ \A i \in 1..n : ws[i] \in Nested[d]
    BY <1>0, <2>1, <2>3, AllArrive
  <2> QED
    BY <2>2, <2>4
<1>3. <<>> \in Seq(Byte)
  OBVIOUS
<1>4. flat \in Seq(Byte) /\ \A i \in 1..n : ws[i] \in Nested[d]
  BY <1>2, <1>3
<1>5. ASSUME NEW t \in Seq(Byte)
      PROVE  GetArray(in, q, D, (head \o flat) \o t) = Got(Gathered(q, D.is, items), t)
  <2> DEFINE length == Got(Number("int", n), flat \o t)
             all == Got(List(items), t)
  <2>1. (head \o flat) \o t = head \o (flat \o t) /\ flat \o t \in Seq(Byte)
    <3> HIDE DEF head, flat
    <3>1. head \in Seq(Byte) /\ flat \in Seq(Byte)
      BY <1>1, <1>4
    <3>2. (head \o flat) \o t = head \o (flat \o t)
      BY ONLY <3>1, t \in Seq(Byte), BytesGroup
    <3> QED
      BY <3>1, <3>2, Parts
  <2>2. GetNumber(q, "int", head \o (flat \o t)) = length
    <3>1. "int" \in NumberKinds /\ WidthOf("int") = IntWidth
      BY DEF NumberKinds, WholeKinds, WidthOf
    <3>2. Arrived(q, "int", n) = Number("int", n)
      BY DEF Arrived, NumberAs
    <3>3. InWidth(n, WidthOf("int"))
      BY <3>1 DEF Counted
    <3> DEFINE more == flat \o t
    <3>4. more \in Seq(Byte)
      BY <2>1
    <3> HIDE DEF flat, more
    <3>5. GetNumber(q, "int", NumberBytes(n, WidthOf("int")) \o more) = Got(Arrived(q, "int", n), more)
      BY <3>1, <3>3, <3>4, NumberArrives
    <3> QED
      BY <3>1, <3>2, <3>5 DEF more
  <2>3. length.ok /\ length.v.n = n /\ length.rest = flat \o t
    <3>1. length.ok /\ length.v = Number("int", n) /\ length.rest = flat \o t
      BY DEF Got
    <3>2. Number("int", n).n = n
      BY DEF Number, Value
    <3> HIDE DEF length
    <3> QED
      BY <3>1, <3>2
  <2>4. all.ok /\ all.v.items = items /\ all.rest = t
    <3>1. all.ok /\ all.v = List(items) /\ all.rest = t
      BY DEF Got
    <3>2. List(items).items = items
      BY DEF List, Value
    <3> HIDE DEF all, items
    <3> QED
      BY <3>1, <3>2
  <2>5. Times(n) = n /\ ~(n < 0)
    BY DEF Times
  <2> HIDE DEF length
  <2>6. GetAll(in, q, [i \in 1..Times(length.v.n) |-> D], length.rest) = all
    BY <1>2, <2>3, <2>5
  <2> HIDE DEF all, items, head, flat
  <2>7. ItemsAfter(in, q, D, length) = Got(Gathered(q, D.is, items), t)
    BY <2>3, <2>4, <2>5, <2>6 DEF ItemsAfter
  <2> QED
    BY <2>1, <2>2, <2>7 DEF GetArray
<1>6. head \o flat \in Seq(Byte)
  <2> HIDE DEF head, flat
  <2> QED
    BY <1>1, <1>4, Parts
<1>7. First(n, s) = [i \in 1..n |-> s[i]] /\ First(n, ws) = items
  BY DEF First
<1> HIDE DEF items, head
<1> QED
  BY <1>4, <1>5, <1>6, <1>7 DEF head, PutItems

LEMMA GatheredFacts ==
    ASSUME NEW q, NEW is, NEW items
    PROVE  /\ Gathered(q, is, items).is \in {"list", "array"} /\ Gathered(q, is, items).items = items
           /\ Gathered(q, is, items).is = "array" => Gathered(q, is, items).t = is
           /\ Gathered(q, is, items) = List(items) \/ Gathered(q, is, items) = Array(is, items)
<1>1. /\ List(items).is = "list" /\ List(items).items = items
      /\ Array(is, items).is = "array" /\ Array(is, items).t = is /\ Array(is, items).items = items
  BY DEF List, Array, Value
<1>2. Gathered(q, is, items) = List(items) \/ Gathered(q, is, items) = Array(is, items)
  BY DEF Gathered
<1> QED
  BY <1>1, <1>2

LEMMA ArrayBack ==
    ASSUME NEW in, NEW l, NEW m, NEW d \in Nat, d + 1 <= MaxNesting, Reads(in, d), Returns(in, l, m),
           NEW p \in Platforms, NEW q \in Platforms,
           NEW T \in FieldTypes, T.is = "array", NEW v \in ValueSet, LegalItems(l, p, T.of[1], v)
    PROVE  \E w : BackHere(in, l, m, p, q, T, v, w)
<1> DEFINE D == T.of[1]
           n == Len(v.items)
           s == [i \in 1..n |-> in.put[p][D][v.items[i]]]
           came(i, w) == Back(in, l, m, p, q, D, v.items[i], w)
           ws == [i \in 1..n |-> CHOOSE w : came(i, w)]
           bytes == NumberBytes(n, IntWidth) \o FlattenSeq([i \in 1..n |-> s[i]])
           items == [i \in 1..n |-> ws[i]]
           w == Gathered(q, D.is, items)
<1>0. /\ T.is \notin NumberKinds /\ T.is \notin WholeKinds /\ T.is = "array"
      /\ D \in FieldTypes /\ D \in Types /\ D.is # "option"
  <2>1. D \in FieldTypes
    BY FieldTypeFacts
  <2>2. T \notin DataTypes
    BY DataTypesAre DEF NumberKinds, WholeKinds
  <2>3. D \in DataTypes
    BY <2>2, FieldTypesAre
  <2>4. D.is # "option"
    <3> HIDE DEF D
    <3> QED
      BY <2>3, DataTypesAre DEF NumberKinds, WholeKinds
  <2> QED
    BY <2>1, <2>4, FieldTypesIn DEF NumberKinds, WholeKinds
<1>1. /\ n \in Nat /\ IsItems(p, v) /\ Counted(n)
      /\ \A i \in 1..n : v.items[i] \in ValueSet /\ l.legal[p][D][v.items[i]]
  <2>1. v.is \in {"list", "array"}
    BY DEF LegalItems, IsItems
  <2> QED
    BY <2>1, InsideFacts DEF LegalItems
<1> HIDE DEF D
<1>2. ASSUME NEW i \in 1..n PROVE came(i, ws[i])
  <2>1. Given(l, p, D, v.items[i]) /\ v.items[i] \in ValueSet
    BY <1>1 DEF Given
  <2>2. \E x : came(i, x)
    BY <1>0, <2>1, ReturnsAt
  <2> HIDE DEF came
  <2> QED
    BY <2>2
<1>3. ASSUME NEW i \in 1..n
      PROVE  /\ s[i] \in Seq(Byte) /\ Brings(in, q, D, s[i], ws[i])
             /\ m[q][D][ws[i]] = m[p][D][v.items[i]] /\ ws[i].is # "null"
             /\ in.accepts[q][D][ws[i]] => l.legal[q][D][ws[i]]
  <2>1. came(i, ws[i]) /\ s[i] = in.put[p][D][v.items[i]]
    BY <1>2
  <2> HIDE DEF ws, s
  <2> QED
    BY <1>0, <2>1 DEF Back
<1>4. PutOf(in, p, T, v) = bytes
  <2>1. [i \in 1..n |-> s[i]] = [i \in 1..n |-> in.put[p][D][v.items[i]]]
    OBVIOUS
  <2>2. PutOf(in, p, T, v) = PutArray(in, p, T, v)
    BY <1>0 DEF PutOf, NumberKinds, WholeKinds
  <2> QED
    BY <2>1, <2>2 DEF PutArray, D
<1> HIDE DEF s, ws, n
<1>5. /\ bytes \in Seq(Byte)
      /\ \A tail \in Seq(Byte) : GetArray(in, q, D, bytes \o tail) = Got(w, tail)
  <2>1. AllBrought(in, q, D, n, s, ws)
    BY <1>3 DEF AllBrought
  <2>2. n \in Nat /\ Counted(n) /\ D \in Types
    BY <1>0, <1>1
  <2>3. /\ PutItems(n, s) \in Seq(Byte)
        /\ \A tail \in Seq(Byte) :
              GetArray(in, q, D, PutItems(n, s) \o tail) = Got(Gathered(q, D.is, First(n, ws)), tail)
    BY <2>1, <2>2, ItemsArrive
  <2>4. bytes = PutItems(n, s) /\ w = Gathered(q, D.is, First(n, ws))
    BY DEF First, PutItems
  <2> QED
    BY <2>3, <2>4
<1> HIDE DEF bytes
<1>6. Len(items) = n /\ \A i \in 1..n : items[i] = ws[i]
  BY <1>1
<1>7. /\ w.is \in {"list", "array"} /\ w.items = items /\ (w.is = "array" => w.t = D.is)
  <2> HIDE DEF items
  <2> QED
    BY GatheredFacts
<1> HIDE DEF w, items
<1>8. \A tail \in Seq(Byte) : GetOf(in, q, T, bytes \o tail) = Got(w, tail)
  BY <1>0, <1>5 DEF GetOf, D
<1>9. MeaningOf(m, q, T, w) = MeaningOf(m, p, T, v)
  <2>1. /\ MeaningOf(m, q, T, w) = List([i \in 1..Len(w.items) |-> m[q][D][w.items[i]]])
        /\ MeaningOf(m, p, T, v) = List([i \in 1..Len(v.items) |-> m[p][D][v.items[i]]])
    BY <1>0 DEF MeaningOf, D
  <2>2. [i \in 1..Len(w.items) |-> m[q][D][w.items[i]]] = [i \in 1..Len(v.items) |-> m[p][D][v.items[i]]]
    <3>1. Len(w.items) = n /\ \A i \in 1..n : m[q][D][w.items[i]] = m[p][D][v.items[i]]
      BY <1>3, <1>6, <1>7
    <3> QED
      BY <3>1 DEF n
  <2> QED
    BY <2>1, <2>2
<1>10. AcceptsOf(in, q, T, w) => LegalHere(l, q, T, w)
  <2> SUFFICES ASSUME AcceptsOf(in, q, T, w) PROVE LegalHere(l, q, T, w)
    OBVIOUS
  <2>1. AcceptsArray(in, q, T, w)
    BY <1>0 DEF AcceptsOf
  <2>2. IsItems(q, w) /\ \A i \in 1..n : in.accepts[q][D][ws[i]]
    BY <1>6, <1>7, <2>1 DEF AcceptsArray, D
  <2>3. \A i \in 1..Len(w.items) : l.legal[q][D][w.items[i]]
    BY <1>3, <1>6, <1>7, <2>2
  <2>4. LegalItems(l, q, D, w)
    BY <1>1, <1>6, <1>7, <2>2, <2>3 DEF LegalItems
  <2> QED
    BY <1>0, <2>4 DEF LegalHere, LegalOf, D
<1>11. w.is # "null"
  BY <1>7
<1> QED
  BY <1>4, <1>5, <1>8, <1>9, <1>10, <1>11 DEF BackHere

----------------------------------------------------------------------------
\* Classes and unions.
FieldsBack(in, l, m, p, q, d, v, ws) ==
    \A k \in 1..Len(d.fields) :
        Back(in, l, m, p, q, d.fields[k].type, FieldValue(d.fields[k], v), ws[k])

FieldEntries(d, ws) == [k \in 1..Len(d.fields) |-> Entry(d.fields[k].name, ws[k])]

LEMMA FieldsCome ==
    ASSUME NEW in, NEW l, NEW m, Returns(in, l, m), NEW p \in Platforms, NEW q \in Platforms,
           NEW d \in Declaration, NEW v \in ValueSet, LegalClass(l, p, d, v)
    PROVE  \E ws : FieldsBack(in, l, m, p, q, d, v, ws)
<1> DEFINE came(k, w) == Back(in, l, m, p, q, d.fields[k].type, FieldValue(d.fields[k], v), w)
           ws == [k \in 1..Len(d.fields) |-> CHOOSE w : came(k, w)]
<1>1. ASSUME NEW k \in 1..Len(d.fields) PROVE came(k, ws[k])
  <2> DEFINE f == d.fields[k]
             x == FieldValue(f, v)
  <2>1. f.type \in FieldTypes /\ x \in ValueSet
    BY FieldFacts, FieldValueFacts DEF LegalClass
  <2>2. Given(l, p, f.type, x)
    <3>1. IF Has(v, f.name) THEN l.legal[p][f.type][At(v, f.name)]
          ELSE l.left >= 2 /\ DefaultFits(p, f.type, FieldValue(f, v))
      BY DEF LegalClass
    <3> HIDE DEF f
    <3>2. Has(v, f.name) => x = At(v, f.name)
      BY DEF FieldValue
    <3> QED
      BY <3>1, <3>2 DEF Given
  <2>3. \E w : came(k, w)
    <3> HIDE DEF f, x
    <3>1. \E w : Back(in, l, m, p, q, f.type, x, w)
      BY <2>1, <2>2, ReturnsAt
    <3> QED
      BY <3>1 DEF f, x
  <2> HIDE DEF came
  <2> QED
    BY <2>3
<1> HIDE DEF came, ws
<1> QED
  BY <1>1 DEF FieldsBack, came

\* All fields are found in what is read of a class, a hint beside them or not.
FieldsIn(d, ws, w) ==
    \A k \in 1..Len(d.fields) : Has(w, d.fields[k].name) /\ At(w, d.fields[k].name) = ws[k]

EntriesOf(d, ws, w) ==
    /\ \A i, k \in 1..Len(d.fields) : d.fields[i].name = d.fields[k].name => i = k
    /\ \A k \in 1..Len(d.fields) : w.items[k] = Entry(d.fields[k].name, ws[k])
    /\ \/ Len(w.items) = Len(d.fields)
       \/ Len(w.items) = Len(d.fields) + 1 /\ w.items[Len(d.fields) + 1].t = ":type"

LEMMA FieldsFound ==
    ASSUME NEW d \in Declaration, NEW ws, NEW w, EntriesOf(d, ws, w)
    PROVE  FieldsIn(d, ws, w)
<1> DEFINE n == Len(d.fields)
<1>0. /\ n \in Nat
      /\ \A i, k \in 1..n : d.fields[i].name = d.fields[k].name => i = k
      /\ \A k \in 1..n : w.items[k] = Entry(d.fields[k].name, ws[k])
      /\ Len(w.items) = n \/ (Len(w.items) = n + 1 /\ w.items[n + 1].t = ":type")
  BY DeclarationIsRecord DEF EntriesOf
<1> SUFFICES ASSUME NEW k \in 1..n
             PROVE  Has(w, d.fields[k].name) /\ At(w, d.fields[k].name) = ws[k]
  BY DEF FieldsIn
<1> DEFINE name == d.fields[k].name
<1>1. \A x, y : Entry(x, y).t = x /\ Entry(x, y).items[1] = y
  BY DEF Entry, Value
<1>2. name # ":type"
  BY NoFieldIsTheHint DEF NamesOf
<1>3. EntryAt(w, name) = {k}
  <2>1. k \in EntryAt(w, name)
    <3>1. k \in 1..Len(w.items) /\ w.items[k].t = name
      BY <1>0, <1>1
    <3> QED
      BY <3>1 DEF EntryAt
  <2>2. ASSUME NEW i \in EntryAt(w, name) PROVE i = k
    <3>1. i \in 1..Len(w.items) /\ w.items[i].t = name
      BY <2>2 DEF EntryAt
    <3>2. i \in 1..n
      BY <1>0, <1>2, <3>1
    <3>3. w.items[i].t = d.fields[i].name
      BY <1>0, <1>1, <3>2
    <3> QED
      BY <1>0, <3>1, <3>2, <3>3
  <2> QED
    BY <2>1, <2>2
<1>4. (CHOOSE i \in EntryAt(w, name) : TRUE) = k
  BY <1>3
<1>5. w.items[k].items[1] = ws[k]
  BY <1>0, <1>1
<1> HIDE DEF name
<1>6. Has(w, name) /\ At(w, name) = ws[k]
  BY <1>3, <1>4, <1>5 DEF Has, At
<1> QED
  BY <1>6 DEF name

LEMMA FieldsMeant ==
    ASSUME NEW in, NEW l, NEW m, Allows(in, l), NEW p \in Platforms, NEW q \in Platforms,
           NEW d \in Declaration, NEW v \in ValueSet, LegalClass(l, p, d, v),
           NEW ws, FieldsBack(in, l, m, p, q, d, v, ws), NEW w, FieldsIn(d, ws, w)
    PROVE  /\ ClassMeaning(m, q, d, w) = ClassMeaning(m, p, d, v)
           /\ AcceptsClass(in, q, d, w) => LegalClass(l, q, d, w)
<1>1. ASSUME NEW k \in 1..Len(d.fields)
      PROVE  /\ m[q][d.fields[k].type][FieldMeant(d.fields[k], w)] = m[p][d.fields[k].type][FieldMeant(d.fields[k], v)]
             /\ FieldValue(d.fields[k], w) = ws[k]
             /\ in.accepts[q][d.fields[k].type][ws[k]] => l.legal[q][d.fields[k].type][ws[k]]
  <2> DEFINE f == d.fields[k]
             x == FieldValue(f, v)
  <2>1. Back(in, l, m, p, q, f.type, x, ws[k])
    BY DEF FieldsBack
  <2>2. Has(w, f.name) /\ At(w, f.name) = ws[k]
    BY DEF FieldsIn
  <2>3. f.type \in FieldTypes /\ (Has(v, f.name) => l.legal[p][f.type][At(v, f.name)])
    BY FieldFacts DEF LegalClass
  <2>4. Has(v, f.name) => At(v, f.name) \in ValueSet
    <3>1. v.items \in Seq(Entries(ValueSet))
      BY InsideFacts DEF LegalClass
    <3> QED
      BY <3>1, AtFacts
  <2> HIDE DEF f
  <2>5. FieldMeant(f, v) = x
    <3>1. Has(v, f.name) => At(v, f.name).is # "null" \/ f.type.is = "option"
      BY <2>3, <2>4 DEF Allows, AllowsLegal
    <3> QED
      BY <3>1 DEF FieldMeant, FieldValue
  <2> HIDE DEF x
  <2>6. FieldMeant(f, w) = ws[k] /\ FieldValue(f, w) = ws[k]
    BY <2>1, <2>2 DEF FieldMeant, FieldValue, Back
  <2> QED
    BY <2>1, <2>5, <2>6 DEF Back, f
<1>2. ClassMeaning(m, q, d, w) = ClassMeaning(m, p, d, v)
  <2> DEFINE of(r, x) == [k \in 1..Len(d.fields) |->
                             Entry(d.fields[k].name, m[r][d.fields[k].type][FieldMeant(d.fields[k], x)])]
  <2>1. of(q, w) = of(p, v)
    BY <1>1
  <2>2. ClassMeaning(m, q, d, w) = Map(of(q, w)) /\ ClassMeaning(m, p, d, v) = Map(of(p, v))
    BY DEF ClassMeaning
  <2> HIDE DEF of
  <2> QED
    BY <2>1, <2>2
<1>3. ASSUME AcceptsClass(in, q, d, w) PROVE LegalClass(l, q, d, w)
  <2>1. w.is = "map" /\ \A i, k \in 1..Len(d.fields) : d.fields[i].name = d.fields[k].name => i = k
    BY <1>3 DEF AcceptsClass, LegalClass
  <2>2. ASSUME NEW k \in 1..Len(d.fields)
        PROVE  /\ ~Missing(d.fields[k], w)
               /\ Has(w, d.fields[k].name) /\ l.legal[q][d.fields[k].type][At(w, d.fields[k].name)]
               /\ \A r \in d.fields[k].rules : Admits(q, r, FieldValue(d.fields[k], w))
    <3>1. /\ ~Missing(d.fields[k], w)
          /\ \A r \in d.fields[k].rules : Admits(q, r, FieldValue(d.fields[k], w))
          /\ in.accepts[q][d.fields[k].type][FieldValue(d.fields[k], w)]
      BY <1>3 DEF AcceptsClass
    <3> QED
      BY <1>1, <3>1 DEF FieldsIn
  <2> QED
    BY <2>1, <2>2 DEF LegalClass
<1> QED
  BY <1>2, <1>3

RowBrought(in, q, n, types, s, ws) ==
    \A i \in 1..n : types[i] \in Types /\ s[i] \in Seq(Byte) /\ Brings(in, q, types[i], s[i], ws[i])

LEMMA RowArrives ==
    ASSUME NEW in, NEW d \in Nat, d + 1 <= MaxNesting, Reads(in, d), NEW q \in Platforms,
           NEW n \in Nat, NEW types, NEW s, NEW ws, RowBrought(in, q, n, types, s, ws)
    PROVE  /\ FlattenSeq(First(n, s)) \in Seq(Byte)
           /\ \A tail \in Seq(Byte) :
                 GetAll(in, q, First(n, types), FlattenSeq(First(n, s)) \o tail)
                    = Got(List(First(n, ws)), tail)
<1>1. /\ \A i \in 1..n : types[i] \in Types
      /\ \A i \in 1..n : s[i] \in Seq(Byte)
      /\ \A i \in 1..n : Brings(in, q, types[i], s[i], ws[i])
  BY DEF RowBrought
<1>2. ASSUME NEW tail \in Seq(Byte)
      PROVE  /\ GetAll(in, q, [i \in 1..n |-> types[i]], FlattenSeq([i \in 1..n |-> s[i]]) \o tail)
                   = Got(List([i \in 1..n |-> ws[i]]), tail)
             /\ FlattenSeq([i \in 1..n |-> s[i]]) \in Seq(Byte)
             /\ \A i \in 1..n : ws[i] \in Nested[d]
  BY <1>1, AllArrive
<1>3. <<>> \in Seq(Byte)
  OBVIOUS
<1> QED
  BY <1>2, <1>3 DEF First

LEMMA ClassArrives ==
    ASSUME NEW in, NEW l, NEW m, NEW e \in Nat, e + 1 <= MaxNesting, Reads(in, e),
           NEW p \in Platforms, NEW q \in Platforms, NEW d \in Declaration, NEW v,
           NEW ws, FieldsBack(in, l, m, p, q, d, v, ws)
    PROVE  /\ PutClass(in, p, d, v) \in Seq(Byte)
           /\ \A tail \in Seq(Byte) :
                 GetClass(in, q, d, PutClass(in, p, d, v) \o tail) = Got(Map(FieldEntries(d, ws)), tail)
<1> DEFINE n == Len(d.fields)
           types == [k \in 1..n |-> d.fields[k].type]
           s == [k \in 1..n |-> in.put[p][d.fields[k].type][FieldValue(d.fields[k], v)]]
<1>1. n \in Nat /\ \A k \in 1..n : types[k] \in Types /\ types[k] = d.fields[k].type
  <2>1. n \in Nat
    BY DeclarationIsRecord
  <2>2. \A k \in 1..n : d.fields[k].type \in Types
    BY FieldFacts, FieldTypesIn
  <2> QED
    BY <2>1, <2>2
<1>2. ASSUME NEW k \in 1..n PROVE s[k] \in Seq(Byte) /\ Brings(in, q, types[k], s[k], ws[k])
  BY DEF FieldsBack, Back
<1>3. PutClass(in, p, d, v) = FlattenSeq([k \in 1..n |-> s[k]])
  <2>1. [k \in 1..n |-> s[k]] = [k \in 1..n |-> in.put[p][d.fields[k].type][FieldValue(d.fields[k], v)]]
    OBVIOUS
  <2> QED
    BY <2>1 DEF PutClass
<1>4. [k \in 1..n |-> types[k]] = [k \in 1..Len(d.fields) |-> d.fields[k].type]
  OBVIOUS
<1> HIDE DEF n, types, s
<1>5. ASSUME NEW tail \in Seq(Byte)
      PROVE  /\ GetAll(in, q, [k \in 1..n |-> types[k]], PutClass(in, p, d, v) \o tail)
                   = Got(List([k \in 1..n |-> ws[k]]), tail)
             /\ PutClass(in, p, d, v) \in Seq(Byte)
  <2>1. RowBrought(in, q, n, types, s, ws)
    BY <1>1, <1>2 DEF RowBrought
  <2>2. /\ FlattenSeq(First(n, s)) \in Seq(Byte)
        /\ GetAll(in, q, First(n, types), FlattenSeq(First(n, s)) \o tail) = Got(List(First(n, ws)), tail)
    BY <1>1, <2>1, RowArrives
  <2>3. PutClass(in, p, d, v) = FlattenSeq(First(n, s))
    BY <1>3 DEF First
  <2> QED
    BY <2>2, <2>3 DEF First
<1>6. ASSUME NEW tail \in Seq(Byte)
      PROVE  GetClass(in, q, d, PutClass(in, p, d, v) \o tail) = Got(Map(FieldEntries(d, ws)), tail)
  <2> DEFINE items == [k \in 1..n |-> ws[k]]
             all == Got(List(items), tail)
  <2>1. all.ok /\ all.v.items = items /\ all.rest = tail
    <3>1. all.ok /\ all.v = List(items) /\ all.rest = tail
      BY DEF Got
    <3>2. List(items).items = items
      BY DEF List, Value
    <3> HIDE DEF all, items
    <3> QED
      BY <3>1, <3>2
  <2>2. GetClass(in, q, d, PutClass(in, p, d, v) \o tail) = FieldsOf(d, all)
    BY <1>4, <1>5 DEF GetClass
  <2>3. [k \in 1..Len(d.fields) |-> Entry(d.fields[k].name, items[k])] = FieldEntries(d, ws)
    BY DEF FieldEntries, n
  <2> HIDE DEF all, items
  <2>4. FieldsOf(d, all) = Got(Map(FieldEntries(d, ws)), tail)
    BY <2>1, <2>3 DEF FieldsOf
  <2> QED
    BY <2>2, <2>4
<1>7. <<>> \in Seq(Byte)
  OBVIOUS
<1> QED
  BY <1>5, <1>6, <1>7

LEMMA ClassBack ==
    ASSUME NEW in, NEW l, NEW m, NEW e \in Nat, e + 1 <= MaxNesting, Reads(in, e),
           Returns(in, l, m), Allows(in, l), NEW p \in Platforms, NEW q \in Platforms,
           NEW d \in Declaration, NEW v \in ValueSet, LegalClass(l, p, d, v)
    PROVE  \E w : /\ PutClass(in, p, d, v) \in Seq(Byte)
                  /\ \A tail \in Seq(Byte) : GetClass(in, q, d, PutClass(in, p, d, v) \o tail) = Got(w, tail)
                  /\ ClassMeaning(m, q, d, w) = ClassMeaning(m, p, d, v)
                  /\ AcceptsClass(in, q, d, w) => LegalClass(l, q, d, w)
                  /\ w.is = "map"
<1> DEFINE n == Len(d.fields)
<1>1. PICK ws : FieldsBack(in, l, m, p, q, d, v, ws)
  BY FieldsCome
<1> DEFINE items == FieldEntries(d, ws)
           w == Map(items)
<1>2. n \in Nat
  BY DeclarationIsRecord
<1>3. w.items = items /\ w.is = "map"
  BY DEF Map, Value
<1>4. Len(items) = n /\ \A k \in 1..n : items[k] = Entry(d.fields[k].name, ws[k])
  BY <1>2 DEF FieldEntries
<1> HIDE DEF items, w
<1>5. FieldsIn(d, ws, w)
  <2>1. \A i, k \in 1..n : d.fields[i].name = d.fields[k].name => i = k
    BY DEF LegalClass
  <2>2. EntriesOf(d, ws, w)
    BY <1>3, <1>4, <2>1 DEF EntriesOf
  <2> QED
    BY <2>2, FieldsFound
<1>6. /\ ClassMeaning(m, q, d, w) = ClassMeaning(m, p, d, v)
      /\ AcceptsClass(in, q, d, w) => LegalClass(l, q, d, w)
  BY <1>1, <1>5, FieldsMeant
<1>7. /\ PutClass(in, p, d, v) \in Seq(Byte)
      /\ \A tail \in Seq(Byte) : GetClass(in, q, d, PutClass(in, p, d, v) \o tail) = Got(w, tail)
  BY <1>1, ClassArrives DEF w, items
<1> QED
  BY <1>3, <1>6, <1>7

\* The position of a class is a byte that both sides read alike.
ReadAsByte(q, bytes, k) ==
    \A t \in Seq(Byte) : \E x : GetNumber(q, "byte", bytes \o t) = Got(x, t) /\ x.n = k

LEMMA PositionArrives ==
    ASSUME NEW p \in Platforms, NEW q \in Platforms, NEW k \in 0..127
    PROVE  PutByte(p, k) \in Seq(Byte) /\ ReadAsByte(q, PutByte(p, k), k)
<1>1. k \in Int /\ k % 256 = k /\ k \in Byte /\ ~(k > 127)
  BY DEF Byte
<1>2. PutByte(p, k) = <<k>>
  BY <1>1 DEF PutByte
<1>3. NumberBytes(k, 1) = <<k>> /\ WidthOf("byte") = 1 /\ "byte" \in NumberKinds
  BY <1>1, OneByte DEF WidthOf, NumberKinds, WholeKinds
<1>4. Arrived(q, "byte", k).n = k
  <2>1. \A a : Number("int", a).n = a /\ Number("byte", a).n = a
    BY DEF Number, Value
  <2>2. Signed(k) = k
    BY <1>1 DEF Signed
  <2> QED
    BY <1>1, <2>1, <2>2 DEF Arrived
<1>5. ASSUME NEW t \in Seq(Byte)
      PROVE  GetNumber(q, "byte", PutByte(p, k) \o t) = Got(Arrived(q, "byte", k), t)
  <2>1. GetNumber(q, "byte", NumberBytes(k, WidthOf("byte")) \o t) = Got(Arrived(q, "byte", k), t)
    BY <1>1, <1>3, NumberArrives
  <2> QED
    BY <1>2, <1>3, <2>1
<1>6. PutByte(p, k) \in Seq(Byte)
  BY <1>1, <1>2
<1> QED
  BY <1>4, <1>5, <1>6 DEF ReadAsByte

\* A hint that is a position names that class, and leaves no other to choose.
LEMMA HintChooses ==
    ASSUME NEW u \in Declaration, NEW n \in Nat, n = Len(u.values),
           \A i \in 1..n : Resolve(u.values[i]) \in Declaration,
           NEW w, Has(w, ":type"), NEW j \in 1..n, At(w, ":type") = Number("int", j - 1)
    PROVE  /\ Members(u, w) = {j} /\ MemberOf(u, w) = Resolve(u.values[j])
           /\ \A q : Candidates(q, u, w) = {j} /\ Chosen(q, u, w) = j
<1>1. ASSUME NEW i \in 1..n PROVE Hints(u, i, w) <=> i = j
  <2> DEFINE hint == At(w, ":type")
  <2>1. hint.is = "int" /\ hint.n = j - 1 /\ "int" \in WholeKinds
    <3>1. \A a : Number("int", a).is = "int" /\ Number("int", a).n = a
      BY DEF Number, Value
    <3> QED
      BY <3>1 DEF WholeKinds
  <2>2. Hints(u, i, w) <=> (hint.is \in WholeKinds /\ hint.n = i - 1) \/ (hint.is = "text" /\ hint.t = u.values[i])
    BY DEF Hints
  <2> HIDE DEF hint
  <2>3. Hints(u, i, w) <=> j - 1 = i - 1
    BY <2>1, <2>2
  <2> QED
    BY <2>3
<1>2. Members(u, w) = {j}
  BY <1>1 DEF Members
<1>3. Min({j}) = j
  BY DEF Min
<1>4. ":type" \in KeysOf(w)
  BY DEF Has, EntryAt, KeysOf
<1>5. ASSUME NEW q PROVE Candidates(q, u, w) = {j}
  <2>1. ASSUME NEW i \in 1..n
        PROVE  (IF q = "python" THEN PyFits(u, i, w) ELSE KtFits(u, i, w)) <=> i = j
    <3>1. ":type" \notin NamesOf(Resolve(u.values[i]))
      BY NoFieldIsTheHint
    <3>2. (PyFits(u, i, w) <=> Hints(u, i, w)) /\ (KtFits(u, i, w) <=> Hints(u, i, w))
      BY <1>4, <3>1 DEF PyFits, KtFits
    <3> QED
      BY <1>1, <3>2
  <2> QED
    BY <2>1 DEF Candidates
<1> QED
  BY <1>2, <1>3, <1>5 DEF MemberOf, Chosen

\* What is put of a union is read as its class with the position as its hint.
HintedMap(d, ws, k) == Map(Append(FieldEntries(d, ws), Entry(":type", Number("int", k))))

LEMMA HintedFacts ==
    ASSUME NEW d \in Declaration, NEW ws, NEW k \in Nat,
           \A i, j \in 1..Len(d.fields) : d.fields[i].name = d.fields[j].name => i = j
    PROVE  /\ HintedMap(d, ws, k).is = "map"
           /\ EntriesOf(d, ws, HintedMap(d, ws, k))
           /\ Has(HintedMap(d, ws, k), ":type") /\ At(HintedMap(d, ws, k), ":type") = Number("int", k)
<1> DEFINE n == Len(d.fields)
           s == FieldEntries(d, ws)
           hint == Entry(":type", Number("int", k))
           items == Append(s, hint)
           w == HintedMap(d, ws, k)
<1>1. n \in Nat
  BY DeclarationIsRecord
<1>2. s = [i \in 1..n |-> Entry(d.fields[i].name, ws[i])]
  BY DEF FieldEntries
<1>3. Len(s) = n /\ \A i \in 1..n : s[i] = Entry(d.fields[i].name, ws[i])
  BY <1>1, <1>2
<1>4. w.is = "map" /\ w.items = items
  BY DEF HintedMap, Map, Value
<1>5. \A x, y : Entry(x, y).t = x /\ Entry(x, y).items[1] = y
  BY DEF Entry, Value
<1>6. s \in Seq({s[i] : i \in 1..n} \cup {hint})
  <2> HIDE DEF hint
  <2>1. \A i \in 1..n : s[i] \in {s[a] : a \in 1..n} \cup {hint}
    OBVIOUS
  <2> DEFINE S == {s[a] : a \in 1..n} \cup {hint}
  <2>2. s \in [1..n -> S]
    <3>1. s = [i \in 1..n |-> s[i]]
      BY <1>2, <1>3
    <3> HIDE DEF s
    <3> QED
      BY <2>1, <3>1
  <2> HIDE DEF S, s, n
  <2>3. s \in Seq(S)
    BY <1>1, <2>2
  <2> QED
    BY <2>3 DEF S
<1>7. Len(items) = n + 1 /\ items[n + 1] = hint /\ \A i \in 1..n : items[i] = s[i]
  <2> DEFINE S == {s[a] : a \in 1..n} \cup {hint}
  <2>1. s \in Seq(S) /\ hint \in S
    BY <1>6
  <2> HIDE DEF S, s, hint, n
  <2> QED
    BY <1>1, <1>3, <2>1
<1> HIDE DEF w, items, s
<1>8. items[n + 1].t = ":type" /\ items[n + 1].items[1] = Number("int", k)
  BY <1>5, <1>7
<1> HIDE DEF hint
<1>9. EntriesOf(d, ws, w)
  BY <1>3, <1>4, <1>7, <1>8 DEF EntriesOf
<1>10. EntryAt(w, ":type") = {n + 1}
  <2>1. n + 1 \in EntryAt(w, ":type")
    BY <1>1, <1>4, <1>7, <1>8 DEF EntryAt
  <2>2. ASSUME NEW i \in EntryAt(w, ":type") PROVE i = n + 1
    <3>1. i \in 1..(n + 1) /\ items[i].t = ":type"
      BY <1>4, <1>7, <2>2 DEF EntryAt
    <3>2. CASE i \in 1..n
      <4>1. items[i].t = d.fields[i].name
        BY <1>3, <1>5, <1>7, <3>2
      <4>2. d.fields[i].name # ":type"
        BY <3>2, NoFieldIsTheHint DEF NamesOf
      <4> QED
        BY <3>1, <4>1, <4>2
    <3> QED
      BY <1>1, <3>1, <3>2
  <2> QED
    BY <2>1, <2>2
<1>11. (CHOOSE i \in EntryAt(w, ":type") : TRUE) = n + 1
  BY <1>10
<1>12. Has(w, ":type") /\ At(w, ":type") = Number("int", k)
  BY <1>4, <1>8, <1>10, <1>11 DEF Has, At
<1> QED
  BY <1>4, <1>9, <1>12 DEF w

LEMMA UnionBack ==
    ASSUME NEW in, NEW l, NEW m, NEW e \in Nat, e + 1 <= MaxNesting, Reads(in, e),
           Returns(in, l, m), Allows(in, l), NEW p \in Platforms, NEW q \in Platforms,
           NEW u \in Declaration, \A k \in 1..Len(u.values) : Resolve(u.values[k]) \in Declaration,
           NEW v \in ValueSet, LegalUnion(l, p, u, v)
    PROVE  \E w : /\ PutUnion(in, p, u, v) \in Seq(Byte)
                  /\ \A tail \in Seq(Byte) : GetUnion(in, q, u, PutUnion(in, p, u, v) \o tail) = Got(w, tail)
                  /\ MemberOf(u, w) = MemberOf(u, v)
                  /\ ClassMeaning(m, q, MemberOf(u, v), w) = ClassMeaning(m, p, MemberOf(u, v), v)
                  /\ AcceptsUnion(in, q, u, w) => LegalUnion(l, q, u, w)
                  /\ w.is = "map"
<1> DEFINE i == Chosen(p, u, v)
           d == Resolve(u.values[i])
           pos == SelectInSeq(u.values, LAMBDA name : name = u.values[i])
           n == Len(u.values)
<1>1. n \in Nat /\ i \in 1..n /\ i <= 128 /\ MemberOf(u, v) = d
  <2>1. n \in Nat
    BY DeclarationIsRecord
  <2>2. Candidates(p, u, v) # {} /\ Chosen(p, u, v) <= 128 /\ MemberOf(u, v) = d
    BY UnionChosen
  <2> QED
    BY <2>1, <2>2, ChosenFacts
<1>2. pos \in 1..i /\ u.values[pos] = u.values[i]
  BY <1>1, PositionFacts
<1>3. d \in Declaration /\ LegalClass(l, p, d, v)
  BY <1>1 DEF LegalUnion
<1> DEFINE k == pos - 1
           put == PutClass(in, p, d, v)
<1>4. PutUnion(in, p, u, v) = PutByte(p, k) \o put
  BY DEF PutUnion, PutMember
<1> HIDE DEF pos, i
<1>5. k \in 0..127 /\ k \in Nat /\ pos \in 1..n /\ k + 1 = pos /\ Resolve(u.values[pos]) = d
  BY <1>1, <1>2
<1> HIDE DEF k, d, n
<1>6. PICK ws : FieldsBack(in, l, m, p, q, d, v, ws)
  BY <1>3, FieldsCome
<1> DEFINE w == HintedMap(d, ws, k)
<1>7. w.is = "map" /\ EntriesOf(d, ws, w) /\ Has(w, ":type") /\ At(w, ":type") = Number("int", k)
  <2>1. \A a, b \in 1..Len(d.fields) : d.fields[a].name = d.fields[b].name => a = b
    BY <1>3 DEF LegalClass
  <2> QED
    BY <1>3, <1>5, <2>1, HintedFacts
<1>8. /\ put \in Seq(Byte)
      /\ \A t \in Seq(Byte) : GetClass(in, q, d, put \o t) = Got(Map(FieldEntries(d, ws)), t)
  BY <1>3, <1>6, ClassArrives
<1> HIDE DEF put
<1>9. /\ PutByte(p, k) \in Seq(Byte) /\ PutUnion(in, p, u, v) \in Seq(Byte)
      /\ ReadAsByte(q, PutByte(p, k), k)
  <2>1. PutByte(p, k) \in Seq(Byte) /\ ReadAsByte(q, PutByte(p, k), k)
    BY <1>5, PositionArrives
  <2>2. PutUnion(in, p, u, v) \in Seq(Byte)
    BY <1>4, <1>8, <2>1, Parts
  <2> QED
    BY <2>1, <2>2
<1>10. ASSUME NEW tail \in Seq(Byte)
       PROVE  GetUnion(in, q, u, PutUnion(in, p, u, v) \o tail) = Got(w, tail)
  <2> DEFINE t == put \o tail
             class == Got(Map(FieldEntries(d, ws)), tail)
  <2>1. t \in Seq(Byte)
    BY <1>8, Parts
  <2>2. PutUnion(in, p, u, v) \o tail = PutByte(p, k) \o t
    BY <1>4, <1>8, <1>9, BytesGroup
  <2>3. GetClass(in, q, d, t) = class
    BY <1>8
  <2>4. class.ok /\ class.v.items = FieldEntries(d, ws) /\ class.rest = tail
    <3>1. class.ok /\ class.v = Map(FieldEntries(d, ws)) /\ class.rest = tail
      BY DEF Got
    <3>2. \A s : Map(s).items = s
      BY DEF Map, Value
    <3> HIDE DEF class
    <3> QED
      BY <3>1, <3>2
  <2> HIDE DEF t, class
  <2>5. PICK x : GetNumber(q, "byte", PutByte(p, k) \o t) = Got(x, t) /\ x.n = k
    BY <1>9, <2>1 DEF ReadAsByte
  <2> DEFINE index == Got(x, t)
  <2>6. index.ok /\ index.v.n = k /\ index.rest = t
    BY <2>5 DEF Got
  <2> HIDE DEF index
  <2>7. k \in 0..(n - 1)
    BY <1>1, <1>5
  <2>8. MemberAfter(in, q, u, index) = Got(w, tail)
    <3>1. Resolve(u.values[index.v.n + 1]) = d
      BY <1>5, <2>6
    <3>2. GetClass(in, q, Resolve(u.values[index.v.n + 1]), index.rest) = class
      BY <2>3, <2>6, <3>1
    <3>3. index.v.n \in 0..(Len(u.values) - 1)
      BY <2>6, <2>7 DEF n
    <3> QED
      BY <2>4, <2>6, <3>2, <3>3 DEF MemberAfter, HintedMap
  <2> QED
    BY <2>2, <2>5, <2>8 DEF GetUnion, index
<1>11. /\ Members(u, w) = {pos} /\ MemberOf(u, w) = d
       /\ Candidates(q, u, w) = {pos} /\ Chosen(q, u, w) = pos
  <2>1. At(w, ":type") = Number("int", pos - 1)
    BY <1>7 DEF k
  <2> HIDE DEF w
  <2>2. \A a \in 1..n : Resolve(u.values[a]) \in Declaration
    BY DEF n
  <2> QED
    BY <1>1, <1>5, <1>7, <2>1, <2>2, HintChooses DEF n
<1> HIDE DEF w
<1>12. /\ ClassMeaning(m, q, d, w) = ClassMeaning(m, p, d, v)
       /\ AcceptsClass(in, q, d, w) => LegalClass(l, q, d, w)
  BY <1>3, <1>6, <1>7, FieldsFound, FieldsMeant
<1>13. ASSUME AcceptsUnion(in, q, u, w) PROVE LegalUnion(l, q, u, w)
  <2>1. AcceptsClass(in, q, d, w)
    BY <1>5, <1>11, <1>13 DEF AcceptsUnion, AcceptsMember
  <2>2. pos <= 128
    BY <1>1, <1>2
  <2> QED
    BY <1>7, <1>11, <1>12, <2>1, <2>2 DEF LegalUnion
<1> QED
  BY <1>1, <1>7, <1>9, <1>10, <1>11, <1>12, <1>13

----------------------------------------------------------------------------
\* References.
LEMMA RefBack ==
    ASSUME NEW in, NEW l, NEW m, NEW e \in Nat, e + 1 <= MaxNesting, Reads(in, e),
           Returns(in, l, m), Allows(in, l), NEW p \in Platforms, NEW q \in Platforms,
           NEW T, T.is = "ref", T.name \in DeclaredNames, NEW v \in ValueSet, LegalHere(l, p, T, v)
    PROVE  \E w : BackHere(in, l, m, p, q, T, v, w)
<1> DEFINE d == Resolve(T.name)
<1>1. /\ d \in Declaration
      /\ d.is = "union" => \A k \in 1..Len(d.values) : Resolve(d.values[k]) \in Declaration
  BY ResolveFacts
<1>2. d.is \in {"class", "enum", "union"}
  BY <1>1, DeclarationIsRecord
<1>3. CASE d.is = "enum"
  <2>1. v.is = "text" /\ IsValueOf(d, v.t)
    BY <1>3 DEF LegalHere, LegalOf, WholeKinds
  <2> QED
    BY <1>3, <2>1, EnumBack
<1>4. T.is \notin NumberKinds
  BY DEF NumberKinds, WholeKinds
<1>5. \A w : /\ PutOf(in, p, T, w) = PutRef(in, p, d, w)
             /\ AcceptsOf(in, q, T, w) = AcceptsRef(in, q, d, w)
             /\ \A b : GetOf(in, q, T, b) = GetRef(in, q, d, b)
  BY <1>4 DEF PutOf, AcceptsOf, GetOf, NumberKinds, WholeKinds
<1>6. CASE d.is = "class"
  <2>1. LegalClass(l, p, d, v)
    BY <1>6 DEF LegalHere, LegalOf, WholeKinds
  <2>2. \A r, w : /\ MeaningOf(m, r, T, w) = ClassMeaning(m, r, d, w)
                  /\ LegalHere(l, q, T, w) = LegalClass(l, q, d, w)
    BY <1>6 DEF MeaningOf, LegalHere, LegalOf, WholeKinds
  <2>3. \A w : /\ PutRef(in, p, d, w) = PutClass(in, p, d, w)
               /\ AcceptsRef(in, q, d, w) = AcceptsClass(in, q, d, w)
               /\ \A b : GetRef(in, q, d, b) = GetClass(in, q, d, b)
    BY <1>6 DEF PutRef, AcceptsRef, GetRef
  <2> HIDE DEF d
  <2>4. PICK w : /\ PutClass(in, p, d, v) \in Seq(Byte)
                 /\ \A tail \in Seq(Byte) : GetClass(in, q, d, PutClass(in, p, d, v) \o tail) = Got(w, tail)
                 /\ ClassMeaning(m, q, d, w) = ClassMeaning(m, p, d, v)
                 /\ AcceptsClass(in, q, d, w) => LegalClass(l, q, d, w)
                 /\ w.is = "map"
    BY <1>1, <2>1, ClassBack
  <2>5. BackHere(in, l, m, p, q, T, v, w)
    BY <1>5, <2>2, <2>3, <2>4 DEF BackHere
  <2> QED
    BY <2>5
<1>7. CASE d.is = "union"
  <2>1. LegalUnion(l, p, d, v)
    BY <1>7 DEF LegalHere, LegalOf, WholeKinds
  <2>2. \A r, w : /\ MeaningOf(m, r, T, w) = Entry(MemberOf(d, w).name, ClassMeaning(m, r, MemberOf(d, w), w))
                  /\ LegalHere(l, q, T, w) = LegalUnion(l, q, d, w)
    BY <1>7 DEF MeaningOf, LegalHere, LegalOf, WholeKinds
  <2>3. \A w : /\ PutRef(in, p, d, w) = PutUnion(in, p, d, w)
               /\ AcceptsRef(in, q, d, w) = AcceptsUnion(in, q, d, w)
               /\ \A b : GetRef(in, q, d, b) = GetUnion(in, q, d, b)
    BY <1>7 DEF PutRef, AcceptsRef, GetRef
  <2> HIDE DEF d
  <2>4. PICK w : /\ PutUnion(in, p, d, v) \in Seq(Byte)
                 /\ \A tail \in Seq(Byte) : GetUnion(in, q, d, PutUnion(in, p, d, v) \o tail) = Got(w, tail)
                 /\ MemberOf(d, w) = MemberOf(d, v)
                 /\ ClassMeaning(m, q, MemberOf(d, v), w) = ClassMeaning(m, p, MemberOf(d, v), v)
                 /\ AcceptsUnion(in, q, d, w) => LegalUnion(l, q, d, w)
                 /\ w.is = "map"
    BY <1>1, <1>7, <2>1, UnionBack
  <2>5. BackHere(in, l, m, p, q, T, v, w)
    BY <1>5, <2>2, <2>3, <2>4 DEF BackHere
  <2> QED
    BY <2>5
<1> QED
  BY <1>2, <1>3, <1>6, <1>7

----------------------------------------------------------------------------
\* What untyped maps hold.

PlainRec == INSTANCE Recursion WITH Zero <- NothingPlain, Step <- PlainAround
MeaningRec == INSTANCE Recursion WITH Zero <- NothingMeant, Step <- MeaningAround

\* What a value stands for, at a depth by what it is one less deep.
LEMMA PlainAt == plain[0] = NothingPlain /\ \A d \in Nat : plain[d + 1] = PlainAround(plain[d])
BY NumbersHaveLeast, PlainRec!Unfolds DEF PlainRec!HaveLeast, plain

LEMMA MeaningAt == meaning[0] = NothingMeant /\ \A d \in Nat : meaning[d + 1] = MeaningAround(meaning[d])
BY NumbersHaveLeast, MeaningRec!Unfolds DEF MeaningRec!HaveLeast, meaning

\* Two values stand for the same.
Same(v, w) == \A e \in Nat : plain[e][w] = plain[e][v]

\* They do if they do at every depth but the first, where all do.
LEMMA SameBy ==
    ASSUME NEW v \in ValueSet, NEW w \in ValueSet,
           \A e \in Nat : PlainOf(plain[e], w) = PlainOf(plain[e], v)
    PROVE  Same(v, w)
<1> SUFFICES ASSUME NEW e \in Nat PROVE plain[e][w] = plain[e][v]
  BY DEF Same
<1>1. CASE e = 0
  BY <1>1, PlainAt DEF NothingPlain
<1>2. CASE e # 0
  <2>1. e - 1 \in Nat /\ (e - 1) + 1 = e
    BY <1>2
  <2>2. plain[e] = PlainAround(plain[e - 1])
    BY <2>1, PlainAt
  <2>3. \A x \in ValueSet : PlainAround(plain[e - 1])[x] = PlainOf(plain[e - 1], x)
    BY DEF PlainAround
  <2> QED
    BY <2>1, <2>2, <2>3
<1> QED
  BY <1>1, <1>2

\* What fits a width fits all that are wider.
LEMMA WidthGrows ==
    ASSUME NEW n \in Int, NEW w \in Nat, w >= 1, InWidth(n, w)
    PROVE  InWidth(n, w + 1)
<1>1. w - 1 \in Nat /\ (w - 1) + 1 = w /\ (w + 1) - 1 = w
  OBVIOUS
<1> DEFINE x == Weight[w - 1]
           y == n \div x
<1>2. x \in Nat /\ x > 0 /\ Weight[w] = 256 * x
  BY <1>1, WeightPositive, WeightAt
<1>3. y \in Int /\ y \div 256 = n \div (256 * x)
  <2> HIDE DEF x
  <2> QED
    BY <1>2, Quotients
<1>4. y \in -128..127
  BY DEF InWidth
<1> HIDE DEF x, y
<1>5. y \div 256 \in -1..0
  BY <1>4
<1> QED
  BY <1>1, <1>2, <1>3, <1>5 DEF InWidth

LEMMA WidthsGrow ==
    ASSUME NEW n \in Int, NEW w \in Nat, w >= 1, InWidth(n, w)
    PROVE  \A u \in Nat : w <= u => InWidth(n, u)
<1> DEFINE fails == {u \in Nat : w <= u /\ ~InWidth(n, u)}
<1>1. SUFFICES ASSUME fails # {} PROVE FALSE
  OBVIOUS
<1>2. PICK u \in fails : \A k \in fails : u <= k
  <2>1. fails \in SUBSET Nat
    OBVIOUS
  <2> HIDE DEF fails
  <2> QED
    BY <1>1, <2>1, Least
<1>3. u \in Nat /\ w <= u /\ u # w /\ ~InWidth(n, u)
  BY <1>2
<1>4. u - 1 \in Nat /\ w <= u - 1 /\ u - 1 >= 1 /\ (u - 1) + 1 = u /\ ~(u <= u - 1)
  BY <1>3
<1>5. InWidth(n, u - 1)
  BY <1>2, <1>4
<1> QED
  BY <1>3, <1>4, <1>5, WidthGrows

LEMMA LongFitsAll ==
    ASSUME NEW n \in Int, NEW is \in WholeKinds, InWidth(n, WidthOf(is))
    PROVE  InWidth(n, LongWidth)
<1>1. WidthOf(is) \in 1..8 /\ WidthOf(is) <= LongWidth
  <2>1. WidthOf(is) \in {1, ShortWidth, IntWidth, LongWidth}
    BY DEF WidthOf, WholeKinds
  <2> QED
    BY <2>1, WidthAssumption
<1> DEFINE w == WidthOf(is)
<1>2. w \in Nat /\ w >= 1 /\ LongWidth \in Nat /\ w <= LongWidth
  <2> HIDE DEF w
  <2> QED
    BY <1>1, WidthAssumption DEF w
<1> HIDE DEF w
<1> QED
  BY <1>2, WidthsGrow DEF w

\* What a library says of a value that came back, it said of the value before:
\* Python of what is Python's now, the writer of what goes on in Kotlin.
From(p, r) == IF r = "python" THEN "python" ELSE p

Taken(c, q, w) ==
    \/ c.accepts[q][ValType(q, w)][w]
    \/ q = "python" /\ w.is \in WholeKinds /\ c.accepts[q][Scalar("long")][w]

TakenHere(in, q, w) ==
    \/ AcceptsOf(in, q, ValType(q, w), w)
    \/ q = "python" /\ w.is \in WholeKinds /\ AcceptsOf(in, q, Scalar("long"), w)

SameSize(c, p, q, v, w) ==
    \A r \in {q, "python"} :
        /\ ValType(r, w) = ValType(From(p, r), v)
        /\ c.size[r][ValType(r, w)][w] = c.size[From(p, r)][ValType(From(p, r), v)][v]

SameSizeHere(in, p, q, v, w) ==
    \A r \in {q, "python"} :
        /\ ValType(r, w) = ValType(From(p, r), v)
        /\ SizeOf(in, r, ValType(r, w), w) = SizeOf(in, From(p, r), ValType(From(p, r), v), v)

KindKept(v, w) ==
    IF v.is \in WholeKinds THEN w.is \in WholeKinds ELSE v.is # "list" => w.is = v.is

\* What is put of a value for the type it has in a map is read as one that may
\* be in a map again, if it is let through.
ItemBack(c, l, p, q, T, v, w) ==
    /\ c.put[p][T][v] \in Seq(Byte) /\ Brings(c, q, T, c.put[p][T][v], w)
    /\ w \in ValueSet /\ Same(v, w) /\ KindKept(v, w)
    /\ (T = ValType(p, v) \/ q = "python") /\ Taken(c, q, w)
          => l.storable[q][w] /\ SameSize(c, p, q, v, w)

ItemBackHere(in, l, p, q, T, v, w) ==
    /\ PutOf(in, p, T, v) \in Seq(Byte)
    /\ \A tail \in Seq(Byte) : GetOf(in, q, T, PutOf(in, p, T, v) \o tail) = Got(w, tail)
    /\ w \in ValueSet /\ Same(v, w) /\ KindKept(v, w)
    /\ (T = ValType(p, v) \/ q = "python") /\ TakenHere(in, q, w)
          => Storable(l, q, w) /\ SameSizeHere(in, p, q, v, w)

\* The size of a number or a Boolean is that of its type.
LEMMA FlatSize ==
    ASSUME NEW in, NEW r, NEW is \in NumberKinds \cup {"boolean"}, NEW v
    PROVE  SizeOf(in, r, Scalar(is), v) = WidthOf(is)
<1>1. Scalar(is).is = is /\ is \notin {"string", "null", "array", "map", "option", "ref"}
  BY DEF Scalar, NumberKinds, WholeKinds
<1> QED
  BY <1>1 DEF SizeOf

\* A value that came back as it was.
LEMMA SameBack ==
    ASSUME NEW in, NEW p \in Platforms, NEW q \in Platforms, NEW v \in ValueSet, v.is # "list",
           ValType("kotlin", v) = ValType("python", v),
           SizeOf(in, "kotlin", ValType("python", v), v) = SizeOf(in, "python", ValType("python", v), v)
    PROVE  Same(v, v) /\ KindKept(v, v) /\ SameSizeHere(in, p, q, v, v)
<1>1. Same(v, v) /\ KindKept(v, v)
  BY DEF Same, KindKept
<1>2. \A r \in {q, "python"} : From(p, r) \in {"python", "kotlin"} /\ r \in {"python", "kotlin"}
  BY DEF From, Platforms
<1> QED
  BY <1>1, <1>2 DEF SameSizeHere

\* Numbers.
LEMMA WholeStored ==
    ASSUME NEW in, NEW l, NEW p \in Platforms, NEW q \in Platforms, NEW v \in ValueSet, v.is \in WholeKinds,
           NEW is \in WholeKinds, InWidth(v.n, WidthOf(is)), is = "byte" => v.n >= 0
    PROVE  \E w : ItemBackHere(in, l, p, q, Scalar(is), v, w)
<1> DEFINE n == v.n
           w == Number(IF q = "kotlin" THEN is ELSE "int", n)
           T == Scalar(is)
<1>0. n \in Int /\ is \in NumberKinds /\ T.is = is /\ v.is \notin {"list", "array", "float", "text", "bool", "map", "null"}
  BY InsideFacts DEF NumberKinds, WholeKinds, Scalar
<1>1. is = "byte" => n \in 0..127
  <2>1. WidthOf("byte") = 1
    BY DEF WidthOf
  <2>2. is = "byte" => n \in -128..127
    BY <1>0, <2>1, OneByte
  <2> QED
    BY <1>0, <2>2
<1>2. w.is \in WholeKinds /\ w.n = n /\ w.is = (IF q = "kotlin" THEN is ELSE "int")
      /\ w.is \notin {"list", "array", "float", "text", "bool", "map", "null"}
  BY DEF Number, Value, WholeKinds
<1>3. w \in ValueSet
  <2>1. w.is \in NumberKinds
    BY <1>2 DEF NumberKinds
  <2>2. w \in Unnested
    <3>1. \A k \in NumberKinds : Number(k, n) \in Unnested
      BY <1>0, ScalarsUnnested
    <3>2. (IF q = "kotlin" THEN is ELSE "int") \in NumberKinds
      BY DEF NumberKinds, WholeKinds
    <3> QED
      BY <3>1, <3>2
  <2> QED
    BY <2>2, ValueSetIs
<1>4. Arrived(q, is, n) = w
  <2>1. is = "byte" => n % 256 = n /\ Signed(n) = n
    <3>1. is = "byte" => n % 256 = n /\ ~(n > 127)
      BY <1>0, <1>1
    <3> QED
      BY <3>1 DEF Signed
  <2>2. q \in {"python", "kotlin"} /\ is # "float"
    BY DEF Platforms, WholeKinds
  <2> QED
    BY <2>1, <2>2 DEF Arrived, NumberAs
<1>5. PutOf(in, p, T, v) = NumberBytes(n, WidthOf(is))
  <2>1. Whole(p, v) = {n}
    BY <1>0 DEF Whole, PyWhole, KtWhole
  <2>2. (CHOOSE k \in Whole(p, v) : TRUE) = n
    BY <2>1
  <2> HIDE DEF n, T
  <2>3. PutOf(in, p, T, v) = NumberBytes(CHOOSE k \in Whole(p, v) : TRUE, WidthOf(T.is))
    BY <1>0 DEF PutOf, WholeKinds
  <2> QED
    BY <1>0, <2>2, <2>3
<1>6. NumberBytes(n, WidthOf(is)) \in Seq(Byte)
  <2>1. WidthOf(is) \in Nat
    BY <1>0, Widths
  <2> HIDE DEF n
  <2> QED
    BY <1>0, <2>1, NumberBytesFacts
<1>7. ASSUME NEW tail \in Seq(Byte)
      PROVE  GetOf(in, q, T, PutOf(in, p, T, v) \o tail) = Got(w, tail)
  <2>1. GetNumber(q, is, NumberBytes(n, WidthOf(is)) \o tail) = Got(Arrived(q, is, n), tail)
    BY <1>0, NumberArrives
  <2> HIDE DEF T, w, n
  <2>2. \A b : GetOf(in, q, T, b) = GetNumber(q, is, b)
    BY <1>0 DEF GetOf, NumberKinds, WholeKinds
  <2> QED
    BY <1>4, <1>5, <2>1, <2>2
<1>8. KindKept(v, w)
  BY <1>2 DEF KindKept
<1>9. Same(v, w)
  <2>1. ASSUME NEW e \in Nat PROVE PlainOf(plain[e], w) = PlainOf(plain[e], v)
    <3> HIDE DEF w
    <3> QED
      BY <1>2 DEF PlainOf, WholeKinds
  <2> HIDE DEF w
  <2> QED
    BY <1>3, <2>1, SameBy
<1>10. InWidth(n, LongWidth) /\ WidthOf("long") = LongWidth
  <2>1. WidthOf("long") = LongWidth
    BY DEF WidthOf
  <2> QED
    BY <1>0, <2>1, LongFitsAll
<1>11. Storable(l, q, w)
  <2>1. IsWhole("python", "long", w)
    BY <1>2, <1>10 DEF IsWhole
  <2>2. q = "kotlin" => IsWhole(q, w.is, w) /\ (w.is = "byte" => w.n >= 0)
    BY <1>2 DEF IsWhole
  <2> HIDE DEF w
  <2>3. q = "python" \/ q = "kotlin"
    BY DEF Platforms
  <2> QED
    BY <1>2, <2>1, <2>2, <2>3 DEF Storable
<1>12. ASSUME T = ValType(p, v) \/ q = "python" PROVE SameSizeHere(in, p, q, v, w)
  <2> DEFINE k == IF InWidth(n, IntWidth) THEN "int" ELSE "long"
  <2>1. ValType("python", w) = Scalar(k) /\ ValType("python", v) = Scalar(k)
    <3>1. KindOf("python", w) = k /\ KindOf("python", v) = k
      BY <1>0, <1>2 DEF KindOf, PyKind
    <3> HIDE DEF w, k
    <3> QED
      BY <1>0, <1>2, <1>3, <3>1, KindType DEF Platforms
  <2>2. k \in NumberKinds
    BY DEF NumberKinds, WholeKinds
  <2>3. q # "python" => q = "kotlin" /\ ValType(q, w) = Scalar(is) /\ ValType(p, v) = Scalar(is)
    <3>1. q # "python" => q = "kotlin" /\ w.is = is /\ KindOf(q, w) = is
      BY <1>2 DEF KindOf, KtKind, Platforms
    <3> HIDE DEF w
    <3>2. ValType(q, w) = Scalar(KindOf(q, w))
      BY <1>2, <1>3, KindType
    <3> QED
      BY <1>12, <3>1, <3>2
  <2> HIDE DEF w, k, n
  <2>4. ASSUME NEW r \in {q, "python"}
        PROVE  /\ ValType(r, w) = ValType(From(p, r), v)
               /\ SizeOf(in, r, ValType(r, w), w) = SizeOf(in, From(p, r), ValType(From(p, r), v), v)
    <3>1. CASE r = "python"
      BY <2>1, <2>2, <3>1, FlatSize DEF From
    <3>2. CASE r # "python"
      <4>1. r = q /\ From(p, r) = p
        BY <3>2 DEF From
      <4> QED
        BY <1>0, <2>3, <3>2, <4>1, FlatSize
    <3> QED
      BY <3>1, <3>2
  <2> QED
    BY <2>4 DEF SameSizeHere
<1> HIDE DEF w, T, n
<1>13. ItemBackHere(in, l, p, q, T, v, w)
  BY <1>3, <1>5, <1>6, <1>7, <1>8, <1>9, <1>11, <1>12 DEF ItemBackHere
<1> QED
  BY <1>13 DEF T

\* Texts, Booleans and null come back as they were.
LEMMA PlainValueIs ==
    ASSUME NEW v \in ValueSet, v.is \in {"null", "bool", "float"}
    PROVE  /\ v.is = "null" => v = Null
           /\ v.is = "bool" => v = Bool(v.n # 0) /\ v.n \in {0, 1}
           /\ v.is = "float" => v = Number("float", v.n) /\ v.n \in Int
<1>1. v \in Unnested
  BY ValueSetIs, NestedCases, ListFacts, MapFacts
<1>2. /\ \A x \in Booleans : x.is = "bool"
      /\ \A x \in Numbers : x.is \in NumberKinds
      /\ \A x \in TextValues : x.is = "text"
      /\ \A x \in Arrays : x.is = "array"
      /\ Null.is = "null" /\ NumberKinds \cap {"null", "bool", "text", "array"} = {}
  <2>1. \A x \in Booleans : x.is = "bool"
    BY BoolFacts DEF Booleans
  <2>2. (\A x \in Numbers : x.is \in NumberKinds) /\ (\A x \in Arrays : x.is = "array")
        /\ (\A x \in TextValues : x.is = "text")
    BY DEF Numbers, Arrays, TextValues
  <2>3. Null.is = "null" /\ NumberKinds \cap {"null", "bool", "text", "array"} = {}
    BY DEF Null, Value, NumberKinds, WholeKinds
  <2> QED
    BY <2>1, <2>2, <2>3
<1>3. CASE v.is = "null"
  BY <1>1, <1>2, <1>3 DEF Unnested
<1>4. CASE v.is = "bool"
  <2>1. v \in Booleans
    BY <1>1, <1>2, <1>4 DEF Unnested
  <2>2. v = Bool(FALSE) \/ v = Bool(TRUE)
    BY <2>1 DEF Booleans
  <2>3. Bool(FALSE).n = 0 /\ Bool(TRUE).n = 1
    BY DEF Bool, Value
  <2>4. (0 # 0) = FALSE /\ (1 # 0) = TRUE
    OBVIOUS
  <2>5. v = Bool(v.n # 0) /\ v.n \in {0, 1}
    BY <2>2, <2>3, <2>4
  <2> QED
    BY <1>4, <2>5
<1>5. CASE v.is = "float"
  <2>1. v \in Numbers
    BY <1>1, <1>2, <1>5 DEF Unnested
  <2> QED
    BY <1>5, <2>1 DEF Numbers, Number, Value
<1> QED
  BY <1>3, <1>4, <1>5

LEMMA BooleanReturns ==
    ASSUME NEW in, NEW p \in Platforms, NEW q \in Platforms, NEW v \in ValueSet, v.is = "bool"
    PROVE  /\ PutOf(in, p, Scalar("boolean"), v) \in Seq(Byte)
           /\ \A tail \in Seq(Byte) :
                 GetOf(in, q, Scalar("boolean"), PutOf(in, p, Scalar("boolean"), v) \o tail) = Got(v, tail)
<1> DEFINE T == Scalar("boolean")
<1>0. T.is = "boolean"
  BY DEF Scalar
<1> HIDE DEF T
<1>1. v = Bool(v.n # 0) /\ v.n \in {0, 1}
  BY PlainValueIs
<1>2. IsTrue(p, v) <=> v.n = 1
  <2>1. PyTrue(v) <=> v.n = 1
    BY DEF PyTrue, WholeKinds
  <2>2. KtTrue(v) <=> v.n = 1
    <3>1. ToText("kotlin", v) = IF v.n = 1 THEN "true" ELSE "false"
      BY DEF ToText
    <3> QED
      BY <3>1 DEF KtTrue
  <2> QED
    BY <2>1, <2>2 DEF IsTrue
<1>3. PutOf(in, p, T, v) = <<v.n>>
  <2>1. PutOf(in, p, T, v) = <<IF IsTrue(p, v) THEN 1 ELSE 0>>
    BY <1>0 DEF PutOf, WholeKinds
  <2> QED
    BY <1>1, <1>2, <2>1
<1>4. v.n \in Byte /\ <<v.n>> \in Seq(Byte)
  BY <1>1 DEF Byte
<1>5. ASSUME NEW tail \in Seq(Byte)
      PROVE  GetOf(in, q, T, <<v.n>> \o tail) = Got(v, tail)
  <2> DEFINE bytes == <<v.n>> \o tail
             x == v.n
  <2>1. bytes # <<>> /\ bytes[1] = x /\ Tail(bytes) = tail
    <3> HIDE DEF x
    <3> QED
      BY <1>4 DEF x
  <2>2. Bool(x # 0) = v /\ Bool(x = 1) = v
    <3>1. (x = 1) = (x # 0)
      BY <1>1
    <3> QED
      BY <1>1, <3>1
  <2> HIDE DEF bytes, x
  <2>3. GetBoolean(q, bytes) = Got(v, tail)
    BY <2>1, <2>2 DEF GetBoolean
  <2> QED
    BY <1>0, <2>3 DEF GetOf, NumberKinds, WholeKinds, bytes
<1> QED
  BY <1>3, <1>4, <1>5 DEF T

LEMMA UnchangedStored ==
    ASSUME NEW in, NEW l, NEW p \in Platforms, NEW q \in Platforms, NEW v \in ValueSet,
           v.is \in {"text", "null", "bool"}, Storable(l, p, v)
    PROVE  ItemBackHere(in, l, p, q, ValType(p, v), v, v)
<1> DEFINE kind == IF v.is = "text" THEN "string" ELSE IF v.is = "bool" THEN "boolean" ELSE v.is
           T == Scalar(kind)
<1>0. T.is = kind /\ kind \in {"string", "null", "boolean"}
  BY DEF Scalar
<1>1. ValType("python", v) = T /\ ValType("kotlin", v) = T /\ ValType(p, v) = T
  <2>1. KindOf("python", v) = kind /\ KindOf("kotlin", v) = kind
    BY DEF KindOf, PyKind, KtKind, WholeKinds
  <2> HIDE DEF kind
  <2>2. ValType("python", v) = T /\ ValType("kotlin", v) = T
    BY <2>1, KindType DEF Platforms
  <2> QED
    BY <2>2 DEF Platforms
<1>2. Storable(l, q, v)
  BY DEF Storable, WholeKinds
<1>3. SizeOf(in, "kotlin", T, v) = SizeOf(in, "python", T, v)
  <2>1. CASE v.is = "text"
    <3>1. T.is = "string"
      BY <1>0, <2>1
    <3> HIDE DEF T
    <3>2. ToText("kotlin", v) = ToText("python", v)
      BY <2>1 DEF ToText
    <3> QED
      BY <3>1, <3>2 DEF SizeOf
  <2>2. CASE v.is = "null"
    <3>1. T.is = "null"
      BY <1>0, <2>2
    <3> HIDE DEF T
    <3> QED
      BY <3>1 DEF SizeOf
  <2>3. CASE v.is = "bool"
    <3>1. kind \in NumberKinds \cup {"boolean"}
      BY <2>3 DEF NumberKinds
    <3> HIDE DEF kind
    <3> QED
      BY <3>1, FlatSize
  <2> QED
    BY <2>1, <2>2, <2>3
<1>4. Same(v, v) /\ KindKept(v, v) /\ SameSizeHere(in, p, q, v, v)
  <2> HIDE DEF T
  <2> QED
    BY <1>1, <1>3, SameBack
<1>5. /\ PutOf(in, p, T, v) \in Seq(Byte)
      /\ \A tail \in Seq(Byte) : GetOf(in, q, T, PutOf(in, p, T, v) \o tail) = Got(v, tail)
  <2>1. CASE v.is = "bool"
    <3>1. T = Scalar("boolean")
      BY <2>1
    <3> HIDE DEF T
    <3> QED
      BY <2>1, <3>1, BooleanReturns
  <2>2. CASE v.is = "null"
    <3>1. T.is = "null" /\ v = Null
      BY <1>0, <2>2, PlainValueIs
    <3> HIDE DEF T
    <3>2. PutOf(in, p, T, v) = <<>> /\ \A b : GetOf(in, q, T, b) = Got(Null, b)
      BY <3>1 DEF PutOf, GetOf, NumberKinds, WholeKinds
    <3>3. <<>> \in Seq(Byte)
      OBVIOUS
    <3> QED
      BY <3>1, <3>2, <3>3, BytesGroup
  <2>3. CASE v.is = "text"
    <3>1. T.is = "string" /\ v = Text(v.t) /\ v.t \in TextNames /\ Counted(Len(TextBytes(v.t)))
      <4>1. T.is = "string"
        BY <1>0, <2>3
      <4>2. Counted(Len(TextBytes(v.t)))
        BY <2>3 DEF Storable, IsText, WholeKinds
      <4> QED
        BY <2>3, <4>1, <4>2, TextIs
    <3> HIDE DEF T
    <3>2. ToText(p, v) = v.t
      BY <2>3 DEF ToText
    <3>3. PutOf(in, p, T, v) = PutText(v.t) /\ PutText(v.t) \in Seq(Byte)
      BY <3>1, <3>2, PutTextFacts DEF PutOf, NumberKinds, WholeKinds
    <3>4. ASSUME NEW tail \in Seq(Byte)
          PROVE  GetOf(in, q, T, PutText(v.t) \o tail) = Got(v, tail)
      <4>1. GetString(q, PutText(v.t) \o tail) = Got(Text(v.t), tail)
        BY <3>1, TextArrives
      <4> QED
        BY <3>1, <4>1 DEF GetOf, NumberKinds, WholeKinds
    <3> QED
      BY <3>3, <3>4
  <2> QED
    BY <2>1, <2>2, <2>3
<1> HIDE DEF T, kind
<1> QED
  BY <1>1, <1>2, <1>4, <1>5 DEF ItemBackHere

\* A float comes back as the single that is nearest to it.
LEMMA FloatStored ==
    ASSUME NEW in, NEW l, NEW p \in Platforms, NEW q \in Platforms, NEW v \in ValueSet,
           v.is = "float", Storable(l, p, v)
    PROVE  \E w : ItemBackHere(in, l, p, q, ValType(p, v), v, w)
<1> DEFINE n == Single(v.n)
           w == Number("float", n)
           T == Scalar("float")
<1>0. T.is = "float" /\ v.n \in Int /\ v.is \in NumberKinds
  BY InsideFacts DEF Scalar, NumberKinds
<1>1. Halves(p, v) = {v.n} /\ InWidth(n, WidthOf("float"))
  <2>1. IsFloat(p, v)
    BY DEF Storable, WholeKinds
  <2>2. Amount(p, v) = {v.n}
    BY DEF Amount
  <2>3. Halves(p, v) = {v.n}
    BY <2>1, <2>2 DEF Halves, IsFloat
  <2> QED
    BY <2>1, <2>3 DEF IsFloat
<1>2. /\ w.is = "float" /\ w.n = n /\ n \in Int /\ Single(n) = n /\ IsFloat(q, w)
  BY <1>0, <1>1, SingleIs
<1>3. w \in ValueSet
  <2>1. w \in Unnested
    BY <1>0, <1>2, ScalarsUnnested
  <2> QED
    BY <2>1, ValueSetIs
<1>4. /\ PutOf(in, p, T, v) \in Seq(Byte)
      /\ \A tail \in Seq(Byte) : GetOf(in, q, T, PutOf(in, p, T, v) \o tail) = Got(w, tail)
  <2>1. PICK k \in Int : k = v.n
    BY <1>0
  <2>2. Halves(p, v) = {k} /\ InWidth(Single(k), WidthOf("float")) /\ w = Number("float", Single(k))
    BY <1>1, <2>1
  <2> HIDE DEF T, w
  <2>3. /\ PutOf(in, p, T, v) \in Seq(Byte)
        /\ \A tail \in Seq(Byte) :
              GetOf(in, q, T, PutOf(in, p, T, v) \o tail) = Got(Number("float", Single(k)), tail)
    BY <1>0, <2>2, FloatGoes
  <2> QED
    BY <2>2, <2>3
<1> HIDE DEF w
<1>5. Same(v, w)
  <2>1. ASSUME NEW e \in Nat PROVE PlainOf(plain[e], w) = PlainOf(plain[e], v)
    BY <1>2 DEF PlainOf, WholeKinds
  <2> QED
    BY <1>3, <2>1, SameBy
<1>6. KindKept(v, w)
  BY <1>2 DEF KindKept, WholeKinds
<1>7. Storable(l, q, w)
  BY <1>2 DEF Storable, WholeKinds
<1>8. \A r \in Platforms : ValType(r, w) = T /\ ValType(r, v) = T
  <2>1. \A r \in Platforms : KindOf(r, w) = "float" /\ KindOf(r, v) = "float"
    BY <1>2 DEF KindOf, PyKind, KtKind, WholeKinds
  <2> QED
    BY <1>2, <1>3, <2>1, KindType
<1>9. SameSizeHere(in, p, q, v, w)
  <2>1. "float" \in NumberKinds \cup {"boolean"}
    BY DEF NumberKinds
  <2>2. \A r \in Platforms : \A x : SizeOf(in, r, T, x) = WidthOf("float")
    BY <2>1, FlatSize
  <2> HIDE DEF T
  <2>3. \A r \in {q, "python"} : r \in Platforms /\ From(p, r) \in Platforms
    BY DEF From, Platforms
  <2> QED
    BY <1>8, <2>2, <2>3 DEF SameSizeHere
<1> HIDE DEF T
<1> QED
  BY <1>3, <1>4, <1>5, <1>6, <1>7, <1>8, <1>9 DEF ItemBackHere

\* The kinds of values that may be in a map, and the kinds of types for them.
StorableKinds == NumberKinds \cup {"text", "bool", "null", "map", "list"}
MixKinds == NumberKinds \cup {"boolean", "string", "map"}

StoredBackAt(c, l, p, q, v) ==
    /\ v.is \in StorableKinds /\ Told(ValType(p, v))
    /\ \E w : ItemBack(c, l, p, q, ValType(p, v), v, w)
    /\ p = "python" /\ v.is \in WholeKinds => \E w : ItemBack(c, l, p, q, Scalar("long"), v, w)

StoredBack(c, l) ==
    \A p, q \in Platforms : \A v \in ValueSet : l.storable[p][v] => StoredBackAt(c, l, p, q, v)

\* What a codec says of numbers depends on their type and their width.
Plainly(c) ==
    /\ \A r, s \in Platforms : \A is \in NumberKinds \cup {"boolean"} : \A v, w \in ValueSet :
          c.size[r][Scalar(is)][v] = c.size[s][Scalar(is)][w]
    /\ \A v \in ValueSet : v.is \in WholeKinds /\ c.accepts["python"][Scalar("int")][v] => InWidth(v.n, IntWidth)

\* The values a list of a kind has.
ValueKind(kind) == IF kind = "string" THEN "text" ELSE IF kind = "boolean" THEN "bool" ELSE kind

OfKind(kind, x) == IF kind \in WholeKinds THEN x.is \in WholeKinds ELSE x.is = ValueKind(kind)

LEMMA OfKindFacts ==
    ASSUME NEW kind \in MixKinds, NEW x \in ValueSet, OfKind(kind, x)
    PROVE  /\ x.is \notin {"null", "list", "array"}
           /\ kind \notin WholeKinds => \A r \in Platforms : ValType(r, x) = Scalar(kind)
           /\ kind \in WholeKinds =>
                 ValType("python", x) = Scalar(IF InWidth(x.n, IntWidth) THEN "int" ELSE "long")
           /\ kind \in NumberKinds \cup {"boolean"} =>
                 \A r \in Platforms : \E is \in NumberKinds \cup {"boolean"} : ValType(r, x) = Scalar(is)
           /\ \A w : KindKept(x, w) => OfKind(kind, w)
<1>1. x.is \in NumberKinds \cup {"text", "bool", "map"} /\ x.is \notin {"null", "list", "array"}
  BY DEF OfKind, ValueKind, MixKinds, NumberKinds, WholeKinds
<1>2. \A r \in Platforms : ValType(r, x) = Scalar(KindOf(r, x))
  BY <1>1, KindType
<1>3. kind \notin WholeKinds => \A r \in Platforms : KindOf(r, x) = kind
  BY DEF OfKind, ValueKind, MixKinds, NumberKinds, WholeKinds, KindOf, PyKind, KtKind
<1>4. kind \in WholeKinds => KindOf("python", x) = IF InWidth(x.n, IntWidth) THEN "int" ELSE "long"
  BY DEF OfKind, KindOf, PyKind, WholeKinds
<1>5. kind \in WholeKinds => \A r \in Platforms : KindOf(r, x) \in NumberKinds
  BY DEF OfKind, KindOf, PyKind, KtKind, WholeKinds, NumberKinds
<1>6. kind \in NumberKinds \cup {"boolean"} => \A r \in Platforms : KindOf(r, x) \in NumberKinds \cup {"boolean"}
  BY <1>3, <1>5
<1>7. \A w : KindKept(x, w) => OfKind(kind, w)
  BY <1>1 DEF KindKept, OfKind, ValueKind, MixKinds, NumberKinds, WholeKinds
<1>8. "python" \in Platforms
  BY DEF Platforms
<1> QED
  BY <1>1, <1>2, <1>3, <1>4, <1>6, <1>7, <1>8

\* The type of a list is one of a list of the type of its first item.
LEMMA ListTypeIs ==
    ASSUME NEW p \in Platforms, NEW v \in ValueSet, v.is = "list",
           v.items # <<>> => v.items[1].is \notin {"null", "list"}
    PROVE  ValType(p, v) = ArrayOf(IF v.items = <<>> THEN Scalar("string") ELSE ValType(p, v.items[1]))
<1>1. MaxNesting - 1 \in Nat /\ (MaxNesting - 1) + 1 = MaxNesting
  BY NestingAssumption
<1>2. valType[MaxNesting] = ListTypes(valType[MaxNesting - 1])
  BY <1>1, ValTypeAt
<1> DEFINE D == valType[MaxNesting - 1][p][FirstItem(p, v)]
<1>3. ValType(p, v) = ArrayOf(D)
  BY <1>2 DEF ListTypes, ValType
<1>4. \A E : ArrayOf(E).of[1] = E
  BY DEF ArrayOf
<1>5. CASE v.items # <<>>
  <2>1. ValType(p, v).of[1] = ValType(p, v.items[1])
    BY <1>5, ListType
  <2> HIDE DEF D
  <2> QED
    BY <1>3, <1>4, <1>5, <2>1
<1>6. CASE v.items = <<>>
  <2> DEFINE x == Text("")
  <2>1. x \in ValueSet /\ x.is = "text"
    <3>1. "" \in TextNames
      BY NamesAreTexts
    <3>2. x.is = "text"
      BY DEF Text, Value
    <3> QED
      BY <3>1, <3>2, ScalarsUnnested, ValueSetIs
  <2>2. FirstItem(p, v) = x
    BY <1>6 DEF FirstItem
  <2> HIDE DEF x
  <2>3. valType[MaxNesting - 1][p][x] = Scalar(KindOf(p, x))
    BY <1>1, <2>1, KindAtAnyDepth
  <2>4. KindOf(p, x) = "string"
    BY <2>1 DEF KindOf, PyKind, KtKind, WholeKinds
  <2> QED
    BY <1>3, <1>6, <2>2, <2>3, <2>4
<1> QED
  BY <1>5, <1>6

\* What is in a list that may be in a map.
ListOf(l, p, kind, v) ==
    /\ ValType(p, v) = ArrayOf(Scalar(kind))
    /\ \A i \in 1..Len(v.items) :
          /\ v.items[i] \in ValueSet /\ l.storable[p][v.items[i]] /\ OfKind(kind, v.items[i])
          /\ \/ ValType(p, v.items[i]) = Scalar(kind)
             \/ p = "python" /\ v.items[i].is \in WholeKinds /\ kind = "long"

LEMMA ListOfKind ==
    ASSUME NEW c, NEW l, StoredBack(c, l), NEW p \in Platforms,
           NEW v \in ValueSet, v.is = "list", StorableList(l, p, v)
    PROVE  \E kind \in MixKinds : ListOf(l, p, kind, v)
<1> DEFINE n == Len(v.items)
           D == ValType(p, v.items[1])
<1>1. n \in Nat /\ (v.items # <<>> => 1 \in 1..n)
  BY InsideFacts
<1>2. ASSUME NEW i \in 1..n
      PROVE  /\ v.items[i] \in ValueSet /\ l.storable[p][v.items[i]]
             /\ v.items[i].is \in StorableKinds \ {"null", "list"}
             /\ ValType(p, v.items[i]) = Scalar(KindOf(p, v.items[i]))
             /\ \/ ValType(p, v.items[i]) = D
                \/ p = "python" /\ v.items[i].is \in WholeKinds /\ D.is = "long"
  <2> DEFINE x == v.items[i]
  <2>1. /\ x.is \notin {"null", "list"} /\ l.storable[p][x]
        /\ ValType(p, x) = D \/ (p = "python" /\ x.is \in WholeKinds /\ D.is = "long")
    BY DEF StorableList
  <2>2. x \in ValueSet
    BY InsideFacts
  <2> HIDE DEF x, D
  <2>3. StoredBackAt(c, l, p, p, x)
    BY <2>1, <2>2 DEF StoredBack
  <2>4. x.is \in StorableKinds
    BY <2>3 DEF StoredBackAt
  <2>5. ValType(p, x) = Scalar(KindOf(p, x))
    BY <2>1, <2>2, KindType
  <2> QED
    BY <2>1, <2>2, <2>4, <2>5 DEF x
<1>3. CASE v.items = <<>>
  <2>1. ValType(p, v) = ArrayOf(Scalar("string"))
    BY <1>3, ListTypeIs
  <2>2. "string" \in MixKinds /\ Len(v.items) = 0
    BY <1>3 DEF MixKinds
  <2> QED
    BY <2>1, <2>2 DEF ListOf
<1>4. CASE v.items # <<>>
  <2> DEFINE kind == KindOf(p, v.items[1])
  <2>0. D = Scalar(kind) /\ v.items[1].is \in StorableKinds \ {"null", "list"}
    BY <1>1, <1>2, <1>4
  <2>1. ValType(p, v) = ArrayOf(D)
    BY <1>4, <2>0, ListTypeIs
  <2>2. \A a, b : Scalar(a).is = a /\ (Scalar(a) = Scalar(b) => a = b)
    BY DEF Scalar
  <2>3. ASSUME NEW i \in 1..n PROVE KindOf(p, v.items[i]) \in MixKinds /\ OfKind(KindOf(p, v.items[i]), v.items[i])
    <3> DEFINE x == v.items[i]
    <3>1. x.is \in StorableKinds \ {"null", "list"}
      BY <1>2
    <3> HIDE DEF x
    <3>2. KindOf(p, x) \in MixKinds /\ OfKind(KindOf(p, x), x)
      BY <3>1 DEF StorableKinds, MixKinds, NumberKinds, WholeKinds, KindOf, PyKind, KtKind, OfKind, ValueKind
    <3> QED
      BY <3>2 DEF x
  <2> HIDE DEF kind, D, n
  <2>4. kind \in MixKinds
    BY <1>1, <1>4, <2>3 DEF kind
  <2>5. ASSUME NEW i \in 1..n
        PROVE  /\ OfKind(kind, v.items[i])
               /\ \/ ValType(p, v.items[i]) = Scalar(kind)
                  \/ p = "python" /\ v.items[i].is \in WholeKinds /\ kind = "long"
    <3>1. CASE ValType(p, v.items[i]) = D
      <4>1. KindOf(p, v.items[i]) = kind
        BY <1>2, <2>0, <2>2, <3>1
      <4> QED
        BY <2>0, <2>3, <3>1, <4>1
    <3>2. CASE p = "python" /\ v.items[i].is \in WholeKinds /\ D.is = "long"
      <4>1. kind = "long"
        BY <2>0, <2>2, <3>2
      <4> QED
        BY <3>2, <4>1 DEF OfKind, WholeKinds
    <3> QED
      BY <1>2, <3>1, <3>2
  <2>6. ListOf(l, p, kind, v)
    BY <1>2, <2>0, <2>1, <2>5 DEF ListOf, n
  <2> QED
    BY <2>4, <2>6
<1> QED
  BY <1>3, <1>4

\* A list that came back is of the same kind; if it is let through, it may be
\* in a map again.
ListCame(c, l, p, q, kind, v, ws) ==
    \A i \in 1..Len(v.items) : ItemBack(c, l, p, q, Scalar(kind), v.items[i], ws[i])

ListTaken(c, q, D, v, ws) == \A i \in 1..Len(v.items) : c.accepts[q][D][ws[i]]
ListMixed(c, l, p, q, kind, v, ws, D) ==
    \A i \in 1..Len(v.items) :
        /\ ws[i] \in ValueSet /\ OfKind(kind, ws[i])
        /\ l.storable[q][ws[i]] /\ SameSize(c, p, q, v.items[i], ws[i])
        /\ \/ ValType(q, ws[i]) = D
           \/ q = "python" /\ ws[i].is \in WholeKinds /\ D.is = "long"

\* The items are let through for the types they have by themselves.
LEMMA ItemsTaken ==
    ASSUME NEW c, NEW l, Plainly(c), NEW p \in Platforms, NEW q \in Platforms, NEW kind \in MixKinds,
           NEW v \in ValueSet, v.is = "list", ListOf(l, p, kind, v),
           NEW ws, ListCame(c, l, p, q, kind, v, ws),
           kind \in WholeKinds => q = "python",
           NEW D, v.items # <<>> => D = ValType(q, ws[1]),
           ListTaken(c, q, D, v, ws)
    PROVE  ListMixed(c, l, p, q, kind, v, ws, D)
<1> SUFFICES ASSUME NEW i \in 1..Len(v.items)
             PROVE  /\ ws[i] \in ValueSet /\ OfKind(kind, ws[i])
                    /\ l.storable[q][ws[i]] /\ SameSize(c, p, q, v.items[i], ws[i])
                    /\ \/ ValType(q, ws[i]) = D
                       \/ q = "python" /\ ws[i].is \in WholeKinds /\ D.is = "long"
  BY DEF ListMixed
<1> DEFINE x == v.items[i]
           w == ws[i]
<1>1. /\ x \in ValueSet /\ OfKind(kind, x)
      /\ ValType(p, x) = Scalar(kind) \/ (p = "python" /\ x.is \in WholeKinds /\ kind = "long")
  BY DEF ListOf
<1>2. ItemBack(c, l, p, q, Scalar(kind), x, w)
  BY DEF ListCame
<1>3. 1 \in 1..Len(v.items) /\ v.items # <<>> /\ D = ValType(q, ws[1])
  <2>1. Len(v.items) \in Nat /\ v.items # <<>>
    BY InsideFacts
  <2> QED
    BY <2>1
<1>4. ws[1] \in ValueSet /\ OfKind(kind, ws[1])
  <2>1. ItemBack(c, l, p, q, Scalar(kind), v.items[1], ws[1])
    BY <1>3 DEF ListCame
  <2>2. v.items[1] \in ValueSet /\ OfKind(kind, v.items[1])
    BY <1>3 DEF ListOf
  <2>3. ws[1] \in ValueSet /\ KindKept(v.items[1], ws[1])
    BY <2>1 DEF ItemBack
  <2> QED
    BY <2>2, <2>3, OfKindFacts
<1>5. c.accepts[q][D][w]
  BY DEF ListTaken
<1> HIDE DEF x, w
<1>6. w \in ValueSet /\ OfKind(kind, w)
  <2>1. w \in ValueSet /\ KindKept(x, w)
    BY <1>2 DEF ItemBack
  <2> QED
    BY <1>1, <2>1, OfKindFacts
<1>7. \/ ValType(q, w) = D
      \/ q = "python" /\ w.is \in WholeKinds /\ D = Scalar("long")
  <2>1. CASE kind \notin WholeKinds
    BY <1>3, <1>4, <1>6, <2>1, OfKindFacts
  <2>2. CASE kind \in WholeKinds
    <3>1. q = "python" /\ w.is \in WholeKinds /\ ws[1].is \in WholeKinds
      BY <1>4, <1>6, <2>2 DEF OfKind
    <3>2. /\ ValType(q, w) = Scalar(IF InWidth(w.n, IntWidth) THEN "int" ELSE "long")
          /\ D = Scalar(IF InWidth(ws[1].n, IntWidth) THEN "int" ELSE "long")
      BY <1>3, <1>4, <1>6, <2>2, <3>1, OfKindFacts
    <3>3. D = Scalar("int") => InWidth(w.n, IntWidth)
      BY <1>5, <1>6, <3>1 DEF Plainly
    <3> QED
      BY <3>1, <3>2, <3>3
  <2> QED
    BY <2>1, <2>2
<1>8. Taken(c, q, w)
  BY <1>5, <1>7 DEF Taken
<1>9. Scalar(kind) = ValType(p, x) \/ q = "python"
  BY <1>1 DEF WholeKinds
<1>10. l.storable[q][w] /\ SameSize(c, p, q, x, w)
  BY <1>2, <1>8, <1>9 DEF ItemBack
<1>11. Scalar("long").is = "long"
  BY DEF Scalar
<1> QED
  BY <1>6, <1>7, <1>10, <1>11 DEF x, w

LEMMA ListSizes ==
    ASSUME NEW in, NEW l, Plainly(in), NEW p \in Platforms, NEW q \in Platforms, NEW kind \in MixKinds,
           NEW v \in ValueSet, v.is = "list", ListOf(l, p, kind, v),
           NEW w \in ValueSet, w.is = "list", Len(w.items) = Len(v.items),
           \A i \in 1..Len(v.items) :
              /\ w.items[i] \in ValueSet /\ OfKind(kind, w.items[i])
              /\ SameSize(in, p, q, v.items[i], w.items[i])
    PROVE  SameSizeHere(in, p, q, v, w)
<1> SUFFICES ASSUME NEW r \in {q, "python"}
             PROVE  /\ ValType(r, w) = ValType(From(p, r), v)
                    /\ SizeOf(in, r, ValType(r, w), w) = SizeOf(in, From(p, r), ValType(From(p, r), v), v)
  BY DEF SameSizeHere
<1> DEFINE s == From(p, r)
           n == Len(v.items)
           E == IF v.items = <<>> THEN Scalar("string") ELSE ValType(s, v.items[1])
<1>1. r \in Platforms /\ s \in Platforms
  BY DEF From, Platforms
<1>2. n \in Nat /\ (v.items # <<>> => 1 \in 1..n /\ w.items # <<>>) /\ (v.items = <<>> => w.items = <<>>)
  <2>1. n \in Nat /\ (v.items # <<>> => n >= 1) /\ (w.items # <<>> => Len(w.items) >= 1)
    BY InsideFacts
  <2>2. v.items = <<>> => n = 0
    OBVIOUS
  <2>3. w.items = <<>> => Len(w.items) = 0
    OBVIOUS
  <2> HIDE DEF n
  <2> QED
    BY <2>1, <2>2, <2>3 DEF n
<1>3. ASSUME NEW i \in 1..n
      PROVE  /\ v.items[i] \in ValueSet /\ OfKind(kind, v.items[i]) /\ v.items[i].is \notin {"null", "list"}
             /\ w.items[i] \in ValueSet /\ OfKind(kind, w.items[i]) /\ w.items[i].is \notin {"null", "list"}
             /\ ValType(r, w.items[i]) = ValType(s, v.items[i])
             /\ in.size[r][ValType(r, w.items[i])][w.items[i]] = in.size[s][ValType(s, v.items[i])][v.items[i]]
  <2>1. v.items[i] \in ValueSet /\ OfKind(kind, v.items[i])
    BY DEF ListOf
  <2>2. w.items[i] \in ValueSet /\ OfKind(kind, w.items[i]) /\ SameSize(in, p, q, v.items[i], w.items[i])
    OBVIOUS
  <2> QED
    BY <2>1, <2>2, OfKindFacts DEF SameSize
<1> HIDE DEF n
<1>4. ValType(s, v) = ArrayOf(E) /\ ValType(r, w) = ArrayOf(E)
  <2>1. ValType(s, v) = ArrayOf(E)
    BY <1>1, <1>2, <1>3, ListTypeIs
  <2>2. ValType(r, w) = ArrayOf(IF w.items = <<>> THEN Scalar("string") ELSE ValType(r, w.items[1]))
    BY <1>1, <1>2, <1>3, ListTypeIs
  <2> QED
    BY <1>2, <1>3, <2>1, <2>2
<1>5. ASSUME NEW i \in 1..n
      PROVE  in.size[r][E][w.items[i]] = in.size[s][E][v.items[i]]
  <2>1. v.items # <<>> /\ E = ValType(s, v.items[1]) /\ 1 \in 1..n
    BY <1>2 DEF n
  <2> HIDE DEF E
  <2>2. CASE kind \in NumberKinds \cup {"boolean"}
    <3>1. PICK is \in NumberKinds \cup {"boolean"} : ValType(s, v.items[1]) = Scalar(is)
      BY <1>1, <1>3, <2>1, <2>2, OfKindFacts
    <3>2. v.items[i] \in ValueSet /\ w.items[i] \in ValueSet
      BY <1>3
    <3>3. in.size[r][Scalar(is)][w.items[i]] = in.size[s][Scalar(is)][v.items[i]]
      BY <1>1, <3>2 DEF Plainly
    <3> QED
      BY <2>1, <3>1, <3>3
  <2>3. CASE kind \notin NumberKinds \cup {"boolean"}
    <3>1. kind \notin WholeKinds
      BY <2>3 DEF NumberKinds
    <3>2. ValType(s, v.items[1]) = Scalar(kind) /\ ValType(s, v.items[i]) = Scalar(kind)
      BY <1>1, <1>3, <2>1, <3>1, OfKindFacts
    <3> QED
      BY <1>3, <2>1, <3>2
  <2> QED
    BY <2>2, <2>3
<1> DEFINE T == ArrayOf(E)
<1>6. T.is = "array" /\ T.of[1] = E
  BY DEF ArrayOf
<1> HIDE DEF E, T
<1>7. SizeOf(in, r, T, w) = IntWidth + Total([i \in 1..n |-> in.size[r][E][w.items[i]]])
  <2>1. SizeOf(in, r, T, w) = ArraySize(in, r, T, w)
    BY <1>6 DEF SizeOf
  <2> QED
    BY <1>6, <2>1 DEF ArraySize, n
<1>8. SizeOf(in, s, T, v) = IntWidth + Total([i \in 1..n |-> in.size[s][E][v.items[i]]])
  <2>1. SizeOf(in, s, T, v) = ArraySize(in, s, T, v)
    BY <1>6 DEF SizeOf
  <2> QED
    BY <1>6, <2>1 DEF ArraySize, n
<1>9. [i \in 1..n |-> in.size[r][E][w.items[i]]] = [i \in 1..n |-> in.size[s][E][v.items[i]]]
  BY <1>5
<1> QED
  BY <1>4, <1>7, <1>8, <1>9 DEF T

LEMMA ListStored ==
    ASSUME NEW in, NEW l, NEW e \in Nat, e + 1 <= MaxNesting, Reads(in, e), StoredBack(in, l), Plainly(in),
           NEW p \in Platforms, NEW q \in Platforms,
           NEW v \in ValueSet, v.is = "list", StorableList(l, p, v)
    PROVE  Told(ValType(p, v)) /\ \E w : ItemBackHere(in, l, p, q, ValType(p, v), v, w)
<1>1. PICK kind \in MixKinds : ListOf(l, p, kind, v)
  BY ListOfKind
<1> DEFINE D == Scalar(kind)
           T == ValType(p, v)
           n == Len(v.items)
           s == [i \in 1..n |-> in.put[p][D][v.items[i]]]
           came(i, w) == ItemBack(in, l, p, q, D, v.items[i], w)
           ws == [i \in 1..n |-> CHOOSE w : came(i, w)]
           items == First(n, ws)
           w == Gathered(q, D.is, items)
<1>2. /\ T = ArrayOf(D) /\ T.is = "array" /\ T.of[1] = D /\ D.is = kind /\ D \in Types
      /\ D.is \notin {"array", "option", "ref"}
  <2>1. T = ArrayOf(D)
    BY <1>1 DEF ListOf
  <2>2. \A E : ArrayOf(E).is = "array" /\ ArrayOf(E).of[1] = E
    BY DEF ArrayOf
  <2>3. D.is = kind
    BY DEF Scalar
  <2>4. D \in ScalarValTypes
    BY DEF ScalarValTypes, MixKinds
  <2>5. D \in Types
    <3>1. ScalarValTypes \subseteq valTypes[MaxNesting]
      BY ScalarValTypesIn, ValueSetIs
    <3> QED
      BY <2>4, <3>1 DEF Types
  <2>6. kind \notin {"array", "option", "ref"}
    BY DEF MixKinds, NumberKinds, WholeKinds
  <2> HIDE DEF D, T
  <2> QED
    BY <2>1, <2>2, <2>3, <2>5, <2>6
<1>3. Told(T)
  <2>1. Told(ArrayOf(Scalar(kind)))
    BY ToldTypes DEF MixKinds
  <2> QED
    BY <1>2, <2>1
<1>4. n \in Nat /\ Counted(n)
  BY InsideFacts DEF StorableList
<1>5. ASSUME NEW i \in 1..n PROVE came(i, ws[i])
  <2>1. /\ v.items[i] \in ValueSet /\ l.storable[p][v.items[i]]
        /\ \/ ValType(p, v.items[i]) = D
           \/ p = "python" /\ v.items[i].is \in WholeKinds /\ D = Scalar("long")
    BY <1>1 DEF ListOf
  <2>2. StoredBackAt(in, l, p, q, v.items[i])
    BY <2>1 DEF StoredBack
  <2>3. \E x : came(i, x)
    <3> HIDE DEF D
    <3> QED
      BY <2>1, <2>2 DEF StoredBackAt
  <2> HIDE DEF came
  <2> QED
    BY <2>3
<1>6. ListCame(in, l, p, q, kind, v, ws)
  BY <1>5 DEF ListCame
<1>7. ASSUME NEW i \in 1..n
      PROVE  /\ s[i] \in Seq(Byte) /\ Brings(in, q, D, s[i], ws[i])
             /\ ws[i] \in ValueSet /\ Same(v.items[i], ws[i])
  <2>1. came(i, ws[i]) /\ s[i] = in.put[p][D][v.items[i]]
    BY <1>5
  <2> HIDE DEF ws, s, D
  <2> QED
    BY <2>1 DEF ItemBack
<1>8. PutOf(in, p, T, v) = PutItems(n, s)
  <2>1. First(n, s) = [i \in 1..n |-> in.put[p][D][v.items[i]]]
    BY DEF First
  <2> HIDE DEF T, D, s
  <2>2. PutOf(in, p, T, v) = PutArray(in, p, T, v)
    BY <1>2 DEF PutOf, NumberKinds, WholeKinds
  <2> QED
    BY <1>2, <2>1, <2>2 DEF PutArray, PutItems
<1> HIDE DEF s, ws, T, D
<1>9. /\ PutItems(n, s) \in Seq(Byte)
      /\ \A tail \in Seq(Byte) : GetArray(in, q, D, PutItems(n, s) \o tail) = Got(w, tail)
  <2>1. AllBrought(in, q, D, n, s, ws)
    BY <1>7 DEF AllBrought
  <2> HIDE DEF n
  <2> QED
    BY <1>2, <1>4, <2>1, ItemsArrive
<1>10. /\ w.is \in {"list", "array"} /\ w.items = items
       /\ w = List(items) \/ w = Array(D.is, items)
  BY GatheredFacts
<1>11. Len(items) = n /\ \A i \in 1..n : items[i] = ws[i]
  BY <1>4 DEF First
<1>12. w.is = "array" \/ (w.is = "list" /\ (kind \in WholeKinds => q = "python" /\ kind # "byte"))
  <2>1. \A x : Array(kind, x).is = "array" /\ List(x).is = "list"
    BY DEF Array, List, Value
  <2>2. q \in {"python", "kotlin"}
    BY DEF Platforms
  <2> HIDE DEF items
  <2> QED
    BY <1>2, <2>1, <2>2 DEF Gathered, NumberKinds
<1> HIDE DEF w, items
<1>13. \A tail \in Seq(Byte) : GetOf(in, q, T, PutOf(in, p, T, v) \o tail) = Got(w, tail)
  <2>1. \A b : GetOf(in, q, T, b) = GetArray(in, q, D, b)
    BY <1>2 DEF GetOf, NumberKinds, WholeKinds
  <2> QED
    BY <1>8, <1>9, <2>1
<1>14. w \in ValueSet
  <2>1. <<>> \in Seq(Byte)
    OBVIOUS
  <2>2. PutItems(n, s) \o <<>> \in Seq(Byte)
    BY <1>9, <2>1, Parts
  <2>3. GetArray(in, q, D, PutItems(n, s) \o <<>>) \in ResultsOf(Nested[e + 1])
    <3> HIDE DEF n
    <3> QED
      BY <1>2, <2>2, GetArrayFacts
  <2>4. Got(w, <<>>) \in ResultsOf(Nested[e + 1])
    BY <1>9, <2>1, <2>3
  <2>5. Got(w, <<>>).v = w
    BY DEF Got
  <2>6. w \in Nested[e + 1]
    BY <2>4, <2>5, ResultFacts
  <2>7. e + 1 \in Nat
    OBVIOUS
  <2> QED
    BY <2>6, <2>7, ValueSetIs
<1>15. Same(v, w)
  <2>1. ASSUME NEW f \in Nat PROVE PlainOf(plain[f], w) = PlainOf(plain[f], v)
    <3> DEFINE of(y) == List([i \in 1..Len(y.items) |-> plain[f][y.items[i]]])
    <3>1. \A i \in 1..n : plain[f][items[i]] = plain[f][v.items[i]]
      BY <1>7, <1>11 DEF Same
    <3>2. [i \in 1..n |-> plain[f][items[i]]] = [i \in 1..n |-> plain[f][v.items[i]]]
      BY <3>1
    <3>3. of(w) = of(v)
      BY <1>10, <1>11, <3>2
    <3> HIDE DEF of
    <3>4. PlainOf(plain[f], w) = of(w) /\ PlainOf(plain[f], v) = of(v)
      BY <1>10 DEF PlainOf, WholeKinds, of
    <3> QED
      BY <3>3, <3>4
  <2> QED
    BY <1>14, <2>1, SameBy
<1>16. KindKept(v, w)
  BY DEF KindKept, WholeKinds
<1>17. ASSUME TakenHere(in, q, w) PROVE Storable(l, q, w) /\ SameSizeHere(in, p, q, v, w)
  <2>1. AcceptsOf(in, q, ValType(q, w), w)
    BY <1>10, <1>17 DEF TakenHere, WholeKinds
  <2>2. w.is # "array"
    <3> SUFFICES ASSUME w.is = "array" PROVE FALSE
      OBVIOUS
    <3> DEFINE U == ValType(q, w)
    <3>1. U.is = KindOf(q, w)
      BY <1>14, KindType
    <3>2. U.is = IF q = "python" THEN "byte" ELSE "unknown"
      BY <3>1 DEF KindOf, PyKind, KtKind, WholeKinds
    <3>3. AcceptsOf(in, q, U, w)
      BY <2>1
    <3> HIDE DEF U
    <3>4. CASE q = "python"
      <4>1. PyAcceptsNumber("byte", w)
        BY <3>2, <3>3, <3>4 DEF AcceptsOf, WholeKinds
      <4> QED
        BY <4>1 DEF PyAcceptsNumber, WholeKinds
    <3>5. CASE q # "python"
      BY <3>2, <3>3, <3>5 DEF AcceptsOf, WholeKinds
    <3> QED
      BY <3>4, <3>5
  <2>3. w.is = "list" /\ (kind \in WholeKinds => q = "python")
    BY <1>12, <2>2
  <2>4. ASSUME NEW i \in 1..n PROVE ws[i].is \notin {"null", "list"}
    <3>1. ItemBack(in, l, p, q, Scalar(kind), v.items[i], ws[i])
      BY <1>6 DEF ListCame
    <3>2. v.items[i] \in ValueSet /\ OfKind(kind, v.items[i])
      BY <1>1 DEF ListOf
    <3>3. OfKind(kind, ws[i]) /\ ws[i] \in ValueSet
      BY <3>1, <3>2, OfKindFacts DEF ItemBack
    <3> QED
      BY <3>3, OfKindFacts
  <2>5. (w.items # <<>> => v.items # <<>> /\ 1 \in 1..n) /\ (v.items # <<>> => w.items # <<>> /\ 1 \in 1..n)
    <3>1. (v.items # <<>> => n >= 1) /\ (w.items # <<>> => Len(w.items) >= 1)
      BY <1>14, InsideFacts
    <3>2. (v.items = <<>> => n = 0) /\ (w.items = <<>> => Len(w.items) = 0)
      OBVIOUS
    <3> HIDE DEF n
    <3> QED
      BY <1>4, <1>10, <1>11, <3>1, <3>2
  <2> DEFINE U == ValType(q, w)
             E == U.of[1]
  <2>6. U.is = "array" /\ (v.items # <<>> => E = ValType(q, ws[1]))
    <3>1. w.items # <<>> => w.items[1] = ws[1] /\ w.items[1].is \notin {"null", "list"}
      BY <1>10, <1>11, <2>4, <2>5
    <3> QED
      BY <1>10, <1>11, <1>14, <2>3, <2>5, <3>1, ListType
  <2>7. AcceptsOf(in, q, U, w)
    BY <2>1
  <2> HIDE DEF U
  <2>8. \A i \in 1..n : in.accepts[q][E][ws[i]]
    <3>1. AcceptsArray(in, q, U, w)
      BY <2>6, <2>7 DEF AcceptsOf, WholeKinds
    <3> QED
      BY <1>10, <1>11, <3>1 DEF AcceptsArray
  <2> HIDE DEF E
  <2>9. \A i \in 1..n :
              /\ ws[i] \in ValueSet /\ OfKind(kind, ws[i])
              /\ l.storable[q][ws[i]] /\ SameSize(in, p, q, v.items[i], ws[i])
              /\ \/ ValType(q, ws[i]) = E
                 \/ q = "python" /\ ws[i].is \in WholeKinds /\ E.is = "long"
    <3>1. ListTaken(in, q, E, v, ws)
      BY <2>8 DEF ListTaken
    <3> HIDE DEF ws
    <3>2. ListMixed(in, l, p, q, kind, v, ws, E)
      BY <1>1, <1>6, <2>3, <2>6, <3>1, ItemsTaken
    <3> QED
      BY <3>2 DEF ListMixed
  <2>10. StorableList(l, q, w)
    <3>1. \A i \in 1..n : w.items[i] = ws[i] /\ (E = ValType(q, w.items[1]))
      <4>1. \A i \in 1..n : v.items # <<>>
        OBVIOUS
      <4> HIDE DEF n
      <4> QED
        BY <1>10, <1>11, <2>5, <2>6, <4>1
    <3>2. Len(w.items) = n
      BY <1>10, <1>11
    <3> HIDE DEF n
    <3> QED
      BY <1>4, <2>4, <2>9, <3>1, <3>2 DEF StorableList, n
  <2>11. SameSizeHere(in, p, q, v, w)
    <3>1. Len(w.items) = Len(v.items) /\ \A i \in 1..Len(v.items) :
              /\ w.items[i] \in ValueSet /\ OfKind(kind, w.items[i])
              /\ SameSize(in, p, q, v.items[i], w.items[i])
      BY <1>10, <1>11, <2>9
    <3> QED
      BY <1>1, <1>14, <2>3, <3>1, ListSizes
  <2>12. Storable(l, q, w)
    BY <2>3, <2>10 DEF Storable, WholeKinds
  <2> QED
    BY <2>11, <2>12
<1>18. ItemBackHere(in, l, p, q, T, v, w)
  BY <1>8, <1>9, <1>13, <1>14, <1>15, <1>16, <1>17 DEF ItemBackHere
<1> QED
  BY <1>3, <1>18 DEF T

----------------------------------------------------------------------------
\* A map in a map or under a declared name.
EntriesHeld(l, p, v) ==
    \A i \in 1..Len(v.items) :
        /\ v.items[i] \in Entries(ValueSet) /\ v.items[i].t \in TextNames /\ v.items[i].t # NoKey
        /\ v.items[i].items[1] \in ValueSet
        /\ l.storable[p][v.items[i].items[1]] /\ Fits(codec[l.left], p, v.items[i])

EntriesCame(in, l, p, q, v, ws) ==
    \A i \in 1..Len(v.items) :
        ItemBack(in, l, p, q, ValType(p, v.items[i].items[1]), v.items[i].items[1], ws[i])

EntriesWith(v, ws) == [i \in 1..Len(v.items) |-> Entry(v.items[i].t, ws[i])]
EntriesIn(v, ws, S) == \A i \in 1..Len(v.items) : ws[i] \in S

\* w holds the same keys with the values ws.
Rekeyed(v, ws, S, w) ==
    /\ w.items \in Seq(Entries(S)) /\ Len(w.items) = Len(v.items)
    /\ w.is = "map" /\ Keyed(w) = w.items
    /\ \A i \in 1..Len(v.items) : w.items[i].t = v.items[i].t /\ w.items[i].items[1] = ws[i]

LEMMA MapHolds ==
    ASSUME NEW l, NEW p, NEW v \in ValueSet, v.is = "map", StorableMap(l, p, v)
    PROVE  /\ EntriesHeld(l, p, v) /\ Keyed(v) = v.items
           /\ Len(v.items) \in Nat /\ InWidth(Len(v.items), ShortWidth)
<1>1. v.items \in Seq(Entries(ValueSet)) /\ Len(v.items) \in Nat
  BY InsideFacts
<1>2. ASSUME NEW i \in 1..Len(v.items)
      PROVE  /\ v.items[i] \in Entries(ValueSet) /\ v.items[i].t \in TextNames /\ v.items[i].t # NoKey
             /\ v.items[i].items[1] \in ValueSet
  <2>1. v.items[i] \in Entries(ValueSet)
    BY <1>1
  <2>2. v.items[i].t # NoKey
    BY DEF StorableMap, KeysOf
  <2> QED
    BY <2>1, <2>2, EntryFacts
<1>3. EntriesHeld(l, p, v)
  BY <1>2 DEF EntriesHeld, StorableMap
<1>4. Keyed(v) = v.items
  BY <1>1, <1>2, WithoutIsAll DEF Keyed
<1> QED
  BY <1>1, <1>3, <1>4 DEF StorableMap

LEMMA EntryFields ==
    ASSUME NEW t, NEW w
    PROVE  Entry(t, w).t = t /\ Entry(t, w).items[1] = w
BY DEF Entry, Value

\* What comes back of the entries, as a map.
LEMMA MapOfEntries ==
    ASSUME NEW l, NEW p, NEW v \in ValueSet, v.is = "map", EntriesHeld(l, p, v), Keyed(v) = v.items,
           NEW S, NEW ws, EntriesIn(v, ws, S)
    PROVE  /\ Map(EntriesWith(v, ws)).items = EntriesWith(v, ws)
           /\ Rekeyed(v, ws, S, Map(EntriesWith(v, ws)))
<1> DEFINE n == Len(v.items)
           es == EntriesWith(v, ws)
<1>1. n \in Nat
  BY InsideFacts
<1>2. ASSUME NEW i \in 1..n
      PROVE  /\ Entry(v.items[i].t, ws[i]) \in Entries(S)
             /\ es[i] = Entry(v.items[i].t, ws[i])
             /\ es[i].t = v.items[i].t /\ es[i].items[1] = ws[i]
  <2>1. v.items[i].t \in TextNames
    BY DEF EntriesHeld
  <2>2. Entry(v.items[i].t, ws[i]) \in Entries(S)
    BY <2>1, Built DEF EntriesIn
  <2>3. es[i] = Entry(v.items[i].t, ws[i])
    BY DEF EntriesWith
  <2> QED
    BY <2>2, <2>3, EntryFields
<1>3. es \in Seq(Entries(S)) /\ Len(es) = n
  <2>1. \A i \in 1..n : Entry(v.items[i].t, ws[i]) \in Entries(S)
    BY <1>2
  <2>2. [i \in 1..n |-> Entry(v.items[i].t, ws[i])] \in [1..n -> Entries(S)]
    BY <2>1
  <2>3. es \in [1..n -> Entries(S)]
    BY <2>2 DEF EntriesWith
  <2> HIDE DEF es, n
  <2> QED
    BY <1>1, <2>3
<1>4. Map(es).items = es /\ Map(es).is = "map"
  BY DEF Map, Value
<1>5. \A i \in 1..Len(es) : es[i].t # NoKey
  <2> SUFFICES ASSUME NEW i \in 1..Len(es) PROVE es[i].t # NoKey
    OBVIOUS
  <2>1. i \in 1..n
    BY <1>3
  <2>2. v.items[i].t # NoKey
    BY <2>1 DEF EntriesHeld
  <2> QED
    BY <1>2, <2>1, <2>2
<1> HIDE DEF es
<1>6. Keyed(Map(es)) = es
  BY <1>3, <1>4, <1>5, WithoutIsAll DEF Keyed
<1>7. \A i \in 1..n : es[i].t = v.items[i].t /\ es[i].items[1] = ws[i]
  BY <1>2 DEF es
<1>8. Rekeyed(v, ws, S, Map(es))
  BY <1>3, <1>4, <1>6, <1>7 DEF Rekeyed
<1> QED
  BY <1>4, <1>8 DEF es

MapCame(in, p, q, v, w) ==
    /\ PutMap(in, p, v) \in Seq(Byte)
    /\ \A tail \in Seq(Byte) : GetMap(in, q, PutMap(in, p, v) \o tail) = Got(w, tail)

MapReturns(in, l, p, q, v, w) ==
    /\ MapCame(in, p, q, v, w)
    /\ w \in ValueSet /\ w.is = "map" /\ Same(v, w)
    /\ AcceptsMap(in, q, w) =>
          /\ StorableMap(l, q, w)
          /\ \A r \in {q, "python"} : MapSize(in, r, w) = MapSize(in, From(p, r), v)

LEMMA MapArrives ==
    ASSUME NEW in, NEW l, NEW e \in Nat, e + 1 <= MaxNesting, Reads(in, e), Allows(in, l),
           StoredBack(in, l), codec[l.left] = in,
           NEW p \in Platforms, NEW q \in Platforms,
           NEW v \in ValueSet, v.is = "map", StorableMap(l, p, v),
           NEW ws, EntriesCame(in, l, p, q, v, ws)
    PROVE  MapCame(in, p, q, v, Map(EntriesWith(v, ws))) /\ EntriesIn(v, ws, Nested[e])
<1> DEFINE n == Len(v.items)
           keys == [i \in 1..n |-> v.items[i].t]
           s == [i \in 1..n |-> PutEntry(in, p, v.items[i])]
           c == Arrived(q, "short", n)
<1>1. EntriesHeld(l, p, v) /\ Keyed(v) = v.items /\ n \in Nat /\ InWidth(n, ShortWidth)
  BY MapHolds
<1>2. ASSUME NEW i \in 1..n
      PROVE  /\ keys[i] \in TextNames /\ s[i] \in Seq(Byte)
             /\ ws[i] \in Nested[e]
             /\ \A t \in Seq(Byte) : GetEntry(in, q, s[i] \o t) = Got(Entry(keys[i], ws[i]), t)
  <2> DEFINE x == v.items[i].items[1]
             T == ValType(p, x)
             y == v.items[i]
  <2>1. y.t \in TextNames /\ x \in ValueSet /\ l.storable[p][x] /\ Fits(in, p, y)
    BY <1>1 DEF EntriesHeld
  <2>2. Told(T)
    BY <2>1 DEF StoredBack, StoredBackAt
  <2>3. Called(in, p, T, x)
    BY <2>1 DEF Allows, AllowsHeld
  <2>4. Exactly(in.size[p][T][x], in.put[p][T][x])
    BY <2>3 DEF Called
  <2>5. EntrySize(in, p, y) < Weight[LengthWidth]
    BY <2>1 DEF Fits
  <2>6. Brings(in, q, T, in.put[p][T][x], ws[i]) /\ in.put[p][T][x] \in Seq(Byte)
    BY DEF EntriesCame, ItemBack
  <2>7. T \in Types
    BY <2>1, ValTypeIsType
  <2>8. ws[i] \in Nested[e]
    <3> HIDE DEF T, x
    <3> QED
      BY <2>6, <2>7, BroughtIn
  <2>9. ASSUME NEW t \in Seq(Byte)
        PROVE  PutEntry(in, p, y) \in Seq(Byte) /\ GetEntry(in, q, PutEntry(in, p, y) \o t) = Got(Entry(y.t, ws[i]), t)
    <3>1. EntryBrought(in, p, q, y, ws[i])
      BY <2>1, <2>2, <2>4, <2>5, <2>6 DEF EntryBrought
    <3> HIDE DEF y
    <3> QED
      BY <3>1, EntryArrives
  <2>10. <<>> \in Seq(Byte)
    OBVIOUS
  <2>11. keys[i] = y.t /\ s[i] = PutEntry(in, p, y)
    OBVIOUS
  <2> HIDE DEF y, keys, s
  <2> QED
    BY <2>1, <2>8, <2>9, <2>10, <2>11
<1>3. Distinct(n, keys)
  BY DEF StorableMap, Distinct
<1>4. \A t \in Seq(Byte) : GetNumber(q, "short", NumberBytes(n, ShortWidth) \o t) = Got(c, t)
  <2>1. WidthOf("short") = ShortWidth /\ "short" \in NumberKinds
    BY DEF WidthOf, NumberKinds, WholeKinds
  <2>2. n \in Int
    BY <1>1
  <2> HIDE DEF n, c
  <2> QED
    BY <1>1, <2>1, <2>2, NumberArrives DEF c
<1>5. c.n = n /\ NumberBytes(n, ShortWidth) \in Seq(Byte)
  <2>1. WidthOf("short") = ShortWidth /\ "short" \in WholeKinds /\ n \in Int /\ ShortWidth \in Nat
    BY <1>1, Widths DEF WidthOf, WholeKinds
  <2> HIDE DEF n
  <2> QED
    <3>1. InWidth(n, WidthOf("short")) => c.n = n
      BY <2>1, ArrivedFacts DEF c
    <3>2. NumberBytes(n, ShortWidth) \in Seq(Byte)
      BY <2>1, NumberBytesFacts
    <3> QED
      BY <1>1, <2>1, <3>1, <3>2
<1>6. PutMap(in, p, v) = NumberBytes(n, ShortWidth) \o FlattenSeq(s)
  <2>1. Len(Keyed(v)) = n /\ Keyed(v) = v.items
    BY <1>1
  <2> QED
    BY <2>1 DEF PutMap
<1> HIDE DEF c, keys
<1>7. s = First(n, s)
  BY DEF First
<1> HIDE DEF s
<1>8. Come(in, q, n, keys, s, ws)
  BY <1>2 DEF Come
<1>9. ASSUME NEW tail \in Seq(Byte)
      PROVE  /\ EntriesAfter(in, q, Got(c, FlattenSeq(s) \o tail)) = Got(Map(EntryRow(n, keys, ws)), tail)
             /\ FlattenSeq(s) \in Seq(Byte)
  <2>1. EntryParts(e, n, keys, s, ws)
    BY <1>2 DEF EntryParts
  <2> HIDE DEF n
  <2>2. /\ EntriesAfter(in, q, Got(c, FlattenSeq(First(n, s)) \o tail)) = Got(Map(EntryRow(n, keys, ws)), tail)
        /\ FlattenSeq(First(n, s)) \in Seq(Byte)
    BY <1>1, <1>3, <1>5, <1>8, <2>1, EntriesArrive
  <2> QED
    BY <1>7, <2>2
<1>10. EntryRow(n, keys, ws) = EntriesWith(v, ws)
  BY DEF keys, EntriesWith, EntryRow
<1>11. FlattenSeq(s) \in Seq(Byte) /\ PutMap(in, p, v) \in Seq(Byte)
  <2>1. <<>> \in Seq(Byte)
    OBVIOUS
  <2>2. FlattenSeq(s) \in Seq(Byte)
    BY <1>9, <2>1
  <2> QED
    BY <1>5, <1>6, <2>2, Parts
<1>12. ASSUME NEW tail \in Seq(Byte)
       PROVE  GetMap(in, q, PutMap(in, p, v) \o tail) = Got(Map(EntriesWith(v, ws)), tail)
  <2> DEFINE a == NumberBytes(n, ShortWidth)
             b == FlattenSeq(s)
  <2>1. a \in Seq(Byte) /\ b \in Seq(Byte) /\ b \o tail \in Seq(Byte)
    BY <1>5, <1>11, Parts
  <2>2. PutMap(in, p, v) = a \o b
    BY <1>6
  <2>3. GetNumber(q, "short", a \o (b \o tail)) = Got(c, b \o tail)
    BY <1>4, <2>1
  <2>4. EntriesAfter(in, q, Got(c, b \o tail)) = Got(Map(EntriesWith(v, ws)), tail)
    BY <1>9, <1>10
  <2> HIDE DEF a, b
  <2>5. (a \o b) \o tail = a \o (b \o tail)
    BY <2>1, BytesGroup
  <2> QED
    BY <2>2, <2>3, <2>4, <2>5 DEF GetMap
<1> QED
  BY <1>2, <1>11, <1>12 DEF MapCame, EntriesIn

LEMMA MapSizes ==
    ASSUME NEW in, NEW l, codec[l.left] = in, NEW p \in Platforms, NEW q \in Platforms,
           NEW v \in ValueSet, v.is = "map", StorableMap(l, p, v),
           NEW w \in ValueSet, w.is = "map", NEW ws, w.items = EntriesWith(v, ws), Keyed(w) = w.items,
           EntriesCame(in, l, p, q, v, ws), AcceptsMap(in, q, w)
    PROVE  /\ StorableMap(l, q, w)
           /\ \A r \in {q, "python"} : MapSize(in, r, w) = MapSize(in, From(p, r), v)
<1> DEFINE n == Len(v.items)
<1>1. EntriesHeld(l, p, v) /\ Keyed(v) = v.items /\ n \in Nat /\ InWidth(n, ShortWidth)
  BY MapHolds
<1>2. Len(w.items) = n
  BY <1>1 DEF EntriesWith
<1>3. ASSUME NEW i \in 1..n
      PROVE  w.items[i].t = v.items[i].t /\ w.items[i].items[1] = ws[i] /\ v.items[i].t # NoKey
  <2>1. w.items[i] = Entry(v.items[i].t, ws[i])
    BY DEF EntriesWith
  <2> QED
    BY <1>1, <2>1, EntryFields DEF EntriesHeld
<1>4. ASSUME NEW i \in 1..n
      PROVE  /\ l.storable[q][w.items[i].items[1]]
             /\ \A r \in {q, "python"} : EntrySize(in, r, w.items[i]) = EntrySize(in, From(p, r), v.items[i])
  <2> DEFINE x == v.items[i].items[1]
             y == ws[i]
  <2>1. ItemBack(in, l, p, q, ValType(p, x), x, y)
    BY DEF EntriesCame
  <2>2. in.accepts[q][ValType(q, y)][y]
    <3>1. \A k \in 1..Len(Keyed(w)) :
             in.accepts[q][ValType(q, Keyed(w)[k].items[1])][Keyed(w)[k].items[1]]
      BY DEF AcceptsMap
    <3>2. in.accepts[q][ValType(q, w.items[i].items[1])][w.items[i].items[1]]
      BY <1>2, <3>1
    <3> QED
      BY <1>3, <3>2
  <2> HIDE DEF x, y
  <2>3. l.storable[q][y] /\ SameSize(in, p, q, x, y)
    BY <2>1, <2>2 DEF ItemBack, Taken
  <2>4. ASSUME NEW r \in {q, "python"}
        PROVE  EntrySize(in, r, w.items[i]) = EntrySize(in, From(p, r), v.items[i])
    <3>1. in.size[r][ValType(r, y)][y] = in.size[From(p, r)][ValType(From(p, r), x)][x]
      BY <2>3 DEF SameSize
    <3>2. w.items[i].items[1] = y /\ v.items[i].items[1] = x /\ w.items[i].t = v.items[i].t
      BY <1>3 DEF x, y
    <3> QED
      BY <3>1, <3>2 DEF EntrySize
  <2>5. w.items[i].items[1] = y
    BY <1>3 DEF y
  <2> QED
    BY <2>3, <2>4, <2>5
<1>5. StorableMap(l, q, w)
  <2>1. NoKey \notin KeysOf(w)
    BY <1>2, <1>3 DEF KeysOf
  <2>2. \A i, k \in 1..n : w.items[i].t = w.items[k].t => i = k
    <3>1. \A i, k \in 1..n : v.items[i].t = v.items[k].t => i = k
      BY DEF StorableMap
    <3> QED
      BY <1>3, <3>1
  <2>3. ASSUME NEW i \in 1..n PROVE Fits(codec[l.left], q, w.items[i])
    <3> SUFFICES ASSUME NEW r \in {q, "python"} PROVE EntrySize(in, r, w.items[i]) < Weight[LengthWidth]
      BY DEF Fits
    <3>1. Fits(in, p, v.items[i])
      BY <1>1 DEF EntriesHeld
    <3>2. From(p, r) \in {p, "python"}
      BY DEF From
    <3> QED
      BY <1>4, <3>1, <3>2 DEF Fits
  <2> HIDE DEF n
  <2> QED
    BY <1>1, <1>2, <1>4, <2>1, <2>2, <2>3 DEF StorableMap
<1>6. ASSUME NEW r \in {q, "python"}
      PROVE  MapSize(in, r, w) = MapSize(in, From(p, r), v)
  <2>1. [i \in 1..n |-> IntWidth + EntrySize(in, r, w.items[i])]
           = [i \in 1..n |-> IntWidth + EntrySize(in, From(p, r), v.items[i])]
    BY <1>4
  <2>2. MapSize(in, r, w) = ShortWidth + Total([i \in 1..n |-> IntWidth + EntrySize(in, r, w.items[i])])
    BY <1>2 DEF MapSize
  <2>3. MapSize(in, From(p, r), v)
           = ShortWidth + Total([i \in 1..n |-> IntWidth + EntrySize(in, From(p, r), v.items[i])])
    BY <1>1 DEF MapSize
  <2> QED
    BY <2>1, <2>2, <2>3
<1> QED
  BY <1>5, <1>6

LEMMA MapStored ==
    ASSUME NEW in, NEW l, NEW e \in Nat, e + 1 <= MaxNesting, Reads(in, e), Allows(in, l),
           StoredBack(in, l), codec[l.left] = in,
           NEW p \in Platforms, NEW q \in Platforms,
           NEW v \in ValueSet, v.is = "map", StorableMap(l, p, v)
    PROVE  \E w : MapReturns(in, l, p, q, v, w)
<1> DEFINE n == Len(v.items)
           came(i, y) == ItemBack(in, l, p, q, ValType(p, v.items[i].items[1]), v.items[i].items[1], y)
           ws == [i \in 1..n |-> CHOOSE y : came(i, y)]
           es == EntriesWith(v, ws)
           w == Map(es)
<1>1. EntriesHeld(l, p, v) /\ Keyed(v) = v.items /\ n \in Nat
  BY MapHolds
<1>2. EntriesCame(in, l, p, q, v, ws)
  <2> SUFFICES ASSUME NEW i \in 1..n PROVE came(i, ws[i])
    BY DEF EntriesCame
  <2>1. v.items[i].items[1] \in ValueSet /\ l.storable[p][v.items[i].items[1]]
    BY <1>1 DEF EntriesHeld
  <2>2. \E y : came(i, y)
    BY <2>1 DEF StoredBack, StoredBackAt
  <2> HIDE DEF came
  <2> QED
    BY <2>2
<1> HIDE DEF ws
<1>3. MapCame(in, p, q, v, w) /\ EntriesIn(v, ws, Nested[e])
  BY <1>2, MapArrives
<1>4. w.items = es /\ Rekeyed(v, ws, Nested[e], w)
  BY <1>1, <1>3, MapOfEntries
<1> HIDE DEF w
<1>5. w \in ValueSet
  <2>1. es \in Seq(Entries(Nested[e]))
    BY <1>4 DEF Rekeyed
  <2> HIDE DEF es
  <2>2. Map(es) \in Maps(Nested[e])
    BY <2>1, Built
  <2> QED
    BY <2>2, ShallowIn DEF w
<1> HIDE DEF es
<1>6. Same(v, w)
  <2>1. ASSUME NEW f \in Nat PROVE PlainOf(plain[f], w) = PlainOf(plain[f], v)
    <3>1. \A i \in 1..n : plain[f][ws[i]] = plain[f][v.items[i].items[1]]
      BY <1>2 DEF EntriesCame, ItemBack, Same
    <3>2. \A i \in 1..n : Entry(es[i].t, plain[f][es[i].items[1]])
                             = Entry(v.items[i].t, plain[f][v.items[i].items[1]])
      BY <1>4, <3>1 DEF Rekeyed
    <3>3. [i \in 1..n |-> Entry(es[i].t, plain[f][es[i].items[1]])]
             = [i \in 1..n |-> Entry(v.items[i].t, plain[f][v.items[i].items[1]])]
      BY <3>2
    <3>4. Unkeyed(plain[f], w) = Map([i \in 1..n |-> Entry(es[i].t, plain[f][es[i].items[1]])])
      BY <1>4 DEF Unkeyed, Rekeyed
    <3>5. Unkeyed(plain[f], v) = Map([i \in 1..n |-> Entry(v.items[i].t, plain[f][v.items[i].items[1]])])
      BY <1>1 DEF Unkeyed
    <3>6. Unkeyed(plain[f], w) = Unkeyed(plain[f], v)
      BY <3>3, <3>4, <3>5
    <3>7. PlainOf(plain[f], w) = Unkeyed(plain[f], w) /\ PlainOf(plain[f], v) = Unkeyed(plain[f], v)
      BY <1>4 DEF PlainOf, WholeKinds, Rekeyed
    <3> QED
      BY <3>6, <3>7
  <2> QED
    BY <1>5, <2>1, SameBy
<1>7. AcceptsMap(in, q, w) =>
         /\ StorableMap(l, q, w)
         /\ \A r \in {q, "python"} : MapSize(in, r, w) = MapSize(in, From(p, r), v)
  <2>1. w.is = "map" /\ Keyed(w) = w.items /\ w.items = EntriesWith(v, ws)
    BY <1>4 DEF Rekeyed, es
  <2> QED
    BY <1>2, <1>5, <2>1, MapSizes
<1>8. w.is = "map"
  BY <1>4 DEF Rekeyed
<1> QED
  BY <1>3, <1>5, <1>6, <1>7, <1>8 DEF MapReturns

\* A map under a declared name comes back, an empty default with them.
LEMMA MapBack ==
    ASSUME NEW in, NEW l, NEW m, NEW e \in Nat, e + 1 <= MaxNesting, Reads(in, e), Allows(in, l),
           StoredBack(in, l), codec[l.left] = in,
           NEW p \in Platforms, NEW q \in Platforms, NEW T, T.is = "map",
           NEW v \in ValueSet, v.is = "map", StorableMap(l, p, v)
    PROVE  \E w : BackHere(in, l, m, p, q, T, v, w)
<1>1. PICK w : MapReturns(in, l, p, q, v, w)
  BY MapStored
<1>2. /\ PutOf(in, p, T, v) = PutMap(in, p, v)
      /\ \A b : GetOf(in, q, T, b) = GetMap(in, q, b)
      /\ AcceptsOf(in, q, T, w) = AcceptsMap(in, q, w)
  BY DEF PutOf, GetOf, AcceptsOf, NumberKinds, WholeKinds
<1>3. MeaningOf(m, q, T, w) = plain[MaxNesting][w] /\ MeaningOf(m, p, T, v) = plain[MaxNesting][v]
  BY DEF MeaningOf, WholeKinds
<1>4. plain[MaxNesting][w] = plain[MaxNesting][v]
  BY <1>1, ValueSetIs DEF MapReturns, Same
<1>5. w \in ValueSet /\ w.is = "map"
  BY <1>1 DEF MapReturns
<1>6. LegalHere(l, q, T, w) = (w.is = "map" /\ StorableNow(l)[q][w])
  BY DEF LegalHere, LegalOf, WholeKinds
<1>7. StorableNow(l)[q][w] = StorableMap(l, q, w)
  BY <1>5 DEF StorableNow, Storable, WholeKinds
<1>8. AcceptsMap(in, q, w) => StorableMap(l, q, w)
  BY <1>1 DEF MapReturns
<1>9. /\ PutMap(in, p, v) \in Seq(Byte)
      /\ \A tail \in Seq(Byte) : GetMap(in, q, PutMap(in, p, v) \o tail) = Got(w, tail)
  BY <1>1 DEF MapReturns, MapCame
<1> QED
  BY <1>2, <1>3, <1>4, <1>5, <1>6, <1>7, <1>8, <1>9 DEF BackHere

LEMMA MapItemBack ==
    ASSUME NEW in, NEW l, NEW e \in Nat, e + 1 <= MaxNesting, Reads(in, e), Allows(in, l),
           StoredBack(in, l), codec[l.left] = in,
           NEW p \in Platforms, NEW q \in Platforms,
           NEW v \in ValueSet, v.is = "map", StorableMap(l, p, v)
    PROVE  \E w : ItemBackHere(in, l, p, q, ValType(p, v), v, w)
<1>1. PICK w : MapReturns(in, l, p, q, v, w)
  BY MapStored
<1> DEFINE T == Scalar("map")
<1>2. T.is = "map"
  BY DEF Scalar
<1>3. w \in ValueSet /\ w.is = "map" /\ Same(v, w)
  BY <1>1 DEF MapReturns
<1>4. \A r \in Platforms : ValType(r, v) = T /\ ValType(r, w) = T
  BY <1>3, KindType DEF KindOf, PyKind, KtKind, WholeKinds
<1> HIDE DEF T
<1>5. /\ PutOf(in, p, T, v) = PutMap(in, p, v)
      /\ \A b : GetOf(in, q, T, b) = GetMap(in, q, b)
      /\ AcceptsOf(in, q, T, w) = AcceptsMap(in, q, w)
      /\ \A r, x : SizeOf(in, r, T, x) = MapSize(in, r, x)
  BY <1>2 DEF PutOf, GetOf, AcceptsOf, SizeOf, NumberKinds, WholeKinds
<1>6. KindKept(v, w)
  BY <1>3 DEF KindKept, WholeKinds
<1>7. ASSUME TakenHere(in, q, w) PROVE Storable(l, q, w) /\ SameSizeHere(in, p, q, v, w)
  <2>1. AcceptsMap(in, q, w)
    BY <1>3, <1>4, <1>5, <1>7 DEF TakenHere, WholeKinds
  <2>2. StorableMap(l, q, w) /\ \A r \in {q, "python"} : MapSize(in, r, w) = MapSize(in, From(p, r), v)
    BY <1>1, <2>1 DEF MapReturns
  <2>3. Storable(l, q, w)
    BY <1>3, <2>2 DEF Storable, WholeKinds
  <2>4. \A r \in {q, "python"} : r \in Platforms /\ From(p, r) \in Platforms
    BY DEF From, Platforms
  <2>5. SameSizeHere(in, p, q, v, w)
    BY <1>4, <1>5, <2>2, <2>4 DEF SameSizeHere
  <2> QED
    BY <2>3, <2>5
<1>8. /\ PutMap(in, p, v) \in Seq(Byte)
      /\ \A tail \in Seq(Byte) : GetMap(in, q, PutMap(in, p, v) \o tail) = Got(w, tail)
  BY <1>1 DEF MapReturns, MapCame
<1>9. ItemBackHere(in, l, p, q, T, v, w)
  BY <1>3, <1>5, <1>6, <1>7, <1>8 DEF ItemBackHere
<1> QED
  BY <1>4, <1>9

----------------------------------------------------------------------------
\* One call around another.
LEMMA LongIsType == Scalar("long") \in Types /\ Scalar("int") \in Types
<1>1. Scalar("long") \in DataTypes /\ Scalar("int") \in DataTypes
  BY DEF DataTypes, NumberKinds, WholeKinds
<1> QED
  BY <1>1 DEF Types, FieldTypes

LEMMA ItemAround ==
    ASSUME NEW in, NEW l, NEW p \in Platforms, NEW q \in Platforms, NEW T \in Types,
           NEW v \in ValueSet, NEW w, ItemBackHere(in, l, p, q, T, v, w)
    PROVE  ItemBack(CodecAround(in), LegalAround(l), p, q, T, v, w)
<1> DEFINE c == CodecAround(in)
           k == LegalAround(l)
<1>1. w \in ValueSet
  BY DEF ItemBackHere
<1>2. c.put[p][T][v] = PutOf(in, p, T, v) /\ \A b \in Seq(Byte) : c.get[q][T][b] = GetOf(in, q, T, b)
  BY CodecFields
<1>3. \A r \in Platforms : \A x \in ValueSet :
         /\ c.accepts[r][ValType(r, x)][x] = AcceptsOf(in, r, ValType(r, x), x)
         /\ c.accepts[r][Scalar("long")][x] = AcceptsOf(in, r, Scalar("long"), x)
         /\ c.size[r][ValType(r, x)][x] = SizeOf(in, r, ValType(r, x), x)
         /\ k.storable[r][x] = Storable(l, r, x)
  <2> SUFFICES ASSUME NEW r \in Platforms, NEW x \in ValueSet
               PROVE  /\ c.accepts[r][ValType(r, x)][x] = AcceptsOf(in, r, ValType(r, x), x)
                      /\ c.accepts[r][Scalar("long")][x] = AcceptsOf(in, r, Scalar("long"), x)
                      /\ c.size[r][ValType(r, x)][x] = SizeOf(in, r, ValType(r, x), x)
                      /\ k.storable[r][x] = Storable(l, r, x)
    OBVIOUS
  <2>1. ValType(r, x) \in Types
    BY ValTypeIsType
  <2> QED
    BY <2>1, CodecFields, LongIsType, LawfulFields
<1> HIDE DEF c, k
<1>4. \A r \in {q, "python"} : r \in Platforms /\ From(p, r) \in Platforms
  BY DEF From, Platforms
<1>5. Taken(c, q, w) => TakenHere(in, q, w)
  BY <1>1, <1>3 DEF Taken, TakenHere
<1>6. SameSizeHere(in, p, q, v, w) => SameSize(c, p, q, v, w)
  BY <1>1, <1>3, <1>4 DEF SameSizeHere, SameSize
<1>7. PutOf(in, p, T, v) \in Seq(Byte)
  BY DEF ItemBackHere
<1>8. Brings(c, q, T, c.put[p][T][v], w)
  <2> SUFFICES ASSUME NEW tail \in Seq(Byte) PROVE c.get[q][T][c.put[p][T][v] \o tail] = Got(w, tail)
    BY DEF Brings
  <2>1. PutOf(in, p, T, v) \o tail \in Seq(Byte)
    BY <1>7, Parts
  <2>2. GetOf(in, q, T, PutOf(in, p, T, v) \o tail) = Got(w, tail)
    BY DEF ItemBackHere
  <2> QED
    BY <1>2, <2>1, <2>2
<1>9. ItemBack(c, k, p, q, T, v, w)
  <2>1. Same(v, w) /\ KindKept(v, w)
    BY DEF ItemBackHere
  <2>2. (T = ValType(p, v) \/ q = "python") /\ Taken(c, q, w) => k.storable[q][w] /\ SameSize(c, p, q, v, w)
    BY <1>1, <1>3, <1>5, <1>6 DEF ItemBackHere
  <2> QED
    BY <1>1, <1>2, <1>7, <1>8, <2>1, <2>2 DEF ItemBack
<1> QED
  BY <1>9 DEF c, k

LEMMA BackAround ==
    ASSUME NEW in, NEW l, NEW m, NEW p \in Platforms, NEW q \in Platforms, NEW T \in FieldTypes,
           NEW v \in ValueSet, NEW w \in ValueSet, BackHere(in, l, m, p, q, T, v, w)
    PROVE  Back(CodecAround(in), LegalAround(l), MeaningAround(m), p, q, T, v, w)
<1> DEFINE c == CodecAround(in)
<1>0. T \in Types
  BY FieldTypesIn
<1>1. /\ c.put[p][T][v] = PutOf(in, p, T, v)
      /\ \A b \in Seq(Byte) : c.get[q][T][b] = GetOf(in, q, T, b)
      /\ c.accepts[q][T][w] = AcceptsOf(in, q, T, w)
  BY <1>0, CodecFields
<1>2. LegalAround(l).legal[q][T][w] = LegalHere(l, q, T, w)
  BY LawfulFields
<1>3. /\ MeaningAround(m)[q][T][w] = MeaningOf(m, q, T, w)
      /\ MeaningAround(m)[p][T][v] = MeaningOf(m, p, T, v)
  BY DEF MeaningAround
<1> HIDE DEF c
<1>4. PutOf(in, p, T, v) \in Seq(Byte)
  BY DEF BackHere
<1>5. Brings(c, q, T, c.put[p][T][v], w)
  <2> SUFFICES ASSUME NEW tail \in Seq(Byte) PROVE c.get[q][T][c.put[p][T][v] \o tail] = Got(w, tail)
    BY DEF Brings
  <2>1. PutOf(in, p, T, v) \o tail \in Seq(Byte)
    BY <1>4, Parts
  <2>2. GetOf(in, q, T, PutOf(in, p, T, v) \o tail) = Got(w, tail)
    BY DEF BackHere
  <2> QED
    BY <1>1, <2>1, <2>2
<1>6. Back(c, LegalAround(l), MeaningAround(m), p, q, T, v, w)
  BY <1>1, <1>2, <1>3, <1>4, <1>5 DEF Back, BackHere
<1> QED
  BY <1>6 DEF c

LEMMA FlatInTypes ==
    \A is \in NumberKinds \cup {"boolean"} : Scalar(is) \in Types
<1>1. \A is \in NumberKinds \cup {"boolean"} : Scalar(is) \in DataTypes
  BY DEF DataTypes
<1> QED
  BY <1>1 DEF Types, FieldTypes

LEMMA PlainlyAround == ASSUME NEW in PROVE Plainly(CodecAround(in))
<1> DEFINE c == CodecAround(in)
<1>1. ASSUME NEW r \in Platforms, NEW is \in NumberKinds \cup {"boolean"}, NEW v \in ValueSet
      PROVE  c.size[r][Scalar(is)][v] = WidthOf(is)
  <2>1. Scalar(is) \in Types
    BY FlatInTypes
  <2> QED
    BY <2>1, CodecFields, FlatSize
<1>2. ASSUME NEW v \in ValueSet, v.is \in WholeKinds, c.accepts["python"][Scalar("int")][v]
      PROVE  InWidth(v.n, IntWidth)
  <2> DEFINE T == Scalar("int")
  <2>1. T.is = "int" /\ T \in Types /\ "python" \in Platforms /\ WidthOf("int") = IntWidth
    BY LongIsType DEF Scalar, Platforms, WidthOf
  <2>2. AcceptsOf(in, "python", T, v)
    BY <1>2, <2>1, CodecFields
  <2> HIDE DEF T
  <2>3. PyAcceptsNumber("int", v)
    BY <2>1, <2>2 DEF AcceptsOf, WholeKinds
  <2>4. PyWhole(v) = {v.n}
    BY <1>2 DEF PyWhole, WholeKinds
  <2> QED
    BY <2>1, <2>3, <2>4 DEF PyAcceptsNumber
<1>3. \A r, s \in Platforms : \A is \in NumberKinds \cup {"boolean"} : \A v, w \in ValueSet :
         c.size[r][Scalar(is)][v] = c.size[s][Scalar(is)][w]
  <2> HIDE DEF c
  <2> QED
    BY <1>1
<1> HIDE DEF c
<1>4. Plainly(c)
  BY <1>2, <1>3 DEF Plainly
<1> QED
  BY <1>4 DEF c

LEMMA PlainlyNothing == Plainly(TooDeep)
<1>1. \A r \in Platforms : \A is \in NumberKinds \cup {"boolean"} : \A v \in ValueSet :
         TooDeep.size[r][Scalar(is)][v] = 0
  BY FlatInTypes DEF TooDeep, Codec
<1>2. \A v \in ValueSet : ~TooDeep.accepts["python"][Scalar("int")][v]
  BY LongIsType, TooDeepFields DEF Platforms
<1> QED
  BY <1>1, <1>2 DEF Plainly

\* Whatever an untyped map may hold comes back of it, one call deeper.
LEMMA StoredHere ==
    ASSUME NEW in, NEW l, NEW e \in Nat, e + 1 <= MaxNesting, Reads(in, e), Allows(in, l),
           StoredBack(in, l), Plainly(in), codec[l.left] = in,
           NEW p \in Platforms, NEW q \in Platforms, NEW v \in ValueSet, Storable(l, p, v)
    PROVE  /\ v.is \in StorableKinds /\ Told(ValType(p, v))
           /\ \E w : ItemBackHere(in, l, p, q, ValType(p, v), v, w)
           /\ p = "python" /\ v.is \in WholeKinds => \E w : ItemBackHere(in, l, p, q, Scalar("long"), v, w)
<1>1. CASE v.is \in {"text", "null", "bool", "float"}
  <2>1. v.is \in StorableKinds /\ v.is \notin WholeKinds
    BY <1>1 DEF StorableKinds, NumberKinds, WholeKinds
  <2>2. \E w : ItemBackHere(in, l, p, q, ValType(p, v), v, w)
    BY <1>1, UnchangedStored, FloatStored
  <2>3. /\ ValType(p, v) = Scalar(KindOf(p, v))
        /\ KindOf(p, v) \in {"string", "null", "boolean", "float"}
    BY <1>1, KindType DEF KindOf, PyKind, KtKind, WholeKinds
  <2>4. Told(ValType(p, v))
    BY <2>3, ToldTypes DEF NumberKinds
  <2> QED
    BY <2>1, <2>2, <2>4
<1>2. CASE v.is \in WholeKinds
  <2>1. v.is \notin {"text", "bool", "null", "float", "map", "list", "array"} /\ v.is \in StorableKinds
    BY <1>2 DEF StorableKinds, NumberKinds, WholeKinds
  <2>2. IF p = "python" THEN IsWhole(p, "long", v) ELSE IsWhole(p, v.is, v) /\ (v.is = "byte" => v.n >= 0)
    BY <1>2, <2>1 DEF Storable
  <2>3. ValType(p, v) = Scalar(KindOf(p, v))
    BY <2>1, KindType
  <2>4. CASE p = "python"
    <3>1. InWidth(v.n, LongWidth)
      BY <2>2, <2>4 DEF IsWhole, WidthOf
    <3>2. WidthOf("long") = LongWidth /\ WidthOf("int") = IntWidth
          /\ {"long", "int"} \subseteq WholeKinds /\ {"long", "int"} \subseteq NumberKinds
      BY DEF WidthOf, WholeKinds, NumberKinds
    <3>3. \E w : ItemBackHere(in, l, p, q, Scalar("long"), v, w)
      BY <1>2, <3>1, <3>2, WholeStored
    <3>4. KindOf(p, v) = IF InWidth(v.n, IntWidth) THEN "int" ELSE "long"
      BY <1>2, <2>1, <2>4 DEF KindOf, PyKind
    <3>5. \E w : ItemBackHere(in, l, p, q, ValType(p, v), v, w)
      <4>1. CASE InWidth(v.n, IntWidth)
        <5>1. \E w : ItemBackHere(in, l, p, q, Scalar("int"), v, w)
          BY <1>2, <3>2, <4>1, WholeStored
        <5> QED
          BY <2>3, <3>4, <4>1, <5>1
      <4> QED
        BY <2>3, <3>3, <3>4, <4>1
    <3>6. Told(ValType(p, v))
      BY <2>3, <3>2, <3>4, ToldTypes
    <3> QED
      BY <2>1, <3>3, <3>5, <3>6
  <2>5. CASE p # "python"
    <3>1. KindOf(p, v) = v.is
      BY <2>1, <2>5 DEF KindOf, KtKind
    <3>2. InWidth(v.n, WidthOf(v.is)) /\ (v.is = "byte" => v.n >= 0)
      BY <2>2, <2>5 DEF IsWhole
    <3>3. \E w : ItemBackHere(in, l, p, q, Scalar(v.is), v, w)
      BY <1>2, <3>2, WholeStored
    <3>4. Told(Scalar(v.is))
      BY <1>2, ToldTypes DEF NumberKinds
    <3> QED
      BY <2>1, <2>3, <2>5, <3>1, <3>3, <3>4
  <2> QED
    BY <2>4, <2>5
<1>3. CASE v.is = "map"
  <2>1. v.is \in StorableKinds /\ v.is \notin WholeKinds
    BY <1>3 DEF StorableKinds, WholeKinds
  <2>2. StorableMap(l, p, v)
    BY <1>3 DEF Storable, WholeKinds
  <2>3. \E w : ItemBackHere(in, l, p, q, ValType(p, v), v, w)
    BY <1>3, <2>2, MapItemBack
  <2>4. ValType(p, v) = Scalar("map")
    BY <1>3, KindType DEF KindOf, PyKind, KtKind, WholeKinds
  <2> QED
    BY <2>1, <2>3, <2>4, ToldTypes
<1>4. CASE v.is = "list"
  <2>1. v.is \in StorableKinds /\ v.is \notin WholeKinds
    BY <1>4 DEF StorableKinds, WholeKinds
  <2>2. StorableList(l, p, v)
    BY <1>4 DEF Storable, WholeKinds
  <2> QED
    BY <1>4, <2>1, <2>2, ListStored
<1>5. CASE v.is \notin {"text", "null", "bool", "float", "map", "list"} \cup WholeKinds
  BY <1>5 DEF Storable, WholeKinds
<1> QED
  BY <1>1, <1>2, <1>3, <1>4, <1>5

LEMMA StoredStep ==
    ASSUME NEW in, NEW l, NEW e \in Nat, e + 1 <= MaxNesting, Reads(in, e), Allows(in, l),
           StoredBack(in, l), Plainly(in), codec[l.left] = in
    PROVE  StoredBack(CodecAround(in), LegalAround(l))
<1> SUFFICES ASSUME NEW p \in Platforms, NEW q \in Platforms, NEW v \in ValueSet,
                    LegalAround(l).storable[p][v]
             PROVE  StoredBackAt(CodecAround(in), LegalAround(l), p, q, v)
  BY DEF StoredBack
<1>1. Storable(l, p, v)
  BY LawfulFields
<1>2. /\ v.is \in StorableKinds /\ Told(ValType(p, v))
      /\ \E w : ItemBackHere(in, l, p, q, ValType(p, v), v, w)
      /\ p = "python" /\ v.is \in WholeKinds => \E w : ItemBackHere(in, l, p, q, Scalar("long"), v, w)
  BY <1>1, StoredHere
<1>3. ValType(p, v) \in Types
  BY ValTypeIsType
<1>4. \E w : ItemBack(CodecAround(in), LegalAround(l), p, q, ValType(p, v), v, w)
  BY <1>2, <1>3, ItemAround
<1>5. p = "python" /\ v.is \in WholeKinds =>
         \E w : ItemBack(CodecAround(in), LegalAround(l), p, q, Scalar("long"), v, w)
  BY <1>2, LongIsType, ItemAround
<1> QED
  BY <1>2, <1>4, <1>5 DEF StoredBackAt

----------------------------------------------------------------------------
\* The value of a schema's type comes back, one call deeper.
LEMMA TextNumbers ==
    ASSUME NEW p \in Platforms, NEW v \in ValueSet, v.is = "text", v.t \in DOMAIN Spells,
           Spells[v.t].is = "int"
    PROVE  Spells[v.t].n \in Int /\ Whole(p, v) = {Spells[v.t].n}
<1>1. Spells[v.t].n \in Int
  BY SpellsFacts
<1>2. {u \in {v.t} \cap DOMAIN Spells : v.is = "text" /\ Spells[u].is = "int"} = {v.t}
  OBVIOUS
<1>3. {Spells[t].n : t \in {v.t}} = {Spells[v.t].n}
  OBVIOUS
<1>4. PyWhole(v) = {Spells[v.t].n} /\ KtWhole(v) = {Spells[v.t].n}
  BY <1>2, <1>3 DEF PyWhole, KtWhole, WholeKinds
<1> QED
  BY <1>1, <1>4 DEF Whole

\* A number, or a text that spells one, is as much for both libraries until
\* they make it a float.
LEMMA OneAmount ==
    ASSUME NEW v \in ValueSet, v.is \in NumberKinds \/ (v.is = "text" /\ v.t \in DOMAIN Spells)
    PROVE  \E a \in Int : \A s : /\ Amount(s, v) = {a} /\ Halves(s, v) = {Held(s, a)}
                                /\ Held(s, a) \in Int
<1>1. \E a \in Int : \A s : Amount(s, v) = {a}
  <2>1. CASE v.is \in NumberKinds
    <3> DEFINE a == IF v.is = "float" THEN v.n ELSE 2 * v.n
    <3>1. \A s : Amount(s, v) = {a}
      BY <2>1, AmountOfNumber
    <3>2. a \in Int
      BY InsideFacts
    <3> QED
      BY <3>1, <3>2
  <2>2. CASE v.is = "text" /\ v.t \in DOMAIN Spells
    <3> DEFINE n == Spells[v.t].n
               a == IF Spells[v.t].is = "float" THEN n ELSE 2 * n
    <3>1. \A s : Amount(s, v) = {a}
      BY <2>2, AmountOfText
    <3>2. n \in Int
      BY <2>2, SpellsFacts
    <3> HIDE DEF n
    <3>3. a \in Int
      BY <3>2
    <3> QED
      BY <3>1, <3>3
  <2> QED
    BY <2>1, <2>2
<1>2. PICK a \in Int : \A s : Amount(s, v) = {a}
  BY <1>1
<1>3. ASSUME NEW s PROVE Halves(s, v) = {Held(s, a)} /\ Held(s, a) \in Int
  <2>1. Halves(s, v) = {Held(s, n) : n \in {a}}
    BY <1>2 DEF Halves
  <2>2. {Held(s, n) : n \in {a}} = {Held(s, a)}
    OBVIOUS
  <2>3. Held(s, a) \in Int
    BY RoundedFloats
  <2> QED
    BY <2>1, <2>2, <2>3
<1> QED
  BY <1>2, <1>3

\* What a caller gives where a float is declared.
LEMMA FloatGiven ==
    ASSUME NEW p \in Platforms, NEW T, T.is = "float", NEW v \in ValueSet,
           IsFloat(p, v) \/ (v.is = "text" /\ TextFits(p, T, v.t))
    PROVE  \E a \in Int : /\ \A s : Halves(s, v) = {Held(s, a)} /\ Held(s, a) \in Int
                        /\ InWidth(Single(Held(p, a)), WidthOf("float"))
<1>1. /\ v.is \in NumberKinds \/ (v.is = "text" /\ v.t \in DOMAIN Spells)
      /\ \A h \in Halves(p, v) : InWidth(Single(h), WidthOf("float"))
  <2>1. CASE IsFloat(p, v)
    BY <2>1 DEF IsFloat
  <2>2. CASE v.is = "text" /\ TextFits(p, T, v.t)
    <3>1. v = Text(v.t)
      BY <2>2, TextIs
    <3>2. v.t \in DOMAIN Spells /\ \A h \in Halves(p, Text(v.t)) : InWidth(Single(h), WidthOf("float"))
      BY <2>2 DEF TextFits, WholeKinds
    <3> QED
      BY <2>2, <3>1, <3>2
  <2> QED
    BY <2>1, <2>2
<1>2. PICK a \in Int : \A s : Halves(s, v) = {Held(s, a)} /\ Held(s, a) \in Int
  BY <1>1, OneAmount
<1>3. Held(p, a) \in Halves(p, v)
  BY <1>2
<1>4. InWidth(Single(Held(p, a)), WidthOf("float"))
  BY <1>1, <1>3
<1> QED
  BY <1>2, <1>4

LEMMA SimpleBack ==
    ASSUME NEW in, NEW l, NEW m, NEW e \in Nat, e + 1 <= MaxNesting, Reads(in, e), Allows(in, l),
           Returns(in, l, m), StoredBack(in, l), codec[l.left] = in,
           NEW p \in Platforms, NEW q \in Platforms, NEW T \in FieldTypes,
           NEW v \in ValueSet, Simple(p, T, v)
    PROVE  \E w : BackHere(in, l, m, p, q, T, v, w)
<1>0. \A items : /\ List(items).is = "list" /\ List(items).items = items
                 /\ Map(items).is = "map" /\ Map(items).items = items
  BY DEF List, Map, Value
<1>1. CASE v = List(<<>>) /\ T.is = "array"
  <2>1. v.is = "list" /\ v.items = <<>> /\ Len(v.items) = 0
    BY <1>0, <1>1
  <2>2. Counted(0)
    BY ShortIsCounted, WeightPositive, Widths
  <2>3. LegalItems(l, p, T.of[1], v)
    BY <2>1, <2>2 DEF LegalItems, IsItems
  <2> QED
    BY <1>1, <2>3, ArrayBack
<1>2. CASE v = Map(<<>>) /\ T.is = "map"
  <2>1. v.is = "map" /\ v.items = <<>> /\ Len(v.items) = 0
    BY <1>0, <1>2
  <2>2. StorableMap(l, p, v)
    BY <2>1, EmptyIsKeyed DEF StorableMap, KeysOf
  <2> QED
    BY <1>2, <2>1, <2>2, MapBack
<1>3. CASE v.is = "text" /\ TextFits(p, T, v.t)
  <2>1. v = Text(v.t)
    BY <1>3, TextIs
  <2>2. CASE T.is \in WholeKinds
    <3>1. v.t \in DOMAIN Spells /\ Spells[v.t].is = "int" /\ InWidth(Spells[v.t].n, WidthOf(T.is))
      BY <1>3, <2>2 DEF TextFits, WholeKinds
    <3>2. Spells[v.t].n \in Int /\ Whole(p, v) = {Spells[v.t].n}
      BY <1>3, <3>1, TextNumbers
    <3> QED
      BY <2>2, <3>1, <3>2, WholeBack
  <2>3. CASE T.is = "float"
    <3>1. PICK a \in Int : /\ \A s : Halves(s, v) = {Held(s, a)} /\ Held(s, a) \in Int
                          /\ InWidth(Single(Held(p, a)), WidthOf("float"))
      BY <1>3, <2>3, FloatGiven
    <3> DEFINE k == Held(p, a)
    <3>2. k \in Int /\ Halves(p, v) = {k} /\ InWidth(Single(k), WidthOf("float"))
      BY <3>1
    <3> HIDE DEF k
    <3> QED
      BY <2>3, <3>2, FloatBack
  <2>4. CASE T.is = "string"
    <3>1. IsText(v)
      BY <1>3, <2>1, <2>4 DEF TextFits, WholeKinds
    <3> QED
      BY <2>4, <3>1, StringBack
  <2>5. CASE T.is = "ref"
    <3>1. Resolve(T.name).is = "enum" /\ IsValueOf(Resolve(T.name), v.t)
      BY <1>3, <2>5 DEF TextFits, WholeKinds
    <3> QED
      BY <1>3, <2>5, <3>1, EnumBack
  <2>6. CASE T.is = "boolean"
    BY <2>6, BooleanBack
  <2>7. CASE T.is \notin WholeKinds \cup {"float", "string", "ref", "boolean"}
    BY <1>3, <2>7 DEF TextFits, WholeKinds
  <2> QED
    BY <2>2, <2>3, <2>4, <2>5, <2>6, <2>7
<1> QED
  BY <1>1, <1>2, <1>3 DEF Simple

LEMMA LegalBack ==
    ASSUME NEW in, NEW l, NEW m, NEW e \in Nat, e + 1 <= MaxNesting, Reads(in, e), Allows(in, l),
           Returns(in, l, m), StoredBack(in, l), codec[l.left] = in,
           NEW p \in Platforms, NEW q \in Platforms, NEW T \in FieldTypes,
           NEW v \in ValueSet, LegalHere(l, p, T, v)
    PROVE  \E w : BackHere(in, l, m, p, q, T, v, w)
<1>0. v.n \in Int
  BY InsideFacts
<1>1. CASE T.is \in WholeKinds
  <2>1. IsWhole(p, T.is, v)
    BY <1>1 DEF LegalHere, LegalOf, WholeKinds
  <2>2. Whole(p, v) = {v.n}
    BY <2>1 DEF IsWhole, Whole, PyWhole, KtWhole, WholeKinds
  <2>3. T.is = "byte" \/ InWidth(v.n, WidthOf(T.is))
    BY <2>1 DEF IsWhole
  <2> QED
    BY <1>0, <1>1, <2>2, <2>3, WholeBack
<1>2. CASE T.is = "float"
  <2>1. IsFloat(p, v)
    BY <1>2 DEF LegalHere, LegalOf, WholeKinds
  <2>2. PICK a \in Int : /\ \A s : Halves(s, v) = {Held(s, a)} /\ Held(s, a) \in Int
                        /\ InWidth(Single(Held(p, a)), WidthOf("float"))
    BY <1>2, <2>1, FloatGiven
  <2> DEFINE k == Held(p, a)
  <2>3. k \in Int /\ Halves(p, v) = {k} /\ InWidth(Single(k), WidthOf("float"))
    BY <2>2
  <2> HIDE DEF k
  <2> QED
    BY <1>2, <2>3, FloatBack
<1>3. CASE T.is = "boolean"
  BY <1>3, BooleanBack
<1>4. CASE T.is = "string"
  <2>1. IsText(v)
    BY <1>4 DEF LegalHere, LegalOf, WholeKinds
  <2> QED
    BY <1>4, <2>1, StringBack
<1>5. CASE T.is = "array"
  <2>1. LegalItems(l, p, T.of[1], v)
    BY <1>5 DEF LegalHere, LegalOf, WholeKinds
  <2> QED
    BY <1>5, <2>1, ArrayBack
<1>6. CASE T.is = "map"
  <2>1. v.is = "map" /\ StorableNow(l)[p][v]
    BY <1>6 DEF LegalHere, LegalOf, WholeKinds
  <2>2. StorableMap(l, p, v)
    BY <2>1 DEF StorableNow, Storable, WholeKinds
  <2> QED
    BY <1>6, <2>1, <2>2, MapBack
<1>7. CASE T.is = "option"
  <2>1. v.is = "null" \/ l.legal[p][T.of[1]][v]
    BY <1>7 DEF LegalHere, LegalOf, WholeKinds
  <2>2. v.is = "null" \/ (v.is # "null" /\ Given(l, p, T.of[1], v))
    BY <2>1 DEF Given
  <2> QED
    BY <1>7, <2>2, OptionBack
<1>8. CASE T.is = "ref"
  <2>1. T.name \in DeclaredNames
    BY <1>8, FieldTypeFacts
  <2> QED
    BY <1>8, <2>1, RefBack
<1> QED
  BY <1>1, <1>2, <1>3, <1>4, <1>5, <1>6, <1>7, <1>8, FieldTypeFacts DEF TypeKinds, NumberKinds

LEMMA BackInValues ==
    ASSUME NEW in, NEW l, NEW m, NEW e \in Nat, e + 1 <= MaxNesting, Reads(in, e),
           NEW p \in Platforms, NEW q \in Platforms, NEW T \in FieldTypes, NEW v, NEW w,
           BackHere(in, l, m, p, q, T, v, w)
    PROVE  w \in ValueSet
<1> DEFINE b == PutOf(in, p, T, v) \o <<>>
           r == GetOf(in, q, T, b)
<1>1. b \in Seq(Byte) /\ r = Got(w, <<>>)
  <2>1. <<>> \in Seq(Byte) /\ PutOf(in, p, T, v) \in Seq(Byte)
    BY DEF BackHere
  <2>2. b \in Seq(Byte)
    BY <2>1, Parts
  <2>3. r = Got(w, <<>>)
    BY <2>1 DEF BackHere
  <2> QED
    BY <2>2, <2>3
<1>2. T \in Types
  BY FieldTypesIn
<1>3. r \in ResultsOf(Nested[e + 1])
  <2> HIDE DEF b
  <2> QED
    BY <1>1, <1>2, GetOfFacts
<1> HIDE DEF r
<1>4. r.v = w
  BY <1>1 DEF Got
<1>5. w \in Nested[e + 1] /\ e + 1 \in Nat
  BY <1>3, <1>4, ResultFacts
<1> QED
  BY <1>5, ValueSetIs

LEMMA ReturnsStep ==
    ASSUME NEW in, NEW l, NEW m, NEW e \in Nat, e + 1 <= MaxNesting, Reads(in, e), Allows(in, l),
           Returns(in, l, m), StoredBack(in, l), codec[l.left] = in, l.left \in Nat
    PROVE  Returns(CodecAround(in), LegalAround(l), MeaningAround(m))
<1> SUFFICES ASSUME NEW p \in Platforms, NEW q \in Platforms, NEW T \in FieldTypes, NEW v \in ValueSet,
                    Given(LegalAround(l), p, T, v)
             PROVE  \E w : Back(CodecAround(in), LegalAround(l), MeaningAround(m), p, q, T, v, w)
  BY DEF Returns
<1>1. LegalAround(l).left = l.left + 1 /\ LegalAround(l).legal[p][T][v] = LegalHere(l, p, T, v)
  BY LawfulFields
<1>2. \E w : BackHere(in, l, m, p, q, T, v, w)
  <2>1. CASE LegalHere(l, p, T, v)
    BY <2>1, LegalBack
  <2>2. CASE Simple(p, T, v)
    BY <2>2, SimpleBack
  <2>3. CASE l.left + 1 >= 2 /\ DefaultFits(p, T, v)
    <3>1. CASE T.is # "option"
      <4>1. Simple(p, T, v)
        BY <2>3, <3>1 DEF DefaultFits, Simple
      <4> QED
        BY <4>1, SimpleBack
    <3>2. CASE T.is = "option"
      <4>1. v.is = "null" \/ Simple(p, T.of[1], v)
        BY <2>3, <3>2 DEF DefaultFits, Simple
      <4>2. l.left >= 1
        BY <2>3
      <4>3. v.is = "null" \/ (v.is # "null" /\ Given(l, p, T.of[1], v))
        BY <4>1, <4>2 DEF Given
      <4> QED
        BY <3>2, <4>3, OptionBack
    <3> QED
      BY <3>1, <3>2
  <2> QED
    BY <1>1, <2>1, <2>2, <2>3 DEF Given
<1>3. PICK w : BackHere(in, l, m, p, q, T, v, w)
  BY <1>2
<1>4. w \in ValueSet
  BY <1>3, BackInValues
<1> QED
  BY <1>3, <1>4, BackAround

\* Legal values come back of calls that nest to any depth: if not, there is a
\* least depth at which one does not.
LEMMA AllReturn ==
    \A d \in Nat : d <= MaxNesting =>
        Returns(codec[d], lawful[d], meaning[d]) /\ StoredBack(codec[d], lawful[d])
<1> DEFINE holds(d) == Returns(codec[d], lawful[d], meaning[d]) /\ StoredBack(codec[d], lawful[d])
           fails == {d \in Nat : d <= MaxNesting /\ ~holds(d)}
<1>1. SUFFICES ASSUME fails # {} PROVE FALSE
  OBVIOUS
<1>2. PICK d \in fails : \A k \in fails : d <= k
  <2>1. fails \in SUBSET Nat
    OBVIOUS
  <2> HIDE DEF fails
  <2> QED
    BY <1>1, <2>1, NumbersHaveLeast
<1>3. d \in Nat /\ d <= MaxNesting /\ ~holds(d)
  BY <1>2
<1>4. MaxNesting \in Nat
  BY ValueSetIs
<1>5. d # 0
  <2> SUFFICES ASSUME d = 0 PROVE holds(0)
    BY <1>3
  <2>1. codec[0] = TooDeep /\ lawful[0] = NoneIsLegal
    BY CodecAt, LawfulAt
  <2>2. \A p \in Platforms : \A T \in FieldTypes : \A v \in ValueSet : ~Given(NoneIsLegal, p, T, v)
    BY LawfulFields DEF Given
  <2>3. \A p \in Platforms : \A v \in ValueSet : ~NoneIsLegal.storable[p][v]
    BY LawfulFields
  <2> QED
    BY <2>1, <2>2, <2>3 DEF Returns, StoredBack
<1> DEFINE e == d - 1
           in == codec[e]
           l == lawful[e]
           m == meaning[e]
<1>6. e \in Nat /\ e + 1 = d /\ e <= MaxNesting /\ e + 1 <= MaxNesting /\ ~(d <= e)
  BY <1>3, <1>4, <1>5
<1>7. holds(e)
  <2>1. e \notin fails
    BY <1>2, <1>6
  <2> HIDE DEF holds
  <2> QED
    BY <1>6, <2>1
<1>8. codec[d] = CodecAround(in) /\ lawful[d] = LegalAround(l) /\ meaning[d] = MeaningAround(m)
  BY <1>6, CodecAt, LawfulAt, MeaningAt
<1>9. l.left = e /\ codec[l.left] = in
  BY <1>6, LeftIs
<1>10. Reads(in, e) /\ Allows(in, l)
  BY <1>6, CodecReads, LegalsAllowed
<1>11. Plainly(in)
  <2>1. CASE e = 0
    BY <2>1, CodecAt, PlainlyNothing
  <2>2. CASE e # 0
    <3>1. e - 1 \in Nat /\ (e - 1) + 1 = e
      BY <1>6, <2>2
    <3>2. in = CodecAround(codec[e - 1])
      BY <3>1, CodecAt
    <3> QED
      BY <3>2, PlainlyAround
  <2> QED
    BY <2>1, <2>2
<1> HIDE DEF e, in, l, m
<1>12. Returns(in, l, m) /\ StoredBack(in, l)
  BY <1>7 DEF e, in, l, m
<1>13. Returns(CodecAround(in), LegalAround(l), MeaningAround(m))
  BY <1>6, <1>9, <1>10, <1>12, ReturnsStep
<1>14. StoredBack(CodecAround(in), LegalAround(l))
  BY <1>6, <1>9, <1>10, <1>11, <1>12, StoredStep
<1> QED
  BY <1>3, <1>8, <1>13, <1>14

----------------------------------------------------------------------------
\* The exchange.
ReadBackInv ==
    LegalAtFirst =>
        /\ phase # "failed"
        /\ phase \in {"held", "sent"} => MeaningNow = MeaningAtFirst
        /\ phase = "held" /\ hops > 0 => rest = <<>>
        /\ phase = "held" /\ Accepts(holder, origin.type, held) => Legal(holder, origin.type, held)
        /\ phase = "sent" => /\ Legal(holder, origin.type, held)
                             /\ wire = Put(holder, origin.type, held)

LEMMA LegalReturns ==
    ASSUME NEW p \in Platforms, NEW q \in Platforms, NEW T \in FieldTypes, NEW v \in ValueSet, Legal(p, T, v)
    PROVE  \E w : /\ Get(q, T, Put(p, T, v)) = Got(w, <<>>)
                  /\ Meaning(q, T, w) = Meaning(p, T, v)
                  /\ Accepts(q, T, w) => Legal(q, T, w)
<1> DEFINE c == codec[MaxNesting]
           l == lawful[MaxNesting]
           m == meaning[MaxNesting]
<1>1. Returns(c, l, m)
  BY AllReturn, ValueSetIs
<1>2. Given(l, p, T, v)
  BY DEF Legal, Given
<1> HIDE DEF c, l, m
<1>3. PICK w : Back(c, l, m, p, q, T, v, w)
  BY <1>1, <1>2, ReturnsAt
<1>4. c.get[q][T][c.put[p][T][v]] = Got(w, <<>>)
  <2>1. c.put[p][T][v] \in Seq(Byte) /\ <<>> \in Seq(Byte)
    BY <1>3 DEF Back
  <2>2. c.put[p][T][v] \o <<>> = c.put[p][T][v]
    BY <2>1, BytesGroup
  <2>3. c.get[q][T][c.put[p][T][v] \o <<>>] = Got(w, <<>>)
    BY <1>3, <2>1 DEF Back, Brings
  <2> QED
    BY <2>2, <2>3
<1> QED
  BY <1>3, <1>4 DEF Back, Get, Put, Meaning, Accepts, Legal, c, l, m

\* What is sent of a value that is of its type are its bytes and no more.
LEMMA LegalIsSentWhole ==
    ASSUME NEW p \in Platforms, NEW T \in FieldTypes, NEW v \in ValueSet, Legal(p, T, v)
    PROVE  Message(p, Size(p, T, v), Put(p, T, v)) = Put(p, T, v)
<1> DEFINE n == Size(p, T, v)
           bytes == Put(p, T, v)
<1>1. Allows(codec[MaxNesting], lawful[MaxNesting])
  BY LegalsAllowed, ValueSetIs
<1>2. AllowsLegal(codec[MaxNesting], lawful[MaxNesting], p, T, v)
  BY <1>1 DEF Allows
<1>3. Called(codec[MaxNesting], p, T, v)
  BY <1>2 DEF AllowsLegal, Legal
<1>4. bytes \in Seq(Byte) /\ Len(bytes) \in Nat /\ n = Len(bytes)
  BY <1>3 DEF Called, Exactly, Foreseen, Size, Put
<1> HIDE DEF n, bytes
<1>5. [i \in 1..(n - Len(bytes)) |-> 0] = <<>>
  <2>1. n - Len(bytes) = 0
    BY <1>4
  <2>2. [i \in 1..0 |-> 0] = <<>>
    OBVIOUS
  <2> QED
    BY <2>1, <2>2
<1>6. Message(p, n, bytes) = bytes
  BY <1>4, <1>5 DEF Message
<1> QED
  BY <1>6 DEF n, bytes

LEMMA ReadBackInit == Init => ReadBackInv
<1> SUFFICES ASSUME Init, LegalAtFirst
             PROVE  /\ phase = "held" /\ hops = 0 /\ MeaningNow = MeaningAtFirst
                    /\ Legal(holder, origin.type, held)
  BY DEF ReadBackInv
<1> QED
  BY DEF Init, LegalAtFirst, MeaningNow, MeaningAtFirst

LEMMA ReadBackSerialize ==
    ASSUME ExchangeInv, ReadBackInv, Serialize
    PROVE  ReadBackInv'
<1> SUFFICES ASSUME LegalAtFirst' PROVE ReadBackInv'
  BY DEF ReadBackInv
<1>1. /\ phase = "held" /\ origin' = origin /\ holder' = holder /\ held' = held
  BY DEF Serialize
<1>2. LegalAtFirst /\ MeaningNow' = MeaningNow /\ MeaningAtFirst' = MeaningAtFirst
  BY <1>1 DEF LegalAtFirst, MeaningNow, MeaningAtFirst
<1>3. holder \in Platforms /\ origin.type \in FieldTypes /\ held \in ValueSet
  BY CaseFacts DEF ExchangeInv, TypeOK
<1>4. MeaningNow = MeaningAtFirst
  BY <1>1, <1>2 DEF ReadBackInv
<1>5. CASE Passes(holder, origin.type, held)
  <2>1. Accepts(holder, origin.type, held)
    BY <1>5 DEF Passes
  <2>2. Legal(holder, origin.type, held)
    BY <1>1, <1>2, <2>1 DEF ReadBackInv
  <2>3. /\ phase' = "sent"
        /\ wire' = Message(holder, Size(holder, origin.type, held), Put(holder, origin.type, held))
    BY <1>5 DEF Passes, Serialize, Send
  <2>4. wire' = Put(holder, origin.type, held)
    BY <1>3, <2>2, <2>3, LegalIsSentWhole
  <2> QED
    BY <1>1, <1>2, <1>4, <2>2, <2>3, <2>4 DEF ReadBackInv
<1>6. CASE ~Passes(holder, origin.type, held)
  <2>1. phase' = "refused"
    BY <1>6 DEF Passes, Serialize, Send
  <2> QED
    BY <2>1 DEF ReadBackInv
<1> QED
  BY <1>5, <1>6

LEMMA ReadBackDeserialize ==
    ASSUME NEW p \in Platforms, ExchangeInv, ReadBackInv, Deserialize(p)
    PROVE  ReadBackInv'
<1> SUFFICES ASSUME LegalAtFirst' PROVE ReadBackInv'
  BY DEF ReadBackInv
<1>1. phase = "sent" /\ origin' = origin /\ holder' = p /\ Receive(Get(p, origin.type, wire))
  BY DEF Deserialize
<1>2. LegalAtFirst /\ MeaningAtFirst' = MeaningAtFirst
  BY <1>1 DEF LegalAtFirst, MeaningAtFirst
<1>3. holder \in Platforms /\ origin.type \in FieldTypes /\ held \in ValueSet
  BY CaseFacts DEF ExchangeInv, TypeOK
<1>4. /\ MeaningNow = MeaningAtFirst /\ Legal(holder, origin.type, held)
      /\ wire = Put(holder, origin.type, held)
  BY <1>1, <1>2 DEF ReadBackInv
<1>5. PICK w : /\ Get(p, origin.type, Put(holder, origin.type, held)) = Got(w, <<>>)
               /\ Meaning(p, origin.type, w) = Meaning(holder, origin.type, held)
               /\ Accepts(p, origin.type, w) => Legal(p, origin.type, w)
  BY <1>3, <1>4, LegalReturns
<1>6. Got(w, <<>>).ok /\ Got(w, <<>>).v = w /\ Got(w, <<>>).rest = <<>>
  BY DEF Got
<1>7. phase' = "held" /\ held' = w /\ rest' = <<>>
  BY <1>1, <1>4, <1>5, <1>6 DEF Receive
<1>8. MeaningNow' = MeaningAtFirst'
  <2>1. MeaningNow' = Meaning(p, origin.type, w)
    BY <1>1, <1>7 DEF MeaningNow, Meaning
  <2>2. MeaningNow = Meaning(holder, origin.type, held)
    BY DEF MeaningNow
  <2> QED
    BY <1>2, <1>4, <1>5, <2>1, <2>2
<1>9. Accepts(holder, origin.type, held)' => Legal(holder, origin.type, held)'
  BY <1>1, <1>5, <1>7 DEF Accepts, Legal
<1> QED
  BY <1>7, <1>8, <1>9 DEF ReadBackInv

LEMMA ReadBackNext == ExchangeInv /\ ReadBackInv /\ [Next]_vars => ReadBackInv'
<1> SUFFICES ASSUME ExchangeInv, ReadBackInv, [Next]_vars PROVE ReadBackInv'
  OBVIOUS
<1>1. CASE Serialize
  BY <1>1, ReadBackSerialize
<1>2. ASSUME NEW p \in Platforms, Deserialize(p) PROVE ReadBackInv'
  BY <1>2, ReadBackDeserialize
<1>3. CASE UNCHANGED vars
  BY <1>3 DEF vars, ReadBackInv, LegalAtFirst, MeaningNow, MeaningAtFirst, Accepts, Legal, Meaning, Put
<1> QED
  BY <1>1, <1>2, <1>3 DEF Next

\* A value of its type that was accepted and sent is read by both libraries,
\* whichever wrote it and however often it has been passed on: the bytes of
\* every type are read back as far as they go, and what is read, if it is let
\* through at all, is of its type again.
THEOREM ReadBackInvariant == Spec => []ReadBackInv
<1>1. Init => ExchangeInv /\ ReadBackInv
  BY ExchangeInit, ReadBackInit
<1>2. (ExchangeInv /\ ReadBackInv) /\ [Next]_vars => (ExchangeInv /\ ReadBackInv)'
  BY ExchangeNext, ReadBackNext
<1>3. ExchangeInv /\ ReadBackInv => ReadBackInv
  OBVIOUS
<1> QED
  BY <1>1, <1>2, <1>3, PTL DEF Spec

\* A message made of a value of its type makes no reader raise, in either
\* library and after any number of hops.
THEOREM SentsAreRead == Spec => []SentIsRead
<1>1. ReadBackInv => SentIsRead
  BY DEF ReadBackInv, SentIsRead
<1> QED
  BY <1>1, ReadBackInvariant, PTL

\* Through any chain of Python and Kotlin callers, of any length, a value of
\* its type keeps its meaning, a float the single that is nearest to it, and
\* each reader takes the whole message.
THEOREM MeaningsSurvive == Spec => []MeaningSurvives
<1>1. ReadBackInv => MeaningSurvives
  BY DEF ReadBackInv, MeaningSurvives
<1> QED
  BY <1>1, ReadBackInvariant, PTL

----------------------------------------------------------------------------
\* The annotations: the size of a number and a text are kept on the way.

\* What is read of a value's bytes, one call deeper.
Comes(in, p, q, T, v, w) ==
    /\ PutOf(in, p, T, v) \in Seq(Byte)
    /\ \A tail \in Seq(Byte) : GetOf(in, q, T, PutOf(in, p, T, v) \o tail) = Got(w, tail)

\* A value that comes can be no other.
LEMMA ComesOnce ==
    ASSUME NEW in, NEW p, NEW q, NEW T, NEW v, NEW w, Comes(in, p, q, T, v, w),
           NEW bytes, PutOf(in, p, T, v) = bytes,
           NEW x, GetOf(in, q, T, bytes \o <<>>) = Got(x, <<>>)
    PROVE  w = x
<1>1. <<>> \in Seq(Byte)
  OBVIOUS
<1>2. GetOf(in, q, T, PutOf(in, p, T, v) \o <<>>) = Got(w, <<>>)
  BY <1>1 DEF Comes
<1>3. Got(w, <<>>) = Got(x, <<>>)
  BY <1>2
<1> QED
  BY <1>3 DEF Got

LEMMA WholeKept ==
    ASSUME NEW in, NEW p \in Platforms, NEW q \in Platforms,
           NEW T, T.is \in WholeKinds \ {"byte"}, NEW v, NEW k \in Int, Whole(p, v) = {k},
           InWidth(k, WidthOf(T.is)), NEW w, Comes(in, p, q, T, v, w)
    PROVE  w.is \in WholeKinds /\ w.n = k
<1> DEFINE x == Arrived(q, T.is, k)
           bytes == NumberBytes(k, WidthOf(T.is))
<1>0. T.is \in NumberKinds /\ T.is \in {"short", "int", "long"} /\ <<>> \in Seq(Byte)
  BY DEF NumberKinds, WholeKinds
<1>1. (CHOOSE n \in Whole(p, v) : TRUE) = k
  OBVIOUS
<1>2. PutOf(in, p, T, v) = bytes
  BY <1>1 DEF PutOf, NumberKinds, WholeKinds
<1>3. GetOf(in, q, T, bytes \o <<>>) = Got(x, <<>>)
  <2>1. GetNumber(q, T.is, bytes \o <<>>) = Got(x, <<>>)
    BY <1>0, NumberArrives
  <2> QED
    BY <1>0, <2>1 DEF GetOf
<1>4. x.is \in WholeKinds /\ x.n = k
  BY <1>0, ArrivedFacts
<1> HIDE DEF x, bytes
<1>5. w = x
  BY <1>2, <1>3, ComesOnce
<1> QED
  BY <1>4, <1>5

LEMMA FloatKept ==
    ASSUME NEW in, NEW p \in Platforms, NEW q \in Platforms,
           NEW T, T.is = "float", NEW v, NEW k \in Int, Halves(p, v) = {k},
           InWidth(Single(k), WidthOf("float")), NEW w, Comes(in, p, q, T, v, w)
    PROVE  w = Number("float", Single(k))
<1> DEFINE x == Number("float", Single(k))
           bytes == PutOf(in, p, T, v)
<1>1. GetOf(in, q, T, bytes \o <<>>) = Got(x, <<>>)
  <2>1. <<>> \in Seq(Byte)
    OBVIOUS
  <2>2. \A tail \in Seq(Byte) :
           GetOf(in, q, T, PutOf(in, p, T, v) \o tail) = Got(Number("float", Single(k)), tail)
    BY FloatGoes
  <2> QED
    BY <2>1, <2>2
<1> HIDE DEF x, bytes
<1>2. w = x
  BY <1>1, ComesOnce DEF bytes
<1> QED
  BY <1>2 DEF x

LEMMA TextKept ==
    ASSUME NEW in, NEW p \in Platforms, NEW q \in Platforms,
           NEW T, T.is = "string", NEW v \in ValueSet, IsText(v), NEW w, Comes(in, p, q, T, v, w)
    PROVE  w = v
<1>0. T.is \notin NumberKinds /\ T.is \notin WholeKinds /\ T.is = "string" /\ <<>> \in Seq(Byte)
  BY DEF NumberKinds, WholeKinds
<1>1. v.is = "text" /\ v = Text(v.t) /\ v.t \in TextNames /\ Counted(Len(TextBytes(v.t)))
  BY TextIs DEF IsText
<1>2. ToText(p, v) = v.t
  BY <1>1 DEF ToText
<1>3. PutOf(in, p, T, v) = PutText(v.t)
  BY <1>0, <1>1, <1>2 DEF PutOf, NumberKinds, WholeKinds
<1>4. GetOf(in, q, T, PutText(v.t) \o <<>>) = Got(v, <<>>)
  <2>1. GetString(q, PutText(v.t) \o <<>>) = Got(Text(v.t), <<>>)
    BY <1>0, <1>1, TextArrives
  <2> QED
    BY <1>0, <1>1, <2>1 DEF GetOf
<1> QED
  BY <1>3, <1>4, ComesOnce

\* What is measured alike of two values is admitted alike.
LEMMA AdmittedAlike ==
    ASSUME NEW p \in Platforms, NEW q \in Platforms, NEW v, NEW w, NEW r, Alike(r, v),
           \A s \in Platforms : Measure(s, r, w) = Measure(s, r, v)
    PROVE  Alike(r, w) /\ (Admits(p, r, v) => Admits(q, r, w))
<1>1. /\ Measure("python", r, v) = Measure("kotlin", r, v)
      /\ Bound("python", r) = Bound("kotlin", r)
  BY DEF Alike
<1>2. Measure("python", r, w) = Measure("python", r, v) /\ Measure("kotlin", r, w) = Measure("kotlin", r, v)
  BY DEF Platforms
<1>3. Alike(r, w)
  BY <1>1, <1>2 DEF Alike
<1>4. Measure(p, r, v) = Measure(q, r, w) /\ Bound(p, r) = Bound(q, r)
  BY <1>1, <1>2 DEF Platforms
<1> QED
  BY <1>3, <1>4 DEF Admits

\* What a caller gives for a type, one call deeper.
GivenHere(l, p, T, v) ==
    \/ LegalHere(l, p, T, v)
    \/ Simple(p, T, v)
    \/ l.left >= 1 /\ DefaultFits(p, T, v)

\* No option is in an option.
LEMMA OptionOfNone ==
    ASSUME NEW T \in FieldTypes, T.is = "option"
    PROVE  T.of[1] \in FieldTypes /\ T.of[1].is # "option"
<1> DEFINE D == T.of[1]
<1>1. D \in FieldTypes
  BY FieldTypeFacts
<1>2. D \in DataTypes \cup {ArrayOf(X) : X \in DataTypes}
  <2> HIDE DEF D
  <2>1. T \notin DataTypes
    BY DataTypesAre DEF NumberKinds, WholeKinds
  <2> QED
    BY <2>1, FieldTypesAre DEF D
<1>3. \A X : ArrayOf(X).is = "array"
  BY DEF ArrayOf
<1> HIDE DEF D
<1>4. D \in DataTypes => D.is # "option"
  BY DataTypesAre DEF NumberKinds, WholeKinds
<1>5. D \in FieldTypes /\ D.is # "option"
  BY <1>1, <1>2, <1>3, <1>4
<1> QED
  BY <1>5 DEF D

\* The number a caller gives where one is declared is the number that is read,
\* if it is the same float in both libraries.
LEMMA NumberKept ==
    ASSUME NEW in, NEW l, NEW p \in Platforms, NEW q \in Platforms,
           NEW T, T.is \in NumberKinds \ {"byte"}, NEW v \in ValueSet,
           LegalHere(l, p, T, v) \/ (v.is = "text" /\ TextFits(p, T, v.t)),
           NEW w, Comes(in, p, q, T, v, w), Halves("python", v) = Halves("kotlin", v),
           NEW s \in Platforms
    PROVE  Halves(s, w) = Halves(s, v)
<1>1. CASE T.is \in WholeKinds
  <2>1. \E k \in Int : Whole(p, v) = {k} /\ Amount(s, v) = {2 * k} /\ InWidth(k, WidthOf(T.is))
    <3>1. CASE LegalHere(l, p, T, v)
      <4>1. IsWhole(p, T.is, v)
        BY <1>1, <3>1 DEF LegalHere, LegalOf, WholeKinds
      <4>2. Whole(p, v) = {v.n} /\ v.n \in Int
        BY <4>1, InsideFacts DEF IsWhole, Whole, PyWhole, KtWhole, WholeKinds
      <4>3. InWidth(v.n, WidthOf(T.is))
        BY <4>1 DEF IsWhole
      <4>4. v.is \in NumberKinds /\ v.is # "float"
        BY <4>1 DEF IsWhole, NumberKinds, WholeKinds
      <4>5. Amount(s, v) = {2 * v.n}
        BY <4>4, AmountOfNumber
      <4> QED
        BY <4>2, <4>3, <4>5
    <3>2. CASE v.is = "text" /\ TextFits(p, T, v.t)
      <4>1. v.t \in DOMAIN Spells /\ Spells[v.t].is = "int" /\ InWidth(Spells[v.t].n, WidthOf(T.is))
        BY <1>1, <3>2 DEF TextFits, WholeKinds
      <4>2. Spells[v.t].n \in Int /\ Whole(p, v) = {Spells[v.t].n}
        BY <3>2, <4>1, TextNumbers
      <4>3. Amount(s, v) = {2 * Spells[v.t].n}
        BY <3>2, <4>1, AmountOfText
      <4> QED
        BY <4>1, <4>2, <4>3
    <3> QED
      BY <3>1, <3>2
  <2>2. PICK k \in Int : Whole(p, v) = {k} /\ Amount(s, v) = {2 * k} /\ InWidth(k, WidthOf(T.is))
    BY <2>1
  <2>3. w.is \in WholeKinds /\ w.n = k
    BY <1>1, <2>2, WholeKept
  <2>4. Amount(s, w) = {2 * k}
    <3>1. w.is \in NumberKinds /\ w.is # "float"
      BY <2>3 DEF NumberKinds, WholeKinds
    <3> QED
      BY <2>3, <3>1, AmountOfNumber
  <2> QED
    BY <2>2, <2>4 DEF Halves
<1>2. CASE T.is = "float"
  <2>1. IsFloat(p, v) \/ (v.is = "text" /\ TextFits(p, T, v.t))
    BY <1>2 DEF LegalHere, LegalOf, WholeKinds
  <2>2. PICK a \in Int : /\ \A x : Halves(x, v) = {Held(x, a)} /\ Held(x, a) \in Int
                        /\ InWidth(Single(Held(p, a)), WidthOf("float"))
    BY <1>2, <2>1, FloatGiven
  <2> DEFINE k == Held(p, a)
  <2>3. k \in Int /\ Halves(p, v) = {k} /\ InWidth(Single(k), WidthOf("float"))
    BY <2>2
  <2>4. k = Single(a) /\ Halves(s, v) = {k}
    <3>1. Halves("python", v) = {Held("python", a)} /\ Halves("kotlin", v) = {Held("kotlin", a)}
      BY <2>2
    <3>2. Held("python", a) = Held("kotlin", a)
      BY <3>1
    <3>3. Held("kotlin", a) = Single(a)
      BY DEF Held, Single
    <3>4. p \in {"python", "kotlin"} /\ s \in {"python", "kotlin"}
      BY DEF Platforms
    <3>5. Held(p, a) = Single(a) /\ Held(s, a) = Single(a)
      BY <3>2, <3>3, <3>4
    <3> QED
      BY <2>2, <3>5
  <2>5. Single(k) = k
    <3>1. Single(Single(a)) = Single(a)
      BY RoundedFloats
    <3> QED
      BY <2>4, <3>1
  <2> HIDE DEF k
  <2>6. w = Number("float", Single(k))
    BY <1>2, <2>3, FloatKept
  <2>7. w.n = Single(k) /\ Halves(s, w) = {w.n}
    BY <2>3, <2>6, SingleIs
  <2> QED
    BY <2>4, <2>5, <2>7
<1> QED
  BY <1>1, <1>2 DEF NumberKinds

\* What an annotation measures is kept, for types other than options.
LEMMA MeasureKept ==
    ASSUME NEW in, NEW l, NEW p \in Platforms, NEW q \in Platforms,
           NEW T \in FieldTypes, T.is # "option", NEW v \in ValueSet, GivenHere(l, p, T, v),
           NEW w, Comes(in, p, q, T, v, w), NEW r, Measured(T, r), Alike(r, v), NEW s \in Platforms
    PROVE  Measure(s, r, w) = Measure(s, r, v)
<1> DEFINE named == r.name \in OrderNames
<1>1. T.is = "string" \/ (T.is \in NumberKinds \ {"byte"} /\ named)
  BY DEF Measured
<1>2. LegalHere(l, p, T, v) \/ Simple(p, T, v)
  BY DEF GivenHere, DefaultFits, Simple
<1>3. LegalHere(l, p, T, v) \/ (v.is = "text" /\ TextFits(p, T, v.t))
  BY <1>1, <1>2 DEF Simple, NumberKinds, WholeKinds
<1>4. CASE T.is = "string"
  <2>1. IsText(v)
    <3>1. CASE LegalHere(l, p, T, v)
      BY <1>4, <3>1 DEF LegalHere, LegalOf, WholeKinds
    <3>2. CASE v.is = "text" /\ TextFits(p, T, v.t)
      <4>1. v = Text(v.t)
        BY <3>2, TextIs
      <4> QED
        BY <1>4, <3>2, <4>1 DEF TextFits, WholeKinds
    <3> QED
      BY <1>3, <3>1, <3>2
  <2>2. w = v
    BY <1>4, <2>1, TextKept
  <2> QED
    BY <2>2
<1>5. CASE T.is \in NumberKinds \ {"byte"} /\ named
  <2>1. \A x, y : Measure(x, r, y) = Halves(x, y)
    BY <1>5 DEF Measure, OrderNames, LengthNames
  <2>2. Halves("python", v) = Halves("kotlin", v)
    BY <2>1 DEF Alike
  <2>3. Halves(s, w) = Halves(s, v)
    BY <1>3, <1>5, <2>2, NumberKept
  <2> QED
    BY <2>1, <2>3
<1> QED
  BY <1>1, <1>4, <1>5

\* What comes of an option is what comes of the value in it.
LEMMA OptionComes ==
    ASSUME NEW in, NEW l, NEW m, Returns(in, l, m), NEW p \in Platforms, NEW q \in Platforms,
           NEW T \in FieldTypes, T.is = "option", NEW v \in ValueSet, v.is # "null",
           Given(l, p, T.of[1], v), NEW w, Comes(in, p, q, T, v, w)
    PROVE  Back(in, l, m, p, q, T.of[1], v, w)
<1> DEFINE D == T.of[1]
<1>0. T.is \notin NumberKinds /\ T.is \notin WholeKinds /\ D \in FieldTypes
  BY OptionOfNone DEF NumberKinds, WholeKinds
<1>1. PICK x : Back(in, l, m, p, q, D, v, x)
  BY <1>0, ReturnsAt
<1> DEFINE put == in.put[p][D][v]
<1>2. put \in Seq(Byte) /\ Brings(in, q, D, put, x)
  BY <1>1 DEF Back
<1>3. PutOf(in, p, T, v) = <<1>> \o put
  BY <1>0 DEF PutOf, PutOption, NumberKinds, WholeKinds
<1> HIDE DEF put, D
<1>4. <<1>> \in Seq(Byte) /\ <<>> \in Seq(Byte)
  BY DEF Byte
<1>5. GetOf(in, q, T, (<<1>> \o put) \o <<>>) = Got(x, <<>>)
  <2> DEFINE bytes == <<1>> \o put
  <2>1. bytes \o <<>> = bytes
    BY <1>2, <1>4, BytesGroup, Parts
  <2>2. bytes # <<>> /\ bytes[1] # 0 /\ Tail(bytes) = put
    BY <1>2, <1>4
  <2>3. in.get[q][D][put] = Got(x, <<>>)
    <3>1. put \o <<>> = put
      BY <1>2, <1>4, BytesGroup
    <3>2. in.get[q][D][put \o <<>>] = Got(x, <<>>)
      BY <1>2, <1>4 DEF Brings
    <3> QED
      BY <3>1, <3>2
  <2> HIDE DEF bytes
  <2>4. GetOption(in, q, D, bytes) = Got(x, <<>>)
    BY <2>2, <2>3 DEF GetOption
  <2>5. GetOf(in, q, T, bytes) = GetOption(in, q, D, bytes)
    BY <1>0 DEF GetOf, D
  <2> QED
    BY <2>1, <2>4, <2>5 DEF bytes
<1> DEFINE all == <<1>> \o put
<1>6. PutOf(in, p, T, v) = all /\ GetOf(in, q, T, all \o <<>>) = Got(x, <<>>)
  BY <1>3, <1>5
<1> HIDE DEF all
<1>7. w = x
  BY <1>6, ComesOnce
<1> QED
  BY <1>1, <1>7 DEF D

LEMMA GivenAround ==
    ASSUME NEW l, l.left \in Nat, NEW p \in Platforms, NEW T \in FieldTypes, NEW v \in ValueSet,
           Given(LegalAround(l), p, T, v)
    PROVE  GivenHere(l, p, T, v)
<1>1. LegalAround(l).left = l.left + 1 /\ LegalAround(l).legal[p][T][v] = LegalHere(l, p, T, v)
  BY LawfulFields
<1>2. l.left + 1 >= 2 => l.left >= 1
  OBVIOUS
<1> QED
  BY <1>1, <1>2 DEF Given, GivenHere

LEMMA ComesAround ==
    ASSUME NEW in, NEW l, NEW m, NEW p \in Platforms, NEW q \in Platforms, NEW T \in FieldTypes,
           NEW v \in ValueSet, NEW w, Back(CodecAround(in), l, m, p, q, T, v, w)
    PROVE  Comes(in, p, q, T, v, w)
<1> DEFINE c == CodecAround(in)
           put == PutOf(in, p, T, v)
<1>1. T \in Types
  BY FieldTypesIn
<1>2. c.put[p][T][v] = put /\ \A b \in Seq(Byte) : c.get[q][T][b] = GetOf(in, q, T, b)
  BY <1>1, CodecFields
<1> HIDE DEF c, put
<1>3. put \in Seq(Byte) /\ Brings(c, q, T, put, w)
  BY <1>2 DEF Back, c
<1>4. ASSUME NEW tail \in Seq(Byte) PROVE GetOf(in, q, T, put \o tail) = Got(w, tail)
  <2>1. put \o tail \in Seq(Byte)
    BY <1>3, Parts
  <2> QED
    BY <1>2, <1>3, <2>1 DEF Brings
<1> QED
  BY <1>3, <1>4 DEF Comes, put

\* A value stays one, and keeps what its annotations measure.
Kept(p, q, T, v, w) ==
    v.is # "null" =>
        /\ w.is # "null"
        /\ \A r : Measured(T, r) /\ Alike(r, v) => Alike(r, w) /\ (Admits(p, r, v) => Admits(q, r, w))

LEMMA NothingGiven == \A p \in Platforms : \A T \in FieldTypes : \A v \in ValueSet : ~Given(lawful[0], p, T, v)
<1>1. lawful[0] = NoneIsLegal
  BY LawfulAt
<1> QED
  BY <1>1, LawfulFields DEF Given

\* At any depth: of types that are not options ...
LEMMA PlainKept ==
    ASSUME NEW d \in Nat, d <= MaxNesting, NEW p \in Platforms, NEW q \in Platforms,
           NEW T \in FieldTypes, T.is # "option", NEW v \in ValueSet, Given(lawful[d], p, T, v),
           NEW w, Back(codec[d], lawful[d], meaning[d], p, q, T, v, w)
    PROVE  Kept(p, q, T, v, w)
<1>1. d # 0
  BY NothingGiven
<1> DEFINE e == d - 1
           in == codec[e]
           l == lawful[e]
<1>2. e \in Nat /\ e + 1 = d
  BY <1>1
<1>3. codec[d] = CodecAround(in) /\ lawful[d] = LegalAround(l) /\ l.left \in Nat
  BY <1>2, CodecAt, LawfulAt, LeftIs
<1> HIDE DEF e, in, l
<1>4. GivenHere(l, p, T, v)
  BY <1>3, GivenAround
<1>5. Comes(in, p, q, T, v, w)
  BY <1>3, ComesAround
<1>6. w.is # "null"
  BY DEF Back
<1>7. ASSUME NEW r, Measured(T, r), Alike(r, v)
      PROVE  Alike(r, w) /\ (Admits(p, r, v) => Admits(q, r, w))
  <2>1. \A s \in Platforms : Measure(s, r, w) = Measure(s, r, v)
    BY <1>4, <1>5, <1>7, MeasureKept
  <2> QED
    BY <1>7, <2>1, AdmittedAlike
<1> QED
  BY <1>6, <1>7 DEF Kept

\* ... and of options of those.
LEMMA OptionKept ==
    ASSUME NEW d \in Nat, d <= MaxNesting, NEW p \in Platforms, NEW q \in Platforms,
           NEW T \in FieldTypes, T.is = "option", NEW v \in ValueSet, Given(lawful[d], p, T, v),
           NEW w, Back(codec[d], lawful[d], meaning[d], p, q, T, v, w)
    PROVE  Kept(p, q, T, v, w)
<1>1. d # 0
  BY NothingGiven
<1> DEFINE e == d - 1
           in == codec[e]
           l == lawful[e]
           m == meaning[e]
           D == T.of[1]
<1>2. e \in Nat /\ e + 1 = d /\ e <= MaxNesting
  BY <1>1, ValueSetIs
<1>3. codec[d] = CodecAround(in) /\ lawful[d] = LegalAround(l) /\ l.left \in Nat
  BY <1>2, CodecAt, LawfulAt, LeftIs
<1>4. Returns(in, l, m)
  BY <1>2, AllReturn
<1>5. D \in FieldTypes /\ D.is # "option"
  BY OptionOfNone
<1>6. SUFFICES ASSUME v.is # "null"
               PROVE  /\ w.is # "null"
                      /\ \A r : Measured(T, r) /\ Alike(r, v) =>
                            Alike(r, w) /\ (Admits(p, r, v) => Admits(q, r, w))
  BY DEF Kept
<1>7. \A r : Measured(T, r) => Measured(D, r)
  BY <1>5 DEF Measured
<1> HIDE DEF in, l, m
<1>8. GivenHere(l, p, T, v) /\ Comes(in, p, q, T, v, w)
  BY <1>3, GivenAround, ComesAround
<1>9. Given(l, p, D, v)
  <2>1. CASE LegalHere(l, p, T, v)
    <3>1. l.legal[p][D][v]
      BY <1>6, <2>1 DEF LegalHere, LegalOf, WholeKinds
    <3> QED
      BY <3>1 DEF Given
  <2>2. ~Simple(p, T, v)
    BY DEF Simple, TextFits, WholeKinds
  <2>3. CASE l.left >= 1 /\ DefaultFits(p, T, v)
    <3>1. Simple(p, D, v)
      BY <1>6, <2>3 DEF DefaultFits, Simple
    <3> QED
      BY <2>3, <3>1 DEF Given
  <2> QED
    BY <1>8, <2>1, <2>2, <2>3 DEF GivenHere
<1> HIDE DEF D
<1>10. Back(in, l, m, p, q, D, v, w)
  BY <1>4, <1>6, <1>8, <1>9, OptionComes DEF D
<1>11. Kept(p, q, D, v, w)
  BY <1>2, <1>5, <1>9, <1>10, PlainKept DEF in, l, m
<1> QED
  BY <1>6, <1>7, <1>11 DEF Kept

----------------------------------------------------------------------------
\* The annotations in the exchange.

\* A class without its annotations has the same fields.
LEMMA UnruledFields ==
    ASSUME NEW d \in Declaration
    PROVE  /\ Len(Unruled(d).fields) = Len(d.fields)
           /\ \A k \in 1..Len(d.fields) :
                 /\ Unruled(d).fields[k].name = d.fields[k].name
                 /\ Unruled(d).fields[k].type = d.fields[k].type
                 /\ Unruled(d).fields[k].default = d.fields[k].default
                 /\ Unruled(d).fields[k].rules = {}
<1> DEFINE n == Len(d.fields)
           fields == [k \in 1..n |-> [d.fields[k] EXCEPT !.rules = {}]]
<1>1. n \in Nat /\ \A k \in 1..n : d.fields[k] \in FieldDecl
  BY DeclarationIsRecord
<1>2. Unruled(d).fields = fields
  BY DeclarationIsRecord DEF Unruled, Declaration
<1>3. Len(fields) = n
  BY <1>1
<1>4. ASSUME NEW k \in 1..n
      PROVE  /\ fields[k].name = d.fields[k].name /\ fields[k].type = d.fields[k].type
             /\ fields[k].default = d.fields[k].default /\ fields[k].rules = {}
  <2> DEFINE f == d.fields[k]
  <2>1. f \in FieldDecl
    BY <1>1
  <2>2. fields[k] = [f EXCEPT !.rules = {}]
    OBVIOUS
  <2> HIDE DEF f, fields
  <2>3. /\ [f EXCEPT !.rules = {}].name = f.name /\ [f EXCEPT !.rules = {}].type = f.type
        /\ [f EXCEPT !.rules = {}].default = f.default /\ [f EXCEPT !.rules = {}].rules = {}
    BY <2>1 DEF FieldDecl
  <2> QED
    BY <2>2, <2>3 DEF f
<1> QED
  BY <1>2, <1>3, <1>4

\* A value that is of its type but for the annotations, and that is accepted,
\* is of its type.
LEMMA AcceptedIsLegal ==
    ASSUME NEW in, NEW l, NEW p, NEW d \in Declaration, NEW v,
           LegalClass(l, p, Unruled(d), v), AcceptsClass(in, p, d, v)
    PROVE  LegalClass(l, p, d, v)
<1> DEFINE u == Unruled(d)
<1>1. Len(u.fields) = Len(d.fields)
  BY UnruledFields
<1>2. ASSUME NEW k \in 1..Len(d.fields)
      PROVE  /\ u.fields[k].name = d.fields[k].name /\ u.fields[k].type = d.fields[k].type
             /\ u.fields[k].default = d.fields[k].default
  BY UnruledFields
<1> HIDE DEF u
<1>3. LegalClass(l, p, u, v)
  BY DEF u
<1>4. v.is = "map" /\ \A i, k \in 1..Len(d.fields) : d.fields[i].name = d.fields[k].name => i = k
  BY <1>1, <1>2, <1>3 DEF LegalClass
<1>5. ASSUME NEW k \in 1..Len(d.fields)
      PROVE  LET f == d.fields[k]
             IN /\ ~Missing(f, v)
                /\ IF Has(v, f.name) THEN l.legal[p][f.type][At(v, f.name)]
                   ELSE l.left >= 2 /\ DefaultFits(p, f.type, FieldValue(f, v))
                /\ \A r \in f.rules : Admits(p, r, FieldValue(f, v))
  <2> DEFINE f == d.fields[k]
             g == u.fields[k]
  <2>1. ~Missing(f, v) /\ \A r \in f.rules : Admits(p, r, FieldValue(f, v))
    BY DEF AcceptsClass
  <2>2. IF Has(v, g.name) THEN l.legal[p][g.type][At(v, g.name)]
        ELSE l.left >= 2 /\ DefaultFits(p, g.type, FieldValue(g, v))
    BY <1>1, <1>3 DEF LegalClass
  <2>3. g.name = f.name /\ g.type = f.type /\ g.default = f.default
    BY <1>2
  <2> HIDE DEF f, g
  <2>4. FieldValue(g, v) = FieldValue(f, v)
    BY <2>3 DEF FieldValue
  <2>5. IF Has(v, f.name) THEN l.legal[p][f.type][At(v, f.name)]
        ELSE l.left >= 2 /\ DefaultFits(p, f.type, FieldValue(f, v))
    BY <2>2, <2>3, <2>4
  <2> QED
    BY <2>1, <2>5 DEF f
<1> QED
  BY <1>4, <1>5 DEF LegalClass

\* The calls for a class, all of which the calls inside are one deeper than.
LEMMA ClassCalls ==
    ASSUME NEW p \in Platforms, NEW T \in FieldTypes, T.is = "ref", NEW v \in ValueSet,
           NEW d, d = Resolve(T.name), d.is = "class"
    PROVE  LET e == MaxNesting - 1
           IN /\ e \in Nat /\ e + 1 = MaxNesting /\ d \in Declaration
              /\ Accepts(p, T, v) <=> AcceptsClass(codec[e], p, d, v)
              /\ Legal(p, T, v) <=> LegalClass(lawful[e], p, d, v)
              /\ Put(p, T, v) = PutClass(codec[e], p, d, v)
              /\ \A b \in Seq(Byte) : Get(p, T, b) = GetClass(codec[e], p, d, b)
<1> DEFINE e == MaxNesting - 1
           in == codec[e]
           l == lawful[e]
<1>0. T.is \notin NumberKinds /\ T.is \notin WholeKinds
  BY DEF NumberKinds, WholeKinds
<1>1. e \in Nat /\ e + 1 = MaxNesting
  BY NestingAssumption
<1>2. d \in Declaration
  BY FieldTypeFacts, ResolveFacts
<1>3. codec[MaxNesting] = CodecAround(in) /\ lawful[MaxNesting] = LegalAround(l)
  BY <1>1, CodecAt, LawfulAt
<1>4. T \in Types
  BY FieldTypesIn
<1> HIDE DEF e, in, l
<1>5. Accepts(p, T, v) = AcceptsOf(in, p, T, v) /\ Put(p, T, v) = PutOf(in, p, T, v)
  BY <1>3, <1>4, CodecFields DEF Accepts, Put
<1>6. \A b \in Seq(Byte) : Get(p, T, b) = GetOf(in, p, T, b)
  BY <1>3, <1>4, CodecFields DEF Get
<1>7. Legal(p, T, v) = LegalHere(l, p, T, v)
  BY <1>3, LawfulFields DEF Legal
<1>8. AcceptsOf(in, p, T, v) <=> AcceptsClass(in, p, d, v)
  BY <1>0 DEF AcceptsOf, AcceptsRef, NumberKinds, WholeKinds
<1>9. LegalHere(l, p, T, v) <=> LegalClass(l, p, d, v)
  BY <1>0 DEF LegalHere, LegalOf, NumberKinds, WholeKinds
<1>10. PutOf(in, p, T, v) = PutClass(in, p, d, v)
  BY <1>0 DEF PutOf, PutRef, NumberKinds, WholeKinds
<1>11. \A b : GetOf(in, p, T, b) = GetClass(in, p, d, b)
  BY <1>0 DEF GetOf, GetRef, NumberKinds, WholeKinds
<1> QED
  BY <1>1, <1>2, <1>5, <1>6, <1>7, <1>8, <1>9, <1>10, <1>11 DEF e, in, l

\* What an annotation measures in the fields of one value holds of another's.
FieldsKept(d, p, q, v, w) ==
    \A k \in 1..Len(d.fields) :
        /\ Has(w, d.fields[k].name)
        /\ Kept(p, q, d.fields[k].type, FieldValue(d.fields[k], v), FieldValue(d.fields[k], w))

\* Every field of a class is read, and keeps what its annotations measure.
LEMMA ClassKept ==
    ASSUME NEW p \in Platforms, NEW q \in Platforms, NEW T \in FieldTypes, T.is = "ref",
           NEW d, d = Resolve(T.name), d.is = "class", NEW v \in ValueSet, Legal(p, T, v)
    PROVE  \E w : Get(q, T, Put(p, T, v)) = Got(w, <<>>) /\ FieldsKept(d, p, q, v, w)
<1> DEFINE e == MaxNesting - 1
           in == codec[e]
           l == lawful[e]
           m == meaning[e]
<1>1. /\ e \in Nat /\ e + 1 = MaxNesting /\ d \in Declaration
      /\ LegalClass(l, p, d, v)
      /\ Put(p, T, v) = PutClass(in, p, d, v)
  BY ClassCalls
<1>2. \A b \in Seq(Byte) : Get(q, T, b) = GetClass(in, q, d, b)
  BY ClassCalls
<1>3. e <= MaxNesting /\ e + 1 <= MaxNesting
  BY <1>1, ValueSetIs
<1>4. Returns(in, l, m) /\ Reads(in, e)
  BY <1>1, <1>3, AllReturn, CodecReads
<1> DEFINE n == Len(d.fields)
<1>5. n \in Nat /\ v.is = "map" /\ \A i, k \in 1..n : d.fields[i].name = d.fields[k].name => i = k
  <2>1. d.fields \in Seq(FieldDecl)
    BY <1>1, DeclarationIsRecord
  <2>2. n \in Nat
    BY ONLY <2>1
  <2> QED
    BY <1>1, <2>2, ZenonT(40) DEF LegalClass
<1> HIDE DEF in, l, m
<1>6. PICK ws : FieldsBack(in, l, m, p, q, d, v, ws)
  BY <1>1, <1>4, FieldsCome
<1> DEFINE items == FieldEntries(d, ws)
           w == Map(items)
<1>7. w.items = items /\ Len(items) = n /\ \A k \in 1..n : items[k] = Entry(d.fields[k].name, ws[k])
  BY <1>5 DEF FieldEntries, Map, Value
<1>8. Get(q, T, Put(p, T, v)) = Got(w, <<>>)
  <2> DEFINE put == PutClass(in, p, d, v)
  <2>1. e \in Nat /\ e + 1 <= MaxNesting /\ Reads(in, e) /\ d \in Declaration
    BY <1>1, <1>3, <1>4
  <2>2. put \in Seq(Byte) /\ GetClass(in, q, d, put \o <<>>) = Got(w, <<>>) /\ <<>> \in Seq(Byte)
    <3> HIDE DEF e
    <3>1. /\ PutClass(in, p, d, v) \in Seq(Byte)
          /\ \A tail \in Seq(Byte) :
                GetClass(in, q, d, PutClass(in, p, d, v) \o tail) = Got(Map(FieldEntries(d, ws)), tail)
      BY <1>6, <2>1, ClassArrives
    <3>2. <<>> \in Seq(Byte)
      OBVIOUS
    <3> QED
      BY <3>1, <3>2
  <2> HIDE DEF put, w
  <2>3. put \o <<>> = put
    BY <2>2, BytesGroup
  <2>4. GetClass(in, q, d, put) = Got(w, <<>>)
    BY <2>2, <2>3
  <2>5. Get(q, T, put) = Got(w, <<>>)
    BY <1>2, <2>2, <2>4 DEF in
  <2> QED
    BY <1>1, <2>5 DEF put, in
<1> HIDE DEF items, w
<1>9. FieldsIn(d, ws, w)
  <2>1. EntriesOf(d, ws, w)
    BY <1>5, <1>7 DEF EntriesOf
  <2> QED
    BY <1>1, <2>1, FieldsFound
<1>10. ASSUME NEW k \in 1..n
       PROVE  /\ Has(w, d.fields[k].name)
              /\ Kept(p, q, d.fields[k].type, FieldValue(d.fields[k], v), FieldValue(d.fields[k], w))
  <2> DEFINE f == d.fields[k]
             x == FieldValue(f, v)
  <2>1. Has(w, f.name) /\ At(w, f.name) = ws[k]
    BY <1>9 DEF FieldsIn
  <2>2. FieldValue(f, w) = ws[k]
    BY <2>1 DEF FieldValue
  <2>3. x \in ValueSet /\ f.type \in FieldTypes
    BY <1>1, <1>5, FieldValueFacts, FieldFacts
  <2>4. Back(in, l, m, p, q, f.type, x, ws[k])
    BY <1>6 DEF FieldsBack
  <2>5. Given(l, p, f.type, x)
    <3>1. IF Has(v, f.name) THEN l.legal[p][f.type][At(v, f.name)]
          ELSE l.left >= 2 /\ DefaultFits(p, f.type, FieldValue(f, v))
      BY <1>1 DEF LegalClass, l
    <3>2. Has(v, f.name) => x = At(v, f.name)
      BY DEF FieldValue
    <3> HIDE DEF f
    <3> QED
      BY <3>1, <3>2 DEF Given
  <2> HIDE DEF f, x
  <2>6. Kept(p, q, f.type, x, ws[k])
    <3>1. Given(lawful[e], p, f.type, x) /\ Back(codec[e], lawful[e], meaning[e], p, q, f.type, x, ws[k])
      BY <2>4, <2>5 DEF in, l, m
    <3> HIDE DEF e
    <3> QED
      BY <1>1, <1>3, <2>3, <3>1, PlainKept, OptionKept
  <2> QED
    BY <2>1, <2>2, <2>6 DEF f, x
<1>11. FieldsKept(d, p, q, v, w)
  BY <1>10 DEF FieldsKept
<1> QED
  BY <1>8, <1>11

\* What the annotations of a class demand of a value someone has.
Demands(T, p, r, v, w) ==
    Measured(T, r) /\ Alike(r, v) => Alike(r, w) /\ Admits(p, r, w)

Demanded(d) ==
    \A k \in 1..Len(d.fields) :
        LET f == d.fields[k]
            v == FieldValue(f, origin.value)
            w == FieldValue(f, held)
        IN v.is # "null" => w.is # "null" /\ \A r \in f.rules : Demands(f.type, holder, r, v, w)

AnyFields(d) == \A k \in 1..Len(d.fields) : Has(held, d.fields[k].name)

Unchecked(d) == LegalClass(lawful[MaxNesting - 1], origin.on, Unruled(d), origin.value)

\* The first call that accepts a value has checked its annotations, and what
\* they measure is the same of each value that is read after that.
RuleInv ==
    /\ phase \in {"held", "sent"} /\ hops = 0 => holder = origin.on /\ held = origin.value
    /\ phase \in {"held", "sent"} /\ (phase = "sent" \/ hops > 0) /\ origin.type.is = "ref" =>
          LET d == Resolve(origin.type.name)
          IN d.is = "class" /\ Unchecked(d) =>
                LegalAtFirst /\ Demanded(d) /\ (hops > 0 => AnyFields(d))

LEMMA RuleInit == Init => RuleInv
BY DEF Init, RuleInv

LEMMA RuleSerialize ==
    ASSUME ExchangeInv, RuleInv, Serialize
    PROVE  RuleInv'
<1> DEFINE d == Resolve(origin.type.name)
<1>1. /\ phase = "held" /\ origin' = origin /\ holder' = holder /\ held' = held /\ hops' = hops
      /\ hops \in Nat
  BY CasesAssumption DEF Serialize, ExchangeInv, TypeOK
<1>2. CASE ~Passes(holder, origin.type, held)
  <2>1. phase' = "refused"
    BY <1>2 DEF Passes, Serialize, Send
  <2> QED
    BY <2>1 DEF RuleInv
<1>3. CASE Passes(holder, origin.type, held)
  <2>1. phase' = "sent"
    BY <1>3 DEF Passes, Serialize, Send
  <2>2. hops = 0 => holder = origin.on /\ held = origin.value
    BY <1>1 DEF RuleInv
  <2>3. ASSUME origin.type.is = "ref", d.is = "class", Unchecked(d)
        PROVE  LegalAtFirst /\ Demanded(d) /\ (hops > 0 => AnyFields(d))
    <3>1. CASE hops > 0
      BY <1>1, <2>3, <3>1 DEF RuleInv
    <3>2. CASE hops = 0
      <4> DEFINE p == origin.on
                 T == origin.type
                 v == origin.value
                 e == MaxNesting - 1
      <4>1. p \in Platforms /\ T \in FieldTypes /\ v \in ValueSet
        BY CaseFacts DEF ExchangeInv, TypeOK
      <4>2. Accepts(p, T, v)
        BY <1>3, <2>2, <3>2 DEF Passes
      <4>3. /\ d \in Declaration
            /\ Accepts(p, T, v) <=> AcceptsClass(codec[e], p, d, v)
            /\ Legal(p, T, v) <=> LegalClass(lawful[e], p, d, v)
        BY <2>3, <4>1, ClassCalls
      <4> HIDE DEF d
      <4>4. LegalClass(lawful[e], p, d, v)
        BY <2>3, <4>2, <4>3, AcceptedIsLegal DEF Unchecked
      <4>5. LegalAtFirst
        BY <4>3, <4>4 DEF LegalAtFirst
      <4>6. Demanded(d)
        <5>1. \A k \in 1..Len(d.fields) : \A r \in d.fields[k].rules :
                 Admits(p, r, FieldValue(d.fields[k], v))
          BY <4>4 DEF LegalClass
        <5> QED
          BY <2>2, <3>2, <5>1 DEF Demanded, Demands
      <4> QED
        BY <3>2, <4>5, <4>6
    <3> QED
      BY <1>1, <3>1, <3>2
  <2>4. /\ LegalAtFirst' = LegalAtFirst /\ Demanded(d)' = Demanded(d)
        /\ AnyFields(d)' = AnyFields(d) /\ Unchecked(d)' = Unchecked(d) /\ d' = d
    BY <1>1 DEF LegalAtFirst, Legal, Demanded, Demands, AnyFields, Unchecked
  <2> QED
    BY <1>1, <2>1, <2>2, <2>3, <2>4 DEF RuleInv
<1> QED
  BY <1>2, <1>3

LEMMA RuleDeserialize ==
    ASSUME NEW q \in Platforms, ExchangeInv, ReadBackInv, RuleInv, Deserialize(q)
    PROVE  RuleInv'
<1> DEFINE T == origin.type
           d == Resolve(T.name)
           got == Get(q, T, wire)
<1>1. /\ phase = "sent" /\ origin' = origin /\ holder' = q /\ Receive(got) /\ hops \in Nat
  BY CasesAssumption DEF Deserialize, ExchangeInv, TypeOK
<1>2. CASE ~got.ok
  <2>1. phase' = "failed"
    BY <1>1, <1>2 DEF Receive
  <2> QED
    BY <2>1 DEF RuleInv
<1>3. CASE got.ok
  <2>1. phase' = "held" /\ held' = got.v /\ hops' = hops + 1
    BY <1>1, <1>3 DEF Receive
  <2>2. hops' # 0 /\ hops' > 0
    BY <1>1, <2>1
  <2> SUFFICES ASSUME T.is = "ref", d.is = "class", Unchecked(d)
               PROVE  (LegalAtFirst /\ Demanded(d) /\ AnyFields(d))'
    <3>1. LegalAtFirst' = LegalAtFirst /\ Unchecked(d)' = Unchecked(d)
      BY <1>1 DEF LegalAtFirst, Legal, Unchecked
    <3> QED
      BY <1>1, <2>1, <2>2, <3>1 DEF RuleInv
  <2>3. LegalAtFirst /\ Demanded(d)
    BY <1>1 DEF RuleInv
  <2>4. Legal(holder, T, held) /\ wire = Put(holder, T, held)
    BY <1>1, <2>3 DEF ReadBackInv
  <2>5. holder \in Platforms /\ T \in FieldTypes /\ held \in ValueSet
    BY CaseFacts DEF ExchangeInv, TypeOK
  <2>6. PICK w : Get(q, T, Put(holder, T, held)) = Got(w, <<>>) /\ FieldsKept(d, holder, q, held, w)
    BY <2>4, <2>5, ClassKept
  <2>7. held' = w
    <3>1. got.v = w
      BY <2>4, <2>6 DEF Got
    <3> QED
      BY <2>1, <3>1
  <2> HIDE DEF d, T, got
  <2>8. ASSUME NEW k \in 1..Len(d.fields)
        PROVE  /\ Has(w, d.fields[k].name)
               /\ Kept(holder, q, d.fields[k].type, FieldValue(d.fields[k], held), FieldValue(d.fields[k], w))
    BY <2>6 DEF FieldsKept
  <2>9. ASSUME NEW k \in 1..Len(d.fields), FieldValue(d.fields[k], origin.value).is # "null"
        PROVE  /\ FieldValue(d.fields[k], w).is # "null"
               /\ \A r \in d.fields[k].rules :
                     Demands(d.fields[k].type, q, r, FieldValue(d.fields[k], origin.value), FieldValue(d.fields[k], w))
    <3> DEFINE T0 == d.fields[k].type
               v == FieldValue(d.fields[k], origin.value)
               x == FieldValue(d.fields[k], held)
               y == FieldValue(d.fields[k], w)
    <3>1. x.is # "null" /\ \A r \in d.fields[k].rules : Demands(T0, holder, r, v, x)
      BY <2>3, <2>9 DEF Demanded
    <3>2. Kept(holder, q, T0, x, y)
      BY <2>8
    <3> HIDE DEF T0, v, x, y
    <3>3. y.is # "null" /\ \A r \in d.fields[k].rules : Demands(T0, q, r, v, y)
      BY <3>1, <3>2 DEF Kept, Demands
    <3> QED
      BY <3>3 DEF T0, v, x, y
  <2>10. LegalAtFirst'
    BY <1>1, <2>3 DEF LegalAtFirst, Legal
  <2>11. AnyFields(d)' /\ Demanded(d)'
    <3>1. origin' = origin /\ holder' = q /\ held' = w /\ d' = d
      BY <1>1, <2>7 DEF d, T
    <3>2. \A k \in 1..Len(d.fields) : Has(held', d.fields[k].name)
      BY <2>8, <3>1
    <3>3. \A k \in 1..Len(d.fields) : FieldValue(d.fields[k], origin'.value).is # "null" =>
             /\ FieldValue(d.fields[k], held').is # "null"
             /\ \A r \in d.fields[k].rules :
                   Demands(d.fields[k].type, holder', r, FieldValue(d.fields[k], origin'.value), FieldValue(d.fields[k], held'))
      BY <2>9, <3>1
    <3> QED
      BY <3>1, <3>2, <3>3 DEF AnyFields, Demanded, Demands
  <2> QED
    BY <2>10, <2>11
<1> QED
  BY <1>2, <1>3

LEMMA RuleNext == ExchangeInv /\ ReadBackInv /\ RuleInv /\ [Next]_vars => RuleInv'
<1> SUFFICES ASSUME ExchangeInv, ReadBackInv, RuleInv, [Next]_vars PROVE RuleInv'
  OBVIOUS
<1>1. CASE Serialize
  BY <1>1, RuleSerialize
<1>2. ASSUME NEW q \in Platforms, Deserialize(q) PROVE RuleInv'
  BY <1>2, RuleDeserialize
<1>3. CASE UNCHANGED vars
  BY <1>3 DEF vars, RuleInv, LegalAtFirst, Legal, Demanded, Demands, AnyFields, Unchecked
<1> QED
  BY <1>1, <1>2, <1>3 DEF Next

LEMMA RulesDemanded == ExchangeInv /\ RuleInv => RulesHold
<1> DEFINE d == Resolve(origin.type.name)
<1> SUFFICES ASSUME ExchangeInv, RuleInv, phase = "held", hops > 0, origin.type.is = "ref",
                    d.is = "class", Unchecked(d),
                    NEW k \in 1..Len(d.fields), FieldValue(d.fields[k], origin.value).is # "null",
                    NEW r \in d.fields[k].rules, Measured(d.fields[k].type, r),
                    Alike(r, FieldValue(d.fields[k], origin.value))
             PROVE  Admits(holder, r, At(held, d.fields[k].name))
  BY DEF RulesHold, Unchecked
<1>1. Demanded(d) /\ AnyFields(d)
  BY DEF RuleInv
<1> HIDE DEF d
<1>2. Admits(holder, r, FieldValue(d.fields[k], held)) /\ Has(held, d.fields[k].name)
  BY <1>1 DEF Demanded, Demands, AnyFields
<1> QED
  BY <1>2 DEF FieldValue

\* What the annotations of a class demand is not only checked of the value
\* that is sent: wherever both libraries measure alike, and conversions leave
\* alone what they measure, it holds of the value each caller gets who reads
\* it, after any number of hops.
THEOREM RulesAreKept == Spec => []RulesHold
<1>1. Init => ExchangeInv /\ ReadBackInv /\ RuleInv
  BY ExchangeInit, ReadBackInit, RuleInit
<1>2. (ExchangeInv /\ ReadBackInv /\ RuleInv) /\ [Next]_vars => (ExchangeInv /\ ReadBackInv /\ RuleInv)'
  BY ExchangeNext, ReadBackNext, RuleNext
<1>3. ExchangeInv /\ ReadBackInv /\ RuleInv => RulesHold
  BY RulesDemanded
<1> QED
  BY <1>1, <1>2, <1>3, PTL DEF Spec
============================================================================
