--------------------------- MODULE HeaderLemmas ---------------------------
(***************************************************************************)
(* What the resolution of a namespace finds, and the conversions of        *)
(* Header: what is packed is bytes, and unpacks to what it was.            *)
(***************************************************************************)
EXTENDS Namespaces, Header, TLAPS

\* What a resolution that succeeds found.
LEMMA ResolvedFacts ==
    ASSUME NEW names, NamespaceOf(names).ok
    PROVE  LET p == NamespaceOf(names).path
           IN /\ p \in Paths /\ p \in Seq(Nat)
              /\ PathExists(p)
              /\ names # <<>> => ArrivesAt(names, p)
              /\ names = <<>> => EndsChain(p)
<1>1. CASE names = <<>>
  BY <1>1, NestedAssumption DEF NamespaceOf, InferDefault, Found, NotFound, PathExists
<1>2. CASE names # <<>>
  BY <1>2, NestedAssumption DEF NamespaceOf, NamespaceOfNames, Found, NotFound, PathExists
<1> QED
  BY <1>1, <1>2

\* Whatever its outcome, the path of a resolution is one of the schema: that
\* of the root when it failed.
LEMMA ResolvedType ==
    ASSUME NEW names
    PROVE  /\ NamespaceOf(names).path \in Paths
           /\ NamespaceOf(names).path \in Seq(Nat)
<1>1. CASE NamespaceOf(names).ok
  BY <1>1, ResolvedFacts
<1>2. CASE ~NamespaceOf(names).ok
  <2>1. NamespaceOf(names).path = <<>>
    BY <1>2 DEF NamespaceOf, InferDefault, NamespaceOfNames, Found, NotFound
  <2> QED
    BY <2>1, NestedAssumption
<1> QED
  BY <1>1, <1>2

----------------------------------------------------------------------------
\* The masks the code shifts with, as numbers: the provers do not unfold a power.
LEMMA MaskFacts == Mask[3] = 7 /\ Mask[4] = 15 /\ Mask[5] = 31
BY DEF Mask

\* The second byte gives the depth back to Python, and to Kotlin as far as
\* the depth leaves the sign bit alone.
LEMMA DepthReadBack ==
    ASSUME NEW path \in Seq(Nat), Packable(path)
    PROVE  /\ SecondByte(path) \in Byte
           /\ PyDepth(SecondByte(path)) = Len(path)
           /\ Len(path) < 4 => KtDepth(SecondByte(path)) = Len(path)
           /\ Len(path) >= 4 => KtDepth(SecondByte(path)) < 0
<1>1. Len(path) \in 0..7
  BY MaskFacts DEF Packable, Fits, DepthBits
<1>2. SecondByte(path) = Len(path) * 32
  BY <1>1, MaskFacts DEF SecondByte, Compress, FlagBits, NoFlags
<1>3. PyDepth(SecondByte(path)) = (Len(path) * 32) \div 32
  BY <1>1, <1>2, MaskFacts DEF PyDepth, HighPart, FlagBits
<1>4. KtDepth(SecondByte(path)) = (((Len(path) * 32 + 128) % 256) - 128) \div 32
  BY <1>1, <1>2, MaskFacts DEF KtDepth, HighPart, FlagBits, ToSignedByte
<1>5. \A d \in 0..7 : d * 32 \in 0..255 /\ (d * 32) \div 32 = d
  OBVIOUS
<1>6. \A d \in 0..3 : (((d * 32 + 128) % 256) - 128) \div 32 = d
  OBVIOUS
<1>7. \A d \in 4..7 : (((d * 32 + 128) % 256) - 128) \div 32 = d - 8
  OBVIOUS
<1>8. \A d \in 4..7 : ~(d < 4) /\ d - 8 < 0
  OBVIOUS
<1> QED
  <2>1. SecondByte(path) \in Byte /\ PyDepth(SecondByte(path)) = Len(path)
    BY <1>1, <1>2, <1>3, <1>5 DEF Byte
  <2>2. CASE Len(path) \in 0..3
    BY <2>1, <2>2, <1>4, <1>6
  <2>3. CASE Len(path) \in 4..7
    <3>1. KtDepth(SecondByte(path)) = Len(path) - 8
      BY <2>3, <1>4, <1>7
    <3>2. ~(Len(path) < 4) /\ Len(path) - 8 < 0
      BY <2>3, <1>8, Zenon
    <3> QED
      BY <2>1, <3>1, <3>2, Zenon
  <2> QED
    BY <1>1, <2>2, <2>3

\* Two positions in one byte come apart again.
LEMMA HalvesComeApart ==
    ASSUME NEW high \in 0..15, NEW low \in 0..15
    PROVE  LET byte == Compress(high, low, IndicatorBits)
           IN /\ byte \in Byte
              /\ HighPart(byte, IndicatorBits) = high
              /\ LowPart(byte, IndicatorBits) = low
BY MaskFacts DEF Compress, HighPart, LowPart, IndicatorBits, Byte

\* Halving with the odd one rounded up, as HeaderSize counts the path bytes.
LEMMA HalfFacts ==
    \A n \in Nat :
        /\ CeilHalf(n) \in Nat
        /\ n = 2 * CeilHalf(n) \/ n = 2 * CeilHalf(n) - 1
        /\ n % 2 = 0 \/ n % 2 = 1
        /\ n % 2 = 1 => n = 2 * CeilHalf(n) - 1
        /\ n % 2 = 0 => n = 2 * CeilHalf(n)
BY DEF CeilHalf

\* What is packed is bytes, and unpacks to the path it was.
LEMMA PathReadBack ==
    ASSUME NEW path \in Seq(Nat), Packable(path)
    PROVE  /\ PathBytes(path) \in Seq(Byte)
           /\ Waypoints(PathBytes(path), Len(path)) = path
<1> DEFINE n == Len(path)
           low(k) == IF 2 * k <= n THEN path[2 * k] ELSE 0
           byte(k) == Compress(path[2 * k - 1], low(k), IndicatorBits)
<1>1. n \in Nat /\ \A i \in 1..n : path[i] \in 0..15
  BY MaskFacts DEF Packable, Fits, IndicatorBits
<1>2. ASSUME NEW k \in 1..CeilHalf(n)
      PROVE  /\ path[2 * k - 1] \in 0..15 /\ low(k) \in 0..15
             /\ byte(k) \in Byte
             /\ HighPart(byte(k), IndicatorBits) = path[2 * k - 1]
             /\ LowPart(byte(k), IndicatorBits) = low(k)
  <2>3. CeilHalf(n) \in Nat /\ k \in Nat /\ 1 <= k /\ k <= CeilHalf(n)
    BY <1>1, HalfFacts
  <2>1. 2 * k - 1 \in 1..n /\ (2 * k <= n => 2 * k \in 1..n)
    <3>1. n = 2 * CeilHalf(n) \/ n = 2 * CeilHalf(n) - 1
      BY <1>1, HalfFacts
    <3> HIDE DEF n
    <3> QED
      BY <1>1, <2>3, <3>1
  <2>2. path[2 * k - 1] \in 0..15 /\ low(k) \in 0..15
    BY <1>1, <2>1
  <2> QED
    BY <2>2, HalvesComeApart
<1>3. PathBytes(path) = [k \in 1..CeilHalf(n) |-> byte(k)]
  BY DEF PathBytes
<1>4. PathBytes(path) \in Seq(Byte)
  <2>1. CeilHalf(n) \in Nat /\ \A k \in 1..CeilHalf(n) : byte(k) \in Byte
    BY <1>1, <1>2, HalfFacts
  <2> HIDE DEF byte, n
  <2> QED
    BY <1>3, <2>1
<1>5. ASSUME NEW i \in 1..n
      PROVE  Waypoints(PathBytes(path), n)[i] = path[i]
  <2>5. i \in Nat /\ n \in Nat /\ 1 <= i /\ i <= n
    BY <1>1
  <2>6. CeilHalf(i) \in Nat /\ CeilHalf(n) \in Nat
    BY <2>5, HalfFacts
  <2>1. CeilHalf(i) \in 1..CeilHalf(n)
    <3>1. /\ n = 2 * CeilHalf(n) \/ n = 2 * CeilHalf(n) - 1
          /\ i = 2 * CeilHalf(i) \/ i = 2 * CeilHalf(i) - 1
      BY <2>5, HalfFacts
    <3> HIDE DEF n
    <3> QED
      BY <2>5, <2>6, <3>1
  <2>2. PathBytes(path)[CeilHalf(i)] = byte(CeilHalf(i))
    BY <1>3, <2>1
  <2>3. CASE i % 2 = 1
    <3>1. 2 * CeilHalf(i) - 1 = i
      BY <2>3, <2>5, HalfFacts
    <3> QED
      BY <1>2, <2>1, <2>2, <2>3, <3>1 DEF Waypoints
  <2>4. CASE i % 2 = 0
    <3>1. 2 * CeilHalf(i) = i
      BY <2>4, <2>5, HalfFacts
    <3>2. low(CeilHalf(i)) = path[i]
      BY <1>1, <3>1
    <3> QED
      BY <1>2, <2>1, <2>2, <2>4, <3>2 DEF Waypoints
  <2> QED
    BY <2>3, <2>4, <2>5, HalfFacts
<1>6. Waypoints(PathBytes(path), n) = [i \in 1..n |-> Waypoints(PathBytes(path), n)[i]]
  BY DEF Waypoints
<1>7. path = [i \in 1..n |-> path[i]]
  OBVIOUS
<1> QED
  BY <1>4, <1>5, <1>6, <1>7

\* A header that passes the checks is a sequence of bytes.
LEMMA HeaderType ==
    ASSUME NEW path \in Seq(Nat), Packable(path), NEW version \in Byte
    PROVE  EncodeHeader(version, path) \in Seq(Byte)
<1>1. SecondByte(path) \in Byte /\ PathBytes(path) \in Seq(Byte)
  BY DepthReadBack, PathReadBack
<1> QED
  BY <1>1 DEF EncodeHeader

============================================================================
