------------------------------ MODULE Header ------------------------------
(***************************************************************************)
(* The header of a message: a version byte, a byte that holds the depth of *)
(* the namespace (3 bits) and the flags (5 bits), and the namespace path   *)
(* at two 4-bit positions per byte.  The Python and the Kotlin library     *)
(* write and read the same bytes, and differ in two conversions: Kotlin    *)
(* keeps a position in a signed byte, and shifts a signed byte when it     *)
(* reads the depth.  Bytes are 0..255 here, as they are on the wire.       *)
(***************************************************************************)
EXTENDS Integers, Sequences

Byte == 0..255
Version == 2
DepthBits == 3
FlagBits == 5
IndicatorBits == 4
NoFlags == 0

\* The largest value with only the first n bits set: 0xFF >> (8 - n).
Mask == [n \in 1..8 |-> <<1, 3, 7, 15, 31, 63, 127, 255>>[n]]

\* Subbyte refuses a value that does not survive its mask.
Fits(value, n) == value \in 0..Mask[n]

\* Half of a depth, rounded up: ceil(depth / 2.0), for negative depths too.
CeilHalf(n) == (n + 1) \div 2

HeaderSize(path) == 2 + CeilHalf(Len(path))

\* Mutant: the positions are not checked.
PackableByDepth(path) == Fits(Len(path), DepthBits)

\* What the Subbyte checks let through.
Packable(path) ==
    /\ Fits(Len(path), DepthBits)
    /\ \A i \in 1..Len(path) : Fits(path[i], IndicatorBits)

\* Two values in one byte: the high one shifted over the lowBits of the other.
Compress(high, low, lowBits) == high * (Mask[lowBits] + 1) + low

SecondByte(path) == Compress(Len(path), NoFlags, FlagBits)

\* A path of odd length is padded with 0.
PathBytes(path) ==
    [k \in 1..CeilHalf(Len(path)) |->
        Compress(path[2 * k - 1],
                 IF 2 * k <= Len(path) THEN path[2 * k] ELSE 0,
                 IndicatorBits)]

EncodeHeader(version, path) == <<version, SecondByte(path)>> \o PathBytes(path)

----------------------------------------------------------------------------
HighPart(byte, lowBits) == byte \div (Mask[lowBits] + 1)
LowPart(byte, lowBits) == byte % (Mask[lowBits] + 1)

\* Mutant: the shift keeps the sign.
PyDepthSigned(secondByte) ==
    HighPart(secondByte, FlagBits) - IF secondByte > 127 THEN 8 ELSE 0

PyDepth(secondByte) == HighPart(secondByte, FlagBits)

\* Mutant: the halves of a byte in the other order.
WaypointsLowFirst(bytes, depth) ==
    [i \in 1..depth |->
        IF i % 2 = 1 THEN LowPart(bytes[CeilHalf(i)], IndicatorBits)
                     ELSE HighPart(bytes[CeilHalf(i)], IndicatorBits)]

\* The bytes of the path, opened into their halves and cut to the depth.
Waypoints(bytes, depth) ==
    [i \in 1..depth |->
        IF i % 2 = 1 THEN HighPart(bytes[CeilHalf(i)], IndicatorBits)
                     ELSE LowPart(bytes[CeilHalf(i)], IndicatorBits)]

----------------------------------------------------------------------------
\* A JVM byte is signed: Int.toByte() and Byte.toInt().
ToSignedByte(n) == ((n + 128) % 256) - 128
ToUByte(b) == b % 256

\* Mutant: positions counted from 1.
KtPositionsFromOne(path) ==
    [i \in 1..Len(path) |-> ToUByte(ToSignedByte(path[i] + 1))]

\* Kotlin: Waypoint.position = idx.toByte(), read back by Subbyte's toUByte().
KtPositions(path) == [i \in 1..Len(path) |-> ToUByte(ToSignedByte(path[i]))]

\* Kotlin: secondByte.toInt() shr 5 keeps the sign.
KtDepth(secondByte) == HighPart(ToSignedByte(secondByte), FlagBits)

============================================================================
