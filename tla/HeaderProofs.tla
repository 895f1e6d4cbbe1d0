--------------------------- MODULE HeaderProofs ---------------------------
(***************************************************************************)
(* For every schema of at most 256 namespaces a level: what the header of  *)
(* a message says is what its writer was asked for, on either platform,    *)
(* and no reader fails on it but Kotlin below a depth of 3.                *)
(***************************************************************************)
EXTENDS HeaderExchange, HeaderLemmas

\* A level of at most 256 namespaces: every position is a byte.
NarrowSchema == \A p \in Paths : Len(Nested[p]) <= 256

\* As long as positions are bytes, the signed ones come back as they were.
LEMMA PositionsKept ==
    ASSUME NEW p \in Paths, NarrowSchema, NEW platform \in Platforms
    PROVE  Positions(platform, p) = p
<1>1. p \in Seq(Nat)
  BY NestedAssumption
<1>2. \A i \in 1..Len(p) : p[i] \in 0..255
  <2> SUFFICES ASSUME NEW i \in 1..Len(p) PROVE p[i] \in 0..255
    OBVIOUS
  <2> DEFINE width == Len(Nested[SubSeq(p, 1, i - 1)])
  <2> DEFINE position == p[i]
  <2>1. SubSeq(p, 1, i - 1) \in Paths /\ position \in 0..(width - 1)
    BY NestedAssumption
  <2>2. width \in Nat /\ width <= 256
    BY <2>1, NestedAssumption DEF NarrowSchema
  <2>3. position \in Nat
    BY <1>1
  <2> HIDE DEF width, position
  <2>4. position \in 0..255
    BY <2>1, <2>2, <2>3
  <2> QED
    BY <2>4 DEF position
<1>3. \A n \in 0..255 : ToUByte(ToSignedByte(n)) = n
  BY DEF ToUByte, ToSignedByte
<1>4. KtPositions(p) = [i \in 1..Len(p) |-> p[i]]
  BY <1>2, <1>3 DEF KtPositions
<1> QED
  BY <1>1, <1>4 DEF Positions

Target == NamespaceOf(asked).path
Addressed == NamespaceOf(asked).ok /\ Packable(Target)

\* The inductive invariant: at every stage of the exchange the bytes still
\* to be read, and what was read of them, are of the namespace asked for.
HeaderInv ==
    /\ asked \in NameLists /\ writer \in Platforms /\ reader \in Platforms
    /\ phase = "sent" =>
          Addressed /\ \E v \in Versions : wire = EncodeHeader(v, Target)
    /\ phase = "prefix" =>
          /\ Addressed
          /\ wire = PathBytes(Target)
          /\ depth = DepthRead(reader, SecondByte(Target))
    /\ phase \in {"path", "delivered"} => Addressed /\ selected = Target
    /\ FailuresHaveAReason

\* The inductive step: no write, read or lookup of either platform breaks HeaderInv.
LEMMA HeaderStep ==
    ASSUME NarrowSchema, HeaderInv, [Next]_vars
    PROVE  HeaderInv'
<1> USE DEF HeaderInv
<1>1. ASSUME NEW v \in Versions, Write(v) PROVE HeaderInv'
  <2>1. CASE Accepts(writer, asked)
    <3>1. NamespaceOf(asked).ok
      BY <2>1 DEF Accepts
    <3>2. Positions(writer, Target) = Target
      BY <3>1, ResolvedFacts, PositionsKept DEF Target
    <3> QED
      BY <1>1, <2>1, <3>2 DEF Write, Accepts, Written, Addressed, Target,
                                 FailuresHaveAReason
  <2>2. CASE ~Accepts(writer, asked)
    BY <1>1, <2>2 DEF Write, FailuresHaveAReason
  <2> QED
    BY <2>1, <2>2
<1>2. CASE ReadPrefix
  <2>1. PICK v \in Versions : wire = EncodeHeader(v, Target)
    BY <1>2 DEF ReadPrefix
  <2>2. /\ Addressed /\ Target \in Seq(Nat)
    BY <1>2, ResolvedFacts DEF ReadPrefix, Addressed, Target
  <2>3. PathBytes(Target) \in Seq(Byte)
    BY <2>2, PathReadBack DEF Addressed
  <2>4. wire[2] = SecondByte(Target) /\ Tail(Tail(wire)) = PathBytes(Target)
    BY <2>1, <2>3 DEF EncodeHeader
  <2> QED
    BY <1>2, <2>2, <2>4 DEF ReadPrefix, Addressed, Target, FailuresHaveAReason
<1>3. CASE ReadPath
  <2>1. Addressed /\ Target \in Seq(Nat) /\ Packable(Target)
    BY <1>3, ResolvedFacts DEF ReadPath, Addressed, Target
  <2>2. depth < 0 \/ depth = Len(Target)
    BY <1>3, <2>1, DepthReadBack DEF ReadPath, DepthRead, Platforms
  <2>3. Waypoints(wire, Len(Target)) = Target
    BY <1>3, <2>1, PathReadBack DEF ReadPath
  <2>4. CASE depth < 0
    <3>1. reader = "kotlin" /\ Len(Target) > 3
      BY <1>3, <2>1, <2>4, DepthReadBack DEF ReadPath, DepthRead, Platforms
    <3> QED
      BY <1>3, <2>4, <3>1 DEF ReadPath, FailuresHaveAReason, Target
  <2>5. CASE ~(depth < 0)
    BY <1>3, <2>1, <2>2, <2>3, <2>5 DEF ReadPath, Addressed, Target, FailuresHaveAReason
  <2> QED
    BY <2>4, <2>5
<1>4. CASE Lookup
  <2>1. PathExists(selected)
    BY <1>4, ResolvedFacts DEF Lookup, Addressed, Target
  <2> QED
    BY <1>4, <2>1 DEF Lookup, reading, Addressed, Target, FailuresHaveAReason
<1>5. CASE UNCHANGED vars
  BY <1>5 DEF vars, Addressed, Target, FailuresHaveAReason
<1> QED
  BY <1>1, <1>2, <1>3, <1>4, <1>5 DEF Next, Read

\* Proved at once, for Delivery and Readability.
LEMMA HeaderInvariant ==
    ASSUME NarrowSchema
    PROVE  Spec => []HeaderInv
<1>1. Init => HeaderInv
  BY DEF Init, HeaderInv, FailuresHaveAReason
<1>2. HeaderInv /\ [Next]_vars => HeaderInv'
  BY HeaderStep
<1> QED
  BY <1>1, <1>2, PTL DEF Spec

\* SelectsWhatWasAsked, of RootElement.deserialize after Header.serialize: what
\* is delivered is what was asked for, for all schemas of at most 256 namespaces
\* a level, all requests, and each pair of platforms.
THEOREM Delivery ==
    ASSUME NarrowSchema
    PROVE  Spec => []SelectsWhatWasAsked
<1>1. HeaderInv => SelectsWhatWasAsked
  <2> SUFFICES ASSUME HeaderInv, phase = "delivered"
               PROVE  /\ asked # <<>> => NamesAlong(selected) = asked
                      /\ asked = <<>> =>
                            /\ Nested[selected] = <<>>
                            /\ \A i \in 1..Len(selected) :
                                  Len(Nested[SubSeq(selected, 1, i - 1)]) = 1
    BY DEF SelectsWhatWasAsked
  <2>1. /\ selected \in Seq(Nat)
        /\ asked # <<>> => ArrivesAt(asked, selected)
        /\ asked = <<>> => EndsChain(selected)
    BY ResolvedFacts DEF HeaderInv, Addressed, Target
  <2>2. asked \in Seq(STRING)
    BY ExchangeAssumption DEF HeaderInv
  <2>3. ASSUME asked # <<>> PROVE NamesAlong(selected) = asked
    <3>1. /\ Len(selected) = Len(asked)
          /\ \A i \in 1..Len(selected) :
                Nested[SubSeq(selected, 1, i - 1)][selected[i] + 1] = asked[i]
      BY <2>1, <2>3 DEF ArrivesAt, IsFirstNamed
    <3>2. NamesAlong(selected) = [i \in 1..Len(asked) |-> asked[i]]
      BY <3>1 DEF NamesAlong
    <3> QED
      BY <2>2, <3>2
  <2> QED
    BY <2>1, <2>3 DEF EndsChain
<1> QED
  BY <1>1, HeaderInvariant, PTL

\* FailuresHaveAReason, of Header.deserialize and its Kotlin counterpart: for
\* the same schemas and requests, a header of this version is only ever refused
\* by Kotlin, and only at a depth of 4 to 7.
THEOREM Readability ==
    ASSUME NarrowSchema
    PROVE  Spec => []FailuresHaveAReason
<1>1. HeaderInv => FailuresHaveAReason
  BY DEF HeaderInv
<1> QED
  BY <1>1, HeaderInvariant, PTL

\* WritersAgree, of the two Header.serialize: for the same schemas and requests
\* the libraries write the same bytes and refuse the same requests.
THEOREM Agreement ==
    ASSUME NarrowSchema
    PROVE  Spec => []WritersAgree
<1>1. WritersAgree
  <2>1. NamespaceOf(asked).ok =>
            \A platform \in Platforms :
                Positions(platform, NamespaceOf(asked).path) = NamespaceOf(asked).path
    BY ResolvedFacts, PositionsKept
  <2> QED
    BY <2>1 DEF WritersAgree, Accepts, Written, Platforms
<1> QED
  BY <1>1, PTL

----------------------------------------------------------------------------
\* Of any schema: what is still to be read is what is left of the header of
\* some path that can be packed, so a reader never runs out of bytes.
TypeInv ==
    /\ TypeOK
    /\ phase = "sent" =>
          \E path \in Seq(Nat) : \E v \in Versions :
              Packable(path) /\ wire = EncodeHeader(v, path)
    /\ phase = "prefix" =>
          \E path \in Seq(Nat) :
              /\ Packable(path)
              /\ wire = PathBytes(path)
              /\ depth = DepthRead(reader, SecondByte(path))

\* Both platforms put positions that are natural numbers.
LEMMA PositionsType ==
    ASSUME NEW path \in Seq(Nat), NEW platform \in Platforms
    PROVE  Positions(platform, path) \in Seq(Nat)
<1>1. \A n \in Nat : ToUByte(ToSignedByte(n)) \in Nat
  BY DEF ToUByte, ToSignedByte
<1>2. \A i \in 1..Len(path) : ToUByte(ToSignedByte(path[i])) \in Nat
  <2>1. \A i \in 1..Len(path) : path[i] \in Nat
    OBVIOUS
  <2> QED
    BY <1>1, <2>1, Zenon
<1> QED
  BY <1>2 DEF Positions, KtPositions

\* The depth either reader takes out of a byte is a signed byte.
LEMMA DepthType ==
    ASSUME NEW platform \in Platforms, NEW byte \in Byte
    PROVE  DepthRead(platform, byte) \in -128..127
<1>1. \A n \in 0..255 : n \div 32 \in -128..127
  OBVIOUS
<1>2. \A n \in 0..255 : (((n + 128) % 256) - 128) \div 32 \in -128..127
  OBVIOUS
<1> QED
  BY <1>1, <1>2, MaskFacts
     DEF DepthRead, PyDepth, KtDepth, HighPart, FlagBits, ToSignedByte, Byte

\* No step leaves the types, whatever the schema is.
LEMMA TypeStep ==
    ASSUME TypeInv, [Next]_vars
    PROVE  TypeInv'
<1> USE DEF TypeInv, TypeOK
<1>1. ASSUME NEW v \in Versions, Write(v) PROVE TypeInv'
  <2> DEFINE path == Positions(writer, NamespaceOf(asked).path)
  <2>1. CASE Accepts(writer, asked)
    <3>1. path \in Seq(Nat) /\ Packable(path)
      BY <2>1, ResolvedFacts, PositionsType DEF Accepts
    <3>2. wire' = EncodeHeader(v, path) /\ phase' = "sent"
      BY <1>1, <2>1 DEF Write, Written
    <3>3. EncodeHeader(v, path) \in Seq(Byte)
      <4>1. v \in Byte
        BY ExchangeAssumption
      <4> HIDE DEF path
      <4> QED
        BY <3>1, <4>1, HeaderType
    <3> HIDE DEF path
    <3> QED
      BY <1>1, <3>1, <3>2, <3>3 DEF Write, Phases, reading
  <2>2. CASE ~Accepts(writer, asked)
    BY <1>1, <2>2 DEF Write, Phases, reading
  <2> QED
    BY <2>1, <2>2
<1>2. CASE ReadPrefix
  <2>1. PICK path \in Seq(Nat), v \in Versions :
            Packable(path) /\ wire = EncodeHeader(v, path)
    BY <1>2 DEF ReadPrefix
  <2>2. v \in Byte /\ SecondByte(path) \in Byte /\ PathBytes(path) \in Seq(Byte)
    BY <2>1, ExchangeAssumption, DepthReadBack, PathReadBack
  <2>3. /\ wire[1] = v /\ wire[2] = SecondByte(path)
        /\ Tail(Tail(wire)) = PathBytes(path)
    BY <2>1, <2>2, SMTT(40) DEF EncodeHeader
  <2>4. DepthRead(reader, SecondByte(path)) \in -128..127
    BY <2>2, DepthType
  <2> QED
    BY <1>2, <2>1, <2>2, <2>3, <2>4 DEF ReadPrefix, Phases
<1>3. CASE ReadPath
  <2>1. PICK path \in Seq(Nat) :
            /\ Packable(path)
            /\ wire = PathBytes(path)
            /\ depth = DepthRead(reader, SecondByte(path))
    BY <1>3 DEF ReadPath
  <2>2. depth < 0 \/ depth = Len(path)
    BY <2>1, DepthReadBack DEF DepthRead, Platforms
  <2>3. Waypoints(wire, Len(path)) = path
    BY <2>1, PathReadBack
  <2>4. CASE depth < 0
    BY <1>3, <2>4 DEF ReadPath, Phases
  <2>5. CASE ~(depth < 0)
    <3>1. depth \in Nat /\ CeilHalf(depth) \in Nat /\ Len(wire) \in Nat
      BY <2>2, <2>5, HalfFacts
    <3>2. SubSeq(wire, CeilHalf(depth) + 1, Len(wire)) \in Seq(Byte)
      BY <3>1
    <3> QED
      BY <1>3, <2>1, <2>2, <2>3, <2>5, <3>2 DEF ReadPath, Phases
  <2> QED
    BY <2>4, <2>5
<1>4. CASE Lookup
  BY <1>4 DEF Lookup, reading, Phases
<1>5. CASE UNCHANGED vars
  BY <1>5 DEF vars
<1> QED
  BY <1>1, <1>2, <1>3, <1>4, <1>5 DEF Next, Read

\* TypeOK, of the whole exchange, for every schema and every request.
THEOREM TypeCorrect == Spec => []TypeOK
<1>1. Init => TypeInv
  BY DEF Init, TypeInv, TypeOK, Phases, Byte
<1>2. TypeInv /\ [Next]_vars => TypeInv'
  BY TypeStep
<1>3. TypeInv => TypeOK
  BY DEF TypeInv
<1> QED
  BY <1>1, <1>2, <1>3, PTL DEF Spec

============================================================================
