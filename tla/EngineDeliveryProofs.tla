------------------------ MODULE EngineDeliveryProofs ------------------------
(***************************************************************************)
(* What the first deserialize of a message returns when no two calls work  *)
(* on the same dict or array: for every schema and every set of clients,   *)
(* what the dict meant when serialize was called.                          *)
(***************************************************************************)
EXTENDS EngineProofs

\* The length of a text fits into the four bytes in front of it.
MaxLength == 2147483647
IsShort(cell) == Len(cell.data) <= MaxLength
ShortTexts ==
    /\ \A cell \in Cells : IsShort(cell)
    /\ \A p \in Paths : HasRoot(p) =>
          \A f \in ToSet(Fields(p)) : IsShort(f.default)

\* What a message can say: of each field something the field encodes, put by
\* a caller or by default, and nothing else.
IsReadable(m) ==
    /\ m.path \in Paths /\ Packable(m.path) /\ HasRoot(m.path)
    /\ \A f \in ToSet(Fields(m.path)) :
          /\ Encodable(f, m.values[f.name])
          /\ m.values[f.name] \in Cells \cup {f.default}
    /\ \A k \in Keys :
          (\A f \in ToSet(Fields(m.path)) : f.name # k) => m.values[k] = Absent

FlagOf(frame) == IF frame.flagged THEN <<1>> ELSE <<>>

\* A reader of a message of m, with rest before it, that is at the header, ...
AtHeader(frame, m, rest) ==
    /\ ~frame.flagged /\ frame.got = Nothing
    /\ Len(frame.head) <= HeaderSize(m.path)
    /\ frame.head \o rest = EncodeMessage(m)

\* ... at a field, with what is read of it put back in front, ...
AtField(frame, m, rest) ==
    LET fields == Fields(m.path)
        all == EncodedFields(m)
        done == Len(fields) - Len(frame.todo)
    IN /\ frame.schema = m.path /\ IsEnd(frame.todo, fields)
       /\ Joined(all, done) \o (FlagOf(frame) \o rest) = FlattenSeq(all)
       /\ \A k \in Keys :
             (\A f \in ToSet(frame.todo) : f.name # k) => frame.got[k] = m.values[k]
       /\ frame.flagged => frame.todo # <<>> /\ Head(frame.todo).option

\* ... and at a text whose length it has read.
AtText(frame, m) ==
    LET f == Head(frame.todo)
    IN /\ frame.todo # <<>> /\ f.kind = "string" /\ (f.option => frame.flagged)
       /\ frame.size = Len(m.values[f.name].data)

Follows(frame, m, rest) ==
    /\ frame.at = "header" => AtHeader(frame, m, rest)
    /\ frame.at \in {"read", "text"} => AtField(frame, m, rest)
    /\ frame.at = "text" => AtText(frame, m)

\* A reader has an array of its own that was given and opened.
ReadsOwn(c) ==
    LET a == call[c].array
    IN call[c].at \in Deserializing =>
          /\ given[a] # <<>> /\ reads[a] > 0
          /\ result[c].array = a /\ result[c].wrapper = "none"
          /\ \A o \in Clients \ {c} :
                call[o].at \in Deserializing => call[o].array # a
          /\ result[c].first => Follows(call[c], meaning[a], Source(c))

DeliveryInv ==
    /\ MessageInv
    /\ \A a \in Arrays : given[a] # <<>> => IsReadable(meaning[a])
    /\ \A a \in Arrays : reads[a] = 0 => heap[a] = given[a]
    /\ \A c \in Clients : ReadsOwn(c)
    /\ \A c \in Clients : result[c].wrapper # "none" => given[result[c].array] # <<>>
    /\ FirstReadReturnsTheMeaning

----------------------------------------------------------------------------
\* Slicing at the seam of two sequences.
LEMMA Seam ==
    ASSUME NEW s \in Seq(Byte), NEW t \in Seq(Byte)
    PROVE  /\ UpTo(s \o t, Len(s)) = s /\ From(s \o t, Len(s)) = t
           /\ Cut(s \o t, Len(s)) = Len(s)
<1> DEFINE n == Len(s)
           whole == s \o t
<1>1. n \in Nat /\ Len(t) \in Nat /\ whole \in Seq(Byte) /\ Len(whole) = n + Len(t)
  OBVIOUS
<1>2. SubSeq(whole, 1, n) = s
  OBVIOUS
<1>3. SubSeq(whole, n + 1, Len(whole)) = t
  OBVIOUS
<1>4. Cut(whole, n) = n
  <2>1. ~(n < 0) /\ n \in {n, Len(whole)} /\ n <= Len(whole)
    BY <1>1
  <2>2. Cut(whole, n) = Min({n, Len(whole)})
    BY <2>1 DEF Cut
  <2> HIDE DEF whole, n
  <2>3. Min({n, Len(whole)}) \in {n, Len(whole)}
    <3> DEFINE ends == {n, Len(whole)}
    <3>1. ends \in SUBSET Nat /\ ends # {}
      BY <1>1
    <3> HIDE DEF ends
    <3>2. Min(ends) \in ends
      BY <3>1, LeastOf
    <3> QED
      BY <3>2 DEF ends
  <2>4. \E x \in {n, Len(whole)} : \A y \in {n, Len(whole)} : x <= y
    BY <1>1, <2>1
  <2>5. Min({n, Len(whole)}) <= n
    BY <2>4 DEF Min
  <2> QED
    BY <1>1, <2>1, <2>2, <2>3, <2>5
<1> QED
  BY <1>2, <1>3, <1>4 DEF UpTo, From

\* Any number is put as four bytes.
LEMMA BytesType ==
    ASSUME NEW n \in Nat
    PROVE  IntBytes(n) \in Seq(Byte) /\ Len(IntBytes(n)) = 4
<1> DEFINE x == (n \div 16777216) % 256
           y == (n \div 65536) % 256
           z == (n \div 256) % 256
           w == n % 256
<1>1. x \in Byte /\ y \in Byte /\ z \in Byte /\ w \in Byte
  BY SMT DEF Byte
<1>2. IntBytes(n) = <<x, y, z, w>>
  BY DEF IntBytes
<1> HIDE DEF x, y, z, w
<1> QED
  BY <1>1, <1>2

\* Four bytes give back the number they were made of.
LEMMA NumberBack ==
    ASSUME NEW n \in Nat, n <= MaxLength
    PROVE  IntBytes(n) \in Seq(Byte) /\ Len(IntBytes(n)) = 4 /\ IntOf(IntBytes(n)) = n
<1> DEFINE x == n \div 16777216
           y == (n \div 65536) % 256
           z == (n \div 256) % 256
           w == n % 256
<1>1. x \in 0..127 /\ y \in Byte /\ z \in Byte /\ w \in Byte
  BY SMT DEF Byte, MaxLength
<1>2. n \div 65536 = x * 256 + y
  OBVIOUS
<1>3. n \div 256 = (n \div 65536) * 256 + z
  OBVIOUS
<1>4. n = (n \div 256) * 256 + w
  OBVIOUS
<1>5. x % 256 = x /\ IntBytes(n) = <<x, y, z, w>>
  BY <1>1 DEF IntBytes
<1> HIDE DEF x, y, z, w
<1>6. n = x * 16777216 + y * 65536 + z * 256 + w
  BY <1>1, <1>2, <1>3, <1>4 DEF Byte
<1>7. IntOf(<<x, y, z, w>>) = x * 16777216 + y * 65536 + z * 256 + w
  BY <1>1 DEF IntOf
<1> QED
  BY <1>1, <1>5, <1>6, <1>7 DEF Byte

\* The bytes of the fields of a message that can be read.
LEMMA FieldsType ==
    ASSUME NEW m, IsReadable(m), m.values \in Values
    PROVE  /\ Fields(m.path) \in Seq(FieldDecl)
           /\ EncodedFields(m) \in Seq(Seq(Byte))
           /\ Len(EncodedFields(m)) = Len(Fields(m.path))
           /\ EncodeHeader(Version, m.path) \in Seq(Byte) /\ m.path \in Seq(Nat)
           /\ \A i \in 1..Len(Fields(m.path)) :
                 EncodedFields(m)[i] =
                    EncodeField(Fields(m.path)[i], m.values[Fields(m.path)[i].name])
<1> DEFINE fields == Fields(m.path)
           bytes(i) == EncodeField(fields[i], m.values[fields[i].name])
<1>1. m.path \in Paths /\ HasRoot(m.path) /\ Packable(m.path)
  BY DEF IsReadable
<1>2. fields \in Seq(FieldDecl)
  BY <1>1, RootFacts
<1>3. ASSUME NEW i \in 1..Len(fields) PROVE bytes(i) \in Seq(Byte)
  <2>1. fields[i] \in FieldDecl /\ fields[i] \in ToSet(fields)
    BY <1>2 DEF ToSet
  <2>2. fields[i].name \in Keys
    BY <2>1 DEF FieldDecl
  <2>3. m.values[fields[i].name] \in Cell
    BY <2>2 DEF Values
  <2>4. Encodable(fields[i], m.values[fields[i].name])
    BY <2>1 DEF IsReadable
  <2> QED
    BY <2>1, <2>3, <2>4, FieldType
<1>4. EncodedFields(m) = [i \in 1..Len(fields) |-> bytes(i)]
  BY <1>2 DEF EncodedFields
<1>5. m.path \in Seq(Nat)
  BY <1>1, NestedAssumption
<1>6. EncodeHeader(Version, m.path) \in Seq(Byte)
  <2>1. Version \in Byte
    BY DEF Version, Byte
  <2> QED
    BY <1>1, <1>5, <2>1, HeaderType
<1> HIDE DEF bytes
<1>7. /\ EncodedFields(m) \in Seq(Seq(Byte)) /\ Len(EncodedFields(m)) = Len(fields)
      /\ \A i \in 1..Len(fields) : EncodedFields(m)[i] = bytes(i)
  <2>1. Len(fields) \in Nat
    BY <1>2
  <2> HIDE DEF fields
  <2> QED
    BY <1>3, <1>4, <2>1
<1> QED
  BY <1>2, <1>5, <1>6, <1>7 DEF bytes

\* The first two bytes of a header say how long it is.
LEMMA HeaderBegins ==
    ASSUME NEW path \in Seq(Nat), Packable(path), NEW content \in Seq(Byte),
           NEW head \in Seq(Byte), NEW rest \in Seq(Byte),
           head \o rest = EncodeHeader(Version, path) \o content, Len(head) >= 2
    PROVE  head[1] = Version /\ PyDepth(head[2]) = Len(path)
<1> DEFINE header == EncodeHeader(Version, path)
           second == SecondByte(path)
           tail == PathBytes(path)
<1>1. PyDepth(second) = Len(path) /\ tail \in Seq(Byte) /\ second \in Byte /\ Version \in Byte
  BY DepthReadBack, PathReadBack DEF Version, Byte
<1> HIDE DEF second, tail
<1>2. header = <<Version, second>> \o tail
  BY DEF header, EncodeHeader, second, tail
<1>3. header \in Seq(Byte) /\ Len(header) >= 2 /\ header[1] = Version /\ header[2] = second
  BY <1>1, <1>2
<1> HIDE DEF header
<1>4. (head \o rest)[1] = head[1] /\ (head \o rest)[2] = head[2]
  OBVIOUS
<1>5. (header \o content)[1] = header[1] /\ (header \o content)[2] = header[2]
  BY <1>3
<1> QED
  BY <1>1, <1>3, <1>4, <1>5 DEF header

\* What a header opens into, and what is behind it.
LEMMA HeaderBack ==
    ASSUME NEW path \in Seq(Nat), Packable(path), NEW content \in Seq(Byte),
           NEW head \in Seq(Byte), NEW rest \in Seq(Byte),
           head \o rest = EncodeHeader(Version, path) \o content,
           Len(head) = HeaderSize(path)
    PROVE  /\ Waypoints(SubSeq(head, 3, Len(head)), Len(path)) = path
           /\ rest = content
<1> DEFINE header == EncodeHeader(Version, path)
           second == SecondByte(path)
           tail == PathBytes(path)
<1>1. /\ tail \in Seq(Byte) /\ second \in Byte /\ Version \in Byte
      /\ Waypoints(tail, Len(path)) = path
  BY DepthReadBack, PathReadBack DEF Version, Byte
<1>2. Len(tail) = CeilHalf(Len(path))
  <2>1. CeilHalf(Len(path)) \in Nat
    BY HalfFacts
  <2> QED
    BY <2>1 DEF PathBytes
<1> HIDE DEF second, tail
<1>3. header = <<Version, second>> \o tail
  BY DEF header, EncodeHeader, second, tail
<1>4. /\ header \in Seq(Byte) /\ Len(header) = 2 + Len(tail)
      /\ SubSeq(header, 3, Len(header)) = tail
  BY <1>1, <1>3
<1> HIDE DEF header
<1>5. Len(head) = Len(header)
  BY <1>2, <1>4 DEF HeaderSize
<1>6. head = header
  <2>1. \A i \in 1..Len(head) : (head \o rest)[i] = head[i]
    OBVIOUS
  <2>2. \A i \in 1..Len(header) : (header \o content)[i] = header[i]
    BY <1>4
  <2>3. \A i \in 1..Len(head) : head[i] = header[i]
    BY <1>5, <2>1, <2>2 DEF header
  <2>4. /\ head = [i \in 1..Len(head) |-> head[i]]
        /\ header = [i \in 1..Len(header) |-> header[i]]
    BY <1>4
  <2> QED
    BY <1>5, <2>3, <2>4
<1>7. rest = content
  <2>1. head \o rest = head \o content
    BY <1>6 DEF header
  <2> QED
    BY <2>1, Cancel
<1> QED
  BY <1>1, <1>4, <1>6, <1>7

----------------------------------------------------------------------------
\* What a reader that is at a field has before it: the bytes of that field,
\* and those of the fields behind it.
LEMMA NextField ==
    ASSUME NEW m, IsReadable(m), m.values \in Values, NEW frame, NEW rest \in Seq(Byte),
           AtField(frame, m, rest), frame.todo \in Seq(FieldDecl), frame.todo # <<>>
    PROVE  LET fields == Fields(m.path)
               all == EncodedFields(m)
               done == Len(fields) - Len(frame.todo)
               f == Head(frame.todo)
               cell == m.values[f.name]
           IN /\ f \in FieldDecl /\ f \in ToSet(fields) /\ f.name \in Keys
              /\ cell \in Cell /\ Encodable(f, cell)
              /\ IsEnd(Tail(frame.todo), fields)
              /\ Len(fields) - Len(Tail(frame.todo)) = done + 1
              /\ \E behind \in Seq(Byte) :
                    /\ FlagOf(frame) \o rest = EncodeField(f, cell) \o behind
                    /\ Joined(all, done + 1) \o behind = FlattenSeq(all)
<1> DEFINE fields == Fields(m.path)
           all == EncodedFields(m)
           done == Len(fields) - Len(frame.todo)
           f == Head(frame.todo)
           cell == m.values[f.name]
<1>1. /\ fields \in Seq(FieldDecl) /\ all \in Seq(Seq(Byte)) /\ Len(all) = Len(fields)
      /\ \A i \in 1..Len(fields) : all[i] = EncodeField(fields[i], m.values[fields[i].name])
  BY FieldsType
<1>2. IsEnd(frame.todo, fields) /\ Joined(all, done) \o (FlagOf(frame) \o rest) = FlattenSeq(all)
  BY DEF AtField
<1>3. /\ done \in 0..(Len(fields) - 1) /\ f = fields[done + 1]
      /\ IsEnd(Tail(frame.todo), fields)
      /\ Len(fields) - Len(Tail(frame.todo)) = done + 1
  BY <1>1, <1>2, EndFacts
<1> HIDE DEF done
<1>4. done + 1 \in 1..Len(fields) /\ done + 1 \in 0..Len(all) /\ done \in 0..(Len(all) - 1)
      /\ done \in 0..Len(all)
  BY <1>1, <1>3
<1>5. f \in FieldDecl /\ f \in ToSet(fields)
  BY <1>1, <1>3, <1>4 DEF ToSet
<1>6. f.name \in Keys /\ cell \in Cell /\ Encodable(f, cell)
  <2>1. f.name \in Keys
    BY <1>5 DEF FieldDecl
  <2> QED
    BY <1>5, <2>1 DEF Values, IsReadable
<1>7. all[done + 1] = EncodeField(f, cell) /\ all[done + 1] \in Seq(Byte)
  BY <1>1, <1>3, <1>4
<1> HIDE DEF all, f, cell
<1>8. PICK behind \in Seq(Byte) : FlattenSeq(all) = Joined(all, done + 1) \o behind
  BY <1>1, <1>4, JoinedRest
<1>9. FlagOf(frame) \o rest = all[done + 1] \o behind
  <2> DEFINE before == Joined(all, done)
             bytes == all[done + 1]
             flagged == FlagOf(frame) \o rest
  <2>1. before \in Seq(Byte) /\ bytes \in Seq(Byte)
    BY <1>1, <1>4, <1>7, JoinedFacts
  <2>2. flagged \in Seq(Byte)
    <3>1. <<1>> \in Seq(Byte) /\ <<>> \in Seq(Byte)
      BY DEF Byte
    <3>2. FlagOf(frame) \in Seq(Byte)
      BY <3>1 DEF FlagOf
    <3> QED
      BY <3>2
  <2>3. Joined(all, done + 1) = before \o bytes
    BY <1>1, <1>4, JoinedFacts
  <2>4. before \o flagged = (before \o bytes) \o behind
    BY <1>2, <1>8, <2>3 DEF done, all
  <2> HIDE DEF before, bytes, flagged
  <2>5. before \o flagged = before \o (bytes \o behind)
    BY <2>1, <2>4, Grouping, SMTT(60)
  <2>6. bytes \o behind \in Seq(Byte)
    BY <2>1
  <2> QED
    BY <2>1, <2>2, <2>5, <2>6, Cancel DEF flagged, bytes
<1>10. \E rear \in Seq(Byte) :
          /\ FlagOf(frame) \o rest = EncodeField(f, cell) \o rear
          /\ Joined(all, done + 1) \o rear = FlattenSeq(all)
  BY <1>7, <1>8, <1>9
<1> QED
  BY <1>3, <1>5, <1>6, <1>10 DEF done, all, f, cell

\* A value that may be put has bytes of its own.
LEMMA ValueType ==
    ASSUME NEW f \in FieldDecl, NEW cell \in Cell, Encodable(f, cell),
           ~(f.option /\ cell = None)
    PROVE  /\ cell # None /\ EncodeValue(f, cell) \in Seq(Byte)
           /\ f.kind = "byte" => /\ cell.is = "number" /\ cell.data[1] \in Byte
                                 /\ EncodeValue(f, cell) = <<cell.data[1]>>
                                 /\ cell = Number(cell.data[1])
           /\ f.kind # "byte" =>
                 /\ f.kind = "string" /\ cell.is = "text" /\ cell.data \in Seq(Byte)
                 /\ EncodeValue(f, cell) = IntBytes(Len(cell.data)) \o cell.data
                 /\ cell = Text(cell.data)
<1>1. None.is = "none"
  BY DEF None
<1>2. CASE f.kind = "byte"
  <2>1. cell.is = "number" /\ cell.data[1] \in Byte
    BY <1>2 DEF Encodable
  <2>2. cell.data \in [{1} -> Int] /\ cell \in [is : {"number"}, data : [{1} -> Int]]
    BY <2>1 DEF Cell, Missing, Absent, None
  <2>3. cell.data = <<cell.data[1]>>
    BY <2>2
  <2>4. cell = Number(cell.data[1])
    BY <2>2, <2>3 DEF Number
  <2>5. EncodeValue(f, cell) = <<cell.data[1]>>
    BY <1>2 DEF EncodeValue
  <2> QED
    BY <1>1, <1>2, <2>1, <2>4, <2>5
<1>3. CASE f.kind # "byte"
  <2>1. f.kind = "string" /\ cell.is = "text"
    BY <1>3 DEF Encodable, FieldDecl
  <2>2. cell \in [is : {"text"}, data : Seq(Byte)]
    BY <2>1 DEF Cell, Missing, Absent, None
  <2>3. cell.data \in Seq(Byte) /\ cell = Text(cell.data)
    BY <2>2 DEF Text
  <2>4. EncodeValue(f, cell) = IntBytes(Len(cell.data)) \o cell.data
    BY <1>3 DEF EncodeValue
  <2>5. IntBytes(Len(cell.data)) \in Seq(Byte)
    <3>1. Len(cell.data) \in Nat
      BY <2>3
    <3> QED
      BY <3>1, BytesType
  <2>6. EncodeValue(f, cell) \in Seq(Byte)
    BY <2>3, <2>4, <2>5
  <2> QED
    BY <1>1, <1>3, <2>1, <2>3, <2>4, <2>6
<1> QED
  BY <1>2, <1>3

\* Behind the flag, if there is one to read, is the value.
LEMMA NextValue ==
    ASSUME NEW f \in FieldDecl, NEW cell \in Cell, Encodable(f, cell), NEW frame,
           NEW rest \in Seq(Byte), NEW behind \in Seq(Byte),
           FlagOf(frame) \o rest = EncodeField(f, cell) \o behind,
           frame.flagged <=> f.option
    PROVE  ~(f.option /\ cell = None) /\ rest = EncodeValue(f, cell) \o behind
<1>1. CASE ~f.option
  <2>1. FlagOf(frame) = <<>> /\ EncodeField(f, cell) = EncodeValue(f, cell)
    BY <1>1 DEF FlagOf, EncodeField
  <2> QED
    BY <1>1, <2>1
<1>2. CASE f.option
  <2>1. FlagOf(frame) = <<1>>
    BY <1>2 DEF FlagOf
  <2>2. cell # None
    <3>1. SUFFICES ASSUME cell = None PROVE FALSE
      OBVIOUS
    <3>2. EncodeField(f, cell) = <<0>>
      BY <1>2, <3>1 DEF EncodeField
    <3>3. (<<1>> \o rest)[1] = 1 /\ (<<0>> \o behind)[1] = 0
      OBVIOUS
    <3> QED
      BY <2>1, <3>2, <3>3
  <2>3. EncodeField(f, cell) = <<1>> \o EncodeValue(f, cell)
    BY <1>2, <2>2 DEF EncodeField
  <2> DEFINE one == <<1>>
             bytes == EncodeValue(f, cell)
  <2>4. one \in Seq(Byte) /\ bytes \in Seq(Byte)
    <3>1. <<1>> \in Seq(Byte)
      BY DEF Byte
    <3>2. EncodeValue(f, cell) \in Seq(Byte)
      BY <2>2, ValueType
    <3> QED
      BY <3>1, <3>2
  <2>5. one \o rest = (one \o bytes) \o behind
    BY <2>1, <2>3
  <2> HIDE DEF one, bytes
  <2>6. one \o rest = one \o (bytes \o behind) /\ bytes \o behind \in Seq(Byte)
    BY <2>4, <2>5, Grouping, SMTT(60)
  <2>7. rest = bytes \o behind
    BY <2>4, <2>6, Cancel
  <2> QED
    BY <2>2, <2>7 DEF bytes
<1> QED
  BY <1>1, <1>2

----------------------------------------------------------------------------
(* What each read does to a reader that has the bytes of m before it: the  *)
(* bytes are there, and it goes on to be at the next of them.              *)

\* The content of a message that can be read.
LEMMA ContentType ==
    ASSUME NEW m, IsReadable(m), m.values \in Values
    PROVE  /\ FlattenSeq(EncodedFields(m)) \in Seq(Byte)
           /\ Joined(EncodedFields(m), 0) = <<>>
           /\ CeilHalf(Len(m.path)) \in Nat /\ HeaderSize(m.path) = 2 + CeilHalf(Len(m.path))
           /\ Len(EncodeHeader(Version, m.path)) = HeaderSize(m.path)
<1> DEFINE all == EncodedFields(m)
<1>1. all \in Seq(Seq(Byte)) /\ m.path \in Seq(Nat) /\ Packable(m.path)
  BY FieldsType DEF IsReadable
<1>2. Len(all) \in 0..Len(all)
  BY <1>1
<1> HIDE DEF all
<1>3. FlattenSeq(all) \in Seq(Byte) /\ Joined(all, 0) = <<>>
  BY <1>1, <1>2, JoinedFacts
<1>4. CeilHalf(Len(m.path)) \in Nat
  <2>1. Len(m.path) \in Nat
    BY <1>1
  <2> QED
    BY <2>1, HalfFacts
<1>5. Len(EncodeHeader(Version, m.path)) = HeaderSize(m.path)
  BY <1>1, HeaderLength
<1> QED
  BY <1>3, <1>4, <1>5 DEF all, HeaderSize

\* A byte of the header.
LEMMA HeaderByteRead ==
    ASSUME NEW m, IsReadable(m), m.values \in Values, NEW frame, NEW rest \in Seq(Byte),
           frame.head \in Seq(Byte), AtHeader(frame, m, rest),
           ~(/\ Len(frame.head) >= 2
             /\ Len(frame.head) = 2 + CeilHalf(PyDepth(frame.head[2])))
    PROVE  /\ rest # <<>>
           /\ \A next : /\ next.flagged = frame.flagged /\ next.got = frame.got
                        /\ next.head = Append(frame.head, Head(rest))
                        => AtHeader(next, m, Tail(rest))
<1> DEFINE head == frame.head
           size == HeaderSize(m.path)
           header == EncodeHeader(Version, m.path)
           content == FlattenSeq(EncodedFields(m))
<1>1. /\ content \in Seq(Byte) /\ header \in Seq(Byte)
      /\ size \in Nat /\ size >= 2 /\ Len(header) = size
      /\ size = 2 + CeilHalf(Len(m.path))
      /\ m.path \in Seq(Nat) /\ Packable(m.path)
  BY ContentType, FieldsType DEF IsReadable
<1>2. /\ head \in Seq(Byte) /\ Len(head) <= size /\ head \o rest = header \o content
      /\ ~frame.flagged /\ frame.got = Nothing
  BY DEF AtHeader, EncodeMessage
<1>3. Len(head) # size
  <2>1. CASE Len(head) >= 2
    <3>1. PyDepth(head[2]) = Len(m.path)
      BY <1>1, <1>2, <2>1, HeaderBegins
    <3> QED
      BY <1>1, <2>1, <3>1
  <2>2. CASE ~(Len(head) >= 2)
    BY <1>1, <2>2
  <2> QED
    BY <2>1, <2>2
<1> HIDE DEF head, size, header, content
<1>4. Len(head) \in Nat /\ Len(rest) \in Nat /\ Len(content) \in Nat
  BY <1>1, <1>2, SMTT(60)
<1>5. Len(head \o rest) = Len(head) + Len(rest) /\ Len(header \o content) = size + Len(content)
  BY <1>1, <1>2, Lengths
<1>6. Len(rest) # 0
  BY <1>1, <1>2, <1>3, <1>4, <1>5
<1>7. rest # <<>>
  BY <1>6
<1>8. /\ Append(head, Head(rest)) \o Tail(rest) = head \o rest
      /\ Len(Append(head, Head(rest))) = Len(head) + 1
  <2>1. /\ Append(head, Head(rest)) \in Seq(Byte) /\ Tail(rest) \in Seq(Byte)
        /\ Len(Append(head, Head(rest))) = Len(head) + 1
        /\ <<Head(rest)>> \in Seq(Byte)
    BY <1>2, <1>7
  <2>2. Append(head, Head(rest)) = head \o <<Head(rest)>>
    BY <1>2, <1>7
  <2>3. <<Head(rest)>> \o Tail(rest) = rest
    BY <1>7
  <2>4. (head \o <<Head(rest)>>) \o Tail(rest) = head \o (<<Head(rest)>> \o Tail(rest))
    BY <1>2, <2>1, Grouping, SMTT(60)
  <2> QED
    BY <2>1, <2>2, <2>3, <2>4
<1>9. Len(head) + 1 <= size
  BY <1>1, <1>2, <1>3, <1>4
<1>10. ASSUME NEW next, next.flagged = frame.flagged, next.got = frame.got,
              next.head = Append(head, Head(rest))
       PROVE  AtHeader(next, m, Tail(rest))
  BY <1>2, <1>8, <1>9, <1>10 DEF AtHeader, EncodeMessage, size, header, content
<1> QED
  BY <1>7, <1>10 DEF head

\* The header is read, and is that of m.
LEMMA HeaderFound ==
    ASSUME NEW m, IsReadable(m), m.values \in Values, NEW frame, NEW rest \in Seq(Byte),
           frame.head \in Seq(Byte), AtHeader(frame, m, rest),
           Len(frame.head) >= 2,
           Len(frame.head) = 2 + CeilHalf(PyDepth(frame.head[2]))
    PROVE  /\ Waypoints(SubSeq(frame.head, 3, Len(frame.head)), PyDepth(frame.head[2]))
                 = m.path
           /\ frame.head[1] = Version
           /\ \A next : /\ next.flagged = frame.flagged /\ next.got = frame.got
                        /\ next.schema = m.path /\ next.todo = Fields(m.path)
                        => AtField(next, m, rest)
<1> DEFINE head == frame.head
           fields == Fields(m.path)
           content == FlattenSeq(EncodedFields(m))
<1>1. /\ content \in Seq(Byte) /\ m.path \in Seq(Nat) /\ Packable(m.path)
      /\ Joined(EncodedFields(m), 0) = <<>>
      /\ HeaderSize(m.path) = 2 + CeilHalf(Len(m.path))
      /\ fields \in Seq(FieldDecl)
  BY ContentType, FieldsType DEF IsReadable
<1>2. /\ head \in Seq(Byte) /\ head \o rest = EncodeHeader(Version, m.path) \o content
      /\ ~frame.flagged /\ frame.got = Nothing
  BY DEF AtHeader, EncodeMessage
<1>3. head[1] = Version /\ PyDepth(head[2]) = Len(m.path)
  BY <1>1, <1>2, HeaderBegins
<1>4. Waypoints(SubSeq(head, 3, Len(head)), Len(m.path)) = m.path /\ rest = content
  <2>1. Len(head) = HeaderSize(m.path)
    BY <1>1, <1>3
  <2> HIDE DEF head, content
  <2> QED
    BY <1>1, <1>2, <2>1, HeaderBack
<1>5. ASSUME NEW next, next.flagged = frame.flagged, next.got = frame.got,
             next.schema = m.path, next.todo = fields
      PROVE  AtField(next, m, rest)
  <2>1. IsEnd(fields, fields) /\ Len(fields) - Len(fields) = 0
    BY <1>1, EndAll
  <2>2. FlagOf(next) = <<>> /\ ~next.flagged
    BY <1>2, <1>5 DEF FlagOf
  <2>3. <<>> \o (<<>> \o rest) = content
    BY <1>4
  <2>4. ASSUME NEW k \in Keys, \A f \in ToSet(fields) : f.name # k
        PROVE  Nothing[k] = m.values[k]
    BY <2>4 DEF Nothing, IsReadable
  <2> HIDE DEF content, fields
  <2>5. Joined(EncodedFields(m), Len(fields) - Len(fields)) \o (FlagOf(next) \o rest) = content
    BY <1>1, <2>1, <2>2, <2>3
  <2> QED
    BY <1>2, <1>5, <2>1, <2>2, <2>4, <2>5 DEF AtField, content, fields
<1> QED
  BY <1>3, <1>4, <1>5

\* A field is done with when what it says is read and its bytes are gone.
LEMMA FieldIsRead ==
    ASSUME NEW m, IsReadable(m), m.values \in Values, NEW frame, NEW rest \in Seq(Byte),
           AtField(frame, m, rest), frame.todo \in Seq(FieldDecl), frame.todo # <<>>,
           frame.got \in Values, NEW behind \in Seq(Byte),
           Joined(EncodedFields(m), Len(Fields(m.path)) - Len(frame.todo) + 1) \o behind
              = FlattenSeq(EncodedFields(m)),
           NEW next, next.schema = frame.schema, next.todo = Tail(frame.todo), ~next.flagged,
           next.got = [frame.got EXCEPT ![Head(frame.todo).name]
                                           = m.values[Head(frame.todo).name]]
    PROVE  AtField(next, m, behind)
<1> DEFINE fields == Fields(m.path)
           f == Head(frame.todo)
<1>1. /\ f.name \in Keys /\ IsEnd(Tail(frame.todo), fields)
      /\ Len(fields) - Len(Tail(frame.todo)) = Len(fields) - Len(frame.todo) + 1
  BY NextField
<1>2. frame.schema = m.path
      /\ \A k \in Keys :
            (\A g \in ToSet(frame.todo) : g.name # k) => frame.got[k] = m.values[k]
  BY DEF AtField
<1>3. ASSUME NEW k \in Keys, \A g \in ToSet(Tail(frame.todo)) : g.name # k
      PROVE  next.got[k] = m.values[k]
  <2>1. CASE k = f.name
    BY <1>1, <2>1 DEF Values
  <2>2. CASE k # f.name
    <3>1. \A g \in ToSet(frame.todo) : g.name # k
      BY <1>3, <2>2, Elements
    <3> QED
      BY <1>2, <2>2, <3>1 DEF Values
  <2> QED
    BY <2>1, <2>2
<1>4. FlagOf(next) = <<>> /\ <<>> \o behind = behind
  BY DEF FlagOf
<1> QED
  BY <1>1, <1>2, <1>3, <1>4 DEF AtField

\* The flag of an optional field.
LEMMA FlagRead ==
    ASSUME NEW m, IsReadable(m), m.values \in Values, NEW frame, NEW rest \in Seq(Byte),
           AtField(frame, m, rest), frame.todo \in Seq(FieldDecl), frame.todo # <<>>,
           frame.got \in Values, Head(frame.todo).option, ~frame.flagged
    PROVE  /\ rest # <<>>
           /\ \A next :
                 /\ Head(rest) = 0
                 /\ next.schema = frame.schema /\ next.todo = Tail(frame.todo)
                 /\ next.got = [frame.got EXCEPT ![Head(frame.todo).name] = None]
                 /\ ~next.flagged
                 => AtField(next, m, Tail(rest))
           /\ \A next :
                 /\ Head(rest) # 0
                 /\ next.schema = frame.schema /\ next.todo = frame.todo
                 /\ next.got = frame.got /\ next.flagged
                 => AtField(next, m, Tail(rest))
<1> DEFINE fields == Fields(m.path)
           all == EncodedFields(m)
           done == Len(fields) - Len(frame.todo)
           f == Head(frame.todo)
           cell == m.values[f.name]
<1>1. f \in FieldDecl /\ cell \in Cell /\ Encodable(f, cell)
  BY NextField
<1>2. PICK behind \in Seq(Byte) :
         /\ FlagOf(frame) \o rest = EncodeField(f, cell) \o behind
         /\ Joined(all, done + 1) \o behind = FlattenSeq(all)
  BY NextField
<1>3. FlagOf(frame) \o rest = rest
  BY DEF FlagOf
<1>4. CASE cell = None
  <2>1. EncodeField(f, cell) = <<0>>
    BY <1>4 DEF EncodeField
  <2>2. rest = <<0>> \o behind
    BY <1>2, <1>3, <2>1
  <2>3. rest # <<>> /\ Head(rest) = 0 /\ Tail(rest) = behind
    BY <2>2
  <2>4. ASSUME NEW next, next.schema = frame.schema, next.todo = Tail(frame.todo),
               next.got = [frame.got EXCEPT ![f.name] = None], ~next.flagged
        PROVE  AtField(next, m, behind)
    BY <1>2, <1>4, <2>4, FieldIsRead
  <2> QED
    BY <2>3, <2>4
<1>5. CASE cell # None
  <2> DEFINE value == EncodeValue(f, cell)
  <2>1. EncodeField(f, cell) = <<1>> \o value
    BY <1>5 DEF EncodeField
  <2>2. value \in Seq(Byte)
    BY <1>1, <1>5, ValueType
  <2> HIDE DEF value
  <2>3. rest = (<<1>> \o value) \o behind
    BY <1>2, <1>3, <2>1
  <2>4. rest # <<>> /\ Head(rest) = 1 /\ <<1>> \o Tail(rest) = rest
    BY <2>2, <2>3
  <2>5. ASSUME NEW next, next.schema = frame.schema, next.todo = frame.todo,
               next.got = frame.got, next.flagged
        PROVE  AtField(next, m, Tail(rest))
    <3>1. FlagOf(next) \o Tail(rest) = FlagOf(frame) \o rest
      BY <1>3, <2>4, <2>5 DEF FlagOf
    <3> QED
      BY <2>5, <3>1 DEF AtField
  <2> QED
    BY <2>4, <2>5
<1> QED
  BY <1>4, <1>5

\* The byte of a field.
LEMMA ByteRead ==
    ASSUME NEW m, IsReadable(m), m.values \in Values, NEW frame, NEW rest \in Seq(Byte),
           AtField(frame, m, rest), frame.todo \in Seq(FieldDecl), frame.todo # <<>>,
           frame.got \in Values, Head(frame.todo).option => frame.flagged,
           frame.flagged \in BOOLEAN, Head(frame.todo).kind = "byte"
    PROVE  /\ rest # <<>>
           /\ \A next :
                 /\ next.schema = frame.schema /\ next.todo = Tail(frame.todo)
                 /\ next.got = [frame.got EXCEPT ![Head(frame.todo).name]
                                                   = Number(Head(rest))]
                 /\ ~next.flagged
                 => AtField(next, m, Tail(rest))
<1> DEFINE fields == Fields(m.path)
           all == EncodedFields(m)
           done == Len(fields) - Len(frame.todo)
           f == Head(frame.todo)
           cell == m.values[f.name]
<1>1. f \in FieldDecl /\ cell \in Cell /\ Encodable(f, cell)
  BY NextField
<1>2. PICK behind \in Seq(Byte) :
         /\ FlagOf(frame) \o rest = EncodeField(f, cell) \o behind
         /\ Joined(all, done + 1) \o behind = FlattenSeq(all)
  BY NextField
<1>3. frame.flagged <=> f.option
  BY <1>1 DEF AtField, FieldDecl
<1>4. ~(f.option /\ cell = None) /\ rest = EncodeValue(f, cell) \o behind
  BY <1>1, <1>2, <1>3, NextValue
<1>5. EncodeValue(f, cell) = <<cell.data[1]>> /\ cell = Number(cell.data[1])
  BY <1>1, <1>4, ValueType
<1> DEFINE n == cell.data[1]
<1> HIDE DEF n
<1>6. rest = <<n>> \o behind
  BY <1>4, <1>5 DEF n
<1>7. rest # <<>> /\ Head(rest) = n /\ Tail(rest) = behind
  BY <1>6
<1>8. cell = Number(Head(rest))
  BY <1>5, <1>7 DEF n
<1>9. ASSUME NEW next, next.schema = frame.schema, next.todo = Tail(frame.todo),
             next.got = [frame.got EXCEPT ![f.name] = cell], ~next.flagged
      PROVE  AtField(next, m, behind)
  BY <1>2, <1>9, FieldIsRead
<1> QED
  BY <1>7, <1>8, <1>9

\* A length, its text and the rest, grouped from the front.
LEMMA TextLayout ==
    ASSUME NEW text \in Seq(Byte), NEW behind \in Seq(Byte)
    PROVE  (IntBytes(Len(text)) \o text) \o behind = IntBytes(Len(text)) \o (text \o behind)
<1>1. Len(text) \in Nat
  OBVIOUS
<1> DEFINE bytes == IntBytes(Len(text))
<1>2. bytes \in Seq(Byte)
  BY <1>1, BytesType
<1> HIDE DEF bytes
<1>3. (bytes \o text) \o behind = bytes \o (text \o behind)
  BY <1>2, Grouping
<1> QED
  BY <1>3 DEF bytes

\* What a reader at a string has before it: its length, its text, the rest.
LEMMA TextAhead ==
    ASSUME NEW m, IsReadable(m), m.values \in Values, NEW frame, NEW rest \in Seq(Byte),
           AtField(frame, m, rest), frame.todo \in Seq(FieldDecl), frame.todo # <<>>,
           Head(frame.todo).option => frame.flagged,
           frame.flagged \in BOOLEAN, Head(frame.todo).kind # "byte"
    PROVE  LET cell == m.values[Head(frame.todo).name]
           IN /\ cell.data \in Seq(Byte) /\ cell = Text(cell.data)
              /\ cell \in Cells \cup {Head(frame.todo).default}
              /\ Head(frame.todo) \in ToSet(Fields(m.path))
              /\ \E behind \in Seq(Byte) :
                    /\ rest = IntBytes(Len(cell.data)) \o (cell.data \o behind)
                    /\ Joined(EncodedFields(m),
                              Len(Fields(m.path)) - Len(frame.todo) + 1) \o behind
                          = FlattenSeq(EncodedFields(m))
<1> DEFINE fields == Fields(m.path)
           all == EncodedFields(m)
           done == Len(fields) - Len(frame.todo)
           f == Head(frame.todo)
           cell == m.values[f.name]
<1>1. f \in FieldDecl /\ f \in ToSet(fields) /\ cell \in Cell /\ Encodable(f, cell)
  BY NextField
<1>2. PICK behind \in Seq(Byte) :
         /\ FlagOf(frame) \o rest = EncodeField(f, cell) \o behind
         /\ Joined(all, done + 1) \o behind = FlattenSeq(all)
  BY NextField
<1>3. frame.flagged <=> f.option
  BY <1>1 DEF AtField, FieldDecl
<1>4. ~(f.option /\ cell = None) /\ rest = EncodeValue(f, cell) \o behind
  BY <1>1, <1>2, <1>3, NextValue
<1>5. /\ cell.data \in Seq(Byte) /\ cell = Text(cell.data)
      /\ EncodeValue(f, cell) = IntBytes(Len(cell.data)) \o cell.data
  BY <1>1, <1>4, ValueType
<1>6. cell \in Cells \cup {f.default}
  BY <1>1 DEF IsReadable
<1> HIDE DEF cell, f
<1>7. rest = IntBytes(Len(cell.data)) \o (cell.data \o behind)
  <2>1. rest = (IntBytes(Len(cell.data)) \o cell.data) \o behind
    BY <1>4, <1>5
  <2>2. cell.data \in Seq(Byte)
    BY <1>5
  <2> HIDE DEF fields, all, done
  <2> QED
    BY <2>1, <2>2, TextLayout
<1> QED
  BY <1>1, <1>2, <1>5, <1>6, <1>7 DEF cell, f

\* The length of a text, which is read but not dropped.
LEMMA LengthRead ==
    ASSUME ShortTexts,
           NEW m, IsReadable(m), m.values \in Values, NEW frame, NEW rest \in Seq(Byte),
           AtField(frame, m, rest), frame.todo \in Seq(FieldDecl), frame.todo # <<>>,
           Head(frame.todo).option => frame.flagged,
           frame.flagged \in BOOLEAN, Head(frame.todo).kind = "string"
    PROVE  /\ Len(UpTo(rest, 4)) = 4
           /\ \A next :
                 /\ next.schema = frame.schema /\ next.todo = frame.todo
                 /\ next.got = frame.got /\ next.flagged = frame.flagged
                 /\ next.size = IntOf(UpTo(rest, 4))
                 => AtField(next, m, rest) /\ AtText(next, m)
<1> DEFINE f == Head(frame.todo)
           text == m.values[f.name].data
           cell == m.values[f.name]
<1>1. /\ text \in Seq(Byte) /\ f \in ToSet(Fields(m.path))
      /\ cell \in Cells \cup {f.default}
      /\ \E behind \in Seq(Byte) : rest = IntBytes(Len(text)) \o (text \o behind)
  <2>1. f.kind # "byte"
    OBVIOUS
  <2>2. text \in Seq(Byte)
    BY <2>1, TextAhead
  <2>3. cell \in Cells \cup {f.default}
    BY <2>1, TextAhead
  <2>4. f \in ToSet(Fields(m.path))
    BY <2>1, TextAhead
  <2>5. \E behind \in Seq(Byte) : rest = IntBytes(Len(text)) \o (text \o behind)
    <3>1. \E behind \in Seq(Byte) :
             /\ rest = IntBytes(Len(text)) \o (text \o behind)
             /\ Joined(EncodedFields(m),
                       Len(Fields(m.path)) - Len(frame.todo) + 1) \o behind
                   = FlattenSeq(EncodedFields(m))
      BY <2>1, TextAhead
    <3> QED
      BY <3>1
  <2> QED
    BY <2>2, <2>3, <2>4, <2>5
<1>2. Len(text) \in Nat /\ Len(text) <= MaxLength
  <2>1. m.path \in Paths /\ HasRoot(m.path)
    BY DEF IsReadable
  <2>2. IsShort(cell)
    BY <1>1, <2>1 DEF ShortTexts
  <2>3. Len(text) <= MaxLength
    BY <2>2 DEF IsShort
  <2> HIDE DEF text
  <2>4. Len(text) \in Nat
    BY <1>1
  <2> QED
    BY <2>3, <2>4
<1>3. PICK behind \in Seq(Byte) : rest = IntBytes(Len(text)) \o (text \o behind)
  BY <1>1
<1> DEFINE bytes == IntBytes(Len(text))
           more == text \o behind
<1>4. bytes \in Seq(Byte) /\ Len(bytes) = 4 /\ IntOf(bytes) = Len(text)
  BY <1>2, NumberBack
<1>5. more \in Seq(Byte)
  <2> HIDE DEF text
  <2> QED
    BY <1>1
<1>6. rest = bytes \o more
  BY <1>3
<1> HIDE DEF bytes, more, text
<1>7. UpTo(rest, 4) = bytes
  BY <1>4, <1>5, <1>6, Seam
<1>8. ASSUME NEW next, next.schema = frame.schema, next.todo = frame.todo,
             next.got = frame.got, next.flagged = frame.flagged,
             next.size = IntOf(UpTo(rest, 4))
      PROVE  AtField(next, m, rest) /\ AtText(next, m)
  <2>1. FlagOf(next) = FlagOf(frame)
    BY <1>8 DEF FlagOf
  <2>2. AtField(next, m, rest)
    BY <1>8, <2>1 DEF AtField
  <2>3. next.size = Len(m.values[f.name].data)
    BY <1>4, <1>7, <1>8 DEF text
  <2> QED
    BY <1>8, <2>2, <2>3 DEF AtText
<1> QED
  BY <1>4, <1>7, <1>8

\* The text itself, behind its length.
LEMMA TextRead ==
    ASSUME NEW m, IsReadable(m), m.values \in Values, NEW frame, NEW rest \in Seq(Byte),
           AtField(frame, m, rest), AtText(frame, m), frame.todo \in Seq(FieldDecl),
           frame.got \in Values, frame.flagged \in BOOLEAN
    PROVE  LET text == UpTo(From(rest, 4), frame.size)
               left == From(rest, 4 + Cut(From(rest, 4), frame.size))
           IN /\ text = m.values[Head(frame.todo).name].data
              /\ \A next :
                    /\ next.schema = frame.schema /\ next.todo = Tail(frame.todo)
                    /\ next.got = [frame.got EXCEPT ![Head(frame.todo).name] = Text(text)]
                    /\ ~next.flagged
                    => AtField(next, m, left)
<1> DEFINE f == Head(frame.todo)
           cell == m.values[f.name]
           text == cell.data
           all == EncodedFields(m)
           done == Len(Fields(m.path)) - Len(frame.todo)
<1>1. /\ frame.todo # <<>> /\ f.kind # "byte" /\ (f.option => frame.flagged)
      /\ frame.size = Len(text)
  BY DEF AtText
<1>2. /\ text \in Seq(Byte) /\ cell = Text(text)
      /\ \E behind \in Seq(Byte) :
            /\ rest = IntBytes(Len(text)) \o (text \o behind)
            /\ Joined(all, done + 1) \o behind = FlattenSeq(all)
  BY <1>1, TextAhead
<1>3. PICK behind \in Seq(Byte) :
         /\ rest = IntBytes(Len(text)) \o (text \o behind)
         /\ Joined(all, done + 1) \o behind = FlattenSeq(all)
  BY <1>2
<1> DEFINE bytes == IntBytes(Len(text))
<1>4. bytes \in Seq(Byte) /\ Len(bytes) = 4
  <2>1. Len(text) \in Nat
    <3> HIDE DEF text
    <3> QED
      BY <1>2
  <2> QED
    BY <2>1, BytesType
<1>5. ASSUME NEW next, next.schema = frame.schema, next.todo = Tail(frame.todo),
             next.got = [frame.got EXCEPT ![f.name] = cell], ~next.flagged
      PROVE  AtField(next, m, behind)
  BY <1>1, <1>3, <1>5, FieldIsRead
<1> HIDE DEF bytes, text, all, done
<1>6. rest = bytes \o (text \o behind) /\ text \o behind \in Seq(Byte)
  BY <1>2, <1>3 DEF bytes
<1>7. From(rest, 4) = text \o behind
  BY <1>4, <1>6, Seam
<1>8. UpTo(text \o behind, Len(text)) = text /\ Cut(text \o behind, Len(text)) = Len(text)
  BY <1>2, Seam
<1>9. From(rest, 4 + Len(text)) = behind
  <2>1. bytes \o text \in Seq(Byte) /\ Len(bytes \o text) = 4 + Len(text)
    BY <1>2, <1>4, Lengths
  <2>2. (bytes \o text) \o behind = bytes \o (text \o behind)
    <3>1. bytes \in Seq(Byte) /\ text \in Seq(Byte)
      BY <1>2, <1>4
    <3> QED
      BY <3>1, Grouping, SMTT(60)
  <2>3. rest = (bytes \o text) \o behind
    BY <1>6, <2>2
  <2> QED
    BY <2>1, <2>3, Seam
<1>10. /\ UpTo(From(rest, 4), frame.size) = text
       /\ From(rest, 4 + Cut(From(rest, 4), frame.size)) = behind
  BY <1>1, <1>7, <1>8, <1>9 DEF text
<1> QED
  BY <1>2, <1>5, <1>10 DEF text

\* There is nothing left to read: what was got is what m says.
LEMMA AllIsRead ==
    ASSUME NEW m, IsReadable(m), m.values \in Values, NEW frame, NEW rest \in Seq(Byte),
           AtField(frame, m, rest), frame.todo = <<>>, frame.got \in Values
    PROVE  frame.schema = m.path /\ frame.got = m.values
<1>1. \A f \in ToSet(frame.todo) : FALSE
  BY DEF ToSet
<1>2. \A k \in Keys : frame.got[k] = m.values[k]
  BY <1>1 DEF AtField
<1> QED
  BY <1>2 DEF AtField, Values

----------------------------------------------------------------------------
\* A step of c after which it still has what is left of its message before it.
Reading(c) ==
    \E frame : /\ Continue(c, frame) /\ frame.at \in Deserializing
               /\ frame.array = call[c].array
               /\ Follows(frame, meaning[call[c].array], Source(c)')

\* One after which it returns what the message says.
Returning(c) ==
    /\ ReturnMap(c)
    /\ call[c].schema = meaning[call[c].array].path
    /\ call[c].got = meaning[call[c].array].values

\* What the first reader of a message can rely on.
LEMMA ReaderFacts ==
    ASSUME DeliveryInv, NEW c \in Clients, call[c].at \in Deserializing, result[c].first
    PROVE  LET m == meaning[call[c].array]
           IN /\ TypeInv /\ call[c] \in Frames /\ call[c].array \in Arrays
              /\ call[c].todo \in Seq(FieldDecl) /\ call[c].got \in Values
              /\ call[c].flagged \in BOOLEAN /\ call[c].head \in Seq(Byte)
              /\ Source(c) \in Seq(Byte)
              /\ IsReadable(m) /\ m.values \in Values
              /\ Follows(call[c], m, Source(c))
<1>1. TypeInv
  BY DEF DeliveryInv, MessageInv, PrivateInv
<1>2. call[c] \in Frames /\ Source(c) \in Seq(Byte)
  BY <1>1, FrameFacts
<1>3. /\ call[c].todo \in Seq(FieldDecl) /\ call[c].got \in Values
      /\ call[c].flagged \in BOOLEAN /\ call[c].head \in Seq(Byte)
      /\ call[c].array \in Arrays
  BY <1>2 DEF Frames
<1>4. meaning[call[c].array].values \in Values
  BY <1>1, <1>3 DEF TypeInv, TypeOK, Meanings
<1>5. /\ IsReadable(meaning[call[c].array])
      /\ Follows(call[c], meaning[call[c].array], Source(c))
  BY <1>3 DEF DeliveryInv, ReadsOwn
<1> QED
  BY <1>1, <1>2, <1>3, <1>4, <1>5

\* Taking a byte off what is before a reader, in place or not.
LEMMA PopMoves ==
    ASSUME TypeInv, NEW c \in Clients, NEW next, Pop(c, next), Source(c) # <<>>,
           DOMAIN next = DOMAIN call[c], next.array = call[c].array,
           next.inPlace = call[c].inPlace, next.buffer = call[c].buffer
    PROVE  \E frame :
              /\ Continue(c, frame) /\ Source(c)' = Tail(Source(c))
              /\ frame.at = next.at /\ frame.array = next.array
              /\ frame.flagged = next.flagged /\ frame.got = next.got
              /\ frame.head = next.head /\ frame.schema = next.schema
              /\ frame.todo = next.todo /\ frame.size = next.size
<1>1. /\ call[c] \in Frames /\ call \in [Clients -> Frames]
      /\ heap \in [Arrays -> Seq(Byte)] /\ call[c].array \in Arrays
  BY FrameFacts DEF TypeInv, TypeOK, Frames
<1>2. CASE next.inPlace
  <2>1. Continue(c, next) /\ heap' = [heap EXCEPT ![next.array] = Tail(@)]
    BY <1>2 DEF Pop
  <2>2. call'[c] = next
    BY <1>1, <2>1 DEF Continue
  <2>3. Source(c)' = Tail(heap[next.array])
    BY <1>1, <1>2, <2>1, <2>2 DEF Source
  <2>4. Source(c) = heap[next.array]
    BY <1>2 DEF Source
  <2> QED
    BY <2>1, <2>3, <2>4
<1>3. CASE ~next.inPlace
  <2> DEFINE frame == [next EXCEPT !.buffer = Tail(@)]
  <2>1. Continue(c, frame)
    BY <1>3 DEF Pop
  <2>2. /\ frame.at = next.at /\ frame.array = next.array
        /\ frame.flagged = next.flagged /\ frame.got = next.got
        /\ frame.head = next.head /\ frame.schema = next.schema
        /\ frame.todo = next.todo /\ frame.size = next.size
        /\ frame.inPlace = next.inPlace /\ frame.buffer = Tail(next.buffer)
    BY <1>1 DEF Frames
  <2> HIDE DEF frame
  <2>3. call'[c] = frame
    BY <1>1, <2>1 DEF Continue
  <2>4. Source(c)' = Tail(Source(c))
    BY <1>3, <2>2, <2>3 DEF Source
  <2> QED
    BY <2>1, <2>2, <2>4
<1> QED
  BY <1>2, <1>3

\* The steps at the header.
LEMMA HeaderFollows ==
    ASSUME DeliveryInv, NEW c \in Clients, result[c].first,
           ReadHeaderByte(c) \/ LookUp(c)
    PROVE  Reading(c)
<1> DEFINE m == meaning[call[c].array]
           rest == Source(c)
           head == call[c].head
<1>1. call[c].at = "header" /\ call[c].at \in Deserializing
  BY DEF ReadHeaderByte, LookUp, At, Deserializing
<1>2. /\ TypeInv /\ call[c] \in Frames /\ call[c].array \in Arrays
      /\ head \in Seq(Byte) /\ rest \in Seq(Byte)
      /\ IsReadable(m) /\ m.values \in Values
      /\ Follows(call[c], m, rest)
  BY <1>1, ReaderFacts
<1>3. AtHeader(call[c], m, rest)
  BY <1>1, <1>2 DEF Follows
<1>4. "header" \in Deserializing /\ "read" \in Deserializing
  BY DEF Deserializing
<1>5. CASE ReadHeaderByte(c)
  <2> DEFINE next == [call[c] EXCEPT !.head = Append(@, Head(rest))]
  <2>1. ~(Len(head) >= 2 /\ Len(head) = 2 + CeilHalf(PyDepth(head[2])))
    BY <1>5 DEF ReadHeaderByte, HeaderRead
  <2>2. rest # <<>>
    BY <1>2, <1>3, <2>1, HeaderByteRead
  <2>3. Pop(c, next)
    BY <1>5, <2>2 DEF ReadHeaderByte, Exhausted
  <2>4. /\ DOMAIN next = DOMAIN call[c] /\ next.array = call[c].array
        /\ next.inPlace = call[c].inPlace /\ next.buffer = call[c].buffer
        /\ next.at = "header" /\ next.flagged = call[c].flagged
        /\ next.got = call[c].got /\ next.head = Append(head, Head(rest))
    BY <1>1, <1>2 DEF Frames
  <2> HIDE DEF next
  <2>5. PICK frame :
           /\ Continue(c, frame) /\ Source(c)' = Tail(rest)
           /\ frame.at = next.at /\ frame.array = next.array
           /\ frame.flagged = next.flagged /\ frame.got = next.got
           /\ frame.head = next.head
    BY <1>2, <2>2, <2>3, <2>4, PopMoves
  <2>6. AtHeader(frame, m, Tail(rest))
    BY <1>2, <1>3, <2>1, <2>4, <2>5, HeaderByteRead
  <2>7. Follows(frame, m, Tail(rest))
    BY <2>4, <2>5, <2>6 DEF Follows
  <2> QED
    BY <1>4, <2>4, <2>5, <2>7 DEF Reading
<1>6. CASE LookUp(c)
  <2> DEFINE path == Waypoints(SubSeq(head, 3, Len(head)), PyDepth(head[2]))
             next == [call[c] EXCEPT !.at = "read", !.schema = m.path,
                                     !.todo = Fields(m.path)]
  <2>1. Len(head) >= 2 /\ Len(head) = 2 + CeilHalf(PyDepth(head[2]))
    BY <1>6 DEF LookUp, HeaderRead
  <2>2. path = m.path /\ head[1] = Version
    BY <1>2, <1>3, <2>1, HeaderFound
  <2>3. PathExists(path) /\ HasRoot(path)
    BY <1>2, <2>2 DEF IsReadable, PathExists
  <2>4. Continue(c, next) /\ UNCHANGED heap
    BY <1>6, <2>2, <2>3 DEF LookUp, callers
  <2>5. /\ next.array = call[c].array /\ next.at = "read"
        /\ next.flagged = call[c].flagged /\ next.got = call[c].got
        /\ next.schema = m.path /\ next.todo = Fields(m.path)
        /\ next.inPlace = call[c].inPlace /\ next.buffer = call[c].buffer
    BY <1>2 DEF Frames
  <2> HIDE DEF next, path
  <2>6. call'[c] = next
    BY <1>2, <2>4 DEF Continue, TypeInv, TypeOK
  <2>7. Source(c)' = rest
    BY <2>4, <2>5, <2>6 DEF Source
  <2>8. AtField(next, m, rest)
    BY <1>2, <1>3, <2>1, <2>5, HeaderFound
  <2>9. Follows(next, m, rest)
    BY <2>5, <2>8 DEF Follows
  <2> QED
    BY <1>4, <2>4, <2>5, <2>7, <2>9 DEF Reading
<1> QED
  BY <1>5, <1>6

\* The steps at a field that take bytes off one by one.
LEMMA FieldFollows ==
    ASSUME DeliveryInv, NEW c \in Clients, result[c].first,
           ReadFlag(c) \/ ReadByte(c)
    PROVE  Reading(c)
<1> DEFINE m == meaning[call[c].array]
           rest == Source(c)
           todo == call[c].todo
<1>1. call[c].at = "read" /\ call[c].at \in Deserializing /\ todo # <<>>
  BY DEF ReadFlag, ReadByte, Coming, At, Deserializing
<1>2. /\ TypeInv /\ call[c] \in Frames /\ call[c].array \in Arrays
      /\ todo \in Seq(FieldDecl) /\ rest \in Seq(Byte) /\ call[c].got \in Values
      /\ call[c].flagged \in BOOLEAN
      /\ IsReadable(m) /\ m.values \in Values
      /\ Follows(call[c], m, rest)
  BY <1>1, ReaderFacts
<1>3. AtField(call[c], m, rest)
  BY <1>1, <1>2 DEF Follows
<1>4. "read" \in Deserializing /\ "read" # "header" /\ "read" # "text"
  BY DEF Deserializing
<1>5. ASSUME NEW next, Pop(c, next), rest # <<>>, DOMAIN next = DOMAIN call[c],
             next.array = call[c].array, next.inPlace = call[c].inPlace,
             next.buffer = call[c].buffer, next.at = "read",
             \A frame :
                /\ frame.flagged = next.flagged /\ frame.got = next.got
                /\ frame.schema = next.schema /\ frame.todo = next.todo
                => AtField(frame, m, Tail(rest))
      PROVE  Reading(c)
  <2>1. PICK frame :
           /\ Continue(c, frame) /\ Source(c)' = Tail(rest)
           /\ frame.at = next.at /\ frame.array = next.array
           /\ frame.flagged = next.flagged /\ frame.got = next.got
           /\ frame.schema = next.schema /\ frame.todo = next.todo
    BY <1>2, <1>5, PopMoves
  <2>2. AtField(frame, m, Tail(rest))
    BY <1>5, <2>1
  <2>3. Follows(frame, m, Tail(rest))
    BY <1>4, <1>5, <2>1, <2>2 DEF Follows
  <2> QED
    BY <1>4, <1>5, <2>1, <2>3 DEF Reading
<1>6. ASSUME NEW cell
      PROVE  LET next == Having(c, cell)
             IN /\ DOMAIN next = DOMAIN call[c] /\ next.array = call[c].array
                /\ next.inPlace = call[c].inPlace /\ next.buffer = call[c].buffer
                /\ next.at = "read" /\ next.schema = call[c].schema
                /\ next.todo = Tail(todo) /\ ~next.flagged
                /\ next.got = [call[c].got EXCEPT ![Head(todo).name] = cell]
  <2> DEFINE got == [call[c].got EXCEPT ![Head(todo).name] = cell]
  <2>1. Having(c, cell) = [call[c] EXCEPT !.got = got, !.todo = Tail(@), !.flagged = FALSE]
    BY DEF Having, Field
  <2> HIDE DEF got
  <2>2. LET next == Having(c, cell)
        IN /\ DOMAIN next = DOMAIN call[c] /\ next.array = call[c].array
           /\ next.inPlace = call[c].inPlace /\ next.buffer = call[c].buffer
           /\ next.at = "read" /\ next.schema = call[c].schema
           /\ next.todo = Tail(todo) /\ ~next.flagged
           /\ next.got = got
    BY <1>1, <1>2, <2>1 DEF Frames
  <2> QED
    BY <2>2 DEF got
<1>7. CASE ReadFlag(c)
  <2>1. Head(todo).option /\ ~call[c].flagged
    BY <1>7 DEF ReadFlag, FlagDue, Field
  <2>2. rest # <<>>
    BY <1>1, <1>2, <1>3, <2>1, FlagRead
  <2>3. Pop(c, IF Head(rest) = 0 THEN Having(c, None)
               ELSE [call[c] EXCEPT !.flagged = TRUE])
    BY <1>7, <2>2 DEF ReadFlag, Exhausted
  <2>4. CASE Head(rest) = 0
    <3>1. Pop(c, Having(c, None))
      BY <2>3, <2>4
    <3>2. \A frame :
             /\ ~frame.flagged /\ frame.schema = call[c].schema /\ frame.todo = Tail(todo)
             /\ frame.got = [call[c].got EXCEPT ![Head(todo).name] = None]
             => AtField(frame, m, Tail(rest))
      BY <1>1, <1>2, <1>3, <2>1, <2>4, FlagRead
    <3> DEFINE next == Having(c, None)
    <3>3. /\ DOMAIN next = DOMAIN call[c] /\ next.array = call[c].array
          /\ next.inPlace = call[c].inPlace /\ next.buffer = call[c].buffer
          /\ next.at = "read" /\ next.schema = call[c].schema
          /\ next.todo = Tail(todo) /\ ~next.flagged
          /\ next.got = [call[c].got EXCEPT ![Head(todo).name] = None]
      BY <1>6
    <3> HIDE DEF next
    <3> QED
      BY <1>5, <2>2, <3>1, <3>2, <3>3 DEF next
  <2>5. CASE Head(rest) # 0
    <3> DEFINE next == [call[c] EXCEPT !.flagged = TRUE]
    <3>1. Pop(c, next)
      BY <2>3, <2>5
    <3>2. \A frame :
             /\ frame.flagged /\ frame.schema = call[c].schema /\ frame.todo = todo
             /\ frame.got = call[c].got
             => AtField(frame, m, Tail(rest))
      BY <1>1, <1>2, <1>3, <2>1, <2>5, FlagRead
    <3>3. /\ DOMAIN next = DOMAIN call[c] /\ next.array = call[c].array
          /\ next.inPlace = call[c].inPlace /\ next.buffer = call[c].buffer
          /\ next.at = "read" /\ next.schema = call[c].schema
          /\ next.todo = todo /\ next.flagged /\ next.got = call[c].got
      BY <1>1, <1>2 DEF Frames
    <3> HIDE DEF next
    <3> QED
      BY <1>5, <2>2, <3>1, <3>2, <3>3
  <2> QED
    BY <2>4, <2>5
<1>8. CASE ReadByte(c)
  <2>1. (Head(todo).option => call[c].flagged) /\ Head(todo).kind = "byte"
    BY <1>8 DEF ReadByte, FlagDue, Field
  <2>2. rest # <<>>
    BY <1>1, <1>2, <1>3, <2>1, ByteRead
  <2> DEFINE cell == Number(Head(rest))
             next == Having(c, cell)
  <2>3. Pop(c, next)
    BY <1>8, <2>2 DEF ReadByte, Exhausted
  <2>4. \A frame :
           /\ ~frame.flagged /\ frame.schema = call[c].schema /\ frame.todo = Tail(todo)
           /\ frame.got = [call[c].got EXCEPT ![Head(todo).name] = cell]
           => AtField(frame, m, Tail(rest))
    BY <1>1, <1>2, <1>3, <2>1, ByteRead
  <2>5. /\ DOMAIN next = DOMAIN call[c] /\ next.array = call[c].array
        /\ next.inPlace = call[c].inPlace /\ next.buffer = call[c].buffer
        /\ next.at = "read" /\ next.schema = call[c].schema
        /\ next.todo = Tail(todo) /\ ~next.flagged
        /\ next.got = [call[c].got EXCEPT ![Head(todo).name] = cell]
    BY <1>6
  <2> HIDE DEF next, cell
  <2> QED
    BY <1>5, <2>2, <2>3, <2>4, <2>5
<1> QED
  BY <1>7, <1>8

\* The steps at a string: only a text that is no UTF-8 cannot be read.
IsPlain(cell) == \A i \in DOMAIN cell.data : cell.data[i] < 128

LEMMA TextFollows ==
    ASSUME DeliveryInv, ShortTexts, NEW c \in Clients, result[c].first,
           ReadLength(c) \/ ReadText(c)
    PROVE  \/ Reading(c)
           \/ /\ ReadText(c) /\ Leave(c) /\ UNCHANGED heap
              /\ ~IsPlain(meaning[call[c].array].values[Field(c).name])
<1> DEFINE m == meaning[call[c].array]
           rest == Source(c)
           todo == call[c].todo
<1>1. call[c].at \in {"read", "text"} /\ call[c].at \in Deserializing
  BY DEF ReadLength, ReadText, Coming, At, Deserializing
<1>2. /\ TypeInv /\ call[c] \in Frames /\ call[c].array \in Arrays
      /\ todo \in Seq(FieldDecl) /\ rest \in Seq(Byte) /\ call[c].got \in Values
      /\ call[c].flagged \in BOOLEAN
      /\ IsReadable(m) /\ m.values \in Values
      /\ Follows(call[c], m, rest)
  BY <1>1, ReaderFacts
<1>3. AtField(call[c], m, rest)
  BY <1>1, <1>2 DEF Follows
<1>4. "read" \in Deserializing /\ "text" \in Deserializing
  BY DEF Deserializing
<1>5. CASE ReadLength(c)
  <2> DEFINE bytes == UpTo(rest, 4)
             size == IntOf(bytes)
             next == [call[c] EXCEPT !.at = "text", !.size = size]
  <2>1. todo # <<>> /\ (Head(todo).option => call[c].flagged) /\ Head(todo).kind = "string"
    BY <1>5 DEF ReadLength, Coming, FlagDue, Field
  <2>2. Len(bytes) = 4
    BY <1>2, <1>3, <2>1, LengthRead
  <2>3. Continue(c, next) /\ UNCHANGED heap
    <3>1. ~(Len(bytes) < 4)
      <4> HIDE DEF bytes, next, rest, todo, m
      <4> QED
        BY <2>2, SMTT(60)
    <3> QED
      BY <1>5, <3>1 DEF ReadLength, callers
  <2> HIDE DEF size
  <2>4. /\ next.array = call[c].array /\ next.at = "text" /\ next.size = size
        /\ next.flagged = call[c].flagged /\ next.got = call[c].got
        /\ next.schema = call[c].schema /\ next.todo = todo
        /\ next.inPlace = call[c].inPlace /\ next.buffer = call[c].buffer
    BY <1>2 DEF Frames
  <2> HIDE DEF next
  <2>5. call'[c] = next
    BY <1>2, <2>3 DEF Continue, TypeInv, TypeOK
  <2>6. Source(c)' = rest
    BY <2>3, <2>4, <2>5 DEF Source
  <2>7. AtField(next, m, rest) /\ AtText(next, m)
    BY <1>2, <1>3, <2>1, <2>4, LengthRead DEF size
  <2>8. Follows(next, m, rest)
    BY <2>4, <2>7 DEF Follows
  <2> QED
    BY <1>4, <2>3, <2>4, <2>6, <2>8 DEF Reading
<1>6. CASE ReadText(c)
  <2>1. AtText(call[c], m) /\ call[c].at = "text"
    BY <1>2, <1>6, SMTT(60) DEF ReadText, At, Follows
  <2> DEFINE text == UpTo(From(rest, 4), call[c].size)
             left == From(rest, 4 + Cut(From(rest, 4), call[c].size))
             cell == m.values[Field(c).name]
             got == [call[c].got EXCEPT ![Field(c).name] = Text(text)]
             frame == [Having(c, Text(text)) EXCEPT !.at = "read", !.size = 0]
             next == [frame EXCEPT !.buffer = left, !.inPlace = FALSE]
  <2>2. text = cell.data
    BY <1>2, <1>3, <2>1, TextRead DEF Field
  <2>3. CASE Continue(c, next) /\ UNCHANGED heap
    <3>1. frame = [[call[c] EXCEPT !.got = got, !.todo = Tail(@), !.flagged = FALSE]
                   EXCEPT !.at = "read", !.size = 0]
      BY DEF Having
    <3> HIDE DEF got, left
    <3>2. /\ next.array = call[c].array /\ next.at = "read" /\ ~next.flagged
          /\ next.got = got /\ next.schema = call[c].schema /\ next.todo = Tail(todo)
          /\ ~next.inPlace /\ next.buffer = left
      BY <1>2, <3>1 DEF Frames
    <3> HIDE DEF next
    <3>3. call'[c] = next
      BY <1>2, <2>3 DEF Continue, TypeInv, TypeOK
    <3>4. Source(c)' = left
      BY <3>2, <3>3 DEF Source
    <3>5. AtField(next, m, left)
      BY <1>2, <1>3, <2>1, <3>2, TextRead DEF got, left, Field
    <3>6. Follows(next, m, left)
      BY <3>2, <3>5 DEF Follows
    <3> QED
      BY <1>4, <2>3, <3>2, <3>4, <3>6 DEF Reading
  <2>4. CASE ~(Continue(c, next) /\ UNCHANGED heap)
    <3>1. /\ Leave(c) /\ UNCHANGED heap
          /\ ~(\A i \in DOMAIN text : text[i] < 128)
      BY <1>6, <2>4 DEF ReadText, Slice
    <3> QED
      BY <1>6, <2>2, <3>1 DEF IsPlain
  <2> QED
    BY <2>3, <2>4
<1> QED
  BY <1>5, <1>6

\* The last step.
LEMMA MapReturns ==
    ASSUME DeliveryInv, NEW c \in Clients, result[c].first, ReturnMap(c)
    PROVE  Returning(c)
<1>1. /\ call[c].at = "read" /\ call[c].at \in Deserializing /\ call[c].todo = <<>>
  BY DEF ReturnMap, Through, At, Deserializing
<1> DEFINE m == meaning[call[c].array]
<1>2. /\ IsReadable(m) /\ m.values \in Values /\ call[c].got \in Values
      /\ Source(c) \in Seq(Byte) /\ Follows(call[c], m, Source(c))
  BY <1>1, ReaderFacts
<1>3. AtField(call[c], m, Source(c))
  BY <1>1, <1>2 DEF Follows
<1> QED
  BY <1>1, <1>2, <1>3, AllIsRead DEF Returning

\* What the first reader of a message does, step by step.
LEMMA FirstReaderMoves ==
    ASSUME DeliveryInv, ShortTexts, NEW c \in Clients, result[c].first, Deserialize(c)
    PROVE  \/ Reading(c) /\ ~ReturnMap(c)
           \/ Returning(c)
           \/ /\ ReadText(c) /\ Leave(c) /\ UNCHANGED heap
              /\ ~IsPlain(meaning[call[c].array].values[Field(c).name])
<1>1. ASSUME ReturnMap(c) PROVE ~Reading(c)
  <2>1. call \in [Clients -> Frames]
    BY DEF DeliveryInv, MessageInv, PrivateInv, TypeInv, TypeOK
  <2>2. call'[c] = NoCall(c) /\ NoCall(c).at = "idle"
    BY <1>1, <2>1 DEF ReturnMap, Leave, Continue, NoCall
  <2> QED
    BY <2>1, <2>2 DEF Reading, Continue, Deserializing
<1> QED
  BY <1>1, HeaderFollows, FieldFollows, TextFollows, MapReturns DEF Deserialize

----------------------------------------------------------------------------
\* A reader goes on as it was when no other call comes to its array.
LEMMA StaysReading ==
    ASSUME DeliveryInv, NEW o \in Clients, call'[o] = call[o], result'[o] = result[o],
           \A a \in Arrays : given[a] # <<>> =>
              meaning'[a] = meaning[a] /\ given'[a] = given[a],
           \A a \in Arrays : reads[a] > 0 => reads'[a] > 0,
           call[o].at \in Deserializing =>
              /\ heap'[call[o].array] = heap[call[o].array]
              /\ \A p \in Clients \ {o} :
                    call'[p].at \in Deserializing => call'[p].array # call[o].array
    PROVE  ReadsOwn(o)'
<1> SUFFICES ASSUME call[o].at \in Deserializing PROVE ReadsOwn(o)'
  BY DEF ReadsOwn
<1> DEFINE a == call[o].array
<1>1. a \in Arrays
  BY FrameFacts DEF DeliveryInv, MessageInv, PrivateInv, Frames
<1>2. /\ given[a] # <<>> /\ reads[a] > 0
      /\ result[o].array = a /\ result[o].wrapper = "none"
      /\ result[o].first => Follows(call[o], meaning[a], Source(o))
  BY DEF DeliveryInv, ReadsOwn
<1>3. given'[a] # <<>> /\ reads'[a] > 0 /\ meaning'[a] = meaning[a]
  BY <1>1, <1>2
<1>4. Source(o)' = Source(o)
  BY DEF Source
<1>5. /\ result'[o].array = a /\ result'[o].wrapper = "none" /\ call'[o].array = a
      /\ \A p \in Clients \ {o} : call'[p].at \in Deserializing => call'[p].array # a
  BY <1>2
<1>6. result'[o].first => Follows(call'[o], meaning'[a], Source(o)')
  <2>1. ASSUME result[o].first PROVE Follows(call[o], meaning[a], Source(o))
    BY <1>2, <2>1
  <2> HIDE DEF a
  <2> QED
    BY <1>3, <1>4, <2>1
<1> HIDE DEF a
<1> QED
  BY <1>3, <1>5, <1>6 DEF ReadsOwn

\* A step of one call, and what it has to see to.
LEMMA DeliversOn ==
    ASSUME DeliveryInv, MessageInv', NEW c \in Clients,
           \A o \in Clients \ {c} : call'[o] = call[o] /\ result'[o] = result[o],
           \A a \in Arrays : given[a] # <<>> =>
              meaning'[a] = meaning[a] /\ given'[a] = given[a],
           \A a \in Arrays : reads[a] > 0 => reads'[a] > 0,
           \A a \in Arrays : given'[a] # <<>> => IsReadable(meaning'[a]),
           \A a \in Arrays : reads'[a] = 0 => heap'[a] = given'[a],
           \A o \in Clients \ {c} : call[o].at \in Deserializing =>
              /\ heap'[call[o].array] = heap[call[o].array]
              /\ call'[c].at \in Deserializing => call'[c].array # call[o].array,
           ReadsOwn(c)',
           result'[c].wrapper # "none" =>
              /\ given'[result'[c].array] # <<>>
              /\ result'[c].first =>
                    /\ result'[c].path = meaning'[result'[c].array].path
                    /\ result'[c].values = meaning'[result'[c].array].values
    PROVE  DeliveryInv'
<1>1. ASSUME NEW o \in Clients PROVE ReadsOwn(o)'
  <2>1. CASE o = c
    BY <2>1
  <2>2. CASE o # c
    <3>1. ASSUME call[o].at \in Deserializing, NEW p \in Clients \ {o},
                 call'[p].at \in Deserializing
          PROVE  call'[p].array # call[o].array
      <4>1. CASE p = c
        BY <2>2, <3>1, <4>1
      <4>2. CASE p # c
        BY <3>1, <4>2 DEF DeliveryInv, ReadsOwn
      <4> QED
        BY <4>1, <4>2
    <3> QED
      BY <2>2, <3>1, StaysReading
  <2> QED
    BY <2>1, <2>2
<1>2. ASSUME NEW o \in Clients \ {c}, result'[o].wrapper # "none"
      PROVE  /\ given'[result'[o].array] # <<>>
             /\ result'[o].first =>
                    /\ result'[o].path = meaning'[result'[o].array].path
                    /\ result'[o].values = meaning'[result'[o].array].values
  <2>1. result[o].array \in Arrays
    BY DEF DeliveryInv, MessageInv, PrivateInv, TypeInv, TypeOK
  <2>2. result[o].wrapper # "none" /\ given[result[o].array] # <<>>
    BY <1>2 DEF DeliveryInv
  <2> QED
    BY <2>1, <2>2 DEF DeliveryInv, FirstReadReturnsTheMeaning
<1>3. \A o \in Clients : result'[o].wrapper # "none" => given'[result'[o].array] # <<>>
  BY <1>2
<1>4. FirstReadReturnsTheMeaning'
  BY <1>2 DEF FirstReadReturnsTheMeaning
<1> QED
  BY <1>1, <1>3, <1>4 DEF DeliveryInv

\* A message that is returned can be read.
LEMMA ReturnsReadable ==
    ASSUME MessageInv, NamedOnce, NEW c \in Clients, ReturnMessage(c)
    PROVE  IsReadable(call[c].meant)
<1> DEFINE p == call[c].schema
           d == dicts[call[c].dict]
           fields == Fields(p)
           m == Meaning(d)
<1>1. call[c].at = "put" /\ call[c].todo = <<>> /\ call[c].at \in Serializing
  BY DEF ReturnMessage, Through, At, Serializing
<1>2. PrivateInv /\ m = call[c].meant
  BY <1>1, AgreesNow DEF MessageInv, Meant
<1>3. OnPath(call[c], d) /\ Passed(call[c], d)
  BY <1>1, <1>2, AgreesNow
<1>4. HasRoot(p) /\ Packable(p) /\ NamespaceOf(d.ns).ok /\ p = NamespaceOf(d.ns).path
  BY <1>1, <1>3 DEF OnPath
<1>5. /\ p \in Paths /\ fields \in Seq(FieldDecl) /\ d.cells \in [Keys -> Cells]
      /\ ToSet(call[c].todo) = {}
  <2>1. /\ p \in Paths /\ fields \in Seq(FieldDecl) /\ d.cells \in [Keys -> Cells]
        /\ call[c].todo \in Seq(FieldDecl)
    BY <1>2, <1>4, PrivateFacts
  <2> QED
    BY <1>1, <2>1, Elements
<1>6. ASSUME NEW f \in ToSet(fields)
      PROVE  /\ f \in FieldDecl /\ f.name \in Keys /\ Encodable(f, Sent(f, d.cells))
             /\ Sent(f, d.cells) \in Cells \cup {f.default}
             /\ m.values[f.name] = Sent(f, d.cells)
  <2>1. f \in FieldDecl /\ f.name \in Keys
    BY <1>5, Elements DEF FieldDecl
  <2>2. Encodable(f, Sent(f, d.cells))
    BY <1>1, <1>3, <1>5 DEF Passed, Takes
  <2>3. Sent(f, d.cells) \in Cells \cup {f.default}
    <3>1. None \in Cells
      BY EngineAssumption DEF Missing
    <3>2. d.cells[f.name] \in Cells
      BY <1>5, <2>1
    <3> QED
      BY <3>1, <3>2 DEF Sent, ValueFor
  <2>4. m.values[f.name] = Sent(f, d.cells)
    <3> DEFINE sends == {g \in ToSet(fields) : g.name = f.name}
    <3>1. sends = {f}
      BY <1>4, <1>5 DEF NamedOnce
    <3>2. m.values[f.name] = Sent(CHOOSE g \in sends : TRUE, d.cells)
      BY <1>4, <2>1, <3>1 DEF Meaning
    <3>3. (CHOOSE g \in sends : TRUE) = f
      BY <3>1, SMTT(60)
    <3> HIDE DEF sends, m
    <3> QED
      BY <3>2, <3>3
  <2> QED
    BY <2>1, <2>2, <2>3, <2>4
<1>7. ASSUME NEW k \in Keys, \A f \in ToSet(fields) : f.name # k
      PROVE  m.values[k] = Absent
  <2>1. {f \in ToSet(fields) : f.name = k} = {}
    BY <1>7
  <2> QED
    BY <1>4, <2>1 DEF Meaning
<1>8. m.path = p
  BY <1>4 DEF Meaning
<1> HIDE DEF m, p, fields, d
<1>9. IsReadable(m)
  BY <1>4, <1>5, <1>6, <1>7, <1>8 DEF IsReadable, fields
<1> QED
  BY <1>2, <1>9

\* A reader stays at its array, and takes bytes from no other one.
LEMMA ReaderKeeps ==
    ASSUME PrivateInv, NEW c \in Clients, Deserialize(c)
    PROVE  /\ call[c].at \in Deserializing
           /\ \E frame : /\ Continue(c, frame)
                         /\ frame.at \in Deserializing => frame.array = call[c].array
           /\ \A a \in Arrays : a # call[c].array => heap'[a] = heap[a]
           /\ UNCHANGED history
           /\ ~ReturnMap(c) => UNCHANGED result
<1> DEFINE stays == \E frame : /\ Continue(c, frame)
                               /\ frame.at \in Deserializing => frame.array = call[c].array
           alone == \A a \in Arrays : a # call[c].array => heap'[a] = heap[a]
<1>1. /\ call[c] \in Frames /\ heap \in [Arrays -> Seq(Byte)]
      /\ call[c].at \in Deserializing
  BY PrivateFacts
     DEF Deserialize, ReadHeaderByte, LookUp, ReadFlag, ReadByte, ReadLength, ReadText,
         ReturnMap, Coming, Through, At, Deserializing, PrivateInv, TypeInv, TypeOK
<1>2. UNCHANGED history /\ (~ReturnMap(c) => UNCHANGED result)
  BY DEF Deserialize, ReadHeaderByte, LookUp, ReadFlag, ReadByte, ReadLength, ReadText,
         ReturnMap
<1>3. ASSUME Leave(c) PROVE stays
  <2>1. NoCall(c).at \notin Deserializing
    BY DEF NoCall, Deserializing
  <2> QED
    BY <1>3, <2>1 DEF Leave
<1>4. ASSUME UNCHANGED heap PROVE alone
  BY <1>4
<1>5. ASSUME NEW frame, Pop(c, frame), DOMAIN frame = DOMAIN call[c],
             frame.array = call[c].array
      PROVE  stays /\ alone
  <2>1. [frame EXCEPT !.buffer = Tail(@)].array = call[c].array
    BY <1>1, <1>5 DEF Frames
  <2>2. stays
    BY <1>5, <2>1 DEF Pop
  <2>3. alone
    BY <1>1, <1>5 DEF Pop
  <2> QED
    BY <2>2, <2>3
<1>6. ASSUME NEW frame, Continue(c, frame), frame.array = call[c].array PROVE stays
  BY <1>6
<1> SUFFICES stays /\ alone
  BY <1>1, <1>2
<1> HIDE DEF stays, alone
<1>7. ASSUME NEW cell
      PROVE  DOMAIN Having(c, cell) = DOMAIN call[c] /\ Having(c, cell).array = call[c].array
  BY <1>1 DEF Having, Frames
<1>8. ASSUME Exhausted(c) PROVE stays /\ alone
  BY <1>3, <1>4, <1>8 DEF Exhausted
<1>9. CASE ReadHeaderByte(c)
  <2> DEFINE next == [call[c] EXCEPT !.head = Append(@, Head(Source(c)))]
  <2>1. DOMAIN next = DOMAIN call[c] /\ next.array = call[c].array
    BY <1>1 DEF Frames
  <2>2. Pop(c, next) \/ Exhausted(c)
    BY <1>9 DEF ReadHeaderByte
  <2> HIDE DEF next
  <2> QED
    BY <1>5, <1>8, <2>1, <2>2
<1>10. CASE LookUp(c)
  <2>1. ASSUME NEW path
        PROVE  [call[c] EXCEPT !.at = "read", !.schema = path,
                               !.todo = Fields(path)].array = call[c].array
    BY <1>1 DEF Frames
  <2> QED
    BY <1>3, <1>4, <1>6, <1>10, <2>1 DEF LookUp, callers
<1>11. CASE ReadFlag(c)
  <2> DEFINE next == [call[c] EXCEPT !.flagged = TRUE]
  <2>1. DOMAIN next = DOMAIN call[c] /\ next.array = call[c].array
    BY <1>1 DEF Frames
  <2>2. Pop(c, next) \/ Pop(c, Having(c, None)) \/ Exhausted(c)
    BY <1>11 DEF ReadFlag
  <2> HIDE DEF next
  <2> QED
    BY <1>5, <1>7, <1>8, <2>1, <2>2
<1>12. CASE ReadByte(c)
  BY <1>5, <1>7, <1>8, <1>12 DEF ReadByte
<1>13. CASE ReadLength(c)
  <2> DEFINE next == [call[c] EXCEPT !.at = "text", !.size = IntOf(UpTo(Source(c), 4))]
  <2>1. next.array = call[c].array
    BY <1>1 DEF Frames
  <2>2. (Continue(c, next) \/ Leave(c)) /\ UNCHANGED heap
    BY <1>13 DEF ReadLength, callers
  <2> HIDE DEF next
  <2> QED
    BY <1>3, <1>4, <1>6, <2>1, <2>2
<1>14. CASE ReadText(c)
  <2> DEFINE text == UpTo(From(Source(c), 4), call[c].size)
             left == From(Source(c), 4 + Cut(From(Source(c), 4), call[c].size))
             cell == Text(text)
             next == [[Having(c, cell) EXCEPT !.at = "read", !.size = 0]
                      EXCEPT !.buffer = left, !.inPlace = FALSE]
  <2>1. (Continue(c, next) \/ Leave(c)) /\ UNCHANGED heap
    BY <1>14 DEF ReadText, Slice
  <2> HIDE DEF cell, left
  <2>2. next.array = call[c].array
    BY <1>1, <1>7 DEF Frames
  <2> HIDE DEF next
  <2> QED
    BY <1>3, <1>4, <1>6, <2>1, <2>2
<1>15. CASE ReturnMap(c)
  BY <1>3, <1>4, <1>15 DEF ReturnMap, callers
<1> QED
  BY <1>9, <1>10, <1>11, <1>12, <1>13, <1>14, <1>15 DEF Deserialize

\* The steps of deserialize.
LEMMA DeserializeDelivers ==
    ASSUME DeliveryInv, MessageInv', ShortTexts, NEW c \in Clients, Deserialize(c)
    PROVE  DeliveryInv'
<1> DEFINE a == call[c].array
<1>1. /\ PrivateInv /\ a \in Arrays
      /\ call \in [Clients -> Frames]
      /\ result \in [Clients -> [path : Paths, values : Values, wrapper : Wrappers,
                                 array : Arrays, first : BOOLEAN]]
  BY PrivateFacts DEF DeliveryInv, MessageInv, PrivateInv, TypeInv, TypeOK, Frames
<1>2. /\ call[c].at \in Deserializing
      /\ \A e \in Arrays : e # a => heap'[e] = heap[e]
      /\ UNCHANGED <<given, meaning, reads>>
      /\ ~ReturnMap(c) => UNCHANGED result
  BY <1>1, ReaderKeeps DEF history
<1>3. PICK frame : /\ Continue(c, frame)
                   /\ frame.at \in Deserializing => frame.array = a
  BY <1>1, ReaderKeeps
<1>4. call'[c] = frame /\ \A o \in Clients \ {c} : call'[o] = call[o]
  BY <1>1, <1>3 DEF Continue
<1>5. /\ given[a] # <<>> /\ reads[a] > 0
      /\ result[c].array = a /\ result[c].wrapper = "none"
      /\ \A o \in Clients \ {c} :
            call[o].at \in Deserializing => call[o].array # a
      /\ result[c].first => Follows(call[c], meaning[a], Source(c))
  BY <1>2 DEF DeliveryInv, ReadsOwn
<1>6. \A e \in Arrays : reads[e] = 0 => heap'[e] = given[e]
  <2>1. ~(reads[a] = 0)
    BY <1>5
  <2> HIDE DEF a
  <2> QED
    BY <1>2, <2>1 DEF DeliveryInv
<1>7. \A o \in Clients \ {c} : call[o].at \in Deserializing =>
         /\ heap'[call[o].array] = heap[call[o].array]
         /\ call'[c].at \in Deserializing => call'[c].array # call[o].array
  <2>1. \A o \in Clients : call[o].array \in Arrays
    BY <1>1 DEF Frames
  <2> QED
    BY <1>2, <1>3, <1>4, <1>5, <2>1
<1>8. CASE ReturnMap(c)
  <2> DEFINE answer == [result[c] EXCEPT !.path = call[c].schema, !.values = call[c].got,
                                         !.wrapper = WrapperOf(RootClass(call[c].schema))]
  <2>1. /\ Leave(c) /\ result' = [result EXCEPT ![c] = answer]
    BY <1>8 DEF ReturnMap
  <2>2. call'[c].at \notin Deserializing
    <3>1. call'[c] = NoCall(c) /\ NoCall(c).at = "idle"
      BY <1>1, <2>1 DEF Leave, Continue, NoCall
    <3> QED
      BY <3>1 DEF Deserializing
  <2>3. /\ answer.array = a /\ answer.first = result[c].first
        /\ answer.path = call[c].schema /\ answer.values = call[c].got
    BY <1>1, <1>5
  <2> HIDE DEF answer
  <2>4. result'[c] = answer /\ \A o \in Clients \ {c} : result'[o] = result[o]
    BY <1>1, <2>1
  <2>5. result[c].first => answer.path = meaning[a].path /\ answer.values = meaning[a].values
    BY <1>8, <2>3, MapReturns DEF Returning
  <2>6. ReadsOwn(c)'
    BY <2>2 DEF ReadsOwn
  <2>7. \A e \in Arrays : given[e] # <<>> => IsReadable(meaning[e])
    BY DEF DeliveryInv
  <2> HIDE DEF a
  <2> QED
    BY <1>2, <1>4, <1>5, <1>6, <1>7, <2>3, <2>4, <2>5, <2>6, <2>7, DeliversOn
<1>9. CASE ~ReturnMap(c)
  <2>1. UNCHANGED result
    BY <1>2, <1>9
  <2>2. ReadsOwn(c)'
    <3> SUFFICES ASSUME call'[c].at \in Deserializing PROVE ReadsOwn(c)'
      BY DEF ReadsOwn
    <3>1. call'[c].array = a
      BY <1>3, <1>4
    <3>2. ASSUME result[c].first
          PROVE  Follows(call'[c], meaning[a], Source(c)')
      <4>1. ~Leave(c)
        <5>1. NoCall(c).at \notin Deserializing
          BY DEF NoCall, Deserializing
        <5> QED
          BY <1>1, <5>1 DEF Leave, Continue
      <4>2. Reading(c)
        BY <1>9, <3>2, <4>1, FirstReaderMoves DEF Returning
      <4> QED
        BY <1>1, <4>2 DEF Reading, Continue
    <3>3. \A o \in Clients \ {c} :
             call'[o].at \in Deserializing => call'[o].array # a
      BY <1>4, <1>5
    <3> HIDE DEF a
    <3>4. /\ given'[a] # <<>> /\ reads'[a] > 0
          /\ result'[c].array = a /\ result'[c].wrapper = "none"
      BY <1>2, <1>5, <2>1
    <3>5. result'[c].first => Follows(call'[c], meaning'[a], Source(c)')
      BY <1>2, <2>1, <3>2
    <3> QED
      BY <3>1, <3>3, <3>4, <3>5 DEF ReadsOwn
  <2>3. /\ \A e \in Arrays : given[e] # <<>> => IsReadable(meaning[e])
        /\ result[c].wrapper = "none"
    BY <1>5 DEF DeliveryInv
  <2> HIDE DEF a
  <2> QED
    BY <1>2, <1>4, <1>6, <1>7, <2>1, <2>2, <2>3, DeliversOn
<1> QED
  BY <1>8, <1>9

\* The steps of serialize: a message is put where nobody reads.
LEMMA SerializeDelivers ==
    ASSUME NamedOnce, DeliveryInv, MessageInv', NEW c \in Clients, Serialize(c)
    PROVE  DeliveryInv'
<1>1. /\ PrivateInv /\ call[c].array \in Arrays
      /\ call \in [Clients -> Frames]
      /\ heap \in [Arrays -> Seq(Byte)] /\ given \in [Arrays -> Seq(Byte)]
      /\ meaning \in [Arrays -> Meanings]
      /\ \A o \in Clients : call[o].array \in Arrays /\ result[o].array \in Arrays
  BY PrivateFacts DEF DeliveryInv, MessageInv, PrivateInv, TypeInv, TypeOK, Frames
<1>2. /\ call[c].at \in Serializing /\ given[call[c].array] = <<>>
      /\ \/ \E frame : Continue(c, frame) /\ frame.at \in Serializing
         \/ Leave(c)
  <2>1. call[c].at \in Serializing
    BY <1>1, SerializeMoves
  <2>2. Leave(c) \/ \E frame : Continue(c, frame) /\ frame.at \in Serializing
    BY <1>1, SerializeMoves DEF ReturnMessage
  <2> QED
    BY <1>1, <2>1, <2>2 DEF PrivateInv, Rooms
<1>3. /\ call'[c].at \notin Deserializing
      /\ \A o \in Clients \ {c} : call'[o] = call[o]
  <2>1. NoCall(c).at \notin Deserializing
    BY DEF NoCall, Deserializing
  <2>2. \A frame : frame.at \in Serializing => frame.at \notin Deserializing
    BY DEF Serializing, Deserializing
  <2> QED
    BY <1>1, <1>2, <2>1, <2>2 DEF Leave, Continue
<1>4. UNCHANGED <<result, reads>>
  BY <1>1, SerializeMoves DEF ReturnMessage, history
<1>5. ReadsOwn(c)'
  BY <1>3 DEF ReadsOwn
<1>6. /\ \A e \in Arrays : given[e] # <<>> => IsReadable(meaning[e])
      /\ \A e \in Arrays : reads[e] = 0 => heap[e] = given[e]
      /\ \A o \in Clients : call[o].at \in Deserializing => given[call[o].array] # <<>>
      /\ \A o \in Clients : result[o].wrapper # "none" =>
            /\ given[result[o].array] # <<>>
            /\ result[o].first =>
                  /\ result[o].path = meaning[result[o].array].path
                  /\ result[o].values = meaning[result[o].array].values
  BY DEF DeliveryInv, ReadsOwn, FirstReadReturnsTheMeaning
<1>7. CASE ReturnMessage(c)
  <2> DEFINE a == call[c].array
  <2>1. /\ heap' = [heap EXCEPT ![a] = call[c].buffer]
        /\ given' = [given EXCEPT ![a] = call[c].buffer]
        /\ meaning' = [meaning EXCEPT ![a] = call[c].meant]
    BY <1>7 DEF ReturnMessage
  <2>2. IsReadable(call[c].meant)
    BY <1>7, ReturnsReadable DEF DeliveryInv
  <2>3. /\ heap'[a] = call[c].buffer /\ given'[a] = call[c].buffer
        /\ meaning'[a] = call[c].meant
        /\ \A e \in Arrays : e # a => /\ heap'[e] = heap[e] /\ given'[e] = given[e]
                                      /\ meaning'[e] = meaning[e]
    BY <1>1, <2>1
  <2>4. a \in Arrays /\ given[a] = <<>>
    BY <1>1, <1>2
  <2> HIDE DEF a
  <2>5. \A e \in Arrays : given[e] # <<>> => /\ meaning'[e] = meaning[e]
                                             /\ given'[e] = given[e] /\ heap'[e] = heap[e]
    BY <2>3, <2>4
  <2>6. \A e \in Arrays : given'[e] # <<>> => IsReadable(meaning'[e])
    BY <1>6, <2>2, <2>3
  <2>7. \A e \in Arrays : reads'[e] = 0 => heap'[e] = given'[e]
    BY <1>4, <1>6, <2>3
  <2>8. \A o \in Clients \ {c} : call[o].at \in Deserializing =>
           /\ heap'[call[o].array] = heap[call[o].array]
           /\ call'[c].at \in Deserializing => call'[c].array # call[o].array
    BY <1>1, <1>3, <1>6, <2>5
  <2>9. result'[c].wrapper # "none" =>
           /\ given'[result'[c].array] # <<>>
           /\ result'[c].first =>
                 /\ result'[c].path = meaning'[result'[c].array].path
                 /\ result'[c].values = meaning'[result'[c].array].values
    BY <1>1, <1>4, <1>6, <2>5
  <2> QED
    BY <1>3, <1>4, <1>5, <2>5, <2>6, <2>7, <2>8, <2>9, DeliversOn
<1>8. CASE ~ReturnMessage(c)
  <2>1. UNCHANGED <<heap, given, meaning>>
    BY <1>8
       DEF Serialize, SizeRoot, SizeHeader, Fill, WriteNone, Filled, Measure,
           NewBuffer, PutHeader, Put, FindSchema, Check, Checked, OmitField,
           PutField, callers, history
  <2> QED
    BY <1>3, <1>4, <1>5, <1>6, <2>1, DeliversOn
<1> QED
  BY <1>7, <1>8

\* A call begins: a reader opens an array that is still what it was given as.
LEMMA CallDelivers ==
    ASSUME ~MayShare, NamedOnce, DeliveryInv, MessageInv', NEW c \in Clients, Call(c)
    PROVE  DeliveryInv'
<1>1. /\ PrivateInv /\ call \in [Clients -> Frames]
      /\ result \in [Clients -> [path : Paths, values : Values, wrapper : Wrappers,
                                 array : Arrays, first : BOOLEAN]]
      /\ heap \in [Arrays -> Seq(Byte)] /\ reads \in [Arrays -> 0..MaxReads]
      /\ \A o \in Clients : call[o].array \in Arrays
  BY PrivateFacts DEF DeliveryInv, MessageInv, PrivateInv, TypeInv, TypeOK, Frames
<1>2. /\ \A e \in Arrays : given[e] # <<>> => IsReadable(meaning[e])
      /\ \A e \in Arrays : reads[e] = 0 => heap[e] = given[e]
  BY DEF DeliveryInv
<1>3. ASSUME NEW d, NEW contents, Enter(c, d, contents) PROVE DeliveryInv'
  <2> DEFINE meant == Meaning(contents)
             array == CHOOSE a \in Arrays : Unused(a)
             frame == [NoCall(c) EXCEPT !.at = "sizeRoot", !.dict = d, !.array = array,
                                        !.meant = meant]
  <2>1. /\ Continue(c, frame) /\ result' = [result EXCEPT ![c] = NoResult]
        /\ UNCHANGED <<heap, given, meaning, reads>>
    BY <1>3 DEF Enter, history
  <2> HIDE DEF meant, array
  <2>2. frame.at = "sizeRoot"
    BY DEF NoCall
  <2> HIDE DEF frame
  <2>3. /\ call'[c].at \notin Deserializing
        /\ \A o \in Clients \ {c} : call'[o] = call[o] /\ result'[o] = result[o]
        /\ result'[c].wrapper = "none"
    BY <1>1, <2>1, <2>2 DEF Continue, Deserializing, NoResult
  <2>4. ReadsOwn(c)'
    BY <2>3 DEF ReadsOwn
  <2> QED
    BY <1>2, <2>1, <2>3, <2>4, DeliversOn
<1>4. ASSUME NEW a \in Arrays, StartDeserialize(c, a) PROVE DeliveryInv'
  <2> DEFINE frame == [NoCall(c) EXCEPT !.at = "header", !.array = a, !.inPlace = TRUE]
             answer == [NoResult EXCEPT !.array = a, !.first = (reads[a] = 0)]
  <2>1. /\ Continue(c, frame) /\ result' = [result EXCEPT ![c] = answer]
        /\ given[a] # <<>> /\ reads' = [reads EXCEPT ![a] = @ + 1]
        /\ UNCHANGED <<heap, given, meaning>>
        /\ \A o \in Clients : call[o].at \in Deserializing => call[o].array # a
    BY <1>4 DEF StartDeserialize, callers, ArrayFree, Reads
  <2>2. /\ frame.at = "header" /\ frame.array = a /\ frame.inPlace /\ ~frame.flagged
        /\ frame.got = Nothing /\ frame.head = <<>>
    BY DEF NoCall
  <2>3. answer.array = a /\ answer.first = (reads[a] = 0) /\ answer.wrapper = "none"
    BY DEF NoResult
  <2> HIDE DEF frame, answer
  <2>4. /\ call'[c] = frame /\ result'[c] = answer
        /\ \A o \in Clients \ {c} : call'[o] = call[o] /\ result'[o] = result[o]
    BY <1>1, <2>1 DEF Continue
  <2>5. /\ reads'[a] > 0 /\ \A e \in Arrays : reads[e] > 0 => reads'[e] > 0
        /\ \A e \in Arrays : reads'[e] = 0 => reads[e] = 0
    BY <1>1, <2>1
  <2>6. ASSUME reads[a] = 0 PROVE Follows(frame, meaning[a], heap[a])
    <3> DEFINE m == meaning[a]
    <3>1. heap[a] = EncodeMessage(m)
      BY <1>2, <2>1, <2>6 DEF DeliveryInv, MessageInv, MessageSaysWhatWasMeant
    <3>2. HeaderSize(m.path) \in Nat
      <4>1. IsReadable(m)
        BY <1>2, <2>1
      <4>2. m.path \in Seq(Nat)
        BY <4>1, NestedAssumption DEF IsReadable
      <4>3. Len(m.path) \in Nat
        BY <4>2
      <4>4. CeilHalf(Len(m.path)) \in Nat
        BY <4>3, HalfFacts
      <4> QED
        BY <4>4 DEF HeaderSize
    <3>3. /\ <<>> \o heap[a] = heap[a] /\ Len(<<>>) = 0
      BY <1>1
    <3> HIDE DEF m
    <3>4. AtHeader(frame, m, heap[a])
      BY <2>2, <3>1, <3>2, <3>3 DEF AtHeader
    <3> QED
      BY <2>2, <3>4 DEF Follows, m
  <2>7. Source(c)' = heap[a]
    BY <2>1, <2>2, <2>4 DEF Source
  <2>8. ReadsOwn(c)'
    <3>1. given'[a] # <<>> /\ reads'[a] > 0
      BY <2>1, <2>5
    <3>2. result'[c].array = a /\ result'[c].wrapper = "none" /\ call'[c].array = a
      BY <2>2, <2>3, <2>4
    <3>3. \A o \in Clients \ {c} : call'[o].at \in Deserializing => call'[o].array # a
      BY <2>1, <2>4
    <3>4. result'[c].first => Follows(call'[c], meaning'[a], Source(c)')
      BY <2>1, <2>3, <2>4, <2>6, <2>7
    <3> QED
      BY <3>1, <3>2, <3>3, <3>4 DEF ReadsOwn
  <2>9. \A o \in Clients \ {c} : call[o].at \in Deserializing => call'[c].array # call[o].array
    BY <2>1, <2>2, <2>4
  <2> QED
    BY <1>2, <2>1, <2>3, <2>4, <2>5, <2>8, <2>9, DeliversOn
<1> QED
  BY <1>3, <1>4 DEF Call, StartSerialize, StartScalar

\* The inductive step of what follows.
LEMMA DeliveryStep ==
    ASSUME ~MayShare, NamedOnce, ShortTexts, DeliveryInv, [Next]_vars
    PROVE  DeliveryInv'
<1>1. MessageInv'
  BY MessageStep DEF DeliveryInv
<1>2. ASSUME NEW c \in Clients, Call(c) PROVE DeliveryInv'
  BY <1>1, <1>2, CallDelivers
<1>3. ASSUME NEW c \in Clients, Step(c) PROVE DeliveryInv'
  BY <1>1, <1>3, SerializeDelivers, DeserializeDelivers DEF Step
<1>4. ASSUME UNCHANGED <<heap, call, result, given, meaning, reads>> PROVE DeliveryInv'
  <2>1. \A c \in Clients : ReadsOwn(c)'
    BY <1>4 DEF DeliveryInv, ReadsOwn, Source
  <2>2. FirstReadReturnsTheMeaning'
    BY <1>4 DEF DeliveryInv, FirstReadReturnsTheMeaning
  <2> QED
    BY <1>1, <1>4, <2>1, <2>2 DEF DeliveryInv
<1>5. ASSUME NEW d \in Dicts, NEW k \in Keys, NEW cell \in Cells, Edit(d, k, cell)
      PROVE  DeliveryInv'
  BY <1>4, <1>5 DEF Edit, history
<1>6. CASE AddListener \/ UNCHANGED vars
  BY <1>4, <1>6 DEF AddListener, vars, callers, history
<1> QED
  BY <1>2, <1>3, <1>5, <1>6 DEF Next

LEMMA DeliveryInit == Init => DeliveryInv
<1> SUFFICES ASSUME Init PROVE DeliveryInv
  OBVIOUS
<1>1. MessageInv
  BY MessageInit
<1>2. \A c \in Clients : call[c].at \notin Deserializing /\ result[c].wrapper = "none"
  BY DEF Init, NoCall, NoResult, Deserializing
<1>3. \A a \in Arrays : given[a] = <<>> /\ heap[a] = given[a]
  BY DEF Init
<1> QED
  BY <1>1, <1>2, <1>3 DEF DeliveryInv, ReadsOwn, FirstReadReturnsTheMeaning

\* FirstReadReturnsTheMeaning, of DynabuffersEngine.deserialize and the reads
\* of each datatype: for every schema that names a field once in a class, and
\* however many clients, as long as no two calls share a dict or an array, the
\* first deserialize of a message returns the namespace and the values its
\* dict meant when serialize was called.
THEOREM FirstReadsReturn ==
    ASSUME ~MayShare, NamedOnce, ShortTexts
    PROVE  Spec => []FirstReadReturnsTheMeaning
<1>1. DeliveryInv => FirstReadReturnsTheMeaning
  BY DEF DeliveryInv
<1> QED
  BY <1>1, DeliveryInit, DeliveryStep, PTL DEF Spec

----------------------------------------------------------------------------
(* What the first deserialize of a message leaves of it.                   *)

\* A field of m that is read by slices.
IsSliced(m, i) ==
    LET f == Fields(m.path)[i] IN f.kind = "string" /\ m.values[f.name] # None

\* The first reader of a message pops bytes off the caller's array until it
\* is at a text; from then on it has a copy.
TakesHead(c) ==
    LET a == call[c].array
        m == meaning[a]
    IN call[c].at \in Deserializing =>
          /\ reads[a] = 1 => result[c].first
          /\ result[c].first /\ call[c].at = "header" => call[c].inPlace
          /\ result[c].first /\ call[c].at # "header" /\ call[c].inPlace =>
                \A i \in 1..(Len(Fields(m.path)) - Len(call[c].todo)) : ~IsSliced(m, i)
          /\ result[c].first /\ ~call[c].inPlace =>
                heap[a] = From(given[a], TakenInPlace(m))

TakenInv ==
    /\ DeliveryInv
    /\ \A a \in Arrays : reads[a] > 0 => given[a] # <<>>
    /\ \A c \in Clients : TakesHead(c)
    /\ FirstReadTakesTheHead

----------------------------------------------------------------------------
\* What is taken in place is what is before the first field read by slices.
LEMMA TakenUpTo ==
    ASSUME NEW m, IsReadable(m), m.values \in Values, NEW done \in 0..Len(Fields(m.path)),
           \A i \in 1..done : ~IsSliced(m, i),
           done < Len(Fields(m.path)) => IsSliced(m, done + 1)
    PROVE  TakenInPlace(m) =
              HeaderSize(m.path) + Len(Joined(EncodedFields(m), done))
                 + (IF done < Len(Fields(m.path)) /\ Fields(m.path)[done + 1].option
                    THEN 1 ELSE 0)
<1> DEFINE fields == Fields(m.path)
           all == EncodedFields(m)
           slices == {i \in DOMAIN fields :
                        fields[i].kind = "string" /\ m.values[fields[i].name] # None}
<1>1. /\ fields \in Seq(FieldDecl) /\ all \in Seq(Seq(Byte)) /\ Len(all) = Len(fields)
  BY FieldsType
<1>2. slices = {i \in 1..Len(fields) : IsSliced(m, i)} /\ Len(fields) \in Nat
  BY <1>1 DEF IsSliced
<1>3. TakenInPlace(m) =
         HeaderSize(m.path)
           + Len(FlattenSeq(IF slices = {} THEN all ELSE SubSeq(all, 1, Min(slices) - 1)))
           + (IF slices # {} /\ fields[Min(slices)].option THEN 1 ELSE 0)
  BY DEF TakenInPlace
<1> HIDE DEF slices
<1>4. CASE done = Len(fields)
  <2>1. slices = {}
    BY <1>2, <1>4
  <2>2. FlattenSeq(all) = Joined(all, done)
    <3> HIDE DEF all, fields
    <3> QED
      BY <1>1, <1>4, JoinedFacts
  <2>3. ~(done < Len(fields))
    BY <1>2, <1>4
  <2> HIDE DEF all, fields
  <2> QED
    BY <1>3, <2>1, <2>2, <2>3 DEF all, fields
<1>5. CASE done < Len(fields)
  <2>1. done + 1 \in slices /\ \A i \in slices : ~(i < done + 1)
    BY <1>2, <1>5
  <2>2. slices # {} /\ Min(slices) = done + 1
    <3>1. slices \in SUBSET Nat /\ slices # {}
      BY <1>2, <2>1
    <3>2. Min(slices) \in slices
      BY <3>1, LeastOf
    <3>3. Min(slices) <= done + 1
      <4>1. \E x \in slices : \A y \in slices : x <= y
        BY <3>1, Least
      <4> QED
        BY <2>1, <4>1 DEF Min
    <3> QED
      BY <1>2, <2>1, <3>1, <3>2, <3>3
  <2>3. SubSeq(all, 1, Min(slices) - 1) = SubSeq(all, 1, done)
    BY <2>2
  <2>4. FlattenSeq(IF slices = {} THEN all ELSE SubSeq(all, 1, Min(slices) - 1))
           = Joined(all, done)
    BY <2>2, <2>3 DEF Joined
  <2>5. slices # {} /\ fields[Min(slices)].option
           <=> done < Len(fields) /\ fields[done + 1].option
    BY <1>5, <2>2
  <2> HIDE DEF all, fields
  <2> QED
    BY <1>3, <2>4, <2>5 DEF all, fields
<1> QED
  BY <1>4, <1>5

\* A message, cut where the reader of its fields is.
LEMMA MessageCut ==
    ASSUME NEW m, IsReadable(m), m.values \in Values, NEW frame, NEW rest \in Seq(Byte),
           AtField(frame, m, rest), frame.todo \in Seq(FieldDecl)
    PROVE  LET done == Len(Fields(m.path)) - Len(frame.todo)
               n == HeaderSize(m.path) + Len(Joined(EncodedFields(m), done))
                       + Len(FlagOf(frame))
           IN From(EncodeMessage(m), n) = rest
<1> DEFINE header == EncodeHeader(Version, m.path)
           all == EncodedFields(m)
           done == Len(Fields(m.path)) - Len(frame.todo)
           joined == Joined(all, done)
           flag == FlagOf(frame)
<1>1. /\ Fields(m.path) \in Seq(FieldDecl) /\ all \in Seq(Seq(Byte))
      /\ Len(all) = Len(Fields(m.path)) /\ header \in Seq(Byte)
  BY FieldsType
<1>2. Len(header) = HeaderSize(m.path)
  BY ContentType
<1>3. IsEnd(frame.todo, Fields(m.path)) /\ joined \o (flag \o rest) = FlattenSeq(all)
  BY DEF AtField
<1>4. done \in 0..Len(all)
  BY <1>1, <1>3, EndFacts
<1> HIDE DEF all, done
<1>5. joined \in Seq(Byte)
  BY <1>1, <1>4, JoinedFacts
<1>6. flag \in Seq(Byte)
  <2>1. <<1>> \in Seq(Byte) /\ <<>> \in Seq(Byte)
    BY DEF Byte
  <2> QED
    BY <2>1 DEF FlagOf
<1>7. EncodeMessage(m) = header \o (joined \o (flag \o rest))
  BY <1>3 DEF EncodeMessage, all
<1> HIDE DEF header, joined, flag
<1> DEFINE head == header \o joined
           front == head \o flag
<1>8. head \in Seq(Byte) /\ Len(head) = Len(header) + Len(joined)
  BY <1>1, <1>5, Lengths
<1>9. header \o (joined \o (flag \o rest)) = head \o (flag \o rest)
  <2> DEFINE more == flag \o rest
  <2>1. more \in Seq(Byte)
    BY <1>6, Lengths
  <2> HIDE DEF more
  <2>2. header \in Seq(Byte)
    BY <1>1
  <2>3. (header \o joined) \o more = header \o (joined \o more)
    BY <1>5, <2>1, <2>2, Grouping
  <2> QED
    BY <2>3 DEF more
<1> HIDE DEF head
<1>10. head \o (flag \o rest) = front \o rest
  <2>1. head \in Seq(Byte)
    BY <1>8
  <2>2. flag \in Seq(Byte) /\ rest \in Seq(Byte)
    BY <1>6
  <2> HIDE DEF front
  <2>3. (head \o flag) \o rest = head \o (flag \o rest)
    BY ONLY <2>1, <2>2, Grouping
  <2> QED
    BY <2>3 DEF front
<1>11. front \in Seq(Byte) /\ Len(front) = Len(head) + Len(flag)
  BY <1>6, <1>8, Lengths
<1> HIDE DEF front
<1>12. From(front \o rest, Len(front)) = rest
  BY <1>11, Seam
<1>13. Len(front) = HeaderSize(m.path) + Len(joined) + Len(flag)
  BY <1>2, <1>8, <1>11
<1>14. EncodeMessage(m) = front \o rest
  BY <1>7, <1>9, <1>10
<1> QED
  BY <1>12, <1>13, <1>14 DEF joined, flag, all, done

\* What a first reader that has come to a text, or to the end, has left of the
\* array it reads in place.
LEMMA HeadTaken ==
    ASSUME NamedOnce, TakenInv, NEW c \in Clients, result[c].first, call[c].inPlace,
           \/ call[c].at = "text"
           \/ call[c].at = "read" /\ call[c].todo = <<>>
    PROVE  LET a == call[c].array IN heap[a] = From(given[a], TakenInPlace(meaning[a]))
<1> DEFINE a == call[c].array
           m == meaning[a]
           rest == Source(c)
           todo == call[c].todo
           fields == Fields(m.path)
           done == Len(fields) - Len(todo)
<1>1. call[c].at \in Deserializing /\ call[c].at # "header"
  BY DEF Deserializing
<1>2. /\ DeliveryInv /\ call[c] \in Frames /\ a \in Arrays
      /\ todo \in Seq(FieldDecl) /\ rest \in Seq(Byte) /\ call[c].flagged \in BOOLEAN
      /\ IsReadable(m) /\ m.values \in Values
      /\ Follows(call[c], m, rest)
  BY <1>1, ReaderFacts DEF TakenInv
<1>3. AtField(call[c], m, rest) /\ (call[c].at = "text" => AtText(call[c], m))
  BY <1>2 DEF Follows
<1>4. rest = heap[a]
  BY DEF Source
<1>5. given[a] = EncodeMessage(m)
  <2>1. given[a] # <<>>
    BY <1>1, <1>2 DEF DeliveryInv, ReadsOwn
  <2> HIDE DEF a
  <2>2. MessageSaysWhatWasMeant
    BY <1>2 DEF DeliveryInv, MessageInv
  <2> QED
    BY <1>2, <2>1, <2>2 DEF MessageSaysWhatWasMeant
<1>6. \A i \in 1..done : ~IsSliced(m, i)
  BY <1>1 DEF TakenInv, TakesHead
<1>7. fields \in Seq(FieldDecl) /\ IsEnd(todo, fields)
  BY <1>2, <1>3, FieldsType DEF AtField
<1>8. /\ done \in 0..Len(fields)
      /\ todo = <<>> => done = Len(fields)
      /\ todo # <<>> => done \in 0..(Len(fields) - 1) /\ Head(todo) = fields[done + 1]
  BY <1>2, <1>7, EndFacts
<1>9. From(given[a], HeaderSize(m.path) + Len(Joined(EncodedFields(m), done))
                        + Len(FlagOf(call[c]))) = rest
  BY <1>2, <1>3, <1>5, MessageCut
<1>10. /\ done < Len(fields) => IsSliced(m, done + 1)
       /\ Len(FlagOf(call[c])) =
             IF done < Len(fields) /\ fields[done + 1].option THEN 1 ELSE 0
  <2>1. CASE todo = <<>>
    <3>1. ~call[c].flagged
      BY <1>3, <2>1 DEF AtField
    <3> QED
      BY <1>7, <1>8, <2>1, <3>1 DEF FlagOf
  <2>2. CASE todo # <<>>
    <3> DEFINE f == Head(todo)
               cell == m.values[f.name]
    <3>1. f.kind = "string" /\ (f.option => call[c].flagged) /\ f = fields[done + 1]
      BY <1>3, <1>8, <2>2 DEF AtText
    <3>2. f \in FieldDecl /\ cell \in Cell /\ Encodable(f, cell)
      BY <1>2, <1>3, <2>2, NextField
    <3>3. call[c].flagged <=> f.option
      BY <1>2, <1>3, <2>2, <3>1, <3>2 DEF AtField, FieldDecl
    <3>4. cell # None
      <4>1. PICK behind \in Seq(Byte) :
               /\ FlagOf(call[c]) \o rest = EncodeField(f, cell) \o behind
               /\ Joined(EncodedFields(m), done + 1) \o behind = FlattenSeq(EncodedFields(m))
        BY <1>2, <1>3, <2>2, NextField
      <4>2. ~(f.option /\ cell = None)
        <5>1. rest \in Seq(Byte)
          BY <1>2
        <5> HIDE DEF f, cell
        <5> QED
          BY <3>2, <3>3, <4>1, <5>1, NextValue
      <4>3. None.is # "text"
        BY DEF None
      <4> HIDE DEF f, cell
      <4> QED
        BY <3>1, <3>2, <4>2, <4>3 DEF Encodable
    <3>5. IsSliced(m, done + 1)
      BY <3>1, <3>4 DEF IsSliced
    <3>6. done < Len(fields)
      <4> HIDE DEF done, fields, todo
      <4> QED
        BY <1>7, <1>8, <2>2
    <3>7. Len(FlagOf(call[c])) = IF f.option THEN 1 ELSE 0
      BY <3>3 DEF FlagOf
    <3> HIDE DEF f, done, fields
    <3> QED
      BY <3>1, <3>5, <3>6, <3>7
  <2> QED
    BY <2>1, <2>2
<1>11. TakenInPlace(m) = HeaderSize(m.path) + Len(Joined(EncodedFields(m), done))
                            + Len(FlagOf(call[c]))
  <2> HIDE DEF m, done, fields
  <2>1. TakenInPlace(m) =
           HeaderSize(m.path) + Len(Joined(EncodedFields(m), done))
              + (IF done < Len(fields) /\ fields[done + 1].option THEN 1 ELSE 0)
    BY <1>2, <1>6, <1>8, <1>10, TakenUpTo DEF fields
  <2> QED
    BY <1>10, <2>1
<1> QED
  BY <1>4, <1>9, <1>11

\* One field further, and still at no text.
LEMMA NoSliceYet ==
    ASSUME NEW m, IsReadable(m), m.values \in Values, NEW frame, NEW rest \in Seq(Byte),
           AtField(frame, m, rest), frame.todo \in Seq(FieldDecl), frame.todo # <<>>,
           \A i \in 1..(Len(Fields(m.path)) - Len(frame.todo)) : ~IsSliced(m, i),
           Head(frame.todo).kind = "byte" \/ m.values[Head(frame.todo).name] = None
    PROVE  \A i \in 1..(Len(Fields(m.path)) - Len(Tail(frame.todo))) : ~IsSliced(m, i)
<1> DEFINE fields == Fields(m.path)
           todo == frame.todo
           done == Len(fields) - Len(todo)
<1>1. fields \in Seq(FieldDecl) /\ IsEnd(todo, fields)
  BY FieldsType DEF AtField
<1>2. /\ done \in 0..(Len(fields) - 1) /\ Head(todo) = fields[done + 1]
      /\ Len(fields) - Len(Tail(todo)) = done + 1
  BY <1>1, EndFacts
<1>3. ~IsSliced(m, done + 1)
  BY <1>2 DEF IsSliced
<1>4. \A i \in 1..done : ~IsSliced(m, i)
  OBVIOUS
<1> HIDE DEF done
<1>5. \A i \in 1..(done + 1) : ~IsSliced(m, i)
  BY <1>2, <1>3, <1>4
<1> QED
  BY <1>2, <1>5

\* An optional field whose flag is 0 was None.
LEMMA FlagOfNone ==
    ASSUME NEW m, IsReadable(m), m.values \in Values, NEW frame, NEW rest \in Seq(Byte),
           AtField(frame, m, rest), frame.todo \in Seq(FieldDecl), frame.todo # <<>>,
           Head(frame.todo).option, ~frame.flagged, Head(rest) = 0
    PROVE  m.values[Head(frame.todo).name] = None
<1> DEFINE f == Head(frame.todo)
           cell == m.values[f.name]
<1>1. f \in FieldDecl /\ cell \in Cell /\ Encodable(f, cell)
  BY NextField
<1>2. PICK behind \in Seq(Byte) :
         /\ FlagOf(frame) \o rest = EncodeField(f, cell) \o behind
         /\ Joined(EncodedFields(m), Len(Fields(m.path)) - Len(frame.todo) + 1) \o behind
               = FlattenSeq(EncodedFields(m))
  BY NextField
<1>3. FlagOf(frame) \o rest = rest
  BY DEF FlagOf
<1> SUFFICES ASSUME cell # None PROVE FALSE
  OBVIOUS
<1> DEFINE value == EncodeValue(f, cell)
<1>4. EncodeField(f, cell) = <<1>> \o value
  BY DEF EncodeField
<1>5. value \in Seq(Byte)
  BY <1>1, ValueType
<1> HIDE DEF value
<1>6. rest = (<<1>> \o value) \o behind
  BY <1>2, <1>3, <1>4
<1>7. Head(rest) = 1
  BY <1>5, <1>6
<1> QED
  BY <1>7

\* The frame after a pop.
LEMMA PopKeeps ==
    ASSUME call \in [Clients -> Frames], NEW c \in Clients, NEW next, Pop(c, next),
           DOMAIN next = DOMAIN call[c]
    PROVE  /\ call'[c].at = next.at /\ call'[c].inPlace = next.inPlace
           /\ call'[c].todo = next.todo
           /\ ~next.inPlace => UNCHANGED heap
<1>1. CASE next.inPlace
  <2>1. Continue(c, next)
    BY <1>1 DEF Pop
  <2> QED
    BY <1>1, <2>1 DEF Continue
<1>2. CASE ~next.inPlace
  <2> DEFINE frame == [next EXCEPT !.buffer = Tail(@)]
  <2>1. Continue(c, frame) /\ UNCHANGED heap
    BY <1>2 DEF Pop
  <2>2. frame.at = next.at /\ frame.inPlace = next.inPlace /\ frame.todo = next.todo
    BY DEF Frames
  <2> HIDE DEF frame
  <2>3. call'[c] = frame
    BY <2>1 DEF Continue
  <2> QED
    BY <2>1, <2>2, <2>3
<1> QED
  BY <1>1, <1>2

\* A first reader that goes on.
LEMMA TakesOn ==
    ASSUME NamedOnce, TakenInv, NEW c \in Clients, Deserialize(c), Reading(c), ~ReturnMap(c),
           result[c].first, UNCHANGED <<given, meaning, reads, result>>
    PROVE  TakesHead(c)'
<1> DEFINE a == call[c].array
           m == meaning[a]
           rest == Source(c)
           todo == call[c].todo
           fields == Fields(m.path)
           before(left) == \A i \in 1..(Len(fields) - Len(left)) : ~IsSliced(m, i)
           gone == heap[a] = From(given[a], TakenInPlace(m))
           after == /\ call'[c].at = "header" => call'[c].inPlace
                    /\ call'[c].at # "header" /\ call'[c].inPlace => before(call'[c].todo)
                    /\ ~call'[c].inPlace => gone /\ UNCHANGED heap
<1>1. call[c].at \in Deserializing /\ PrivateInv /\ DeliveryInv
  BY ReaderKeeps DEF TakenInv, DeliveryInv, MessageInv
<1>2. /\ TypeInv /\ call[c] \in Frames /\ a \in Arrays
      /\ todo \in Seq(FieldDecl) /\ rest \in Seq(Byte) /\ call[c].flagged \in BOOLEAN
      /\ IsReadable(m) /\ m.values \in Values
      /\ Follows(call[c], m, rest)
      /\ call \in [Clients -> Frames]
  BY <1>1, ReaderFacts DEF TypeInv, TypeOK
<1>3. /\ call[c].at = "header" => call[c].inPlace
      /\ call[c].at # "header" /\ call[c].inPlace => before(todo)
      /\ ~call[c].inPlace => gone
  BY <1>1 DEF TakenInv, TakesHead
<1>4. PICK frame : /\ Continue(c, frame) /\ frame.at \in Deserializing /\ frame.array = a
                   /\ Follows(frame, m, Source(c)')
  BY DEF Reading
<1>5. call'[c] = frame
  BY <1>2, <1>4 DEF Continue
<1>6. ~Leave(c)
  <2>1. NoCall(c).at \notin Deserializing
    BY DEF NoCall, Deserializing
  <2> QED
    BY <1>2, <1>4, <1>5, <2>1 DEF Leave, Continue
<1>7. after => TakesHead(c)'
  <2>1. call'[c].array = a
    BY <1>4, <1>5
  <2> HIDE DEF a
  <2> QED
    BY <2>1 DEF TakesHead
<1> SUFFICES after
  BY <1>7
<1> HIDE DEF before, gone, fields
<1>8. ASSUME NEW next, Pop(c, next), DOMAIN next = DOMAIN call[c],
             next.inPlace = call[c].inPlace, next.at = "read",
             call[c].inPlace => before(next.todo)
      PROVE  after
  <2>1. /\ call'[c].at = next.at /\ call'[c].inPlace = next.inPlace
        /\ call'[c].todo = next.todo
        /\ ~next.inPlace => UNCHANGED heap
    BY <1>2, <1>8, PopKeeps
  <2> QED
    BY <1>3, <1>8, <2>1
<1>9. CASE ReadHeaderByte(c)
  <2> DEFINE next == [call[c] EXCEPT !.head = Append(@, Head(Source(c)))]
  <2>1. call[c].at = "header" /\ Pop(c, next)
    BY <1>6, <1>9 DEF ReadHeaderByte, At, Exhausted
  <2>2. DOMAIN next = DOMAIN call[c] /\ next.inPlace = call[c].inPlace /\ next.at = "header"
    BY <1>2, <2>1 DEF Frames
  <2> HIDE DEF next
  <2>3. call'[c].at = "header" /\ call'[c].inPlace
    BY <1>2, <1>3, <2>1, <2>2, PopKeeps
  <2> QED
    BY <2>3
<1>10. CASE LookUp(c)
  <2> DEFINE path == Waypoints(SubSeq(call[c].head, 3, Len(call[c].head)),
                               PyDepth(call[c].head[2]))
             next == [call[c] EXCEPT !.at = "read", !.schema = path, !.todo = Fields(path)]
  <2>1. call[c].at = "header" /\ Continue(c, next)
    BY <1>6, <1>10 DEF LookUp, At
  <2> HIDE DEF path
  <2>2. /\ next.inPlace = call[c].inPlace /\ next.at = "read"
        /\ next.schema = path /\ next.todo = Fields(path)
    BY <1>2 DEF Frames
  <2> HIDE DEF next
  <2>3. frame = next
    BY <1>2, <1>5, <2>1 DEF Continue
  <2>4. frame.schema = m.path
    BY <1>4, <2>2, <2>3 DEF Follows, AtField
  <2>5. call'[c].todo = fields /\ call'[c].at = "read" /\ call'[c].inPlace
    BY <1>3, <1>5, <2>1, <2>2, <2>3, <2>4 DEF fields
  <2>6. before(fields)
    <3>1. Len(fields) \in Nat
      BY <1>2, FieldsType DEF fields
    <3> QED
      BY <3>1 DEF before
  <2> QED
    BY <2>5, <2>6
<1>11. ASSUME call[c].at = "read" \/ call[c].at = "text"
       PROVE  /\ AtField(call[c], m, rest)
              /\ call[c].inPlace => before(todo)
  BY <1>2, <1>3, <1>11 DEF Follows
<1>12. ASSUME call[c].at = "read", todo # <<>>, call[c].inPlace,
              Head(todo).kind = "byte" \/ m.values[Head(todo).name] = None
       PROVE  before(Tail(todo))
  <2> HIDE DEF m, rest
  <2> QED
    BY <1>2, <1>11, <1>12, NoSliceYet DEF before, fields
<1>13. ASSUME NEW cell, call[c].at = "read"
       PROVE  LET next == Having(c, cell)
              IN /\ DOMAIN next = DOMAIN call[c] /\ next.inPlace = call[c].inPlace
                 /\ next.at = "read" /\ next.todo = Tail(todo)
  BY <1>2, <1>13 DEF Having, Frames
<1>14. CASE ReadFlag(c)
  <2>1. /\ call[c].at = "read" /\ todo # <<>> /\ Head(todo).option /\ ~call[c].flagged
        /\ Pop(c, IF Head(rest) = 0 THEN Having(c, None)
                  ELSE [call[c] EXCEPT !.flagged = TRUE])
    BY <1>6, <1>14 DEF ReadFlag, Coming, At, FlagDue, Field, Exhausted
  <2>2. CASE Head(rest) = 0
    <3> DEFINE next == Having(c, None)
    <3>1. Pop(c, next)
      BY <2>1, <2>2
    <3>2. m.values[Head(todo).name] = None
      BY <1>2, <1>11, <2>1, <2>2, FlagOfNone
    <3>3. call[c].inPlace => before(Tail(todo))
      BY <1>12, <2>1, <3>2
    <3>4. /\ DOMAIN next = DOMAIN call[c] /\ next.inPlace = call[c].inPlace
          /\ next.at = "read" /\ next.todo = Tail(todo)
      BY <1>13, <2>1
    <3> HIDE DEF next, after
    <3> QED
      BY <1>8, <3>1, <3>3, <3>4
  <2>3. CASE Head(rest) # 0
    <3> DEFINE next == [call[c] EXCEPT !.flagged = TRUE]
    <3>1. Pop(c, next)
      BY <2>1, <2>3
    <3>2. /\ DOMAIN next = DOMAIN call[c] /\ next.inPlace = call[c].inPlace
          /\ next.at = "read" /\ next.todo = todo
      BY <1>2, <2>1 DEF Frames
    <3>3. call[c].inPlace => before(todo)
      BY <1>11, <2>1
    <3> HIDE DEF next, after
    <3> QED
      BY <1>8, <3>1, <3>2, <3>3
  <2> QED
    BY <2>2, <2>3
<1>15. CASE ReadByte(c)
  <2> DEFINE next == Having(c, Number(Head(rest)))
  <2>1. call[c].at = "read" /\ todo # <<>> /\ Head(todo).kind = "byte" /\ Pop(c, next)
    BY <1>6, <1>15 DEF ReadByte, Coming, At, Field, Exhausted
  <2>2. call[c].inPlace => before(Tail(todo))
    BY <1>12, <2>1
  <2>3. /\ DOMAIN next = DOMAIN call[c] /\ next.inPlace = call[c].inPlace
        /\ next.at = "read" /\ next.todo = Tail(todo)
    BY <1>13, <2>1
  <2> HIDE DEF next, after
  <2> QED
    BY <1>8, <2>1, <2>2, <2>3
<1>16. CASE ReadLength(c)
  <2> DEFINE size == IntOf(UpTo(Source(c), 4))
             next == [call[c] EXCEPT !.at = "text", !.size = size]
  <2>1. call[c].at = "read" /\ Continue(c, next) /\ UNCHANGED heap
    BY <1>6, <1>16 DEF ReadLength, Coming, At, callers
  <2> HIDE DEF size
  <2>2. next.inPlace = call[c].inPlace /\ next.at = "text" /\ next.todo = todo
    BY <1>2 DEF Frames
  <2> HIDE DEF next
  <2>3. call'[c] = next
    BY <1>2, <2>1 DEF Continue
  <2> QED
    BY <1>3, <1>11, <2>1, <2>2, <2>3
<1>17. CASE ReadText(c)
  <2> DEFINE old == [Having(c, Text(UpTo(From(rest, 4), call[c].size)))
                       EXCEPT !.at = "read", !.size = 0]
             left == From(rest, 4 + Cut(From(rest, 4), call[c].size))
             next == [old EXCEPT !.buffer = left, !.inPlace = FALSE]
  <2>1. call[c].at = "text" /\ Continue(c, next) /\ UNCHANGED heap
    BY <1>6, <1>17 DEF ReadText, At, Slice
  <2> HIDE DEF left
  <2>2. next.at = "read" /\ ~next.inPlace
    BY <1>2 DEF Having, Frames
  <2> HIDE DEF next
  <2>3. call'[c] = next
    BY <1>2, <2>1 DEF Continue
  <2>4. gone
    <3>1. call[c].inPlace => gone
      BY <2>1, HeadTaken DEF gone
    <3> QED
      BY <1>3, <3>1
  <2> QED
    BY <2>1, <2>2, <2>3, <2>4
<1> QED
  BY <1>9, <1>10, <1>14, <1>15, <1>16, <1>17 DEF Deserialize

\* Where nothing of an array has changed, its reader is where it was.
LEMMA TakesStays ==
    ASSUME TakenInv, NEW o \in Clients, call'[o] = call[o], result'[o] = result[o],
           call[o].at \in Deserializing =>
              LET a == call[o].array
              IN /\ heap'[a] = heap[a] /\ given'[a] = given[a]
                 /\ meaning'[a] = meaning[a] /\ reads'[a] = reads[a]
    PROVE  TakesHead(o)'
<1> SUFFICES ASSUME call[o].at \in Deserializing PROVE TakesHead(o)'
  BY DEF TakesHead
<1> DEFINE a == call[o].array
<1>1. /\ heap'[a] = heap[a] /\ given'[a] = given[a]
      /\ meaning'[a] = meaning[a] /\ reads'[a] = reads[a]
  OBVIOUS
<1>2. TakesHead(o)
  BY DEF TakenInv
<1>3. call'[o].array = a
  OBVIOUS
<1> DEFINE m == meaning[a]
           gone == heap[a] = From(given[a], TakenInPlace(m))
           before == \A i \in 1..(Len(Fields(m.path)) - Len(call[o].todo)) : ~IsSliced(m, i)
<1>4. /\ reads[a] = 1 => result[o].first
      /\ result[o].first /\ call[o].at = "header" => call[o].inPlace
      /\ result[o].first /\ call[o].at # "header" /\ call[o].inPlace => before
      /\ result[o].first /\ ~call[o].inPlace => gone
  BY <1>2 DEF TakesHead
<1>5. meaning'[a] = m
  BY <1>1
<1>6. gone <=> heap'[a] = From(given'[a], TakenInPlace(meaning'[a]))
  BY <1>1
<1>7. before <=> \A i \in 1..(Len(Fields(meaning'[a].path)) - Len(call'[o].todo)) :
                    ~IsSliced(meaning'[a], i)
  BY <1>5
<1> HIDE DEF gone, before, m, a
<1> QED
  BY <1>1, <1>3, <1>4, <1>6, <1>7 DEF TakesHead

\* The steps of deserialize.
LEMMA DeserializeTakes ==
    ASSUME NamedOnce, ShortTexts, TakenInv, DeliveryInv', NEW c \in Clients, Deserialize(c)
    PROVE  TakenInv'
<1> DEFINE a == call[c].array
<1>1. /\ DeliveryInv /\ PrivateInv /\ a \in Arrays /\ call \in [Clients -> Frames]
      /\ result \in [Clients -> [path : Paths, values : Values, wrapper : Wrappers,
                                 array : Arrays, first : BOOLEAN]]
  BY PrivateFacts DEF TakenInv, DeliveryInv, MessageInv, PrivateInv, TypeInv, TypeOK, Frames
<1>2. /\ call[c].at \in Deserializing
      /\ \A e \in Arrays : e # a => heap'[e] = heap[e]
      /\ UNCHANGED <<given, meaning, reads>>
      /\ ~ReturnMap(c) => UNCHANGED result
  BY <1>1, ReaderKeeps DEF history
<1>3. PICK frame : /\ Continue(c, frame)
                   /\ frame.at \in Deserializing => frame.array = a
  BY <1>1, ReaderKeeps
<1>4. call'[c] = frame /\ \A o \in Clients \ {c} : call'[o] = call[o]
  BY <1>1, <1>3 DEF Continue
<1>5. \A o \in Clients \ {c} : result'[o] = result[o]
  <2>1. ReturnMap(c) => \A o \in Clients \ {c} : result'[o] = result[o]
    BY <1>1 DEF ReturnMap
  <2> QED
    BY <1>2, <2>1
<1>6. \A o \in Clients \ {c} : call[o].at \in Deserializing =>
         call[o].array \in Arrays /\ call[o].array # a
  <2>1. \A o \in Clients : call[o].array \in Arrays
    BY <1>1 DEF Frames
  <2>2. ReadsOwn(c)
    BY <1>1 DEF DeliveryInv
  <2> QED
    BY <1>2, <2>1, <2>2 DEF ReadsOwn
<1>7. ASSUME NEW o \in Clients \ {c} PROVE TakesHead(o)'
  BY <1>2, <1>4, <1>5, <1>6, TakesStays
<1>8. call'[c].at \in Deserializing => ~ReturnMap(c)
  <2>1. NoCall(c).at \notin Deserializing
    BY DEF NoCall, Deserializing
  <2> QED
    BY <1>1, <2>1 DEF ReturnMap, Leave, Continue
<1>9. TakesHead(c)'
  <2> SUFFICES ASSUME call'[c].at \in Deserializing PROVE TakesHead(c)'
    BY DEF TakesHead
  <2>1. ~ReturnMap(c) /\ ~Leave(c) /\ UNCHANGED <<given, meaning, reads, result>>
    <3>1. NoCall(c).at \notin Deserializing
      BY DEF NoCall, Deserializing
    <3> QED
      BY <1>1, <1>2, <1>8, <3>1 DEF Leave, Continue
  <2>2. CASE result[c].first
    <3>1. Reading(c)
      BY <1>1, <2>1, <2>2, FirstReaderMoves DEF Returning
    <3> QED
      BY <2>1, <2>2, <3>1, TakesOn
  <2>3. CASE ~result[c].first
    <3>1. reads[a] # 1
      BY <1>2, <2>3 DEF TakenInv, TakesHead
    <3>2. call'[c].array = a /\ reads'[a] # 1 /\ ~result'[c].first
      BY <1>3, <1>4, <2>1, <2>3, <3>1
    <3> HIDE DEF a
    <3> QED
      BY <3>2 DEF TakesHead
  <2> QED
    BY <2>2, <2>3
<1>10. ASSUME NEW e \in Arrays, reads'[e] = 1, \A o \in Clients : ~Reads(o, e)'
       PROVE  heap'[e] = From(given'[e], TakenInPlace(meaning'[e]))
  <2>1. reads[e] = 1 /\ given'[e] = given[e] /\ meaning'[e] = meaning[e]
    BY <1>2, <1>10
  <2>2. CASE e # a
    <3>1. \A o \in Clients : ~Reads(o, e)
      BY <1>4, <1>10, <2>2 DEF Reads
    <3>2. heap[e] = From(given[e], TakenInPlace(meaning[e]))
      BY <2>1, <3>1 DEF TakenInv, FirstReadTakesTheHead
    <3>3. heap'[e] = heap[e]
      BY <1>2, <2>2
    <3> QED
      BY <2>1, <3>2, <3>3
  <2>3. CASE e = a
    <3>1. call'[c].at \notin Deserializing
      <4>1. ~(call'[c].at \in Deserializing /\ call'[c].array = a)
        BY <1>10, <2>3 DEF Reads
      <4> QED
        BY <1>3, <1>4, <4>1
    <3>2. result[c].first
      BY <1>2, <2>1, <2>3 DEF TakenInv, TakesHead
    <3>3. ~Reading(c)
      BY <1>1, <3>1 DEF Reading, Continue
    <3>4. ReturnMap(c) \/ (ReadText(c) /\ UNCHANGED heap)
      <4>1. Returning(c) \/ (ReadText(c) /\ UNCHANGED heap)
        BY <1>1, <3>2, <3>3, FirstReaderMoves
      <4> QED
        BY <4>1 DEF Returning
    <3>5. /\ UNCHANGED heap
          /\ \/ call[c].at = "text"
             \/ call[c].at = "read" /\ call[c].todo = <<>>
      BY <3>4 DEF ReturnMap, ReadText, At, Through, callers
    <3>6. heap[a] = From(given[a], TakenInPlace(meaning[a]))
      <4>1. CASE call[c].inPlace
        BY <3>2, <3>5, <4>1, HeadTaken
      <4>2. CASE ~call[c].inPlace
        BY <1>2, <3>2, <4>2 DEF TakenInv, TakesHead
      <4> QED
        BY <4>1, <4>2
    <3> HIDE DEF a
    <3> QED
      BY <2>1, <2>3, <3>5, <3>6
  <2> QED
    BY <2>2, <2>3
<1>11. FirstReadTakesTheHead'
  BY <1>10 DEF FirstReadTakesTheHead
<1>12. \A e \in Arrays : reads'[e] > 0 => given'[e] # <<>>
  BY <1>2 DEF TakenInv
<1>13. \A o \in Clients : TakesHead(o)'
  BY <1>7, <1>9
<1> QED
  BY <1>11, <1>12, <1>13 DEF TakenInv

\* The steps of serialize, which put a message where nobody has read yet.
LEMMA SerializeTakes ==
    ASSUME TakenInv, DeliveryInv', NEW c \in Clients, Serialize(c)
    PROVE  TakenInv'
<1>1. /\ DeliveryInv /\ PrivateInv /\ call[c].array \in Arrays
      /\ call \in [Clients -> Frames]
      /\ heap \in [Arrays -> Seq(Byte)] /\ given \in [Arrays -> Seq(Byte)]
      /\ meaning \in [Arrays -> Meanings]
      /\ \A o \in Clients : call[o].array \in Arrays
  BY PrivateFacts DEF TakenInv, DeliveryInv, MessageInv, PrivateInv, TypeInv, TypeOK, Frames
<1>2. /\ call[c].at \in Serializing /\ given[call[c].array] = <<>>
      /\ \/ \E frame : Continue(c, frame) /\ frame.at \in Serializing
         \/ Leave(c)
  <2>1. call[c].at \in Serializing
    BY <1>1, SerializeMoves
  <2>2. Leave(c) \/ \E frame : Continue(c, frame) /\ frame.at \in Serializing
    BY <1>1, SerializeMoves DEF ReturnMessage
  <2> QED
    BY <1>1, <2>1, <2>2 DEF PrivateInv, Rooms
<1>3. /\ call[c].at \notin Deserializing /\ call'[c].at \notin Deserializing
      /\ \A o \in Clients \ {c} : call'[o] = call[o]
  <2>1. NoCall(c).at \notin Deserializing
    BY DEF NoCall, Deserializing
  <2>2. \A frame : frame.at \in Serializing => frame.at \notin Deserializing
    BY DEF Serializing, Deserializing
  <2> QED
    BY <1>1, <1>2, <2>1, <2>2 DEF Leave, Continue
<1>4. UNCHANGED <<result, reads>>
  BY <1>1, SerializeMoves DEF ReturnMessage, history
<1>5. \A e \in Arrays : given[e] # <<>> =>
         heap'[e] = heap[e] /\ given'[e] = given[e] /\ meaning'[e] = meaning[e]
  <2>1. CASE ReturnMessage(c)
    <3> DEFINE a == call[c].array
    <3>1. /\ heap' = [heap EXCEPT ![a] = call[c].buffer]
          /\ given' = [given EXCEPT ![a] = call[c].buffer]
          /\ meaning' = [meaning EXCEPT ![a] = call[c].meant]
      BY <2>1 DEF ReturnMessage
    <3>2. given[a] = <<>>
      BY <1>2
    <3> HIDE DEF a
    <3> QED
      BY <1>1, <3>1, <3>2
  <2>2. CASE ~ReturnMessage(c)
    BY <2>2
       DEF Serialize, SizeRoot, SizeHeader, Fill, WriteNone, Filled, Measure,
           NewBuffer, PutHeader, Put, FindSchema, Check, Checked, OmitField,
           PutField, callers, history
  <2> QED
    BY <2>1, <2>2
<1>6. \A o \in Clients : TakesHead(o)'
  <2>1. TakesHead(c)'
    BY <1>3 DEF TakesHead
  <2>2. ASSUME NEW o \in Clients \ {c} PROVE TakesHead(o)'
    <3>1. call[o].at \in Deserializing => given[call[o].array] # <<>>
      BY <1>1 DEF DeliveryInv, ReadsOwn
    <3> QED
      BY <1>1, <1>3, <1>4, <1>5, <3>1, TakesStays
  <2> QED
    BY <2>1, <2>2
<1>7. \A e \in Arrays : reads'[e] > 0 => given'[e] # <<>>
  BY <1>4, <1>5 DEF TakenInv
<1>8. ASSUME NEW e \in Arrays, reads'[e] = 1, \A o \in Clients : ~Reads(o, e)'
      PROVE  heap'[e] = From(given'[e], TakenInPlace(meaning'[e]))
  <2>1. reads[e] = 1 /\ given[e] # <<>>
    BY <1>4, <1>8 DEF TakenInv
  <2>2. \A o \in Clients : ~Reads(o, e)
    BY <1>3, <1>8 DEF Reads
  <2>3. heap[e] = From(given[e], TakenInPlace(meaning[e]))
    BY <2>1, <2>2 DEF TakenInv, FirstReadTakesTheHead
  <2> QED
    BY <1>5, <2>1, <2>3
<1>9. FirstReadTakesTheHead'
  BY <1>8 DEF FirstReadTakesTheHead
<1> QED
  BY <1>6, <1>7, <1>9 DEF TakenInv

\* A call begins.
LEMMA CallTakes ==
    ASSUME ~MayShare, TakenInv, DeliveryInv', NEW c \in Clients, Call(c)
    PROVE  TakenInv'
<1>1. /\ DeliveryInv /\ call \in [Clients -> Frames]
      /\ result \in [Clients -> [path : Paths, values : Values, wrapper : Wrappers,
                                 array : Arrays, first : BOOLEAN]]
      /\ reads \in [Arrays -> 0..MaxReads]
      /\ \A o \in Clients : call[o].array \in Arrays
  BY PrivateFacts DEF TakenInv, DeliveryInv, MessageInv, PrivateInv, TypeInv, TypeOK, Frames
<1>2. \A e \in Arrays : reads[e] = 1 /\ (\A o \in Clients : ~Reads(o, e)) =>
         heap[e] = From(given[e], TakenInPlace(meaning[e]))
  BY DEF TakenInv, FirstReadTakesTheHead
<1>3. ASSUME NEW d, NEW contents, call[c].at = "idle", Enter(c, d, contents)
      PROVE  TakenInv'
  <2> DEFINE meant == Meaning(contents)
             array == CHOOSE a \in Arrays : Unused(a)
             frame == [NoCall(c) EXCEPT !.at = "sizeRoot", !.dict = d, !.array = array,
                                        !.meant = meant]
  <2>1. /\ Continue(c, frame) /\ result' = [result EXCEPT ![c] = NoResult]
        /\ UNCHANGED <<heap, given, meaning, reads>>
    BY <1>3 DEF Enter, history
  <2> HIDE DEF meant, array
  <2>2. frame.at = "sizeRoot"
    BY DEF NoCall
  <2> HIDE DEF frame
  <2>3. /\ call'[c].at \notin Deserializing
        /\ \A o \in Clients \ {c} : call'[o] = call[o] /\ result'[o] = result[o]
    BY <1>1, <2>1, <2>2 DEF Continue, Deserializing
  <2>4. \A o \in Clients : TakesHead(o)'
    <3>1. TakesHead(c)'
      BY <2>3 DEF TakesHead
    <3> QED
      BY <2>1, <2>3, <3>1, TakesStays
  <2>5. FirstReadTakesTheHead'
    <3> SUFFICES ASSUME NEW e \in Arrays, reads'[e] = 1, \A o \in Clients : ~Reads(o, e)'
                 PROVE  heap'[e] = From(given'[e], TakenInPlace(meaning'[e]))
      BY DEF FirstReadTakesTheHead
    <3>1. \A o \in Clients : ~Reads(o, e)
      BY <1>3, <2>3 DEF Reads, Deserializing
    <3> QED
      BY <1>2, <2>1, <3>1
  <2> QED
    BY <2>1, <2>4, <2>5 DEF TakenInv
<1>4. ASSUME NEW a \in Arrays, StartDeserialize(c, a) PROVE TakenInv'
  <2> DEFINE frame == [NoCall(c) EXCEPT !.at = "header", !.array = a, !.inPlace = TRUE]
             answer == [NoResult EXCEPT !.array = a, !.first = (reads[a] = 0)]
  <2>1. /\ Continue(c, frame) /\ result' = [result EXCEPT ![c] = answer]
        /\ given[a] # <<>> /\ reads' = [reads EXCEPT ![a] = @ + 1]
        /\ UNCHANGED <<heap, given, meaning>> /\ call[c].at = "idle"
        /\ \A o \in Clients : call[o].at \in Deserializing => call[o].array # a
    BY <1>4 DEF StartDeserialize, callers, ArrayFree, Reads, At
  <2>2. frame.at = "header" /\ frame.array = a /\ frame.inPlace
    BY DEF NoCall
  <2>3. answer.first = (reads[a] = 0)
    BY DEF NoResult
  <2> HIDE DEF frame, answer
  <2>4. /\ call'[c] = frame /\ result'[c] = answer
        /\ \A o \in Clients \ {c} : call'[o] = call[o] /\ result'[o] = result[o]
    BY <1>1, <2>1 DEF Continue
  <2>5. reads'[a] = reads[a] + 1 /\ \A e \in Arrays : e # a => reads'[e] = reads[e]
    BY <1>1, <2>1
  <2>6. TakesHead(c)'
    <3>1. reads'[a] = 1 => reads[a] = 0
      <4>1. reads[a] \in Int
        BY <1>1
      <4> QED
        BY <2>5, <4>1
    <3>2. reads'[a] = 1 => result'[c].first
      BY <2>3, <2>4, <3>1
    <3> QED
      BY <2>2, <2>4, <3>2 DEF TakesHead
  <2>7. ASSUME NEW o \in Clients \ {c} PROVE TakesHead(o)'
    BY <1>1, <2>1, <2>4, <2>5, TakesStays
  <2>8. FirstReadTakesTheHead'
    <3> SUFFICES ASSUME NEW e \in Arrays, reads'[e] = 1, \A o \in Clients : ~Reads(o, e)'
                 PROVE  heap'[e] = From(given'[e], TakenInPlace(meaning'[e]))
      BY DEF FirstReadTakesTheHead
    <3>1. e # a
      BY <2>2, <2>4 DEF Reads, Deserializing
    <3>2. \A o \in Clients : ~Reads(o, e)
      <4>1. ~Reads(c, e)
        BY <2>1 DEF Reads, Deserializing
      <4> QED
        BY <2>4, <4>1 DEF Reads
    <3> QED
      BY <1>2, <2>1, <2>5, <3>1, <3>2
  <2>9. \A e \in Arrays : reads'[e] > 0 => given'[e] # <<>>
    BY <2>1, <2>5 DEF TakenInv
  <2> QED
    BY <2>6, <2>7, <2>8, <2>9 DEF TakenInv
<1> QED
  BY <1>3, <1>4 DEF Call, StartSerialize, StartScalar, At

LEMMA TakenStep ==
    ASSUME ~MayShare, NamedOnce, ShortTexts, TakenInv, [Next]_vars
    PROVE  TakenInv'
<1>1. DeliveryInv'
  BY DeliveryStep DEF TakenInv
<1>2. ASSUME NEW c \in Clients, Call(c) PROVE TakenInv'
  BY <1>1, <1>2, CallTakes
<1>3. ASSUME NEW c \in Clients, Step(c) PROVE TakenInv'
  BY <1>1, <1>3, SerializeTakes, DeserializeTakes DEF Step
<1>4. ASSUME UNCHANGED <<heap, call, result, given, meaning, reads>> PROVE TakenInv'
  <2>1. \A c \in Clients : TakesHead(c)'
    BY <1>4, TakesStays
  <2>2. FirstReadTakesTheHead'
    BY <1>4 DEF TakenInv, FirstReadTakesTheHead, Reads
  <2> QED
    BY <1>1, <1>4, <2>1, <2>2 DEF TakenInv
<1>5. ASSUME NEW d \in Dicts, NEW k \in Keys, NEW cell \in Cells, Edit(d, k, cell)
      PROVE  TakenInv'
  BY <1>4, <1>5 DEF Edit, history
<1>6. CASE AddListener \/ UNCHANGED vars
  BY <1>4, <1>6 DEF AddListener, vars, callers, history
<1> QED
  BY <1>2, <1>3, <1>5, <1>6 DEF Next

LEMMA TakenInit == Init => TakenInv
<1> SUFFICES ASSUME Init PROVE TakenInv
  OBVIOUS
<1>1. \A c \in Clients : call[c].at \notin Deserializing
  BY DEF Init, NoCall, Deserializing
<1>2. \A a \in Arrays : reads[a] = 0
  BY DEF Init
<1> QED
  BY <1>1, <1>2, DeliveryInit DEF TakenInv, TakesHead, FirstReadTakesTheHead

\* FirstReadTakesTheHead, of ByteBuffer.get and the reads that pop from it:
\* for every schema that names a field once in a class, and however many
\* clients, as long as no two calls share a dict or an array, the first
\* deserialize of a message takes its header and its fields up to the first
\* text out of the caller's array, and not a byte more or less, whether it
\* returns or fails at a text that is no UTF-8.
THEOREM FirstReadsTake ==
    ASSUME ~MayShare, NamedOnce, ShortTexts
    PROVE  Spec => []FirstReadTakesTheHead
<1>1. TakenInv => FirstReadTakesTheHead
  BY DEF TakenInv
<1> QED
  BY <1>1, TakenInit, TakenStep, PTL DEF Spec

----------------------------------------------------------------------------
(* What the whole engine looks like from outside.                          *)

\* No text has a byte that is not UTF-8 on its own.
PlainTexts ==
    /\ \A cell \in Cells : IsPlain(cell)
    /\ \A p \in Paths : HasRoot(p) =>
          \A f \in ToSet(Fields(p)) : IsPlain(f.default)

TransportInv ==
    /\ DeliveryInv
    /\ \A a \in Arrays : given[a] # <<>> => meaning[a] \in Sendable

\* With texts like that the first reader of a message never fails.
LEMMA PlainIsRead ==
    ASSUME DeliveryInv, PlainTexts, NEW c \in Clients, result[c].first, ReadText(c)
    PROVE  IsPlain(meaning[call[c].array].values[Field(c).name])
<1> DEFINE m == meaning[call[c].array]
<1>1. call[c].at = "text" /\ call[c].at \in Deserializing
  BY DEF ReadText, At, Deserializing
<1>2. /\ call[c].todo \in Seq(FieldDecl) /\ Source(c) \in Seq(Byte)
      /\ IsReadable(m) /\ m.values \in Values
      /\ Follows(call[c], m, Source(c))
  BY <1>1, ReaderFacts
<1>3. AtField(call[c], m, Source(c)) /\ call[c].todo # <<>>
  BY <1>1, <1>2, SMTT(60) DEF Follows, AtText
<1>4. Field(c) \in ToSet(Fields(m.path))
  BY <1>2, <1>3, NextField DEF Field
<1>5. /\ m.values[Field(c).name] \in Cells \cup {Field(c).default}
      /\ m.path \in Paths /\ HasRoot(m.path)
  BY <1>2, <1>4 DEF IsReadable
<1> HIDE DEF m
<1>6. IsPlain(m.values[Field(c).name])
  BY <1>4, <1>5 DEF PlainTexts
<1> QED
  BY <1>6 DEF m

\* A reader opens an array with a message in it.
LEMMA StartingOpens ==
    ASSUME TransportInv, NEW c \in Clients, NEW a \in Arrays, StartDeserialize(c, a)
    PROVE  Promise!Open(c, a)
<1>1. /\ PrivateInv /\ call \in [Clients -> Frames]
      /\ result \in [Clients -> [path : Paths, values : Values, wrapper : Wrappers,
                                 array : Arrays, first : BOOLEAN]]
      /\ reads \in [Arrays -> 0..MaxReads]
  BY PrivateFacts
     DEF TransportInv, DeliveryInv, MessageInv, PrivateInv, TypeInv, TypeOK
<1> DEFINE frame == [NoCall(c) EXCEPT !.at = "header", !.array = a, !.inPlace = TRUE]
           answer == [NoResult EXCEPT !.array = a, !.first = (reads[a] = 0)]
           opened == {e \in Arrays : reads[e] > 0}
<1>2. /\ Continue(c, frame) /\ result' = [result EXCEPT ![c] = answer]
      /\ call[c].at = "idle" /\ given[a] # <<>> /\ reads' = [reads EXCEPT ![a] = @ + 1]
      /\ UNCHANGED <<given, meaning>>
  BY DEF StartDeserialize, At
<1>3. frame.at = "header" /\ frame.array = a
  BY DEF NoCall
<1>4. answer.first = (reads[a] = 0) /\ answer.wrapper = "none"
  BY DEF NoResult
<1>5. reads[a] = 0 <=> a \notin opened
  BY <1>1
<1>6. opened' = opened \cup {a}
  BY <1>1, <1>2
<1> HIDE DEF frame, answer
<1>7. result'[c] = answer /\ \A o \in Clients \ {c} : result'[o] = result[o]
  BY <1>1, <1>2
<1>8. call'[c] = frame
      /\ \A o \in Clients \ {c} : /\ RequestOf(o)' = RequestOf(o)
                                  /\ AnswerTo(o)' = AnswerTo(o)
  BY <1>1, <1>2, <1>7, OthersWait
<1>9. RequestOf(c) = Promise!NoRequest
  BY <1>2 DEF RequestOf, Serializing, Deserializing, Promise!NoRequest
<1>10. RequestOf(c)' = Promise!Receiving(a, a \notin opened)
  <2>1. call'[c].at \in Deserializing /\ call'[c].at \notin Serializing
    BY <1>3, <1>8 DEF Serializing, Deserializing
  <2>2. call'[c].array = a /\ result'[c].first = (a \notin opened)
    BY <1>3, <1>4, <1>5, <1>7, <1>8
  <2> HIDE DEF opened
  <2> QED
    BY <2>1, <2>2 DEF RequestOf, Promise!Receiving
<1>11. AnswerTo(c)' = NoMeaning
  BY <1>4, <1>7 DEF AnswerTo
<1>12. \A e \in Arrays : MessageIn(e)' = MessageIn(e)
  BY <1>2 DEF MessageIn
<1>13. MessageIn(a) # NoMeaning
  BY <1>2, SendableAssumption DEF MessageIn, TransportInv
<1> HIDE DEF opened
<1>14. Promise!Begins(c, Promise!Receiving(a, a \notin opened))
  BY <1>8, <1>9, <1>10, <1>11 DEF Promise!Begins
<1>15. [e \in Arrays |-> MessageIn(e)][a] # NoMeaning
  BY <1>13
<1>16. UNCHANGED [e \in Arrays |-> MessageIn(e)]
  BY <1>12
<1> QED
  BY <1>6, <1>14, <1>15, <1>16, Zenon DEF Promise!Open, opened

\* A reader reads on, or its call is over.
LEMMA DeserializeReads ==
    ASSUME TransportInv, ShortTexts, PlainTexts, NEW c \in Clients, Deserialize(c)
    PROVE  \/ Promise!Read(c)
           \/ Promise!ReadAgain(c)
           \/ UNCHANGED Promise!vars
<1> DEFINE a == call[c].array
           m == meaning[a]
<1>1. /\ DeliveryInv /\ PrivateInv /\ a \in Arrays /\ call \in [Clients -> Frames]
      /\ result \in [Clients -> [path : Paths, values : Values, wrapper : Wrappers,
                                 array : Arrays, first : BOOLEAN]]
      /\ m \in Meanings
  BY PrivateFacts
     DEF TransportInv, DeliveryInv, MessageInv, PrivateInv, TypeInv, TypeOK, Frames
<1>2. /\ call[c].at \in Deserializing /\ call[c].at \notin Serializing
      /\ UNCHANGED <<given, meaning, reads>>
      /\ ~ReturnMap(c) => UNCHANGED result
  BY <1>1, ReaderKeeps, ReaderMoves DEF history
<1>3. PICK frame : /\ Continue(c, frame)
                   /\ frame.at \in Deserializing => frame.array = a
  BY <1>1, ReaderKeeps
<1>4. call'[c] = frame /\ frame.at \notin Serializing
  <2>1. PICK other : Continue(c, other) /\ other.at \notin Serializing
    BY <1>1, ReaderMoves
  <2> QED
    BY <1>1, <1>3, <2>1 DEF Continue
<1>5. /\ given[a] # <<>> /\ result[c].array = a /\ result[c].wrapper = "none"
  BY <1>1, <1>2 DEF DeliveryInv, ReadsOwn
<1>6. RequestOf(c) = [op |-> "receive", array |-> a, first |-> result[c].first]
  BY <1>2 DEF RequestOf
<1>7. AnswerTo(c) = NoMeaning
  BY <1>5 DEF AnswerTo
<1>8. MessageIn(a) = m /\ \A e \in Arrays : MessageIn(e)' = MessageIn(e)
  BY <1>2, <1>5 DEF MessageIn
<1>9. \A o \in Clients \ {c} : result'[o] = result[o]
  BY <1>1, <1>2 DEF ReturnMap
<1>10. \A o \in Clients \ {c} : RequestOf(o)' = RequestOf(o) /\ AnswerTo(o)' = AnswerTo(o)
  BY <1>1, <1>3, <1>9, OthersWait
<1>11. /\ UNCHANGED [e \in Arrays |-> MessageIn(e)]
       /\ UNCHANGED {e \in Arrays : reads[e] > 0}
  BY <1>2, <1>8
<1>12. /\ [o \in Clients |-> RequestOf(o)][c].op = "receive"
       /\ [o \in Clients |-> RequestOf(o)][c].array = a
       /\ [o \in Clients |-> RequestOf(o)][c].first = result[c].first
  BY <1>6
<1>13. [e \in Arrays |-> MessageIn(e)][a] = m
  BY <1>1, <1>8
<1>14. ASSUME frame.at \notin Deserializing PROVE Promise!Ends(c)
  <2>1. RequestOf(c)' = Promise!NoRequest
    BY <1>4, <1>14 DEF RequestOf, Promise!NoRequest
  <2> QED
    BY <1>10, <2>1 DEF Promise!Ends
<1>15. ASSUME frame.at \in Deserializing, UNCHANGED result
       PROVE  UNCHANGED Promise!vars
  <2>1. RequestOf(c)' = RequestOf(c)
    BY <1>3, <1>4, <1>6, <1>15 DEF RequestOf
  <2>2. AnswerTo(c)' = AnswerTo(c)
    BY <1>15 DEF AnswerTo
  <2>3. \A o \in Clients : RequestOf(o)' = RequestOf(o) /\ AnswerTo(o)' = AnswerTo(o)
    BY <1>10, <2>1, <2>2
  <2> QED
    BY <1>11, <2>3 DEF Promise!vars
<1>16. CASE ReturnMap(c)
  <2> DEFINE answer == [result[c] EXCEPT !.path = call[c].schema, !.values = call[c].got,
                                         !.wrapper = WrapperOf(RootClass(call[c].schema))]
  <2>1. Leave(c) /\ result' = [result EXCEPT ![c] = answer]
    BY <1>16 DEF ReturnMap
  <2>2. /\ answer.first = result[c].first /\ answer.wrapper # "none"
        /\ answer.path = call[c].schema /\ answer.values = call[c].got
    BY <1>1 DEF WrapperOf
  <2> HIDE DEF answer
  <2>3. result'[c] = answer
    BY <1>1, <2>1
  <2>4. frame.at \notin Deserializing
    <3>1. frame = NoCall(c) /\ NoCall(c).at = "idle"
      BY <1>1, <1>4, <2>1 DEF Leave, Continue, NoCall
    <3> QED
      BY <3>1 DEF Deserializing
  <2>5. CASE result[c].first
    <3>1. call[c].schema = m.path /\ call[c].got = m.values
      BY <1>1, <1>16, <2>5, MapReturns DEF Returning
    <3>2. AnswerTo(c)' = m
      <4>1. AnswerTo(c)' = [path |-> m.path, values |-> m.values]
        BY <2>2, <2>3, <2>5, <3>1 DEF AnswerTo
      <4>2. m = [path |-> m.path, values |-> m.values]
        <5> HIDE DEF m
        <5> QED
          BY <1>1 DEF Meanings
      <4> QED
        BY <4>1, <4>2
    <3> HIDE DEF m, a
    <3>3. [o \in Clients |-> AnswerTo(o)]' = [[o \in Clients |-> AnswerTo(o)] EXCEPT ![c] = m]
      BY <1>10, <3>2
    <3>4. Promise!Ends(c)
      BY <1>14, <2>4
    <3>5. Promise!Read(c)
      BY <1>11, <1>12, <1>13, <2>5, <3>3, <3>4, Zenon DEF Promise!Read
    <3> QED
      BY <3>5
  <2>6. CASE ~result[c].first
    <3>1. AnswerTo(c)' = AnswerTo(c)
      BY <1>7, <2>2, <2>3, <2>6 DEF AnswerTo
    <3>2. UNCHANGED [o \in Clients |-> AnswerTo(o)]
      BY <1>10, <3>1
    <3>3. Promise!Ends(c)
      BY <1>14, <2>4
    <3>4. Promise!ReadAgain(c)
      BY <1>11, <1>12, <2>6, <3>2, <3>3, Zenon DEF Promise!ReadAgain
    <3> QED
      BY <3>4
  <2> QED
    BY <2>5, <2>6
<1>17. CASE ~ReturnMap(c) /\ result[c].first
  <2>1. frame.at \in Deserializing
    <3>1. Reading(c)
      BY <1>1, <1>17, FirstReaderMoves, PlainIsRead DEF Returning
    <3> QED
      BY <1>1, <1>4, <3>1 DEF Reading, Continue
  <2> QED
    BY <1>2, <1>15, <1>17, <2>1
<1>18. CASE ~ReturnMap(c) /\ ~result[c].first
  <2>1. CASE frame.at \in Deserializing
    BY <1>2, <1>15, <1>18, <2>1
  <2>2. CASE frame.at \notin Deserializing
    <3>1. AnswerTo(c)' = AnswerTo(c)
      BY <1>2, <1>18 DEF AnswerTo
    <3>2. UNCHANGED [o \in Clients |-> AnswerTo(o)]
      BY <1>10, <3>1
    <3>3. Promise!Ends(c)
      BY <1>14, <2>2
    <3>4. Promise!ReadAgain(c)
      BY <1>11, <1>12, <1>18, <3>2, <3>3, Zenon DEF Promise!ReadAgain
    <3> QED
      BY <3>4
  <2> QED
    BY <2>1, <2>2
<1> QED
  BY <1>16, <1>17, <1>18

\* Every step is one that the promise allows, or cannot be seen.
LEMMA PromisedStep ==
    ASSUME NamedOnce, ShortTexts, PlainTexts, TransportInv, [Next]_vars
    PROVE  Promise!Next \/ UNCHANGED Promise!vars
<1>1. PrivateInv
  BY DEF TransportInv, DeliveryInv, MessageInv
<1>2. ASSUME NEW c \in Clients, Sends(c) PROVE Promise!Next \/ UNCHANGED Promise!vars
  BY <1>2, Zenon DEF Sends, Promise!Next, Promise!Finish
<1>3. ASSUME NEW c \in Clients, Serialize(c)
      PROVE  Promise!Next \/ UNCHANGED Promise!vars
  BY <1>1, <1>2, <1>3, SerializeSends
<1>4. ASSUME NEW c \in Clients, Deserialize(c)
      PROVE  Promise!Next \/ UNCHANGED Promise!vars
  BY <1>4, DeserializeReads, Zenon DEF Promise!Next, Promise!Finish
<1>5. ASSUME NEW c \in Clients, Call(c)
      PROVE  Promise!Next \/ UNCHANGED Promise!vars
  <2>1. ASSUME NEW a \in Arrays, StartDeserialize(c, a)
        PROVE  Promise!Next \/ UNCHANGED Promise!vars
    BY <2>1, StartingOpens, Zenon DEF Promise!Next
  <2>2. ASSUME NEW d, NEW contents, Enter(c, d, contents)
        PROVE  call'[c].at \in Serializing
    <3> DEFINE array == CHOOSE a \in Arrays : Unused(a)
               meant == Meaning(contents)
               frame == [NoCall(c) EXCEPT !.at = "sizeRoot", !.dict = d, !.array = array,
                                          !.meant = meant]
    <3>1. Continue(c, frame)
      BY <2>2 DEF Enter
    <3> HIDE DEF array, meant
    <3>2. frame.at = "sizeRoot"
      BY DEF NoCall
    <3> HIDE DEF frame
    <3>3. call'[c] = frame
      BY <1>1, <3>1, PrivateFacts DEF Continue
    <3> QED
      BY <3>2, <3>3 DEF Serializing
  <2>3. CASE call'[c].at \in Serializing
    BY <1>1, <1>2, <1>5, <2>3, CallSends
  <2>4. CASE call'[c].at \notin Serializing
    BY <1>5, <2>1, <2>2, <2>4 DEF Call, StartSerialize, StartScalar
  <2> QED
    BY <2>3, <2>4
<1>6. ASSUME UNCHANGED <<call, result, given, meaning, reads>>
      PROVE  UNCHANGED Promise!vars
  <2>1. \A o \in Clients : RequestOf(o)' = RequestOf(o) /\ AnswerTo(o)' = AnswerTo(o)
    BY <1>6 DEF RequestOf, AnswerTo
  <2>2. \A a \in Arrays : MessageIn(a)' = MessageIn(a)
    BY <1>6 DEF MessageIn
  <2> QED
    BY <1>6, <2>1, <2>2 DEF Promise!vars
<1>7. ASSUME NEW d \in Dicts, NEW k \in Keys, NEW cell \in Cells, Edit(d, k, cell)
      PROVE  UNCHANGED Promise!vars
  BY <1>6, <1>7 DEF Edit, history
<1>8. CASE AddListener \/ UNCHANGED vars
  BY <1>6, <1>8 DEF AddListener, vars, history
<1> QED
  BY <1>3, <1>4, <1>5, <1>7, <1>8 DEF Next, Step

\* What is in an array could be sent.
LEMMA TransportStep ==
    ASSUME ~MayShare, NamedOnce, ShortTexts, TransportInv, [Next]_vars
    PROVE  TransportInv'
<1>1. DeliveryInv'
  BY DeliveryStep DEF TransportInv
<1>2. PrivateInv /\ given \in [Arrays -> Seq(Byte)] /\ meaning \in [Arrays -> Meanings]
  BY DEF TransportInv, DeliveryInv, MessageInv, PrivateInv, TypeInv, TypeOK
<1>3. ASSUME UNCHANGED <<given, meaning>> PROVE TransportInv'
  BY <1>1, <1>3 DEF TransportInv
<1>4. ASSUME NEW c \in Clients, Serialize(c) PROVE TransportInv'
  <2>1. CASE UNCHANGED <<result, history>>
    BY <1>3, <2>1 DEF history
  <2>2. CASE ReturnMessage(c) /\ CanBeSent(dicts[call[c].dict])
    <3>1. call[c].meant \in Sendable
      <4> DEFINE d == dicts[call[c].dict]
      <4>1. /\ d \in [ns : Seq(STRING), cells : [Keys -> Cells]]
            /\ call[c].dict \in AllDicts /\ call[c].at \in Serializing
        BY <1>2, <1>4, PrivateFacts, SerializeMoves
      <4>2. d.ns \in NameArgs \cup {NoNames}
        BY <1>2, <4>1 DEF PrivateInv, NamesAsked
      <4>3. Meaning(d) = call[c].meant
        BY <1>2, <4>1, AgreesNow DEF Meant
      <4> QED
        BY <2>2, <4>1, <4>2, <4>3, SendableMeans
    <3>2. /\ given' = [given EXCEPT ![call[c].array] = call[c].buffer]
          /\ meaning' = [meaning EXCEPT ![call[c].array] = call[c].meant]
      BY <2>2 DEF ReturnMessage
    <3>3. \A a \in Arrays : given'[a] # <<>> => meaning'[a] \in Sendable
      BY <1>2, <3>1, <3>2 DEF TransportInv
    <3> QED
      BY <1>1, <3>3 DEF TransportInv
  <2> QED
    BY <1>2, <1>4, <2>1, <2>2, SerializeMoves
<1>5. ASSUME NEW c \in Clients, Deserialize(c) PROVE TransportInv'
  BY <1>2, <1>3, <1>5, ReaderKeeps DEF history
<1>6. ASSUME NEW c \in Clients, Call(c) PROVE TransportInv'
  BY <1>3, <1>6 DEF Call, StartSerialize, StartScalar, Enter, StartDeserialize, history
<1>7. ASSUME NEW d \in Dicts, NEW k \in Keys, NEW cell \in Cells, Edit(d, k, cell)
      PROVE  TransportInv'
  BY <1>3, <1>7 DEF Edit, history
<1>8. CASE AddListener \/ UNCHANGED vars
  BY <1>3, <1>8 DEF AddListener, vars, history
<1> QED
  BY <1>4, <1>5, <1>6, <1>7, <1>8 DEF Next, Step

LEMMA TransportInit == Init => TransportInv /\ Promise!Init
<1> SUFFICES ASSUME Init PROVE TransportInv /\ Promise!Init
  OBVIOUS
<1>1. /\ \A a \in Arrays : given[a] = <<>> /\ ~(reads[a] > 0)
      /\ \A c \in Clients : call[c].at = "idle" /\ result[c].wrapper = "none"
  BY DEF Init, NoCall, NoResult
<1>2. TransportInv
  BY <1>1, DeliveryInit DEF TransportInv
<1>3. \A c \in Clients : RequestOf(c) = Promise!NoRequest /\ AnswerTo(c) = NoMeaning
  BY <1>1 DEF RequestOf, AnswerTo, Serializing, Deserializing, Promise!NoRequest
<1>4. \A a \in Arrays : MessageIn(a) = NoMeaning
  BY <1>1 DEF MessageIn
<1>5. Promise!Init
  BY <1>1, <1>3, <1>4 DEF Promise!Init
<1> QED
  BY <1>2, <1>5

\* The safety of ImplementsTransport, of DynabuffersEngine.serialize and
\* deserialize: for every schema that names a field once in a class, texts the
\* bytes can carry, and however many clients, as long as no two calls share a
\* dict or an array, every step of every call is one that Transport allows.
\* Nothing arrives but what was sent, what can be sent is not refused, and the
\* first deserialize of a message neither fails nor returns anything else.
THEOREM EngineImplementsTransport ==
    ASSUME ~MayShare, NamedOnce, ShortTexts, PlainTexts
    PROVE  Spec => Promise!Init /\ [][Promise!Next]_(Promise!vars)
<1>1. TransportInv /\ [Next]_vars => [Promise!Next]_(Promise!vars)
  BY PromisedStep
<1> QED
  BY <1>1, TransportInit, TransportStep, PTL DEF Spec

============================================================================
